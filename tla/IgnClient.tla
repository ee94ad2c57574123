----------------------------- MODULE IgnClient -----------------------------
(***************************************************************************)
(* The requests a node makes of Gazebo (togsim_gazebo/ign_client.py), and  *)
(* the models there are.  A call blocks until it is answered or has timed  *)
(* out; a request that was not answered in time may still be executed, at  *)
(* once, later or never.  A model is known by its name and by how far      *)
(* along its belt it is.                                                   *)
(***************************************************************************)
EXTENDS Integers, FiniteSets

CONSTANTS
  MaxPending   \* bound: the requests not answered in time and not over

VARIABLES
  world,   \* the models there are: from names to places
  pending  \* the requests that were not answered in time

gazebo == <<world, pending>>

Empty == [n \in {} |-> 0]
Without(f, n) == [m \in DOMAIN f \ {n} |-> f[m]]
Only(n, x) == [m \in {n} |-> x]

(* g brought up to date by f, and with an entry more.                       *)
Updated(f, g) == [m \in DOMAIN f \cup DOMAIN g |-> IF m \in DOMAIN f THEN f[m] ELSE g[m]]
With(f, n, x) == Updated(Only(n, x), f)

Create(n, x) == [do |-> "create", name |-> n, at |-> x]
Remove(n) == [do |-> "remove", name |-> n, at |-> 0]

(* allow_renaming is false: a name is taken once.                           *)
Possible(r) == (r.do = "create") = (r.name \notin DOMAIN world)

Executed(r) ==
  CASE r.do = "create" /\ Possible(r) -> With(world, r.name, r.at)
    [] r.do = "remove" /\ Possible(r) -> Without(world, r.name)
    [] OTHER -> world

(* call: what it returns is ok.  Gazebo does things in the order in which  *)
(* it is asked, so an answer means that nothing asked before is open.      *)
Answered(r, ok) ==
  /\ pending = {} /\ ok = Possible(r)
  /\ world' = Executed(r) /\ UNCHANGED pending

TimedOut(r, ok) ==
  /\ ok = FALSE
  /\ pending' = pending \cup {r} /\ Cardinality(pending') <= MaxPending
  /\ UNCHANGED world

Call(r, ok) == Answered(r, ok) \/ TimedOut(r, ok)

(* What becomes of a request that was not answered in time.                 *)
Settle(r) ==
  /\ world' \in {world, Executed(r)}
  /\ pending' = pending \ {r}

=============================================================================
