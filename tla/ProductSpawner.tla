--------------------------- MODULE ProductSpawner ---------------------------
(***************************************************************************)
(* The node that puts products and trays on the belts and takes them away  *)
(* at the end (togsim_gazebo/scripts/product_spawner).  Its timer, its     *)
(* service and the poses it gets exclude each other, so while a request to *)
(* Gazebo blocks it, poses only queue up; the belts go on.  A pose message *)
(* may be of any age: one waits while the models move and come and go.     *)
(***************************************************************************)
EXTENDS IgnClient, Sequences

CONSTANTS
  MaxAlive,    \* from kinds to products.max_alive, trays.max_alive
  Zone,        \* products keep this far from the spawn place (0.22 m)
  End,         \* beyond despawn_x, or fallen off
  Models,      \* trays.models_csv
  Length,      \* from models to tray_length
  Pitch, Gap,  \* trays.pitch, 50 mm
  MaxCount,    \* bound: the models ever spawned
  MaxAsked     \* bound: the products asked for with SpawnProducts

ASSUME SpawnerAssumption ==
  /\ MaxAlive \in [{"product", "tray"} -> Nat \ {0}]
  /\ Zone \in Nat /\ End \in Nat \ {0} /\ Zone < End
  /\ Models \in Seq(DOMAIN Length) /\ Models # <<>>
  /\ \A m \in DOMAIN Length : Length[m] \in Nat \ {0}
  /\ Pitch \in Nat /\ Gap \in Nat /\ MaxCount \in Nat /\ MaxAsked \in Nat
  /\ MaxPending \in Nat

VARIABLES
  kind,       \* which of products.enabled and trays.enabled is set
  poses,      \* self.poses
  msg,        \* the pose message that waits
  counter,    \* self.counter, self.tray_counter
  lastModel,  \* self.last_tray_model
  early,      \* now < next_product_t, now - last_tray_t < min_interval
  pc,         \* where the handler that runs is; "idle" if none does
  snapshot,   \* poses at the start of tick
  todo,       \* what tick has left to remove
  job,        \* the request of ign_create or ign_remove
  again,      \* it is at its second attempt
  asked,      \* what on_spawn_srv has left to spawn
  served,     \* bound: the products asked for so far
  gaveUp,     \* history: the names ign_create returned False for
  trouble     \* history: something was not answered in time, or asked for

books == <<poses, counter, lastModel, early>>
handler == <<pc, snapshot, todo, job, again, asked, served>>
history == <<gaveUp, trouble>>
vars == <<kind, gazebo, msg, books, handler, history>>

NoJob == Remove(0)

Init ==
  /\ kind \in {"product", "tray"}
  /\ world = Empty /\ pending = {}
  /\ poses = Empty /\ msg = Empty /\ counter = 0 /\ lastModel = "none"
  /\ early = TRUE
  /\ pc = "idle" /\ snapshot = Empty /\ todo = {} /\ job = NoJob /\ again = FALSE
  /\ asked = 0 /\ served = 0
  /\ gaveUp = {} /\ trouble = FALSE

-----------------------------------------------------------------------------
(* Trays: the models take turns.                                            *)

TrayModel(c) == Models[((c - 1) % Len(Models)) + 1]
TrayLength(m) == IF m \in DOMAIN Length THEN Length[m] ELSE 0

(* A bug to tell apart: the last model is taken for the next one too.       *)
TrayPitchOfLast ==
  LET need == TrayLength(lastModel) + TrayLength(TrayModel(counter))
      apart == (need + 1) \div 2 + (IF need > 0 THEN Gap ELSE 0)
  IN IF apart > Pitch THEN apart ELSE Pitch

(* The pitch, raised to the two half lengths and a gap.                     *)
TrayPitch ==
  LET need == TrayLength(lastModel) + TrayLength(TrayModel(counter + 1))
      apart == (need + 1) \div 2 + (IF need > 0 THEN Gap ELSE 0)
  IN IF apart > Pitch THEN apart ELSE Pitch

-----------------------------------------------------------------------------
(* The handlers.                                                            *)

OnPoses ==
  /\ pc = "idle" /\ msg # Empty
  /\ poses' = Updated(msg, poses) /\ msg' = Empty
  /\ UNCHANGED <<kind, gazebo, counter, lastModel, early, handler, history>>

Tick ==
  /\ pc = "idle" /\ pc' = "recycle"
  /\ snapshot' = poses /\ todo' = {n \in DOMAIN poses : poses[n] = End}
  /\ UNCHANGED <<kind, gazebo, msg, books, job, again, asked, served, history>>

(* Tick goes on to what has left its belt, and then to what may come.       *)
RecycleNext ==
  /\ pc = "recycle"
  /\ \/ \E n \in todo : job' = Remove(n) /\ todo' = todo \ {n} /\ pc' = "remove"
     \/ todo = {} /\ pc' = kind /\ UNCHANGED <<job, todo>>
  /\ UNCHANGED <<kind, gazebo, msg, books, snapshot, again, asked, served, history>>

Outcome(ok) == trouble' = (trouble \/ ~ok)

(* A bug to tell apart: the pose is kept.                                   *)
IgnRemoveKept(ok) ==
  /\ pc = "remove" /\ Call(job, ok) /\ Outcome(ok)
  /\ IF ok \/ again
     THEN pc' = "recycle" /\ again' = FALSE /\ job' = NoJob /\ poses' = poses
     ELSE again' = TRUE /\ UNCHANGED <<pc, job, poses>>
  /\ UNCHANGED <<kind, msg, counter, lastModel, early, snapshot, todo, asked, served, gaveUp>>

(* An attempt of ign_remove: after the second the pose is forgotten anyway. *)
IgnRemove(ok) ==
  /\ pc = "remove" /\ Call(job, ok) /\ Outcome(ok)
  /\ IF ok \/ again
     THEN pc' = "recycle" /\ again' = FALSE /\ job' = NoJob /\ poses' = Without(poses, job.name)
     ELSE again' = TRUE /\ UNCHANGED <<pc, job, poses>>
  /\ UNCHANGED <<kind, msg, counter, lastModel, early, snapshot, todo, asked, served, gaveUp>>

(* A bug to tell apart: the counter stays.                                  *)
SpawnUncounted(at) ==
  /\ counter' = counter
  /\ job' = Create(counter + 1, at) /\ pc' = "create"

Spawn(at) ==
  /\ counter' = counter + 1
  /\ job' = Create(counter + 1, at) /\ pc' = "create"

ZoneClear == \A n \in DOMAIN snapshot : snapshot[n] > Zone

(* A product is due and its zone is clear.                                  *)
TickProduct ==
  /\ pc = "product" /\ counter < MaxCount
  /\ ~early /\ ZoneClear
  /\ IF Cardinality(DOMAIN snapshot) < MaxAlive["product"] THEN Spawn(0)
     ELSE pc' = "idle" /\ UNCHANGED <<counter, job>>
  /\ early' = TRUE
  /\ UNCHANGED <<kind, gazebo, msg, poses, lastModel, snapshot, todo, again, asked, served, history>>

TrayDue ==
  /\ Cardinality(DOMAIN snapshot) < MaxAlive["tray"]
  /\ \A n \in DOMAIN snapshot : snapshot[n] >= TrayPitch
  /\ ~early

(* A tray is due: one pitch behind the last, in place and in time.          *)
TickTray ==
  /\ pc = "tray" /\ counter < MaxCount
  /\ TrayDue /\ Spawn(0)
  /\ lastModel' = TrayModel(counter + 1)
  /\ UNCHANGED <<kind, gazebo, msg, poses, early, snapshot, todo, again, asked, served, history>>

(* Nothing may come.                                                        *)
TickEnds ==
  /\ \/ pc = "product" /\ ~(~early /\ ZoneClear)
     \/ pc = "tray" /\ ~TrayDue
     \/ pc \in {"product", "tray"} /\ counter = MaxCount
  /\ pc' = "idle"
  /\ UNCHANGED <<kind, gazebo, msg, books, snapshot, todo, job, again, asked, served, history>>

(* on_spawn_srv; what is spawned in a crate falls on the floor.             *)
OnSpawnSrv ==
  /\ pc = "idle" /\ kind = "product"
  /\ \E c \in 1 .. MaxAsked - served : asked' = c /\ served' = served + c
  /\ pc' = "serve" /\ trouble' = TRUE
  /\ UNCHANGED <<kind, gazebo, msg, books, snapshot, todo, job, again, gaveUp>>

ServeNext ==
  /\ pc = "serve"
  /\ \/ /\ asked > 0 /\ counter < MaxCount
        /\ \E at \in {0, End} : Spawn(at)
        /\ asked' = asked - 1
     \/ /\ asked = 0 \/ counter = MaxCount
        /\ asked' = 0 /\ pc' = "idle" /\ UNCHANGED <<counter, job>>
  /\ UNCHANGED <<kind, gazebo, msg, poses, lastModel, early, snapshot, todo, again, served, history>>

(* Where a handler goes on after ign_create.                                *)
AfterCreate == pc' = IF asked > 0 THEN "serve" ELSE "idle"

(* A bug to tell apart: a model counts from its first pose on.              *)
IgnCreatedUncounted(ok) ==
  /\ pc = "create" /\ Call(job, ok) /\ Outcome(ok)
  /\ ok \/ job.name \in DOMAIN poses
  /\ poses' = poses
  /\ early' = (early \/ kind = "tray")
  /\ AfterCreate /\ job' = NoJob /\ again' = FALSE
  /\ UNCHANGED <<kind, msg, counter, lastModel, snapshot, todo, asked, served, gaveUp>>

(* An attempt of ign_create succeeds: the model counts from now on.         *)
IgnCreated(ok) ==
  /\ pc = "create" /\ Call(job, ok) /\ Outcome(ok)
  /\ ok \/ job.name \in DOMAIN poses
  /\ poses' = Updated(poses, Only(job.name, job.at))
  /\ early' = (early \/ kind = "tray")
  /\ AfterCreate /\ job' = NoJob /\ again' = FALSE
  /\ UNCHANGED <<kind, msg, counter, lastModel, snapshot, todo, asked, served, gaveUp>>

(* It fails, for the first time or for good.                                *)
IgnCreateFails(ok) ==
  /\ pc = "create" /\ Call(job, ok) /\ Outcome(ok)
  /\ ~ok /\ job.name \notin DOMAIN poses
  /\ IF again
     THEN AfterCreate /\ again' = FALSE /\ job' = NoJob /\ gaveUp' = gaveUp \cup {job.name}
     ELSE again' = TRUE /\ UNCHANGED <<pc, job, gaveUp>>
  /\ UNCHANGED <<kind, msg, books, snapshot, todo, asked, served>>

Request == \E ok \in BOOLEAN : IgnRemove(ok) \/ IgnCreated(ok) \/ IgnCreateFails(ok)

Going == RecycleNext \/ TickProduct \/ TickTray \/ TickEnds \/ ServeNext

-----------------------------------------------------------------------------
(* Gazebo.                                                                  *)

(* The belt takes everything a step further.                                *)
Move ==
  /\ world' = [n \in DOMAIN world |-> IF world[n] < End THEN world[n] + 1 ELSE End]
  /\ UNCHANGED <<kind, pending, msg, books, handler, history>>

(* The poses of all models are sent; those that wait are first.             *)
SendPoses ==
  /\ msg = Empty /\ world # Empty /\ msg' = world
  /\ UNCHANGED <<kind, gazebo, books, handler, history>>

SettleLate ==
  /\ \E r \in pending : Settle(r)
  /\ UNCHANGED <<kind, msg, books, handler, history>>

(* A product, or a tray, is due again.                                      *)
Due ==
  /\ early /\ early' = FALSE
  /\ UNCHANGED <<kind, gazebo, msg, poses, counter, lastModel, handler, history>>

Next ==
  \/ OnPoses \/ Tick \/ Going \/ OnSpawnSrv \/ Request
  \/ Move \/ SendPoses \/ SettleLate \/ Due

-----------------------------------------------------------------------------
(* The node and Gazebo go on, and a request that is made again and again is *)
(* answered at last.                                                        *)
Spec ==
  /\ Init /\ [][Next]_vars
  /\ SF_vars(OnPoses) /\ SF_vars(Tick) /\ WF_vars(Going) /\ WF_vars(Request)
  /\ WF_vars(Move) /\ WF_vars(SendPoses) /\ WF_vars(SettleLate) /\ WF_vars(Due)
  /\ SF_vars(IgnRemove(TRUE)) /\ SF_vars(IgnCreated(TRUE))

-----------------------------------------------------------------------------
(* Properties.                                                              *)

Names == 1 .. MaxCount
Placed == UNION {[S -> 0 .. End] : S \in SUBSET Names}

(* The type of every variable; every model was counted.                     *)
TypeOK ==
  /\ kind \in {"product", "tray"}
  /\ world \in Placed /\ poses \in Placed /\ msg \in Placed /\ snapshot \in Placed
  /\ \A r \in pending : r.do \in {"create", "remove"} /\ r.name \in Names /\ r.at \in {0, End}
  /\ DOMAIN world \subseteq 1 .. counter
  /\ counter \in 0 .. MaxCount /\ lastModel \in DOMAIN Length \cup {"none"}
  /\ early \in BOOLEAN /\ again \in BOOLEAN /\ trouble \in BOOLEAN
  /\ pc \in {"idle", "recycle", "remove", "create", "serve", "product", "tray"}
  /\ todo \subseteq Names /\ gaveUp \subseteq Names
  /\ asked \in 0 .. MaxAsked /\ served \in 0 .. MaxAsked

(* Two trays on the belt lie at least their half lengths and the gap apart. *)
Apart(n, m) ==
  2 * (world[n] - world[m])
    >= TrayLength(TrayModel(n)) + TrayLength(TrayModel(m)) + 2 * Gap

TraysKeepGap ==
  kind = "tray" => \A n, m \in DOMAIN world : n < m /\ world[n] < End => Apart(n, m)

(* As long as every tray that was to be spawned was: trays do not lie on    *)
(* each other, although poses are old and the belt goes on.                 *)
TraysApart == gaveUp = {} => TraysKeepGap

(* No more products than max_alive, unless a request was not answered or    *)
(* products were asked for.                                                 *)
NoCrowd == trouble \/ Cardinality(DOMAIN world) <= MaxAlive[kind]

(* What has left its belt is removed at last, although removals fail and    *)
(* its pose is forgotten; and neither what is lost nor what is remembered   *)
(* stops the supply.                                                        *)
GoesRound ==
  /\ \A n \in Names : (n \in DOMAIN world /\ world[n] = End) ~> n \notin DOMAIN world
  /\ <>(counter = MaxCount)

=============================================================================
