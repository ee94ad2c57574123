----------------------------- MODULE MotionSlot -----------------------------
(***************************************************************************)
(* What a client of the motion server plans with: there is one slot, a     *)
(* goal that is accepted takes it from whatever held it, and the feedback  *)
(* of the goal in the slot climbs half segment by half segment from zero.  *)
(* A coarser contract than MotionGoals, which also keeps the handle of     *)
(* every goal ever sent; MotionServer implements both.                     *)
(***************************************************************************)
EXTENDS Integers, Sequences

CONSTANTS Goals, Plan, NoGoal

VARIABLES
  running,  \* the goal in the slot, or NoGoal
  half      \* the progress published for it, in half segments

vars == <<running, half>>

Init == running = NoGoal /\ half = 0

Take(g) == Plan[g] # <<>> /\ running' = g /\ half' = 0

(* Contact is reported of a segment that dwells, and only of such a one.    *)
Contacts(g) == {2 * i - 1 : i \in {j \in 1 .. Len(Plan[g]) : Plan[g][j].dwell > 0}}
Ends(g) == {2 * i : i \in 1 .. Len(Plan[g])}

Report ==
  /\ running # NoGoal
  /\ half' \in Contacts(running) \cup Ends(running)
  /\ half < half'
  /\ \A h \in Contacts(running) \cup Ends(running) : ~(half < h /\ h < half')
  /\ UNCHANGED running

(* Success, failure, stop or cancel.                                        *)
Over == running # NoGoal /\ running' = NoGoal /\ half' = 0

Next == (\E g \in Goals : Take(g)) \/ Report \/ Over

Spec == Init /\ [][Next]_vars
=============================================================================
