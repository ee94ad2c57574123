----------------------------- MODULE CycleTask -----------------------------
(***************************************************************************)
(* One continuous run of run_cycle: schedule -> pick -> choose pocket ->   *)
(* place, against the motion server (as MotionSlot promises it) and the    *)
(* vacuum cup (as Suction promises it).  The main thread sends goals and   *)
(* waits; action feedback and vacuum states come in on the threads of a    *)
(* reentrant callback group, in any order with each other and with the     *)
(* results; the vacuum commands travel to the plugin over a topic.         *)
(*                                                                         *)
(* Poses, pockets, products and times are abstracted: any attempt may find *)
(* a product, every timeout of the main thread may strike at any moment of *)
(* its wait, and the cup may grab a product whenever it is on.  Cancel     *)
(* requests are not followed on their way: the server may end any goal at  *)
(* any moment anyway, since others can stop the arm.                       *)
(***************************************************************************)
EXTENDS Integers, Sequences

CONSTANTS
  MaxAttempts,   \* bound: the attempts of a run
  Cycles,        \* parameter "cycles"
  NoGoal

Attempts == 1 .. MaxAttempts

(* The goals by the attempt they belong to; "liftpick" is a pick that       *)
(* begins with joint_lift.  Bound: go_park runs once per attempt.           *)
Picks == [k : Attempts, what : {"pick", "liftpick"}]
Places == [k : Attempts, what : {"place"}]
Moves == [k : Attempts, what : {"retreat"}]
           \cup [k : 0 .. MaxAttempts, what : {"park"}]
Goals == Picks \cup Places \cup Moves

ASSUME BoundsAssumption == MaxAttempts \in Nat /\ Cycles \in Nat
ASSUME NoGoalAssumption == NoGoal \notin Goals

(* A pick flies, tracks the hover and dwells at contact, after the lift if  *)
(* there is one; a place does the same over a pocket; the rest is one move. *)
Leg(n) == [dwell |-> n]
Plan == [g \in Goals |->
           CASE g.what \in {"pick", "place"} -> <<Leg(0), Leg(0), Leg(1)>>
             [] g.what = "liftpick" -> <<Leg(0), Leg(0), Leg(0), Leg(1)>>
             [] OTHER -> <<Leg(0)>>]

(* The progress the callbacks act on, and that of a goal run to its end.    *)
Hover(g) == 2 * (Len(Plan[g]) - 1)
Contact(g) == 2 * Len(Plan[g]) - 1
Full(g) == 2 * Len(Plan[g])

VARIABLES
  pc,         \* where the main thread is
  k,          \* attempts
  cur,        \* the goal sent last
  ok,         \* the result of place
  done,       \* cycles counted
  parked,     \* parked
  inPocket,   \* in_pocket
  vacOn,      \* the present pick's ev["vac_on"] is set
  rel,        \* the present place's rel["t"] is set
  vacSealed,  \* vac_sealed
  vacFresh,   \* vac_t > ev["vac_on"]
  requests,   \* goals sent and not answered yet, in order
  feedback,   \* goals whose decisive feedback is on its way
  cmds,       \* vacuum commands on their way to the plugin
  states,     \* vacuum states on their way to the task, see PublishState
  on, held,   \* the cup, see Suction
  running,    \* the goal in the server's slot, see MotionSlot
  half,       \* its progress
  outcome,    \* cur's result: SUCCESS, PREEMPTED, other, or none yet
  down,       \* history: the arm is where a place made contact
  heldSince,  \* history: a product was held at, or since, the present vac_on
  stale       \* history: the last state since the present vac_on is an old one

main == <<pc, k, cur, ok, done, parked, inPocket>>
flags == <<vacOn, rel, vacSealed, vacFresh>>
wires == <<requests, feedback, cmds, states>>
cup == <<on, held>>
server == <<running, half, outcome>>
history == <<down, heldSince, stale>>
vars == <<main, flags, wires, cup, server, history>>

Motion == INSTANCE MotionSlot
Cup == INSTANCE Suction WITH Products <- {"product"}, Heavy <- {},
                             NoProduct <- "none", present <- {"product"}
Holding == held # "none"

Init ==
  /\ pc = "start" /\ k = 0 /\ cur = NoGoal /\ ok = FALSE /\ done = 0
  /\ parked = FALSE /\ inPocket = FALSE
  /\ vacOn = FALSE /\ rel = FALSE /\ vacSealed = FALSE /\ vacFresh = FALSE
  /\ requests = <<>> /\ feedback = {} /\ cmds = <<>> /\ states = {}
  /\ Motion!Init /\ outcome = "none" /\ Cup!Init
  /\ down = FALSE /\ heldSince = FALSE /\ stale = FALSE

-----------------------------------------------------------------------------
(* What the main thread does to the outside, and sees of it.                *)

Send(g) ==
  requests' = Append(requests, g) /\ cur' = g /\ outcome' = "none"

VacuumCmd(b) == cmds' = Append(cmds, b)

Answered == \A i \in 1 .. Len(requests) : requests[i] # cur
Accepted == Answered /\ (running = cur \/ outcome # "none")

(* A goal sent is accepted; or it is refused, or no answer comes within 5 s *)
(* and it is given up on, though the server may still run it.               *)
AskEnds(next, otherwise) == pc' = otherwise \/ (Accepted /\ pc' = next)

-----------------------------------------------------------------------------
(* The main thread: run_continuous, go_park, pick, choose_pocket, place.    *)

ParkGoal == [k |-> k, what |-> "park"]

(* At the start of the run, and whenever nothing is pickable or no pocket   *)
(* is free for a while: out of the cameras' view.                           *)
GoPark ==
  /\ \/ pc = "start"
     \/ pc = "schedule" /\ ~parked /\ done < Cycles
  /\ cur # ParkGoal
  /\ Send(ParkGoal) /\ pc' = "moveAsk"
  /\ UNCHANGED <<k, ok, done, parked, inPocket, flags, feedback, cmds, states,
                 cup, running, half, history>>

(* A retreat or park was accepted, refused or not answered.                 *)
MoveAnswered ==
  /\ pc = "moveAsk"
  /\ AskEnds("moveWait", "schedule")
  /\ parked' = (cur = [k |-> 0, what |-> "park"])
  /\ UNCHANGED <<k, cur, ok, done, inPocket, flags, wires, cup, server,
                 history>>

(* run_motion returns: its result is in, or 30 s have passed.  The results  *)
(* of the first park and of a retreat are not looked at.                    *)
MoveEnds ==
  /\ pc = "moveWait" /\ pc' = "schedule"
  /\ \/ parked' = (parked \/ (cur = ParkGoal /\ outcome = "SUCCESS"))
        /\ outcome # "none"
     \/ UNCHANGED parked
  /\ UNCHANGED <<k, cur, ok, done, inPocket, flags, wires, cup, server,
                 history>>

PickGoal(i) == [k |-> i, what |-> IF inPocket THEN "liftpick" ELSE "pick"]

(* A bug to tell apart: the run goes on after the cycles it was asked for.  *)
PickSendPastTheEnd ==
  /\ pc = "schedule" /\ k < MaxAttempts
  /\ k' = k + 1 /\ Send(PickGoal(k + 1)) /\ pc' = "pickAsk"
  /\ parked' = FALSE /\ inPocket' = FALSE
  /\ vacOn' = FALSE /\ vacFresh' = FALSE
  /\ heldSince' = FALSE /\ stale' = FALSE
  /\ UNCHANGED <<ok, done, rel, vacSealed, feedback, cmds, states, cup,
                 running, half, down>>

PickSend ==
  /\ pc = "schedule" /\ done < Cycles /\ k < MaxAttempts
  /\ k' = k + 1 /\ Send(PickGoal(k + 1)) /\ pc' = "pickAsk"
  /\ parked' = FALSE /\ inPocket' = FALSE
  /\ vacOn' = FALSE /\ vacFresh' = FALSE
  /\ heldSince' = FALSE /\ stale' = FALSE
  /\ UNCHANGED <<ok, done, rel, vacSealed, feedback, cmds, states, cup,
                 running, half, down>>

PickAnswered ==
  /\ pc = "pickAsk"
  /\ AskEnds("pickWait", "schedule")
  /\ UNCHANGED <<k, cur, ok, done, parked, inPocket, flags, wires, cup, server,
                 history>>

(* A bug to tell apart: a state from before the vacuum came on will do.     *)
PickSealedAnyState ==
  /\ pc = "pickWait" /\ vacOn /\ vacSealed
  /\ pc' = "choose"
  /\ UNCHANGED <<k, cur, ok, done, parked, inPocket, flags, wires, cup, server,
                 history>>

PickSealed ==
  /\ pc = "pickWait" /\ vacOn /\ vacSealed /\ vacFresh
  /\ pc' = "choose"
  /\ UNCHANGED <<k, cur, ok, done, parked, inPocket, flags, wires, cup, server,
                 history>>

(* The goal is over, or the deadline has passed, without a seal seen.       *)
PickFails ==
  /\ pc = "pickWait" /\ pc' = "retreat"
  /\ VacuumCmd(FALSE)
  /\ UNCHANGED <<k, cur, ok, done, parked, inPocket, flags, requests,
                 feedback, states, cup, server, history>>

Retreat ==
  /\ pc = "retreat"
  /\ Send([k |-> k, what |-> "retreat"]) /\ pc' = "moveAsk"
  /\ UNCHANGED <<k, ok, done, parked, inPocket, flags, feedback, cmds, states,
                 cup, running, half, history>>

(* A pocket was chosen, after up to 6 s with the product in hand.           *)
PlaceSend ==
  /\ pc = "choose"
  /\ Send([k |-> k, what |-> "place"]) /\ pc' = "placeAsk"
  /\ rel' = FALSE /\ ok' = FALSE
  /\ UNCHANGED <<k, done, parked, inPocket, vacOn, vacSealed, vacFresh,
                 feedback, cmds, states, cup, running, half, history>>

PlaceAnswered ==
  /\ pc = "placeAsk"
  /\ AskEnds("placeWait", "letGo")
  /\ UNCHANGED <<k, cur, ok, done, parked, inPocket, flags, wires, cup, server,
                 history>>

(* A bug to tell apart: the wait for the result has no limit.               *)
PlaceWaitsForEver ==
  /\ pc = "placeWait" /\ pc' = "letGo"
  /\ outcome # "none" /\ ok' = (outcome \in {"SUCCESS", "PREEMPTED"})
  /\ UNCHANGED <<k, cur, done, parked, inPocket, flags, wires, cup, server,
                 history>>

(* wait_result: a goal that was preempted counts as done; 30 s is the limit.*)
PlaceEnds ==
  /\ pc = "placeWait" /\ pc' = "letGo"
  /\ \/ outcome # "none" /\ ok' = (outcome \in {"SUCCESS", "PREEMPTED"})
     \/ UNCHANGED ok
  /\ UNCHANGED <<k, cur, done, parked, inPocket, flags, wires, cup, server,
                 history>>

(* A bug to tell apart: a failed place goes on with the vacuum on.          *)
LetGoOnContactOnly ==
  /\ pc = "letGo" /\ pc' = "placed"
  /\ UNCHANGED <<k, cur, ok, done, parked, inPocket, flags, wires, cup, server,
                 history>>

(* The contact feedback never came: make sure the cup lets go.              *)
LetGo ==
  /\ pc = "letGo" /\ pc' = "placed"
  /\ IF rel THEN UNCHANGED cmds ELSE VacuumCmd(FALSE)
  /\ UNCHANGED <<k, cur, ok, done, parked, inPocket, flags, requests,
                 feedback, states, cup, server, history>>

(* The product has let go, or half a second has passed.                     *)
Placed ==
  /\ pc = "placed" /\ pc' = "schedule"
  /\ inPocket' = rel
  /\ done' = IF ok THEN done + 1 ELSE done
  /\ UNCHANGED <<k, cur, ok, parked, flags, wires, cup, server, history>>

Main ==
  \/ GoPark \/ MoveAnswered \/ MoveEnds
  \/ PickSend \/ PickAnswered \/ PickSealed \/ PickFails \/ Retreat
  \/ PlaceSend \/ PlaceAnswered \/ PlaceEnds \/ LetGo \/ Placed

-----------------------------------------------------------------------------
(* The callbacks.                                                           *)

(* on_fb_pick: the hover is reached, the cup descends onto the product.     *)
OnFbPick(g) ==
  /\ g \in feedback \cap Picks /\ feedback' = feedback \ {g}
  /\ VacuumCmd(TRUE)
  /\ IF g.k = k
     THEN vacOn' = TRUE /\ vacFresh' = FALSE /\ heldSince' = Holding
     ELSE UNCHANGED <<vacOn, vacFresh, heldSince>>
  /\ UNCHANGED <<main, rel, vacSealed, requests, states, cup, server, down,
                 stale>>

(* on_fb_place: the pocket is reached, the product is released.             *)
OnFbPlace(g) ==
  /\ g \in feedback \cap Places /\ feedback' = feedback \ {g}
  /\ VacuumCmd(FALSE) /\ rel' = (rel \/ g.k = k)
  /\ UNCHANGED <<main, vacOn, vacSealed, vacFresh, requests, states, cup,
                 server, history>>

States == [sealed : BOOLEAN, old : BOOLEAN]

OnVacuumState(s) ==
  /\ s \in states /\ states' = states \ {s}
  /\ vacSealed' = s.sealed /\ vacFresh' = vacOn /\ stale' = (vacOn /\ s.old)
  /\ UNCHANGED <<main, vacOn, rel, requests, feedback, cmds, cup, server, down,
                 heldSince>>

-----------------------------------------------------------------------------
(* The motion server and the cup.                                           *)

(* Goals are answered in the order of the requests.                         *)
AnswerGoal ==
  /\ requests # <<>> /\ requests' = Tail(requests)
  /\ \/ Motion!Take(Head(requests)) /\ down' = FALSE
     \/ UNCHANGED <<running, half, down>>
  /\ UNCHANGED <<main, flags, feedback, cmds, states, cup, outcome, heldSince,
                 stale>>

(* The first motion of a goal takes a good part of a second, longer than a  *)
(* command or a release: when it is over, what was commanded before it      *)
(* began has been done, and its feedback been seen.  Vacuum states, which   *)
(* wait for the busy main thread, may be late by any time.                  *)
Prompt == feedback = {} /\ cmds = <<>> /\ (Holding => on)

(* The states under way when the present pick's first motion is over are    *)
(* the old ones; they can mislead only if they say sealed.                  *)
Aged ==
  IF half = 0 /\ running \in Picks /\ running.k = k
  THEN {[s EXCEPT !.old = s.sealed] : s \in states} ELSE states

(* A bug to tell apart: the release is taken for the hover of a place.      *)
DecisiveAtHover == running \in Picks \cup Places /\ half' = Hover(running)

Decisive == \/ running \in Picks /\ half' = Hover(running)
            \/ running \in Places /\ half' = Contact(running)

Report ==
  /\ Motion!Report
  /\ half = 0 => Prompt
  /\ feedback' = IF Decisive THEN feedback \cup {running} ELSE feedback
  /\ down' = (running \in Places /\ half' >= Contact(running))
  /\ states' = Aged
  /\ UNCHANGED <<main, flags, requests, cmds, cup, outcome, heldSince, stale>>

(* The task looks at the end of the present goal alone, and tells two error *)
(* codes apart.                                                             *)
GoalEnds ==
  /\ Motion!Over
  /\ IF running = cur
     THEN \/ outcome' = "SUCCESS" /\ half = Full(running)
          \/ outcome' \in {"PREEMPTED", "other"}
     ELSE UNCHANGED outcome
  /\ UNCHANGED <<main, flags, wires, cup, history>>

OnCmd ==
  /\ cmds # <<>> /\ cmds' = Tail(cmds)
  /\ Cup!Command /\ on' = Head(cmds)
  /\ UNCHANGED <<main, flags, requests, feedback, states, server, history>>

CupGrabs ==
  /\ Cup!Grab /\ heldSince' = vacOn
  /\ UNCHANGED <<main, flags, wires, server, down, stale>>

CupLetsGo ==
  /\ Cup!LetGo
  /\ UNCHANGED <<main, flags, wires, server, history>>

(* Every 10 ms, whatever the task makes of the one before.  The message is  *)
(* the value alone; "old" is history.                                       *)
PublishState ==
  /\ states' = states \cup {[sealed |-> Holding, old |-> FALSE]}
  /\ UNCHANGED <<main, flags, requests, feedback, cmds, cup, server, history>>

Next ==
  \/ Main
  \/ \E g \in Goals : OnFbPick(g) \/ OnFbPlace(g)
  \/ \E s \in States : OnVacuumState(s)
  \/ AnswerGoal \/ Report \/ GoalEnds
  \/ OnCmd \/ CupGrabs \/ CupLetsGo \/ PublishState

Spec == Init /\ [][Next]_vars

(* The main thread and its timeouts run on, commands arrive and the cup     *)
(* lets go; nothing is asked of the motion server.                          *)
FairSpec == Spec /\ WF_vars(Main) /\ WF_vars(OnCmd) /\ WF_vars(CupLetsGo)

-----------------------------------------------------------------------------
(* Properties.                                                              *)

TypeOK ==
  /\ pc \in {"start", "schedule", "moveAsk", "moveWait", "pickAsk", "pickWait",
             "retreat", "choose", "placeAsk", "placeWait", "letGo", "placed"}
  /\ k \in 0 .. MaxAttempts /\ done \in 0 .. k /\ done <= Cycles
  /\ {ok, parked, inPocket, vacOn, rel, vacSealed, vacFresh} \subseteq BOOLEAN
  /\ {on, down, heldSince, stale} \subseteq BOOLEAN /\ held \in {"none", "product"}
  /\ {cur, running} \subseteq Goals \cup {NoGoal}
  /\ requests \in Seq(Goals) /\ feedback \subseteq Picks \cup Places
  /\ cmds \in Seq(BOOLEAN) /\ states \subseteq States
  /\ half \in Nat /\ (half > 0 => running # NoGoal /\ half <= Full(running))
  /\ outcome \in {"none", "SUCCESS", "PREEMPTED", "other"}

(* The transfer to a pocket begins only with a product that was held at the *)
(* present pick's vac_on or since: neither what is left of earlier attempts *)
(* nor states in any order make the task carry nothing.  One thing can,     *)
(* since vac_t is the time of reception: a state that has been under way    *)
(* for longer than it took from the end of the pick's first motion to the   *)
(* hover.                                                                   *)
NoBlindCarry ==
  [][pc # "choose" /\ pc' = "choose" => heldSince \/ stale]_vars

(* Between the seal and the end of the place, the product is let go only    *)
(* once the cup is in contact in the pocket this place is for: no off of an *)
(* earlier attempt, however late, drops it on the way.                      *)
ReleaseAtContact ==
  [][Holding /\ ~Holding' /\ pc \in {"choose", "placeAsk", "placeWait"}
       => down /\ cur \in Places]_vars

(* However a place ends, the product it carried is let go afterwards.       *)
PutDown == pc = "placed" ~> ~Holding

(* Nothing the motion server does or fails to do stops the main thread.     *)
GoesOn == pc # "schedule" ~> pc = "schedule"

(***************************************************************************)
(* What comments of run_cycle say, and the code does not keep to.          *)
(***************************************************************************)

(* "the cup is down in the pocket: the next goal must lift first": whatever *)
(* goal moves the arm out of the pocket while in_pocket stands begins with  *)
(* the lift.                                                                *)
LiftsFirst ==
  [][inPocket /\ down /\ running' \notin {running, NoGoal}
       => running'.what = "liftpick"]_vars

(* "give the product up instead of riding it down the belt": when the arm   *)
(* has retreated from a failed pick, the vacuum is off.                     *)
GivenUp ==
  running # NoGoal /\ running = cur /\ cur.what = "retreat" /\ half = Full(cur)
    => ~on
=============================================================================
