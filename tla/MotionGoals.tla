---------------------------- MODULE MotionGoals ----------------------------
(***************************************************************************)
(* What /togsim/execute_motion promises to its clients, and all that they  *)
(* may rely on: the life of a goal (ExecuteMotion.action) and the feedback *)
(* published for it.  The server runs one goal at a time; a newer goal     *)
(* takes its place.  Progress is counted in half segments, as the feedback *)
(* field "progress" is: 2i + 1 means "segment i is reached and dwelling"   *)
(* (the moment clients fire or release the vacuum), 2i + 2 "segment i is   *)
(* over".  MotionServer implements this module.                            *)
(***************************************************************************)
EXTENDS Integers, Sequences

CONSTANTS
  Goals,      \* goal identifiers; a client sends each at most once
  Plan        \* Plan[g]: the segments of goal g

VARIABLES
  status,     \* status[g]: the state of g's goal handle
  result,     \* result[g]: the error_code of g's result, "none" before it
  progress    \* progress[g]: the last progress published for g, in halves

vars == <<status, result, progress>>

Active == {"executing", "canceling"}
Terminal == {"rejected", "succeeded", "canceled", "aborted"}
Failures == {"IK_UNREACHABLE", "LIMITS", "PREEMPTED", "TRACKING_LOST",
             "CONTROLLER_ERROR"}

Init ==
  /\ status = [g \in Goals |-> "unknown"]
  /\ result = [g \in Goals |-> "none"]
  /\ progress = [g \in Goals |-> 0]

Reject(g) ==
  /\ status[g] = "unknown"
  /\ status' = [status EXCEPT ![g] = "rejected"]
  /\ UNCHANGED <<result, progress>>

(***************************************************************************)
(* A goal with at least one segment is accepted; the goals that were       *)
(* active, at most one, are aborted as preempted.                          *)
(***************************************************************************)
Accept(g) ==
  /\ status[g] = "unknown" /\ Plan[g] # <<>>
  /\ status' = [h \in Goals |-> IF h = g THEN "executing"
                                ELSE IF status[h] \in Active THEN "aborted"
                                ELSE status[h]]
  /\ result' = [h \in Goals |-> IF status[h] \in Active THEN "PREEMPTED"
                                ELSE result[h]]
  /\ UNCHANGED progress

AskCancel(g) ==
  /\ status[g] = "executing"
  /\ status' = [status EXCEPT ![g] = "canceling"]
  /\ UNCHANGED <<result, progress>>

(***************************************************************************)
(* Feedback comes in order and skips nothing: a segment that dwells        *)
(* reports its contact before its end, and one that does not reports its   *)
(* end only.                                                               *)
(***************************************************************************)
Dwells(g, i) == Plan[g][i + 1].dwell > 0

Report(g) ==
  /\ status[g] \in Active
  /\ \E i \in 0 .. Len(Plan[g]) - 1 :
       \/ progress[g] = 2 * i /\ Dwells(g, i)
          /\ progress' = [progress EXCEPT ![g] = 2 * i + 1]
       \/ progress[g] = 2 * i /\ ~Dwells(g, i)
          /\ progress' = [progress EXCEPT ![g] = 2 * i + 2]
       \/ progress[g] = 2 * i + 1
          /\ progress' = [progress EXCEPT ![g] = 2 * i + 2]
  /\ UNCHANGED <<status, result>>

End(g, outcome, code) ==
  /\ status[g] \in Active
  /\ status' = [status EXCEPT ![g] = outcome]
  /\ result' = [result EXCEPT ![g] = code]
  /\ UNCHANGED progress

(* Success means that every segment was run to its end. *)
Succeed(g) == progress[g] = 2 * Len(Plan[g]) /\ End(g, "succeeded", "SUCCESS")

(* "canceled" is the answer to a cancel request, never to anything else. *)
Canceled(g) == status[g] = "canceling" /\ End(g, "canceled", "PREEMPTED")

Abort(g) == \E code \in Failures : End(g, "aborted", code)

Next ==
  \E g \in Goals : \/ Reject(g) \/ Accept(g) \/ AskCancel(g) \/ Report(g)
                   \/ Succeed(g) \/ Canceled(g) \/ Abort(g)

Spec == Init /\ [][Next]_vars
=============================================================================
