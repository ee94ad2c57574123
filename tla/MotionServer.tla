---------------------------- MODULE MotionServer ----------------------------
(***************************************************************************)
(* The motion server of togsim_motion (motion_server.cpp): an action       *)
(* server that runs one ExecuteMotion goal at a time, segment by segment,  *)
(* from a control loop that retargets an online trajectory generator.      *)
(* All callbacks and the control timer share one mutually exclusive group  *)
(* and one mutex, so each is one action; what interleaves is their order.  *)
(*                                                                         *)
(* Positions, velocities and kinematics are abstracted to the choices they *)
(* feed into the control flow: what the generator answers, whether a frame *)
(* is seen and reachable, how far the measured arm is from it, whether the *)
(* vertical axis looks stuck.  Time is counted in control ticks.           *)
(***************************************************************************)
EXTENDS Integers, Sequences

CONSTANTS
  Goals,      \* goal identifiers (UUIDs), each sent at most once
  Frames,     \* TF frames of tracked products and trays
  Plan,       \* Plan[g]: the segments of goal g
  NoGoal,     \* goal_ == nullptr
  Grace,      \* ticks of a segment in which a stuck axis is no jam (0.25 s)
  JamLimit    \* consecutive stuck ticks that are tolerated (0.2 s)

(* MotionSegment.msg: PTP_JOINT; PTP_CART and VIA_CART, which differ in the *)
(* target velocity only; TRACK_CART.  sized: joint_target has 5 values.     *)
Segment == [kind : {"joint", "cart", "track"}, frame : Frames,
            dwell : Nat, sized : BOOLEAN]

ASSUME PlanAssumption == Plan \in [Goals -> Seq(Segment)]
ASSUME NoGoalAssumption == NoGoal \notin Goals
ASSUME JamAssumption == Grace \in Nat /\ JamLimit \in Nat

VARIABLES
  synced,         \* synced_: the first joint states have arrived
  goal,           \* goal_: the goal being executed, or NoGoal
  segIdx,         \* segIdx_
  segStarted,     \* segStarted_
  segAge,         \* now() - segStartTime_, saturating at AgeCap
  dwellUntil,     \* dwellUntil_: Unset, or the ticks left until that time
  trackErr,       \* trackErr_ and trackYawErr_: the measured arm's distance
  jamTicks,       \* jamTicks_
  stopRequested,  \* stopRequested_
  manualMove,     \* manualMove_: a homing move is under way
  lastBusy,       \* lastBusy_: what /togsim/motion/busy last said
  target,         \* what input_.target_position aims at
  tf,             \* tf[f]: what looking frame f up and solving IK gives now
  status,         \* goal handles: their state, result code and feedback,
  result,         \* as the clients see them
  progress

handles == <<status, result, progress>>
segment == <<segIdx, segStarted, segAge, dwellUntil, trackErr, jamTicks>>
vars == <<synced, goal, segment, stopRequested, manualMove, lastBusy, target,
          tf, handles>>

Unset == -1
AgeCap == Grace + JamLimit + 1
Aim(g, i) == [at |-> "segment", goal |-> g, seg |-> i]
Hold == [at |-> "hold", goal |-> NoGoal, seg |-> 0]  \* brake, and stay there
HomePose == [at |-> "home", goal |-> NoGoal, seg |-> 0]
Active == {"executing", "canceling"}
Answers == {"Working", "Finished", "Error"}      \* ruckig::Result
Distances == {"tight", "loose", "out"}           \* of the measured arm

Init ==
  /\ synced = FALSE /\ goal = NoGoal
  /\ segIdx = 0 /\ segStarted = FALSE /\ segAge = AgeCap
  /\ dwellUntil = Unset /\ trackErr = "out" /\ jamTicks = 0
  /\ stopRequested = FALSE /\ manualMove = FALSE /\ lastBusy = FALSE
  /\ target = Hold
  /\ tf = [f \in Frames |-> "lost"]
  /\ status = [g \in Goals |-> "unknown"]
  /\ result = [g \in Goals |-> "none"]
  /\ progress = [g \in Goals |-> 0]

-----------------------------------------------------------------------------
(* Callbacks: joint states, services, action requests.                      *)

(* The first complete joint state seeds the generator, target included.     *)
OnJointState ==
  /\ ~synced
  /\ synced' = TRUE /\ target' = Hold
  /\ UNCHANGED <<goal, segment, stopRequested, manualMove, lastBusy, tf,
                 handles>>

(* Refused as "busy" while a goal runs; accepted even before the sync.      *)
Home ==
  /\ goal = NoGoal
  /\ target' = HomePose /\ manualMove' = TRUE
  /\ UNCHANGED <<synced, goal, segment, stopRequested, lastBusy, tf, handles>>

Stop ==
  /\ stopRequested' = TRUE
  /\ UNCHANGED <<synced, goal, segment, manualMove, lastBusy, target, tf,
                 handles>>

(* A bug to tell apart: the goal that is replaced keeps its handle open.    *)
HandleAcceptedKeepingOld(g) ==
  /\ status' = [status EXCEPT ![g] = "executing"]
  /\ goal' = g /\ segIdx' = 0 /\ segStarted' = FALSE
  /\ manualMove' = FALSE /\ stopRequested' = FALSE
  /\ UNCHANGED <<segAge, dwellUntil, trackErr, jamTicks, result, progress>>

(* The new goal takes over from the current state of the arm: the target    *)
(* and the dwell of the old one stay until the next tick.  A stop that no   *)
(* tick has seen yet is dropped.                                            *)
HandleAccepted(g) ==
  /\ status' = [h \in Goals |-> IF h = g THEN "executing"
                                ELSE IF h = goal THEN "aborted"
                                ELSE status[h]]
  /\ result' = [h \in Goals |-> IF h = goal THEN "PREEMPTED" ELSE result[h]]
  /\ goal' = g /\ segIdx' = 0 /\ segStarted' = FALSE
  /\ manualMove' = FALSE /\ stopRequested' = FALSE
  /\ UNCHANGED <<segAge, dwellUntil, trackErr, jamTicks, progress>>

(* handleGoal, then rclcpp_action's transition, then handleAccepted.        *)
SendGoal(g) ==
  /\ status[g] = "unknown"
  /\ \/ (Plan[g] = <<>> \/ ~synced)
        /\ status' = [status EXCEPT ![g] = "rejected"]
        /\ UNCHANGED <<goal, segment, manualMove, stopRequested, result,
                       progress>>
     \/ Plan[g] # <<>> /\ synced /\ HandleAccepted(g)
  /\ UNCHANGED <<synced, lastBusy, target, tf>>

(* Only an executing handle is cancelable: rclcpp_action filters the rest.  *)
HandleCancel(g) ==
  /\ status[g] = "executing"
  /\ status' = [status EXCEPT ![g] = "canceling"]
  /\ stopRequested' = TRUE
  /\ UNCHANGED <<synced, goal, segment, manualMove, lastBusy, target, tf,
                 result, progress>>

(* The TF buffer: a frame is seen and reachable, too old, or out of reach.  *)
FrameChanges(f) ==
  /\ \E now \in {"live", "lost", "far"} : tf' = [tf EXCEPT ![f] = now]
  /\ UNCHANGED <<synced, goal, segment, stopRequested, manualMove, lastBusy,
                 target, handles>>

-----------------------------------------------------------------------------
(* The control loop: the parts of tick().                                   *)

Elapse(left) == IF left > 0 THEN left - 1 ELSE left
Older(age) == IF age < AgeCap THEN age + 1 ELSE age

EndGoal(outcome, code) ==
  /\ status' = [status EXCEPT ![goal] = outcome]
  /\ result' = [result EXCEPT ![goal] = code]
  /\ goal' = NoGoal
  /\ UNCHANGED progress

(* A bug to tell apart: the goal fails but its last target stays.           *)
FailWithoutBrake(code) ==
  /\ EndGoal("aborted", code)
  /\ UNCHANGED target

Fail(code) ==
  /\ EndGoal("aborted", code)
  /\ target' = Hold

(* The end of every tick, with the generator's answer.                      *)
PublishBusy(manual, answer) ==
  /\ manualMove' = (manual /\ answer # "Finished")
  /\ lastBusy' = (goal' # NoGoal \/ (manual /\ answer # "Finished"))

(* A bug to tell apart: a stop brakes the arm and leaves the goal running.  *)
TickStopBrakesOnly ==
  /\ synced /\ stopRequested
  /\ stopRequested' = FALSE /\ target' = Hold /\ goal' = goal
  /\ segAge' = Older(segAge) /\ dwellUntil' = Elapse(dwellUntil)
  /\ \E answer \in Answers : PublishBusy(FALSE, answer)
  /\ UNCHANGED <<synced, segIdx, segStarted, trackErr, jamTicks, tf,
                 handles>>

(* A stop, whoever asked for it, ends the goal and brakes.                  *)
TickStop ==
  /\ synced /\ stopRequested
  /\ stopRequested' = FALSE /\ target' = Hold
  /\ \/ goal = NoGoal /\ UNCHANGED <<goal, handles>>
     \/ goal # NoGoal
        /\ EndGoal(IF status[goal] = "canceling" THEN "canceled"
                   ELSE "aborted", "PREEMPTED")
  /\ segAge' = Older(segAge) /\ dwellUntil' = Elapse(dwellUntil)
  /\ \E answer \in Answers : PublishBusy(FALSE, answer)
  /\ UNCHANGED <<synced, segIdx, segStarted, trackErr, jamTicks, tf>>

TickIdle ==
  /\ synced /\ ~stopRequested /\ goal = NoGoal
  /\ goal' = goal /\ segAge' = Older(segAge) /\ dwellUntil' = Elapse(dwellUntil)
  /\ \E answer \in Answers : PublishBusy(manualMove, answer)
  /\ UNCHANGED <<synced, segIdx, segStarted, trackErr, jamTicks,
                 stopRequested, target, tf, handles>>

(* A bug to tell apart: the goal is never found to be past its end.         *)
TickSucceedOffByOne ==
  /\ synced /\ ~stopRequested /\ goal # NoGoal
  /\ ~segStarted /\ segIdx > Len(Plan[goal])
  /\ EndGoal("succeeded", "SUCCESS")
  /\ segAge' = Older(segAge) /\ dwellUntil' = Elapse(dwellUntil)
  /\ \E answer \in Answers : PublishBusy(manualMove, answer)
  /\ UNCHANGED <<synced, segIdx, segStarted, trackErr, jamTicks,
                 stopRequested, target, tf>>

TickSucceed ==
  /\ synced /\ ~stopRequested /\ goal # NoGoal
  /\ ~segStarted /\ segIdx >= Len(Plan[goal])
  /\ EndGoal("succeeded", "SUCCESS")
  /\ segAge' = Older(segAge) /\ dwellUntil' = Elapse(dwellUntil)
  /\ \E answer \in Answers : PublishBusy(manualMove, answer)
  /\ UNCHANGED <<synced, segIdx, segStarted, trackErr, jamTicks,
                 stopRequested, target, tf>>

Seg == Plan[goal][segIdx + 1]

(* Why startSegment may refuse a segment.  Poses in fixed frames can fail   *)
(* in either way; a tracked pose as its frame is seen now.                  *)
StartFailures ==
  CASE Seg.kind = "joint" -> IF Seg.sized THEN {} ELSE {"LIMITS"}
    [] Seg.kind = "cart"  -> {"TRACKING_LOST", "IK_UNREACHABLE"}
    [] Seg.kind = "track" -> CASE tf[Seg.frame] = "live" -> {}
                               [] tf[Seg.frame] = "lost" -> {"TRACKING_LOST"}
                               [] tf[Seg.frame] = "far" -> {"IK_UNREACHABLE"}

Startable ==
  \/ Seg.kind = "joint" /\ Seg.sized
  \/ Seg.kind = "cart"
  \/ Seg.kind = "track" /\ tf[Seg.frame] = "live"

TickRefuse ==
  /\ synced /\ ~stopRequested /\ goal # NoGoal
  /\ ~segStarted /\ segIdx < Len(Plan[goal])
  /\ \E code \in StartFailures : Fail(code)
  /\ segAge' = 0 /\ dwellUntil' = Unset /\ trackErr' = "out"
  /\ \E answer \in Answers : PublishBusy(manualMove, answer)
  /\ UNCHANGED <<synced, segIdx, segStarted, jamTicks, stopRequested, tf>>

(* A segment runs in this tick: it was started before, or starts now.       *)
Runs ==
  /\ synced /\ ~stopRequested /\ goal # NoGoal
  /\ segStarted \/ (segIdx < Len(Plan[goal]) /\ Startable)

(* A bug to tell apart: a new segment finds the previous dwell still set.   *)
DwellNowStale == Elapse(dwellUntil)

(* What startSegment resets and what time does, as the rest of a tick sees  *)
(* them.                                                                    *)
DwellNow == IF segStarted THEN Elapse(dwellUntil) ELSE Unset
AgeNow == IF segStarted THEN Older(segAge) ELSE 0

(* A bug to tell apart: no grace at the start of a segment.                 *)
JamCountNoGrace(stuck) == IF stuck THEN jamTicks + 1 ELSE 0

(* stuck: a plausible reading shows the vertical axis commanded to move,    *)
(* standing still, and away from its command.                               *)
JamCount(stuck) == IF stuck /\ AgeNow > Grace THEN jamTicks + 1 ELSE 0

(* A tracked target is followed only while its frame is seen and reachable; *)
(* otherwise the last target, and the last measured distance, stay.         *)
Retarget(distance) ==
  trackErr' = IF Seg.kind = "track" /\ tf[Seg.frame] = "live" THEN distance
              ELSE IF segStarted THEN trackErr ELSE "out"

(* Another tracked segment on the same frame follows, as contact does hover.*)
Intermediate ==
  /\ segIdx + 1 < Len(Plan[goal])
  /\ LET next == Plan[goal][segIdx + 2]
     IN next.kind = "track" /\ next.frame = Seg.frame

Settled ==
  /\ Seg.kind = "track"
  /\ trackErr' = "tight" \/ (trackErr' = "loose" /\ Intermediate)

Reached(answer) == answer = "Finished" \/ Settled \/ DwellNow # Unset

TickJam ==
  /\ Runs /\ JamCount(TRUE) > JamLimit
  /\ Fail("CONTROLLER_ERROR")
  /\ jamTicks' = 0 /\ segAge' = AgeNow /\ dwellUntil' = DwellNow
  /\ \E distance \in Distances : Retarget(distance)
  /\ segStarted' = TRUE
  /\ \E answer \in Answers : PublishBusy(manualMove, answer)
  /\ UNCHANGED <<synced, segIdx, stopRequested, tf>>

(* The segment is still moving, or still dwelling.                          *)
KeepRunning(answer) ==
  /\ ~Reached(answer) \/ DwellNow > 0
  /\ segStarted' = TRUE /\ dwellUntil' = DwellNow
  /\ UNCHANGED <<segIdx, progress>>

(* "reached, dwelling": clients fire or release the vacuum on this.         *)
BeginDwell(answer) ==
  /\ Reached(answer) /\ DwellNow = Unset /\ Seg.dwell > 0
  /\ segStarted' = TRUE /\ dwellUntil' = Seg.dwell
  /\ progress' = [progress EXCEPT ![goal] = 2 * segIdx + 1]
  /\ UNCHANGED segIdx

(* A bug to tell apart: the dwell of the message is not looked at.          *)
EndSegmentAtContact(answer) ==
  /\ Reached(answer) /\ DwellNow \in {Unset, 0}
  /\ segStarted' = FALSE /\ dwellUntil' = DwellNow
  /\ segIdx' = segIdx + 1
  /\ progress' = [progress EXCEPT ![goal] = 2 * segIdx + 2]

EndSegment(answer) ==
  /\ Reached(answer)
  /\ DwellNow = 0 \/ (DwellNow = Unset /\ Seg.dwell = 0)
  /\ segStarted' = FALSE /\ dwellUntil' = DwellNow
  /\ segIdx' = segIdx + 1
  /\ progress' = [progress EXCEPT ![goal] = 2 * segIdx + 2]

(* A bug to tell apart: the jam counter is not compared with its limit.     *)
TickRunNoJamGuard(answer) ==
  /\ Runs
  /\ \E stuck \in BOOLEAN : jamTicks' = JamCount(stuck)
  /\ \E distance \in Distances : Retarget(distance)
  /\ target' = Aim(goal, segIdx) /\ segAge' = AgeNow
  /\ KeepRunning(answer) \/ BeginDwell(answer) \/ EndSegment(answer)
  /\ goal' = goal /\ PublishBusy(manualMove, answer)
  /\ UNCHANGED <<synced, stopRequested, tf, status, result>>

TickRun(answer) ==
  /\ Runs
  /\ \E stuck \in BOOLEAN : /\ JamCount(stuck) <= JamLimit
                            /\ jamTicks' = JamCount(stuck)
  /\ \E distance \in Distances : Retarget(distance)
  /\ target' = Aim(goal, segIdx) /\ segAge' = AgeNow
  /\ KeepRunning(answer) \/ BeginDwell(answer) \/ EndSegment(answer)
  /\ goal' = goal /\ PublishBusy(manualMove, answer)
  /\ UNCHANGED <<synced, stopRequested, tf, status, result>>

Tick ==
  \/ TickStop \/ TickIdle \/ TickSucceed \/ TickRefuse \/ TickJam
  \/ \E answer \in Answers : TickRun(answer)

Next ==
  \/ OnJointState \/ Home \/ Stop
  \/ \E g \in Goals : SendGoal(g) \/ HandleCancel(g)
  \/ \E f \in Frames : FrameChanges(f)
  \/ Tick

Spec == Init /\ [][Next]_vars

(* Goal g runs a tracked segment that has not been reached.                 *)
Tracks(g) ==
  goal = g /\ segStarted /\ Seg.kind = "track" /\ dwellUntil = Unset

(***************************************************************************)
(* The control timer keeps firing once the simulation runs; and the        *)
(* trajectory to a fixed target ends, so the generator answers Finished    *)
(* sooner or later in a joint or Cartesian segment that goes on.  Nothing  *)
(* of the kind holds of a tracked segment: it is planned anew every tick.  *)
(***************************************************************************)
FairSpec == Spec /\ WF_vars(Tick) /\ WF_vars(OnJointState)
FairMotionSpec ==
  FairSpec /\ SF_vars(Runs /\ Seg.kind # "track" /\ TickRun("Finished"))

-----------------------------------------------------------------------------
(* Properties.                                                              *)

(* Every variable keeps the type of the member it models.                   *)
TypeOK ==
  /\ synced \in BOOLEAN
  /\ goal \in Goals \cup {NoGoal}
  /\ segIdx \in Nat /\ segStarted \in BOOLEAN /\ segAge \in 0 .. AgeCap
  /\ dwellUntil \in Nat \cup {Unset}
  /\ trackErr \in Distances /\ jamTicks \in 0 .. JamLimit
  /\ stopRequested \in BOOLEAN /\ manualMove \in BOOLEAN
  /\ lastBusy \in BOOLEAN
  /\ target \in [at : {"hold", "home", "segment"},
                 goal : Goals \cup {NoGoal}, seg : Nat]
  /\ tf \in [Frames -> {"live", "lost", "far"}]
  /\ status \in [Goals -> Active \cup {"unknown", "rejected", "succeeded",
                                       "canceled", "aborted"}]
  /\ result \in [Goals -> {"none", "SUCCESS", "PREEMPTED", "LIMITS",
                           "IK_UNREACHABLE", "TRACKING_LOST",
                           "CONTROLLER_ERROR"}]
  /\ progress \in [Goals -> Nat]

(* The goal handles that are still open are exactly the goal in the slot:   *)
(* no preemption, stop, failure or jam leaves a client waiting on a handle  *)
(* nobody will close, or keeps executing a goal already answered.           *)
SlotOwnsActive ==
  {g \in Goals : status[g] \in Active} = IF goal = NoGoal THEN {} ELSE {goal}

(* The arm drives towards a segment only while its goal is open, or was     *)
(* finished with success; a goal that was stopped, canceled or failed is    *)
(* driven to no further.  The one exception is the hand-over: between the   *)
(* acceptance of a newer goal and its first tick.                           *)
AimOwned ==
  target.at = "segment"
    => /\ target.goal \in Goals
       /\ \/ status[target.goal] \in Active \cup {"succeeded"}
          \/ goal # NoGoal /\ ~segStarted /\ segIdx = 0

(* The evidence for a jam comes from the segment being run and from after   *)
(* its grace: stuck ticks of an earlier segment, or of a goal that was      *)
(* stopped or preempted, never count against the present one.               *)
JamWithinSegment ==
  goal # NoGoal /\ segStarted
    => jamTicks = 0 \/ jamTicks + Grace <= segAge

(* What feedback has told the clients agrees with where the execution is:   *)
(* an odd progress (fire or release the vacuum now) exactly while the       *)
(* current segment dwells, and only for a segment that asks for a dwell.    *)
FeedbackInStep ==
  goal # NoGoal =>
    /\ segIdx <= Len(Plan[goal])
    /\ ~segStarted => progress[goal] = 2 * segIdx
    /\ segStarted =>
         /\ segIdx < Len(Plan[goal])
         /\ IF dwellUntil = Unset THEN progress[goal] = 2 * segIdx
            ELSE progress[goal] = 2 * segIdx + 1 /\ Seg.dwell > 0

(* A requested stop is obeyed before anything else happens: until it is, no *)
(* feedback is published and no goal succeeds; it is spent either by a tick *)
(* that brakes, closes the goal and ends a homing move, or because a newer  *)
(* goal was accepted first.                                                 *)
StopStep ==
  stopRequested =>
    /\ progress' = progress
    /\ \A g \in Goals : status'[g] = "succeeded" => status[g] = "succeeded"
    /\ \/ stopRequested'
       \/ goal' = NoGoal /\ target' = Hold /\ ~manualMove'
       \/ goal' # goal /\ goal' # NoGoal
StopHonoured == [][StopStep]_vars

(* To its clients the server is the executor of one goal at a time that     *)
(* MotionGoals describes.                                                   *)
Contract == INSTANCE MotionGoals
ImplementsMotionGoals == Contract!Spec

(* What CycleTask builds on: one slot, taken over by whatever is accepted,  *)
(* and feedback that starts at zero and reports each contact and each end.  *)
Slot == INSTANCE MotionSlot WITH
          running <- goal, half <- IF goal = NoGoal THEN 0 ELSE progress[goal]
ImplementsMotionSlot == Slot!Spec

(* Nothing but tracking holds a goal up for good: an accepted goal ends, or *)
(* from some time on it follows a frame it never settles on (for which the  *)
(* server has no limit of its own).  And a client that asked for a cancel   *)
(* gets the answer to it, tracking or not, whatever else is sent, stopped   *)
(* or preempted meanwhile: the goal ends as PREEMPTED and not with the      *)
(* result of a goal that went on.                                           *)
GoalsEnd ==
  \A g \in Goals :
    /\ (status[g] \in Active ~> status[g] \notin Active) \/ <>[]Tracks(g)
    /\ status[g] = "canceling" ~> result[g] = "PREEMPTED"
=============================================================================
