------------------------- MODULE MotionServerProofs -------------------------
(***************************************************************************)
(* Proofs about MotionServer for every set of goals, every plan and every  *)
(* jam parameter: its invariants, that a stop is honoured, and that it     *)
(* implements MotionGoals and MotionSlot.                                  *)
(***************************************************************************)
EXTENDS MotionServer, TLAPS

(* The open goal has a segment to run: the empty ones were refused.  This   *)
(* is what the hand-over clause of AimOwned needs to be inductive.          *)
PlanNotEmpty == goal # NoGoal => Plan[goal] # <<>>

(* No feedback precedes the acceptance of its goal, so execution and        *)
(* feedback start in step.                                                  *)
FreshIsSilent == \A g \in Goals : status[g] = "unknown" => progress[g] = 0

IInv ==
  /\ TypeOK
  /\ SlotOwnsActive
  /\ AimOwned
  /\ JamWithinSegment
  /\ FeedbackInStep
  /\ PlanNotEmpty
  /\ FreshIsSilent

USE DEF Active, Unset

(* Every goal carries a sequence of segments.                               *)
LEMMA PlanSeq == \A g \in Goals : Plan[g] \in Seq(Segment) /\ Len(Plan[g]) \in Nat
BY PlanAssumption

(* The members of a server just constructed satisfy the invariant.          *)
LEMMA InitIInv == Init => IInv
<1> SUFFICES ASSUME Init PROVE IInv
  OBVIOUS
<1>1. TypeOK
  <2>1. segAge \in 0 .. AgeCap /\ jamTicks \in 0 .. JamLimit
    BY JamAssumption DEF Init, AgeCap
  <2>2. target \in [at : {"hold", "home", "segment"},
                   goal : Goals \cup {NoGoal}, seg : Nat]
    BY DEF Init, Hold
  <2> QED
    BY <2>1, <2>2 DEF Init, TypeOK, Distances
<1>2. SlotOwnsActive
  BY DEF Init, SlotOwnsActive
<1>3. AimOwned /\ JamWithinSegment /\ FeedbackInStep /\ PlanNotEmpty
     /\ FreshIsSilent
  BY DEF Init, AimOwned, JamWithinSegment, FeedbackInStep, PlanNotEmpty,
         FreshIsSilent, Hold
<1> QED
  BY <1>1, <1>2, <1>3 DEF IInv

-----------------------------------------------------------------------------
(* One lemma per action.                                                    *)

(* Joint states, homing, stop requests and TF updates keep it.              *)
LEMMA CallbacksKeepIInv ==
  ASSUME IInv, OnJointState \/ Home \/ Stop
               \/ (\E f \in Frames : FrameChanges(f))
  PROVE  IInv'
<1> USE DEF IInv
<1>1. CASE OnJointState
  BY <1>1 DEF OnJointState, handles, segment, TypeOK, SlotOwnsActive, AimOwned,
              JamWithinSegment, FeedbackInStep, PlanNotEmpty, FreshIsSilent,
              Hold, Seg
<1>2. CASE Home
  BY <1>2 DEF Home, handles, segment, TypeOK, SlotOwnsActive, AimOwned,
              JamWithinSegment, FeedbackInStep, PlanNotEmpty, FreshIsSilent,
              HomePose, Seg
<1>3. CASE Stop
  BY <1>3 DEF Stop, handles, segment, TypeOK, SlotOwnsActive, AimOwned,
              JamWithinSegment, FeedbackInStep, PlanNotEmpty, FreshIsSilent,
              Seg
<1>4. ASSUME NEW f \in Frames, FrameChanges(f) PROVE IInv'
  BY <1>4 DEF FrameChanges, handles, segment, TypeOK, SlotOwnsActive, AimOwned,
              JamWithinSegment, FeedbackInStep, PlanNotEmpty, FreshIsSilent,
              Seg
<1> QED
  BY <1>1, <1>2, <1>3, <1>4

(* handleCancel keeps the handle open and the goal in the slot.             *)
LEMMA CancelKeepsIInv ==
  ASSUME IInv, NEW g \in Goals, HandleCancel(g)
  PROVE  IInv'
<1> USE DEF IInv
<1>1. TypeOK'
  BY DEF HandleCancel, segment, TypeOK
<1>2. SlotOwnsActive'
  BY DEF HandleCancel, TypeOK, SlotOwnsActive
<1>3. AimOwned'
  BY DEF HandleCancel, segment, TypeOK, AimOwned
<1>4. JamWithinSegment' /\ FeedbackInStep' /\ PlanNotEmpty' /\ FreshIsSilent'
  BY DEF HandleCancel, segment, TypeOK, JamWithinSegment, FeedbackInStep,
         PlanNotEmpty, FreshIsSilent, Seg
<1> QED
  BY <1>1, <1>2, <1>3, <1>4

(* A goal that is accepted: the old one is closed with it.                  *)
LEMMA AcceptKeepsIInv ==
  ASSUME IInv, NEW g \in Goals, status[g] = "unknown", Plan[g] # <<>>,
         HandleAccepted(g), UNCHANGED <<synced, lastBusy, target, tf>>
  PROVE  IInv'
<1> USE DEF IInv
<1>1. TypeOK'
  BY DEF HandleAccepted, TypeOK
<1>2. \A h \in Goals : status'[h] \in Active <=> h = g
  BY DEF HandleAccepted, TypeOK, SlotOwnsActive
<1>3. SlotOwnsActive'
  BY <1>2, NoGoalAssumption DEF HandleAccepted, SlotOwnsActive
<1>4. AimOwned'
  BY NoGoalAssumption DEF HandleAccepted, TypeOK, AimOwned
<1>5. FreshIsSilent' /\ JamWithinSegment' /\ PlanNotEmpty'
  BY DEF HandleAccepted, TypeOK, FreshIsSilent, JamWithinSegment, PlanNotEmpty
<1>6. FeedbackInStep'
  BY PlanSeq DEF HandleAccepted, FreshIsSilent, FeedbackInStep, Seg
<1> QED
  BY <1>1, <1>3, <1>4, <1>5, <1>6

(* handleGoal and handleAccepted keep it, whatever they answer.             *)
LEMMA SendKeepsIInv ==
  ASSUME IInv, NEW g \in Goals, SendGoal(g)
  PROVE  IInv'
<1> USE DEF IInv
<1>1. CASE Plan[g] # <<>> /\ HandleAccepted(g)
  BY <1>1, AcceptKeepsIInv DEF SendGoal
<1>2. CASE /\ status' = [status EXCEPT ![g] = "rejected"]
           /\ UNCHANGED <<goal, segment, manualMove, stopRequested, result,
                          progress>>
  <2> USE <1>2
  <2>1. TypeOK'
    BY DEF SendGoal, segment, TypeOK
  <2>2. SlotOwnsActive'
    BY DEF SendGoal, TypeOK, SlotOwnsActive
  <2>3. AimOwned'
    BY DEF SendGoal, segment, TypeOK, AimOwned
  <2>4. JamWithinSegment' /\ FeedbackInStep' /\ PlanNotEmpty' /\ FreshIsSilent'
    BY DEF SendGoal, segment, TypeOK, JamWithinSegment, FeedbackInStep,
           PlanNotEmpty, FreshIsSilent, Seg
  <2> QED
    BY <2>1, <2>2, <2>3, <2>4
<1> QED
  BY <1>1, <1>2 DEF SendGoal

-----------------------------------------------------------------------------
(* The ticks that run no segment: they leave the slot empty.                *)

(* The passage of time stays within the types of the two timers.            *)
LEMMA ElapseType ==
  ASSUME TypeOK
  PROVE  /\ Elapse(dwellUntil) \in Nat \cup {Unset}
         /\ Older(segAge) \in 0 .. AgeCap
         /\ segAge <= Older(segAge)
BY JamAssumption DEF TypeOK, Elapse, Older, AgeCap

(* What closing the open goal, or finding none, does to the invariant.      *)
LEMMA EmptySlotKeepsIInv ==
  ASSUME IInv, TypeOK', goal' = NoGoal, progress' = progress,
         target' = Hold \/ (target' = target /\
                            (goal = NoGoal \/ (segIdx # 0 /\ ~segStarted
                                     /\ status'[goal] = "succeeded"))),
         \/ goal = NoGoal /\ UNCHANGED handles
         \/ /\ goal # NoGoal
            /\ \E outcome \in {"succeeded", "aborted", "canceled"} :
                 status' = [status EXCEPT ![goal] = outcome]
  PROVE  IInv'
<1> USE DEF IInv
<1>1. \A h \in Goals : status'[h] \notin Active
  BY DEF TypeOK, SlotOwnsActive, handles
<1>2. SlotOwnsActive'
  BY <1>1 DEF SlotOwnsActive
<1>3. AimOwned'
  BY DEF TypeOK, AimOwned, Hold, handles
<1>4. JamWithinSegment' /\ FeedbackInStep' /\ PlanNotEmpty'
  BY DEF JamWithinSegment, FeedbackInStep, PlanNotEmpty
<1>5. FreshIsSilent'
  BY DEF TypeOK, FreshIsSilent, handles
<1> QED
  BY <1>2, <1>3, <1>4, <1>5

(* A tick that obeys a stop keeps it.                                       *)
LEMMA TickStopKeepsIInv ==
  ASSUME IInv, TickStop
  PROVE  IInv'
<1> USE DEF IInv
<1>1. TypeOK'
  <2>1. target' \in [at : {"hold", "home", "segment"},
                    goal : Goals \cup {NoGoal}, seg : Nat]
    BY DEF TickStop, Hold
  <2>2. status' \in [Goals -> Active \cup {"unknown", "rejected", "succeeded",
                                          "canceled", "aborted"}]
        /\ result' \in [Goals -> {"none", "SUCCESS", "PREEMPTED", "LIMITS",
                                  "IK_UNREACHABLE", "TRACKING_LOST",
                                  "CONTROLLER_ERROR"}]
        /\ goal' = NoGoal /\ progress' = progress
    BY DEF TickStop, TypeOK, handles, EndGoal
  <2>3. manualMove' \in BOOLEAN /\ lastBusy' \in BOOLEAN
    BY DEF TickStop, PublishBusy
  <2> QED
    BY <2>1, <2>2, <2>3, ElapseType DEF TickStop, TypeOK
<1>2. goal' = NoGoal /\ progress' = progress /\ target' = Hold
  BY DEF TickStop, EndGoal, handles
<1>3. \/ goal = NoGoal /\ UNCHANGED handles
      \/ /\ goal # NoGoal
         /\ \E outcome \in {"succeeded", "aborted", "canceled"} :
              status' = [status EXCEPT ![goal] = outcome]
  BY DEF TickStop, EndGoal
<1> QED
  BY <1>1, <1>2, <1>3, EmptySlotKeepsIInv

(* A tick without a goal keeps it.                                          *)
LEMMA TickIdleKeepsIInv ==
  ASSUME IInv, TickIdle
  PROVE  IInv'
<1> USE DEF IInv
<1>1. TypeOK'
  <2>1. manualMove' \in BOOLEAN /\ lastBusy' \in BOOLEAN
    BY DEF TickIdle, PublishBusy
  <2> QED
    BY <2>1, ElapseType DEF TickIdle, TypeOK, handles
<1> QED
  BY <1>1, EmptySlotKeepsIInv DEF TickIdle, handles

(* A tick that finds the last segment over keeps it.                        *)
LEMMA TickSucceedKeepsIInv ==
  ASSUME IInv, TickSucceed
  PROVE  IInv'
<1> USE DEF IInv
<1>1. TypeOK'
  <2>1. manualMove' \in BOOLEAN /\ lastBusy' \in BOOLEAN
    BY DEF TickSucceed, PublishBusy
  <2>2. status' \in [Goals -> Active \cup {"unknown", "rejected", "succeeded",
                                          "canceled", "aborted"}]
        /\ result' \in [Goals -> {"none", "SUCCESS", "PREEMPTED", "LIMITS",
                                  "IK_UNREACHABLE", "TRACKING_LOST",
                                  "CONTROLLER_ERROR"}]
        /\ goal' = NoGoal /\ progress' = progress
    BY DEF TickSucceed, TypeOK, EndGoal
  <2> QED
    BY <2>1, <2>2, ElapseType DEF TickSucceed, TypeOK
<1>2. segIdx # 0
  <2>1. goal \in Goals /\ Plan[goal] # <<>> /\ segIdx >= Len(Plan[goal])
    BY DEF TickSucceed, TypeOK, PlanNotEmpty
  <2> QED
    BY <2>1, PlanSeq
<1>3. status' = [status EXCEPT ![goal] = "succeeded"] /\ goal # NoGoal
      /\ goal \in Goals /\ goal' = NoGoal /\ progress' = progress
  BY DEF TickSucceed, EndGoal, TypeOK
<1>4. status'[goal] = "succeeded"
  BY <1>3 DEF TypeOK
<1> QED
  BY <1>1, <1>2, <1>3, <1>4, EmptySlotKeepsIInv DEF TickSucceed

(* fail() closes the goal, brakes, and keeps every type.                    *)
LEMMA FailsType ==
  ASSUME TypeOK, goal # NoGoal, NEW code, Fail(code),
         code \in {"LIMITS", "IK_UNREACHABLE", "TRACKING_LOST",
                   "CONTROLLER_ERROR"}
  PROVE  /\ status' \in [Goals -> Active \cup {"unknown", "rejected",
                                    "succeeded", "canceled", "aborted"}]
         /\ result' \in [Goals -> {"none", "SUCCESS", "PREEMPTED", "LIMITS",
                                   "IK_UNREACHABLE", "TRACKING_LOST",
                                   "CONTROLLER_ERROR"}]
         /\ goal' = NoGoal /\ progress' = progress /\ target' = Hold
         /\ target' \in [at : {"hold", "home", "segment"},
                         goal : Goals \cup {NoGoal}, seg : Nat]
         /\ status' = [status EXCEPT ![goal] = "aborted"]
<1>1. status' = [status EXCEPT ![goal] = "aborted"]
      /\ result' = [result EXCEPT ![goal] = code]
      /\ goal' = NoGoal /\ progress' = progress /\ target' = Hold
  BY DEF Fail, EndGoal
<1>2. target' \in [at : {"hold", "home", "segment"},
                   goal : Goals \cup {NoGoal}, seg : Nat]
  BY <1>1 DEF Hold
<1> QED
  BY <1>1, <1>2 DEF TypeOK

(* The segment looked at exists and is one of the plan.                     *)
LEMMA SegType ==
  ASSUME IInv, goal # NoGoal, segStarted \/ segIdx < Len(Plan[goal])
  PROVE  segIdx \in 0 .. Len(Plan[goal]) - 1 /\ Seg \in Segment
<1>1. goal \in Goals /\ segIdx \in Nat
  BY DEF IInv, TypeOK
<1>2. segIdx < Len(Plan[goal])
  BY DEF IInv, FeedbackInStep
<1>3. Plan[goal] \in Seq(Segment) /\ Len(Plan[goal]) \in Nat
  BY <1>1, PlanSeq
<1>4. segIdx + 1 \in 1 .. Len(Plan[goal])
  BY <1>1, <1>2, <1>3
<1>5. Seg \in Segment
  BY <1>3, <1>4 DEF Seg
<1> QED
  BY <1>1, <1>2, <1>3, <1>5

(* A tick in which startSegment fails keeps it.                             *)
LEMMA TickRefuseKeepsIInv ==
  ASSUME IInv, TickRefuse
  PROVE  IInv'
<1> USE DEF IInv
<1>1. goal \in Goals /\ goal # NoGoal /\ Seg \in Segment
  BY SegType DEF TickRefuse, TypeOK
<1>2. PICK code \in StartFailures : Fail(code)
  BY DEF TickRefuse
<1>3. Seg.kind \in {"joint", "cart", "track"} /\ Seg.frame \in Frames
  BY <1>1 DEF Segment
<1>4. tf[Seg.frame] \in {"live", "lost", "far"}
  BY <1>3 DEF TypeOK
<1>5. code \in {"LIMITS", "IK_UNREACHABLE", "TRACKING_LOST"}
  BY <1>2, <1>3, <1>4 DEF StartFailures
<1>6. TypeOK'
  <2>1. manualMove' \in BOOLEAN /\ lastBusy' \in BOOLEAN
    BY DEF TickRefuse, PublishBusy
  <2>2. 0 \in 0 .. AgeCap
    BY JamAssumption DEF AgeCap
  <2> QED
    BY <1>1, <1>2, <1>5, <2>1, <2>2, FailsType
    DEF TickRefuse, TypeOK, Distances
<1>7. status' = [status EXCEPT ![goal] = "aborted"] /\ goal' = NoGoal
      /\ progress' = progress /\ target' = Hold
  BY <1>1, <1>2, <1>5, FailsType
<1> QED
  BY <1>1, <1>6, <1>7, EmptySlotKeepsIInv

-----------------------------------------------------------------------------
(* The ticks that run a segment.                                            *)

(* What a running tick reads of its timers is well typed.                   *)
LEMMA RunsType ==
  ASSUME IInv, Runs
  PROVE  /\ goal \in Goals /\ goal # NoGoal
         /\ segIdx \in 0 .. Len(Plan[goal]) - 1 /\ Seg \in Segment
         /\ AgeNow \in 0 .. AgeCap /\ DwellNow \in Nat \cup {Unset}
<1>1. goal \in Goals /\ goal # NoGoal /\ TypeOK
  BY DEF Runs, IInv, TypeOK
<1>2. segIdx \in 0 .. Len(Plan[goal]) - 1 /\ Seg \in Segment
  BY SegType DEF Runs
<1>3. AgeNow \in 0 .. AgeCap /\ DwellNow \in Nat \cup {Unset}
  BY <1>1, ElapseType, JamAssumption DEF AgeNow, DwellNow, AgeCap
<1> QED
  BY <1>1, <1>2, <1>3

(* The measured distance is one of the three, seen or not.                  *)
LEMMA RetargetType ==
  ASSUME TypeOK, NEW distance \in Distances, Retarget(distance)
  PROVE  trackErr' \in Distances
BY DEF TypeOK, Retarget, Distances

(* A tick in which the jam guard trips keeps it.                            *)
LEMMA TickJamKeepsIInv ==
  ASSUME IInv, TickJam
  PROVE  IInv'
<1> USE DEF IInv
<1>1. goal \in Goals /\ goal # NoGoal /\ Fail("CONTROLLER_ERROR")
      /\ AgeNow \in 0 .. AgeCap /\ DwellNow \in Nat \cup {Unset}
  BY RunsType DEF TickJam
<1>2. trackErr' \in Distances
  BY RetargetType DEF TickJam
<1>3. TypeOK'
  <2>1. manualMove' \in BOOLEAN /\ lastBusy' \in BOOLEAN
    BY DEF TickJam, PublishBusy
  <2>2. 0 \in 0 .. JamLimit
    BY JamAssumption
  <2> QED
    BY <1>1, <1>2, <2>1, <2>2, FailsType DEF TickJam, TypeOK
<1>4. status' = [status EXCEPT ![goal] = "aborted"] /\ goal' = NoGoal
      /\ progress' = progress /\ target' = Hold
  BY <1>1, FailsType
<1> QED
  BY <1>1, <1>3, <1>4, EmptySlotKeepsIInv

(* What a tick that runs a segment leaves of the goal, however it ends.     *)
LEMMA TickRunCommon ==
  ASSUME IInv, NEW answer \in Answers, TickRun(answer)
  PROVE  /\ UNCHANGED <<goal, status, result, synced, stopRequested, tf>>
         /\ target' = Aim(goal, segIdx)
         /\ target' \in [at : {"hold", "home", "segment"},
                         goal : Goals \cup {NoGoal}, seg : Nat]
         /\ jamTicks' \in 0 .. JamLimit /\ segAge' = AgeNow
         /\ trackErr' \in Distances
         /\ manualMove' \in BOOLEAN /\ lastBusy' \in BOOLEAN
         /\ Runs
<1> USE DEF IInv
<1>1. Runs /\ goal \in Goals /\ segIdx \in 0 .. Len(Plan[goal]) - 1
  BY RunsType DEF TickRun
<1>2. target' = Aim(goal, segIdx)
  BY DEF TickRun
<1>3. target' \in [at : {"hold", "home", "segment"},
                   goal : Goals \cup {NoGoal}, seg : Nat]
  BY <1>1, <1>2, PlanSeq DEF Aim
<1>4. jamTicks' \in 0 .. JamLimit
  <2>1. PICK stuck \in BOOLEAN :
          JamCount(stuck) <= JamLimit /\ jamTicks' = JamCount(stuck)
    BY DEF TickRun
  <2>2. JamCount(stuck) \in Nat
    BY JamAssumption DEF JamCount, TypeOK
  <2> QED
    BY <2>1, <2>2, JamAssumption
<1>5. trackErr' \in Distances
  BY RetargetType DEF TickRun
<1>6. manualMove' \in BOOLEAN /\ lastBusy' \in BOOLEAN
  BY DEF TickRun, PublishBusy
<1> QED
  BY <1>1, <1>2, <1>3, <1>4, <1>5, <1>6 DEF TickRun

(* The four ways in which execution and feedback advance together.          *)
LEMMA TickRunStep ==
  ASSUME IInv, NEW answer \in Answers, TickRun(answer)
  PROVE  \/ /\ segStarted' = TRUE /\ dwellUntil' = Unset /\ DwellNow = Unset
            /\ progress[goal] = 2 * segIdx
            /\ UNCHANGED <<segIdx, progress>>
         \/ /\ segStarted' = TRUE /\ dwellUntil' \in Nat /\ DwellNow \in Nat
            /\ progress[goal] = 2 * segIdx + 1 /\ Seg.dwell > 0
            /\ UNCHANGED <<segIdx, progress>>
         \/ /\ segStarted' = TRUE /\ dwellUntil' = Seg.dwell
            /\ Seg.dwell \in Nat /\ Seg.dwell > 0
            /\ progress[goal] = 2 * segIdx /\ segIdx' = segIdx
            /\ progress' = [progress EXCEPT ![goal] = 2 * segIdx + 1]
         \/ /\ segStarted' = FALSE /\ dwellUntil' \in Nat \cup {Unset}
            /\ \/ progress[goal] = 2 * segIdx + 1
               \/ progress[goal] = 2 * segIdx /\ ~(Seg.dwell > 0)
            /\ segIdx' = segIdx + 1
            /\ progress' = [progress EXCEPT ![goal] = 2 * segIdx + 2]
<1> USE DEF IInv
<1>1. /\ goal \in Goals /\ goal # NoGoal
      /\ segIdx \in 0 .. Len(Plan[goal]) - 1 /\ Seg \in Segment
      /\ DwellNow \in Nat \cup {Unset}
  BY RunsType DEF TickRun
<1>2. Seg.dwell \in Nat
  BY <1>1 DEF Segment
<1>3. \/ DwellNow = Unset /\ progress[goal] = 2 * segIdx
      \/ /\ DwellNow \in Nat /\ progress[goal] = 2 * segIdx + 1
         /\ Seg.dwell > 0
  BY <1>1 DEF FeedbackInStep, DwellNow, Elapse, TypeOK
<1>4. CASE KeepRunning(answer)
  BY <1>3, <1>4 DEF KeepRunning
<1>5. CASE BeginDwell(answer)
  BY <1>2, <1>3, <1>5 DEF BeginDwell
<1>6. CASE EndSegment(answer)
  BY <1>1, <1>2, <1>3, <1>6 DEF EndSegment
<1> QED
  BY <1>4, <1>5, <1>6 DEF TickRun

(* A tick that runs a segment keeps it.                                     *)
LEMMA TickRunKeepsIInv ==
  ASSUME IInv, NEW answer \in Answers, TickRun(answer)
  PROVE  IInv'
<1> USE DEF IInv
<1>1. /\ goal \in Goals /\ goal # NoGoal
      /\ segIdx \in 0 .. Len(Plan[goal]) - 1 /\ segIdx \in Nat
      /\ AgeNow \in 0 .. AgeCap /\ Len(Plan[goal]) \in Nat
  BY RunsType, TickRunCommon, PlanSeq DEF TypeOK
<1>2. TypeOK'
  <2>1. segIdx' \in Nat /\ segStarted' \in BOOLEAN
        /\ dwellUntil' \in Nat \cup {Unset} /\ progress' \in [Goals -> Nat]
    <3>1. segIdx' = segIdx \/ segIdx' = segIdx + 1
      BY TickRunStep
    <3>2. segIdx' \in Nat
      BY <1>1, <3>1
    <3>3. dwellUntil' \in Nat \cup {Unset} /\ segStarted' \in BOOLEAN
      BY TickRunStep
    <3>4. progress \in [Goals -> Nat]
      BY DEF TypeOK
    <3>5. \A n \in {2 * segIdx + 1, 2 * segIdx + 2} :
            n \in Nat /\ [progress EXCEPT ![goal] = n] \in [Goals -> Nat]
      BY <1>1, <3>4
    <3>6. progress' \in [Goals -> Nat]
      BY <3>4, <3>5, TickRunStep
    <3> QED
      BY <3>2, <3>3, <3>6
  <2>2. jamTicks' \in 0 .. JamLimit /\ segAge' \in 0 .. AgeCap
    BY <1>1, TickRunCommon
  <2>3. target' \in [at : {"hold", "home", "segment"},
                    goal : Goals \cup {NoGoal}, seg : Nat]
    BY TickRunCommon
  <2> QED
    BY <2>1, <2>2, <2>3, TickRunCommon DEF TypeOK
<1>3. SlotOwnsActive' /\ PlanNotEmpty'
  BY TickRunCommon DEF SlotOwnsActive, PlanNotEmpty
<1>4. AimOwned'
  <2>1. target' = Aim(goal, segIdx) /\ status' = status /\ status[goal] \in Active
    BY <1>1, TickRunCommon DEF SlotOwnsActive
  <2> QED
    BY <1>1, <2>1 DEF AimOwned, Aim
<1>5. JamWithinSegment'
  <2>1. PICK stuck \in BOOLEAN :
          JamCount(stuck) <= JamLimit /\ jamTicks' = JamCount(stuck)
    BY DEF TickRun
  <2>2. segAge' = AgeNow
    BY TickRunCommon
  <2>3. jamTicks' = 0 \/ jamTicks' + Grace <= AgeNow
    BY <1>1, <2>1, JamAssumption
    DEF JamCount, AgeNow, Older, AgeCap, JamWithinSegment, TypeOK, Runs
  <2> QED
    BY <2>2, <2>3 DEF JamWithinSegment
<1>6. FeedbackInStep'
  <2>1. goal' = goal
    BY TickRunCommon
  <2>2. progress \in [Goals -> Nat]
    BY DEF TypeOK
  <2>3. CASE segStarted' = TRUE /\ segIdx' = segIdx
    <3>1. Seg' = Seg
      BY <2>1, <2>3 DEF Seg
    <3> QED
      BY <1>1, <2>1, <2>2, <2>3, <3>1, TickRunStep DEF FeedbackInStep
  <2>4. CASE segStarted' = FALSE /\ segIdx' = segIdx + 1
    <3>1. progress' = [progress EXCEPT ![goal] = 2 * segIdx + 2]
      BY <2>4, TickRunStep
    <3>2. progress'[goal] = 2 * segIdx + 2
      BY <1>1, <2>2, <3>1
    <3> QED
      BY <1>1, <2>1, <2>4, <3>2 DEF FeedbackInStep
  <2> QED
    BY <2>3, <2>4, TickRunStep
<1>7. FreshIsSilent'
  <2>1. status' = status /\ status[goal] \in Active
    BY <1>1, TickRunCommon DEF SlotOwnsActive
  <2>2. \A g \in Goals : g # goal => progress'[g] = progress[g]
    BY TickRunStep DEF TypeOK
  <2> QED
    BY <2>1, <2>2 DEF FreshIsSilent
<1> QED
  BY <1>2, <1>3, <1>4, <1>5, <1>6, <1>7

-----------------------------------------------------------------------------
(* The invariant is inductive.                                              *)
LEMMA NextKeepsIInv == IInv /\ [Next]_vars => IInv'
<1> SUFFICES ASSUME IInv, [Next]_vars PROVE IInv'
  OBVIOUS
<1>1. CASE UNCHANGED vars
  BY <1>1 DEF vars, segment, handles, IInv, TypeOK, SlotOwnsActive, AimOwned,
              JamWithinSegment, FeedbackInStep, PlanNotEmpty, FreshIsSilent, Seg
<1>2. CASE Tick
  BY <1>2, TickStopKeepsIInv, TickIdleKeepsIInv, TickSucceedKeepsIInv,
     TickRefuseKeepsIInv, TickJamKeepsIInv, TickRunKeepsIInv DEF Tick
<1>3. ASSUME NEW g \in Goals, SendGoal(g) \/ HandleCancel(g) PROVE IInv'
  BY <1>3, SendKeepsIInv, CancelKeepsIInv
<1>4. CASE OnJointState \/ Home \/ Stop \/ (\E f \in Frames : FrameChanges(f))
  BY <1>4, CallbacksKeepIInv
<1> QED
  BY <1>1, <1>2, <1>3, <1>4 DEF Next

(* The inductive invariant holds in every reachable state.                  *)
THEOREM Invariance == Spec => []IInv
<1> QED
  BY InitIInv, NextKeepsIInv, PTL DEF Spec

(* Every member of the server keeps its type (motion_server.cpp).           *)
THEOREM TypeCorrect == Spec => []TypeOK
<1>1. IInv => TypeOK
  BY DEF IInv
<1> QED
  BY <1>1, Invariance, PTL

(* One slot, one open goal handle: handleAccepted, fail and tick close what *)
(* they drop, and drop what they close.                                     *)
THEOREM OneOpenGoal == Spec => []SlotOwnsActive
<1>1. IInv => SlotOwnsActive
  BY DEF IInv
<1> QED
  BY <1>1, Invariance, PTL

(* A goal that was stopped, canceled or failed is driven to no further.     *)
THEOREM NoDriveForDeadGoal == Spec => []AimOwned
<1>1. IInv => AimOwned
  BY DEF IInv
<1> QED
  BY <1>1, Invariance, PTL

(* The jam guard convicts a segment on its own evidence.                    *)
THEOREM JamEvidence == Spec => []JamWithinSegment
<1>1. IInv => JamWithinSegment
  BY DEF IInv
<1> QED
  BY <1>1, Invariance, PTL

(* Contact feedback is out exactly while the segment dwells.                *)
THEOREM FeedbackAgrees == Spec => []FeedbackInStep
<1>1. IInv => FeedbackInStep
  BY DEF IInv
<1> QED
  BY <1>1, Invariance, PTL

-----------------------------------------------------------------------------
(* A requested stop is obeyed before any feedback, any success and any      *)
(* other command, unless a newer goal is accepted first.                    *)
THEOREM StopIsHonoured == Spec => StopHonoured
<1>1. IInv /\ [Next]_vars => [StopStep]_vars
  <2> SUFFICES ASSUME IInv, [Next]_vars, stopRequested
               PROVE  StopStep \/ UNCHANGED vars
    BY DEF StopStep
  <2> USE DEF IInv
  <2>1. CASE UNCHANGED vars
    BY <2>1
  <2>2. CASE TickStop
    <3>1. progress' = progress /\ goal' = NoGoal /\ target' = Hold
      BY <2>2 DEF TickStop, EndGoal, handles
    <3>2. manualMove' = FALSE
      BY <2>2 DEF TickStop, PublishBusy
    <3>3. \A g \in Goals : status'[g] = "succeeded" => status[g] = "succeeded"
      BY <2>2 DEF TickStop, EndGoal, handles, TypeOK
    <3> QED
      BY <3>1, <3>2, <3>3 DEF StopStep
  <2>3. CASE Tick
    BY <2>2, <2>3 DEF Tick, TickIdle, TickSucceed, TickRefuse, TickJam,
                      TickRun, Runs
  <2>4. ASSUME NEW g \in Goals, SendGoal(g) PROVE StopStep
    <3>1. g # goal /\ g # NoGoal
      BY <2>4, NoGoalAssumption DEF SendGoal, SlotOwnsActive
    <3>2. progress' = progress /\ (stopRequested' = stopRequested \/ goal' = g)
      BY <2>4 DEF SendGoal, HandleAccepted
    <3>3. \A h \in Goals : status'[h] = "succeeded" => status[h] = "succeeded"
      BY <2>4 DEF SendGoal, HandleAccepted, TypeOK
    <3> QED
      BY <3>1, <3>2, <3>3 DEF StopStep
  <2>5. ASSUME NEW g \in Goals, HandleCancel(g) PROVE StopStep
    BY <2>5 DEF HandleCancel, StopStep, TypeOK
  <2>6. CASE OnJointState \/ Home \/ Stop \/ (\E f \in Frames : FrameChanges(f))
    BY <2>6 DEF OnJointState, Home, Stop, FrameChanges, handles, StopStep
  <2> QED
    BY <2>1, <2>3, <2>4, <2>5, <2>6 DEF Next
<1> QED
  BY <1>1, Invariance, PTL DEF Spec, StopHonoured

-----------------------------------------------------------------------------
(* The refinement: what clients see of the server is MotionGoals.           *)

(* A server just constructed has made no promise yet.                       *)
LEMMA InitRefines == Init => Contract!Init
BY DEF Init, Contract!Init

(* Closing the goal in the slot is an end of that goal for its client.      *)
LEMMA EndRefines ==
  ASSUME IInv, goal # NoGoal, NEW outcome, NEW code, EndGoal(outcome, code)
  PROVE  goal \in Goals /\ Contract!End(goal, outcome, code)
BY DEF IInv, TypeOK, SlotOwnsActive, EndGoal, Contract!End, Contract!Active

(* Rejecting, accepting and preempting are what the contract allows.        *)
LEMMA SendRefines ==
  ASSUME IInv, NEW g \in Goals, SendGoal(g)
  PROVE  Contract!Reject(g) \/ Contract!Accept(g)
<1> USE DEF IInv
<1>1. CASE status' = [status EXCEPT ![g] = "rejected"]
           /\ UNCHANGED <<result, progress>>
  BY <1>1 DEF SendGoal, Contract!Reject
<1>2. CASE Plan[g] # <<>> /\ HandleAccepted(g)
  <2>1. \A h \in Goals : status[h] \in Contract!Active <=> h = goal
    BY NoGoalAssumption DEF SlotOwnsActive, Contract!Active, TypeOK
  <2>2. status' = [h \in Goals |->
                     IF h = g THEN "executing"
                     ELSE IF status[h] \in Contract!Active THEN "aborted"
                     ELSE status[h]]
    BY <1>2, <2>1 DEF HandleAccepted
  <2>3. result' = [h \in Goals |-> IF status[h] \in Contract!Active
                                   THEN "PREEMPTED" ELSE result[h]]
    BY <1>2, <2>1 DEF HandleAccepted
  <2> QED
    BY <1>2, <2>2, <2>3 DEF SendGoal, HandleAccepted, Contract!Accept
<1> QED
  BY <1>1, <1>2 DEF SendGoal, handles

(* A tick that runs a segment publishes at most the next feedback.          *)
LEMMA TickRunRefines ==
  ASSUME IInv, NEW answer \in Answers, TickRun(answer)
  PROVE  Contract!Report(goal) \/ UNCHANGED Contract!vars
<1> USE DEF IInv
<1>1. goal \in Goals /\ segIdx \in 0 .. Len(Plan[goal]) - 1
      /\ UNCHANGED <<status, result>>
  BY RunsType, TickRunCommon
<1>2. status[goal] \in Contract!Active
  BY <1>1, RunsType, TickRunCommon DEF SlotOwnsActive, Contract!Active
<1>3. Contract!Dwells(goal, segIdx) <=> Seg.dwell > 0
  BY DEF Contract!Dwells, Seg
<1>4. \/ progress' = progress
      \/ progress[goal] = 2 * segIdx /\ Contract!Dwells(goal, segIdx)
         /\ progress' = [progress EXCEPT ![goal] = 2 * segIdx + 1]
      \/ progress[goal] = 2 * segIdx /\ ~Contract!Dwells(goal, segIdx)
         /\ progress' = [progress EXCEPT ![goal] = 2 * segIdx + 2]
      \/ progress[goal] = 2 * segIdx + 1
         /\ progress' = [progress EXCEPT ![goal] = 2 * segIdx + 2]
  BY <1>3, TickRunStep
<1> QED
  BY <1>1, <1>2, <1>4 DEF Contract!Report, Contract!vars

(* Every tick is a step of the contract or invisible to clients.            *)
LEMMA TickRefines ==
  ASSUME IInv, Tick
  PROVE  \/ UNCHANGED Contract!vars
         \/ \E g \in Goals : Contract!Report(g) \/ Contract!Succeed(g)
                              \/ Contract!Canceled(g) \/ Contract!Abort(g)
<1> USE DEF IInv
<1>1. CASE TickStop
  <2>1. CASE goal = NoGoal
    BY <1>1, <2>1 DEF TickStop, handles, Contract!vars
  <2>2. CASE goal # NoGoal /\ status[goal] = "canceling"
    BY <1>1, <2>2, EndRefines DEF TickStop, Contract!Canceled
  <2>3. CASE goal # NoGoal /\ status[goal] # "canceling"
    BY <1>1, <2>3, EndRefines DEF TickStop, Contract!Abort, Contract!Failures
  <2> QED
    BY <2>1, <2>2, <2>3
<1>2. CASE TickIdle
  BY <1>2 DEF TickIdle, handles, Contract!vars
<1>3. CASE TickSucceed
  <2>1. goal \in Goals /\ Contract!End(goal, "succeeded", "SUCCESS")
    BY <1>3, EndRefines DEF TickSucceed
  <2>2. Len(Plan[goal]) \in Nat /\ segIdx \in Nat
    BY <2>1, PlanSeq DEF TypeOK
  <2>3. progress[goal] = 2 * segIdx /\ segIdx = Len(Plan[goal])
    BY <1>3, <2>2 DEF TickSucceed, FeedbackInStep
  <2> QED
    BY <2>1, <2>3 DEF Contract!Succeed
<1>4. CASE TickRefuse
  <2>1. goal # NoGoal /\ Seg \in Segment
    BY <1>4, SegType DEF TickRefuse
  <2>2. PICK code \in StartFailures : EndGoal("aborted", code)
    BY <1>4 DEF TickRefuse, Fail
  <2>3. Seg.kind \in {"joint", "cart", "track"} /\ Seg.frame \in Frames
    BY <2>1 DEF Segment
  <2>4. tf[Seg.frame] \in {"live", "lost", "far"}
    BY <2>3 DEF TypeOK
  <2>5. code \in Contract!Failures
    BY <2>2, <2>3, <2>4 DEF StartFailures, Contract!Failures
  <2> QED
    BY <2>1, <2>2, <2>5, EndRefines DEF Contract!Abort
<1>5. CASE TickJam
  BY <1>5, EndRefines DEF TickJam, Runs, Fail, Contract!Abort, Contract!Failures
<1>6. ASSUME NEW answer \in Answers, TickRun(answer)
      PROVE  UNCHANGED Contract!vars \/ \E g \in Goals : Contract!Report(g)
  BY <1>6, RunsType, TickRunRefines DEF TickRun
<1> QED
  BY <1>1, <1>2, <1>3, <1>4, <1>5, <1>6 DEF Tick

(* The server is an implementation of MotionGoals: every promise made to    *)
(* the clients of the action is kept, for any goals and plans.              *)
THEOREM Refinement == Spec => ImplementsMotionGoals
<1>1. IInv /\ [Next]_vars => [Contract!Next]_(Contract!vars)
  <2> SUFFICES ASSUME IInv, [Next]_vars
               PROVE  Contract!Next \/ UNCHANGED Contract!vars
    OBVIOUS
  <2>1. CASE UNCHANGED vars
    BY <2>1 DEF vars, handles, Contract!vars
  <2>2. CASE Tick
    BY <2>2, TickRefines DEF Contract!Next
  <2>3. ASSUME NEW g \in Goals, SendGoal(g) PROVE Contract!Next
    BY <2>3, SendRefines DEF Contract!Next
  <2>4. ASSUME NEW g \in Goals, HandleCancel(g) PROVE Contract!Next
    BY <2>4 DEF HandleCancel, Contract!AskCancel, Contract!Next
  <2>5. CASE OnJointState \/ Home \/ Stop \/ (\E f \in Frames : FrameChanges(f))
    BY <2>5 DEF OnJointState, Home, Stop, FrameChanges, handles, Contract!vars
  <2> QED
    BY <2>1, <2>2, <2>3, <2>4, <2>5 DEF Next
<1> QED
  BY <1>1, InitRefines, Invariance, PTL
  DEF Spec, ImplementsMotionGoals, Contract!Spec

-----------------------------------------------------------------------------
(* The second refinement: to a client that plans with one slot and its      *)
(* progress, the server is MotionSlot.                                      *)

(* The three ways in which feedback advances are the next points of the     *)
(* slot: nothing it promises to report lies between.                        *)
LEMMA NextPoint ==
  ASSUME NEW g \in Goals, NEW i \in 0 .. Len(Plan[g]) - 1, NEW p, NEW q,
         Plan[g][i + 1].dwell \in Nat,
         \/ p = 2 * i /\ q = 2 * i + 1 /\ Plan[g][i + 1].dwell > 0
         \/ p = 2 * i /\ q = 2 * i + 2 /\ ~(Plan[g][i + 1].dwell > 0)
         \/ p = 2 * i + 1 /\ q = 2 * i + 2
  PROVE  /\ q \in Slot!Contacts(g) \cup Slot!Ends(g)
         /\ p < q
         /\ \A h \in Slot!Contacts(g) \cup Slot!Ends(g) : ~(p < h /\ h < q)
<1>1. Len(Plan[g]) \in Nat /\ i \in Nat /\ i + 1 \in 1 .. Len(Plan[g])
  BY PlanSeq
<1>2. p \in Int /\ q \in Int /\ p < q
  BY <1>1
<1>3. q = 2 * (i + 1) \/ (q = 2 * (i + 1) - 1 /\ Plan[g][i + 1].dwell > 0)
  BY <1>1
<1>4. q \in Slot!Contacts(g) \cup Slot!Ends(g)
  BY <1>1, <1>3 DEF Slot!Contacts, Slot!Ends
<1>5. ASSUME NEW h \in Slot!Contacts(g) PROVE ~(p < h /\ h < q)
  <2>1. PICK j \in 1 .. Len(Plan[g]) : h = 2 * j - 1 /\ Plan[g][j].dwell > 0
    BY <1>5 DEF Slot!Contacts
  <2>2. p < h /\ h < q => j = i + 1 /\ p = 2 * i /\ q = 2 * i + 2
    BY <1>1, <2>1
  <2> QED
    BY <1>1, <2>1, <2>2
<1>6. ASSUME NEW h \in Slot!Ends(g) PROVE ~(p < h /\ h < q)
  <2>1. PICK j \in 1 .. Len(Plan[g]) : h = 2 * j
    BY <1>6 DEF Slot!Ends
  <2> QED
    BY <1>1, <2>1
<1> QED
  BY <1>2, <1>4, <1>5, <1>6

(* A tick that runs a segment publishes the next point, or nothing.         *)
LEMMA TickRunReports ==
  ASSUME IInv, NEW answer \in Answers, TickRun(answer)
  PROVE  Slot!Report \/ UNCHANGED Slot!vars
<1> USE DEF IInv
<1>1. /\ goal \in Goals /\ goal # NoGoal /\ goal' = goal
      /\ segIdx \in 0 .. Len(Plan[goal]) - 1 /\ Seg \in Segment
  BY RunsType, TickRunCommon
<1>2. Seg.dwell \in Nat /\ progress \in [Goals -> Nat]
  BY <1>1 DEF Segment, TypeOK
<1>3. \/ progress' = progress
      \/ progress[goal] = 2 * segIdx /\ progress'[goal] = 2 * segIdx + 1
         /\ Seg.dwell > 0
      \/ progress[goal] = 2 * segIdx /\ progress'[goal] = 2 * segIdx + 2
         /\ ~(Seg.dwell > 0)
      \/ progress[goal] = 2 * segIdx + 1 /\ progress'[goal] = 2 * segIdx + 2
  BY <1>1, <1>2, TickRunStep
<1>4. CASE progress' = progress
  BY <1>1, <1>4 DEF Slot!vars
<1>5. CASE progress' # progress
  <2>1. /\ progress'[goal] \in Slot!Contacts(goal) \cup Slot!Ends(goal)
        /\ progress[goal] < progress'[goal]
        /\ \A h \in Slot!Contacts(goal) \cup Slot!Ends(goal) :
             ~(progress[goal] < h /\ h < progress'[goal])
    BY <1>1, <1>2, <1>3, <1>5, NextPoint DEF Seg
  <2> QED
    BY <1>1, <2>1 DEF Slot!Report
<1> QED
  BY <1>4, <1>5

(* Every other tick leaves the slot alone or empties it.                    *)
LEMMA TickKeepsSlot ==
  ASSUME IInv, Tick
  PROVE  Slot!Report \/ Slot!Over \/ UNCHANGED Slot!vars
<1>1. CASE TickStop
  BY <1>1 DEF TickStop, EndGoal, handles, Slot!Over, Slot!vars
<1>2. CASE TickIdle
  BY <1>2 DEF TickIdle, handles, Slot!vars
<1>3. CASE TickSucceed
  BY <1>3 DEF TickSucceed, EndGoal, Slot!Over
<1>4. CASE TickRefuse \/ TickJam
  BY <1>4 DEF TickRefuse, TickJam, Runs, Fail, EndGoal, Slot!Over
<1>5. ASSUME NEW answer \in Answers, TickRun(answer)
      PROVE  Slot!Report \/ UNCHANGED Slot!vars
  BY <1>5, TickRunReports
<1> QED
  BY <1>1, <1>2, <1>3, <1>4, <1>5 DEF Tick

(* A goal that is accepted takes the slot and starts at zero.               *)
LEMMA SendTakesSlot ==
  ASSUME IInv, NEW g \in Goals, SendGoal(g)
  PROVE  Slot!Take(g) \/ UNCHANGED Slot!vars
<1>1. status[g] = "unknown" /\ progress[g] = 0 /\ g # NoGoal
  BY NoGoalAssumption DEF SendGoal, IInv, FreshIsSilent
<1> QED
  BY <1>1 DEF SendGoal, HandleAccepted, Slot!Take, Slot!vars

(* What the pick and place task relies on when it fires and releases the    *)
(* vacuum on progress values holds of the server, for any goals and plans.  *)
THEOREM SlotRefinement == Spec => ImplementsMotionSlot
<1>1. Init => Slot!Init
  BY DEF Init, Slot!Init
<1>2. IInv /\ [Next]_vars => [Slot!Next]_(Slot!vars)
  <2> SUFFICES ASSUME IInv, [Next]_vars
               PROVE  Slot!Next \/ UNCHANGED Slot!vars
    OBVIOUS
  <2>1. CASE UNCHANGED vars
    BY <2>1 DEF vars, handles, Slot!vars
  <2>2. CASE Tick
    BY <2>2, TickKeepsSlot DEF Slot!Next
  <2>3. ASSUME NEW g \in Goals, SendGoal(g) PROVE Slot!Next \/ UNCHANGED Slot!vars
    BY <2>3, SendTakesSlot DEF Slot!Next
  <2>4. ASSUME NEW g \in Goals, HandleCancel(g) PROVE UNCHANGED Slot!vars
    BY <2>4 DEF HandleCancel, Slot!vars
  <2>5. CASE OnJointState \/ Home \/ Stop \/ (\E f \in Frames : FrameChanges(f))
    BY <2>5 DEF OnJointState, Home, Stop, FrameChanges, handles, Slot!vars
  <2> QED
    BY <2>1, <2>2, <2>3, <2>4, <2>5 DEF Next
<1> QED
  BY <1>1, <1>2, Invariance, PTL DEF Spec, ImplementsMotionSlot, Slot!Spec
=============================================================================
