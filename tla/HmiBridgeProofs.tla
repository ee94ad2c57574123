-------------------------- MODULE HmiBridgeProofs --------------------------
(***************************************************************************)
(* Proofs about the operator's panel, for any number of runs, failures and *)
(* topics: its types, that there is one run_cycle at a time, and that the  *)
(* history and the status tell the truth.                                  *)
(***************************************************************************)
EXTENDS HmiBridge, TLAPS

(* Processes come one after the other; only the last can be alive.          *)
LastAlive ==
  \A r \in Runs : /\ life[r] # "none" => r <= proc
                  /\ life[r] \in Alive => r = proc

(* A run that has just been started, or may still publish, is alive and has *)
(* its output read.                                                         *)
StartingRuns == web = "reset" => Running
OutputRead == Running => proc \in pumps
WireAlive == \A i \in 1 .. Len(wire) : life[wire[i].run] \in Alive

RecipeLatest == recipe = proc

(* The status is settled once the output of the last process was read, even *)
(* if the reader of an earlier one is still to come.                        *)
Told == proc # 0 /\ ~Running /\ proc \notin pumps
          => state \in {"finished", "stopped"}

(* A run reports its end once: it is not recorded before, nor recorded when *)
(* the report is still on its way.                                          *)
Unrecorded(r) == \A h \in 1 .. Len(history) : history[h].run # r
EndTold(i) == wire[i].state = "finished"
EndOnce ==
  /\ proc # 0 /\ life[proc] = "up"
       => Unrecorded(proc) /\ \A i \in 1 .. Len(wire) : ~EndTold(i)
  /\ \A i \in 1 .. Len(wire) :
       EndTold(i) => /\ Unrecorded(wire[i].run)
                     /\ \A j \in 1 .. Len(wire) : EndTold(j) => j = i
  /\ \A h \in 1 .. Len(history) : history[h].run <= proc

IInv == /\ TypeOK /\ LastAlive /\ StartingRuns /\ OutputRead /\ WireAlive
        /\ RecipeLatest /\ Told /\ EndOnce /\ HistoryTrue

USE DEF Runs

(* A panel just started satisfies the invariant.                            *)
LEMMA InitIInv == Init => IInv
<1> SUFFICES ASSUME Init PROVE IInv
  OBVIOUS
<1>1. TypeOK
  <2>1. 0 \in 0 .. MaxRuns /\ 0 \in 0 .. MaxFailures /\ 0 <= MaxWire
    BY AlarmsAssumption
  <2>2. \A S : <<>> \in Seq(S)
    OBVIOUS
  <2> QED
    BY <2>1, <2>2 DEF Init, TypeOK, AlarmStates
<1>2. LastAlive /\ StartingRuns /\ OutputRead /\ WireAlive /\ RecipeLatest
  BY DEF Init, LastAlive, StartingRuns, OutputRead, WireAlive, RecipeLatest,
         Running, Alive
<1>3. Told /\ EndOnce /\ HistoryTrue
  BY DEF Init, Told, EndOnce, HistoryTrue
<1> QED
  BY <1>1, <1>2, <1>3 DEF IInv

(* A message under way is of some run.                                      *)
LEMMA WireType ==
  ASSUME TypeOK
  PROVE  /\ Len(wire) \in Nat
         /\ \A i \in 1 .. Len(wire) : wire[i].run \in Runs
<1> DEFINE Entry == [run : Runs, state : {"running", "finished"},
                     failures : 0 .. MaxFailures]
<1>1. wire \in Seq(Entry)
  BY DEF TypeOK
<1>2. \A e \in Entry : e.run \in Runs
  OBVIOUS
<1> HIDE DEF Entry
<1>3. \A i \in 1 .. Len(wire) : wire[i] \in Entry
  BY <1>1
<1>4. Len(wire) \in Nat
  BY <1>1
<1> QED
  BY <1>2, <1>3, <1>4

(* So is an entry of the history.                                          *)
LEMMA HistoryType ==
  ASSUME TypeOK
  PROVE  /\ Len(history) \in Nat
         /\ \A h \in 1 .. Len(history) : history[h].run \in Runs
<1> DEFINE Entry == [run : Runs, as : 0 .. MaxRuns]
<1>1. history \in Seq(Entry)
  BY DEF TypeOK
<1>2. \A e \in Entry : e.run \in Runs
  OBVIOUS
<1> HIDE DEF Entry
<1>3. \A h \in 1 .. Len(history) : history[h] \in Entry
  BY <1>1
<1>4. Len(history) \in Nat
  BY <1>1
<1> QED
  BY <1>2, <1>3, <1>4

(* What appending to a sequence leaves of it.                               *)
LEMMA AppendFacts ==
  ASSUME NEW S, NEW q \in Seq(S), NEW e \in S
  PROVE  /\ Append(q, e) \in Seq(S)
         /\ Len(q) \in Nat /\ Len(Append(q, e)) = Len(q) + 1
         /\ \A i \in 1 .. Len(q) : Append(q, e)[i] = q[i]
         /\ Append(q, e)[Len(q) + 1] = e
OBVIOUS

(* The life of an alarm stays among its states.                             *)
LEMMA AlarmType ==
  ASSUME NEW s \in AlarmStates
  PROVE  RaiseAlarm(s) \in AlarmStates /\ ClearAlarm(s) \in AlarmStates
BY DEF AlarmStates, RaiseAlarm, ClearAlarm, Active

(* Collecting a process that has exited concerns no other, and none alive.  *)
LEMMA PollLives ==
  ASSUME TypeOK, Poll
  PROVE  /\ life' \in [Runs -> Alive \cup {"none", "exited", "reaped"}]
         /\ \A r \in Runs : \/ life'[r] = life[r]
                            \/ life[r] = "exited" /\ life'[r] = "reaped"
BY DEF TypeOK, Poll, Alive

(* Alarms, data and refusals touch neither processes nor what is told.      *)
LEMMA QuietKeeps ==
  ASSUME IInv,
         \/ \E which \in SUBSET Alarms : AckAlarm(which)
         \/ StartRefused \/ KillFails \/ EstopEnds \/ HealthTick
         \/ DataChanges \/ UNCHANGED vars
  PROVE  IInv'
<1> USE DEF IInv
<1>1. /\ UNCHANGED <<proc, life, failed, wire, pumps, shown>>
      /\ web' = web \/ web' = "idle"
  BY DEF AckAlarm, StartRefused, KillFails, EstopEnds, HealthTick, DataChanges,
         vars, process, loop
<1>2. alarms' \in [Alarms -> AlarmStates]
  <2>1. CASE \E which \in SUBSET Alarms : AckAlarm(which)
    BY <2>1 DEF AckAlarm, TypeOK, AlarmStates, Active
  <2>2. CASE EstopEnds
    BY <2>2, AlarmType DEF EstopEnds, TypeOK
  <2>3. CASE HealthTick
    BY <2>3, AlarmType DEF HealthTick, TypeOK
  <2>4. CASE StartRefused \/ KillFails \/ DataChanges \/ UNCHANGED vars
    BY <2>4 DEF StartRefused, KillFails, DataChanges, vars, TypeOK
  <2> QED
    BY <2>1, <2>2, <2>3, <2>4
<1>3. TypeOK'
  BY <1>1, <1>2 DEF TypeOK, AckAlarm, StartRefused, KillFails, EstopEnds,
         HealthTick, DataChanges, vars, process, loop, shown
<1>4. (/\ LastAlive /\ StartingRuns /\ OutputRead /\ WireAlive
       /\ RecipeLatest /\ Told /\ EndOnce /\ HistoryTrue)'
  BY <1>1 DEF shown, LastAlive, StartingRuns, OutputRead, WireAlive,
         RecipeLatest, Told, EndOnce, HistoryTrue, Running, EndTold, Unrecorded
<1> QED
  BY <1>3, <1>4

(* Polls on any thread, and the signal, end no process and start none.      *)
LEMMA PollsKeep ==
  ASSUME IInv,
         \/ \E emergency \in BOOLEAN : StopRun(emergency)
         \/ Kill \/ HealthPoll \/ Snapshot
  PROVE  IInv'
<1> USE DEF IInv
<1>1. /\ life' \in [Runs -> Alive \cup {"none", "exited", "reaped"}]
      /\ \A r \in Runs : /\ life'[r] \in Alive <=> life[r] \in Alive
                         /\ life'[r] = "up" => life[r] = "up"
                         /\ life'[r] # "none" => life[r] # "none"
                         /\ life[r] # "none" => life'[r] # "none"
  <2>1. CASE Poll
    BY <2>1, PollLives DEF Alive
  <2>2. CASE Kill
    BY <2>2 DEF Kill, TypeOK, Alive
  <2> QED
    BY <2>1, <2>2 DEF StopRun, HealthPoll, Snapshot
<1>2. /\ UNCHANGED <<proc, failed, wire, pumps, shown, fresh, alarms>>
      /\ web' = web \/ web' \in {"kill", "belts", "idle"}
  BY DEF StopRun, Kill, HealthPoll, Snapshot, loop
<1>3. /\ web' \in {"idle", "reset", "kill", "belts"} /\ estopping' \in BOOLEAN
      /\ web' = "kill" => proc # 0
      /\ tick' \in {"idle", "running", "quiet"}
  BY DEF StopRun, Kill, HealthPoll, Snapshot, loop, TypeOK, Running
<1>4. TypeOK'
  BY <1>1, <1>2, <1>3 DEF TypeOK, shown
<1>5. Running' <=> Running
  BY <1>1, <1>2 DEF Running, TypeOK
<1>6. (/\ LastAlive /\ StartingRuns /\ OutputRead /\ WireAlive
       /\ RecipeLatest /\ Told)'
  BY <1>1, <1>2, <1>5, WireType DEF shown, LastAlive, StartingRuns, OutputRead,
         WireAlive, RecipeLatest, Told
<1>7. (EndOnce /\ HistoryTrue)'
  <2>1. proc # 0 => proc \in Runs
    BY DEF TypeOK
  <2> QED
    BY <1>1, <1>2, <2>1 DEF shown, EndOnce, HistoryTrue, EndTold, Unrecorded
<1> QED
  BY <1>4, <1>6, <1>7

(* A run is started only when the one before is gone, and what that one     *)
(* published has arrived.                                                   *)
LEMMA StartKeeps ==
  ASSUME IInv, StartRun
  PROVE  IInv'
<1> USE DEF IInv
<1>1. /\ proc' = proc + 1 /\ proc' \in Runs /\ recipe' = proc + 1
      /\ proc \in 0 .. MaxRuns
      /\ life' = [life EXCEPT ![proc + 1] = "up"]
      /\ life \in [Runs -> Alive \cup {"none", "exited", "reaped"}]
      /\ pumps' = pumps \cup {proc + 1} /\ web' = "reset"
      /\ UNCHANGED <<wire, state, seen, runStart, history>>
  BY AlarmsAssumption DEF StartRun, TypeOK
<1>2. \A r \in Runs : life[r] \notin Alive
  BY DEF StartRun, LastAlive, Running
<1>3. 1 .. Len(wire) = {}
  BY <1>2, WireType DEF WireAlive
<1>4. TypeOK'
  BY <1>1, AlarmsAssumption DEF StartRun, TypeOK, Alive
<1>5. LastAlive'
  BY <1>1, <1>2 DEF LastAlive
<1>6. Running'
  BY <1>1 DEF Running, Alive
<1>7. (StartingRuns /\ OutputRead /\ WireAlive /\ RecipeLatest /\ Told)'
  BY <1>1, <1>3, <1>6 DEF StartingRuns, OutputRead, WireAlive, RecipeLatest,
         Told
<1>8. (EndOnce /\ HistoryTrue)'
  <2>1. \A h \in 1 .. Len(history) : history[h].run \in Nat
    BY HistoryType
  <2>2. \A h \in 1 .. Len(history) : history[h].run < proc'
    BY <1>1, <2>1 DEF EndOnce
  <2> QED
    BY <1>1, <1>3, <2>1, <2>2 DEF EndOnce, HistoryTrue, EndTold, Unrecorded
<1> QED
  BY <1>4, <1>5, <1>7, <1>8

(* The reset of the status finds its run alive.                             *)
LEMMA ResetKeeps ==
  ASSUME IInv, ResetStatus
  PROVE  IInv'
<1> USE DEF IInv
<1>1. TypeOK'
  BY AlarmsAssumption DEF ResetStatus, TypeOK, process
<1>2. Running /\ Running'
  BY DEF ResetStatus, StartingRuns, Running, process
<1>3. (/\ LastAlive /\ StartingRuns /\ OutputRead /\ WireAlive
       /\ RecipeLatest /\ Told)'
  BY <1>2 DEF ResetStatus, process, LastAlive, StartingRuns, OutputRead,
         WireAlive, RecipeLatest, Told
<1>4. (EndOnce /\ HistoryTrue)'
  BY DEF ResetStatus, process, EndOnce, HistoryTrue, EndTold, Unrecorded
<1> QED
  BY <1>1, <1>3, <1>4

(* The end of the output settles the status, whichever run it is of.        *)
LEMMA PumpKeeps ==
  ASSUME IInv, NEW r \in Runs, Pump(r)
  PROVE  IInv'
<1> USE DEF IInv
<1>1. TypeOK'
  BY DEF Pump, TypeOK, process, loop
<1>2. life[r] \notin Alive /\ (Running' <=> Running)
  BY DEF Pump, Alive, Running, process, loop
<1>3. (/\ LastAlive /\ StartingRuns /\ OutputRead /\ WireAlive
       /\ RecipeLatest /\ Told)'
  BY <1>2 DEF Pump, process, loop, LastAlive, StartingRuns, OutputRead,
         WireAlive, RecipeLatest, Told, Running
<1>4. (EndOnce /\ HistoryTrue)'
  BY DEF Pump, process, loop, EndOnce, HistoryTrue, EndTold, Unrecorded
<1> QED
  BY <1>1, <1>3, <1>4

(* What taking the first message leaves of the others.                      *)
LEMMA TailWire ==
  ASSUME TypeOK, wire # <<>>, wire' = Tail(wire)
  PROVE  /\ 1 \in 1 .. Len(wire) /\ Head(wire) = wire[1]
         /\ Len(wire') = Len(wire) - 1
         /\ \A i \in 1 .. Len(wire') : /\ i + 1 \in 1 .. Len(wire)
                                       /\ wire'[i] = wire[i + 1]
         /\ wire' \in Seq([run : Runs, state : {"running", "finished"},
                           failures : 0 .. MaxFailures])
         /\ Head(wire).state \in {"running", "finished"}
         /\ Head(wire).failures \in 0 .. MaxFailures
<1> DEFINE Entry == [run : Runs, state : {"running", "finished"},
                     failures : 0 .. MaxFailures]
<1>1. wire \in Seq(Entry)
  BY DEF TypeOK
<1>2. \A e \in Entry : /\ e.state \in {"running", "finished"}
                       /\ e.failures \in 0 .. MaxFailures
  OBVIOUS
<1> HIDE DEF Entry
<1>3. /\ 1 \in 1 .. Len(wire) /\ Head(wire) = wire[1] /\ wire[1] \in Entry
      /\ Len(wire') = Len(wire) - 1 /\ wire' \in Seq(Entry)
      /\ \A i \in 1 .. Len(wire') : /\ i + 1 \in 1 .. Len(wire)
                                    /\ wire'[i] = wire[i + 1]
  BY <1>1
<1> QED
  BY <1>2, <1>3 DEF Entry

(* A status is of the run that is alive, and settles nothing by itself.     *)
LEMMA StatusKeeps ==
  ASSUME IInv, OnStatus
  PROVE  IInv'
<1> USE DEF IInv
<1>1. /\ wire # <<>> /\ wire' = Tail(wire) /\ state' = Head(wire).state
      /\ UNCHANGED <<life, failed, proc, web, estopping, tick, pumps, recipe,
                     fresh>>
      /\ \/ /\ seen' = Head(wire).failures /\ Head(wire).failures > seen
            /\ alarms' = [alarms EXCEPT ![Head(wire).failures] = RaiseAlarm(@)]
         \/ UNCHANGED <<seen, alarms>>
      /\ \/ UNCHANGED <<history, runStart>>
         \/ /\ Head(wire).state = "finished" /\ runStart' = FALSE
            /\ history' = Append(history, [run |-> Head(wire).run,
                                           as |-> recipe])
  BY DEF OnStatus, SaveHistory, loop
<1>2. /\ 1 \in 1 .. Len(wire) /\ Head(wire) = wire[1]
      /\ \A i \in 1 .. Len(wire') : /\ i + 1 \in 1 .. Len(wire)
                                    /\ wire'[i] = wire[i + 1]
  BY <1>1, TailWire
<1>3. /\ wire[1].run = proc /\ recipe = proc /\ proc \in Runs
      /\ life[proc] \in Alive /\ Running /\ Running'
  BY <1>1, <1>2, WireType DEF WireAlive, LastAlive, RecipeLatest, Running,
     TypeOK
<1>4. TypeOK'
  <2>1. /\ wire' \in Seq([run : Runs, state : {"running", "finished"},
                          failures : 0 .. MaxFailures])
        /\ Len(wire') <= MaxWire
        /\ state' \in {"running", "finished"} /\ seen' \in 0 .. MaxFailures
    <3>1. /\ Len(wire) \in Nat /\ Len(wire) <= MaxWire /\ MaxWire \in Nat
          /\ seen \in 0 .. MaxFailures
      BY WireType, AlarmsAssumption DEF TypeOK
    <3>2. /\ Len(wire') = Len(wire) - 1
          /\ wire' \in Seq([run : Runs, state : {"running", "finished"},
                            failures : 0 .. MaxFailures])
          /\ Head(wire).state \in {"running", "finished"}
          /\ Head(wire).failures \in 0 .. MaxFailures
      BY <1>1, TailWire
    <3> QED
      BY <1>1, <3>1, <3>2
  <2>2. history' \in Seq([run : Runs, as : 0 .. MaxRuns])
    <3> DEFINE Entry == [run : Runs, as : 0 .. MaxRuns]
    <3>1. [run |-> Head(wire).run, as |-> recipe] \in Entry
      BY <1>2, <1>3 DEF TypeOK
    <3>2. history \in Seq(Entry)
      BY DEF TypeOK
    <3> HIDE DEF Entry
    <3>3. history' \in Seq(Entry)
      BY <1>1, <3>1, <3>2, AppendFacts
    <3> QED
      BY <3>3 DEF Entry
  <2>3. alarms' \in [Alarms -> AlarmStates]
    BY <1>1, AlarmType DEF TypeOK
  <2>4. runStart' \in BOOLEAN
    BY <1>1 DEF TypeOK
  <2> QED
    BY <1>1, <2>1, <2>2, <2>3, <2>4 DEF TypeOK
<1>5. (/\ LastAlive /\ StartingRuns /\ OutputRead /\ WireAlive
       /\ RecipeLatest /\ Told)'
  BY <1>1, <1>2, <1>3 DEF LastAlive, StartingRuns, OutputRead, WireAlive,
     RecipeLatest, Told
<1>6. CASE UNCHANGED history
  <2>1. \A i \in 1 .. Len(wire') : \A j \in 1 .. Len(wire') :
          i + 1 = j + 1 => i = j
    OBVIOUS
  <2>2. EndOnce'
    BY <1>1, <1>2, <1>6, <2>1 DEF EndOnce, EndTold, Unrecorded
  <2>3. HistoryTrue'
    BY <1>6 DEF HistoryTrue
  <2> QED
    BY <1>4, <1>5, <2>2, <2>3
<1>7. CASE /\ wire[1].state = "finished"
           /\ history' = Append(history, [run |-> proc, as |-> proc])
  <2>1. /\ Len(history) \in Nat /\ Len(history') = Len(history) + 1
        /\ \A h \in 1 .. Len(history) : history'[h] = history[h]
        /\ history'[Len(history) + 1] = [run |-> proc, as |-> proc]
    <3>1. [run |-> proc, as |-> proc] \in [run : Runs, as : 0 .. MaxRuns]
      BY <1>3 DEF TypeOK
    <3>2. history \in Seq([run : Runs, as : 0 .. MaxRuns])
      BY DEF TypeOK
    <3> QED
      BY <1>7, <3>1, <3>2, AppendFacts
  <2>2. \A h \in 1 .. Len(history) : /\ history[h].run \in Nat
                                     /\ history[h].run < proc
    BY <1>2, <1>3, <1>7, HistoryType DEF EndOnce, EndTold, Unrecorded
  <2>3. \A i \in 1 .. Len(wire') : wire'[i].state # "finished"
    BY <1>2, <1>7 DEF EndOnce, EndTold
  <2>4. life[proc] # "up"
    BY <1>2, <1>3, <1>7 DEF EndOnce, EndTold
  <2>5. EndOnce'
    BY <1>1, <1>3, <2>1, <2>2, <2>3, <2>4 DEF EndOnce, EndTold
  <2>6. HistoryTrue'
    BY <1>3, <2>1, <2>2 DEF HistoryTrue
  <2> QED
    BY <1>4, <1>5, <2>5, <2>6
<1> QED
  BY <1>1, <1>2, <1>3, <1>4, <1>5, <1>6, <1>7 DEF EndTold

(* The process publishes: its end once, and nothing after that.             *)
LEMMA PublishKeeps ==
  ASSUME IInv, NEW r \in Runs, TaskReports(r) \/ TaskFinishes(r)
  PROVE  IInv'
<1> USE DEF IInv
<1> DEFINE Entry == [run : Runs, state : {"running", "finished"},
                     failures : 0 .. MaxFailures]
<1>1. PICK m \in Entry :
        /\ m.run = r /\ wire' = Append(wire, m) /\ Len(wire) < MaxWire
        /\ m.state = "finished" => life' = [life EXCEPT ![r] = "done"]
        /\ m.state # "finished" => life' = life
  BY DEF TaskReports, TaskFinishes, Publish, TypeOK
<1>2. /\ life[r] = "up" /\ failed' \in 0 .. MaxFailures
      /\ UNCHANGED <<loop, tick, pumps, shown, fresh, alarms>>
  BY DEF TaskReports, TaskFinishes, TypeOK
<1>3. r = proc /\ proc # 0 /\ Running
  BY <1>2 DEF LastAlive, Alive, Running
<1>4. wire \in Seq(Entry)
  BY DEF TypeOK
<1> HIDE DEF Entry
<1>5. /\ wire' \in Seq(Entry) /\ Len(wire) \in Nat /\ Len(wire') = Len(wire) + 1
      /\ \A i \in 1 .. Len(wire) : wire'[i] = wire[i]
      /\ wire'[Len(wire) + 1] = m
  BY <1>1, <1>4, AppendFacts
<1>6. /\ life' \in [Runs -> Alive \cup {"none", "exited", "reaped"}]
      /\ life'[r] \in {"up", "done"}
      /\ \A q \in Runs : q # r => life'[q] = life[q]
      /\ life'[r] = "up" => m.state # "finished"
  BY <1>1, <1>2 DEF TypeOK, Alive
<1>7. TypeOK'
  <2>1. Len(wire') <= MaxWire
    BY <1>1, <1>5, AlarmsAssumption
  <2> QED
    BY <1>2, <1>5, <1>6, <2>1 DEF TypeOK, loop, shown, Entry
<1>8. Running'
  BY <1>2, <1>3, <1>6 DEF Running, Alive, loop
<1>9. (/\ LastAlive /\ StartingRuns /\ OutputRead /\ RecipeLatest /\ Told)'
  BY <1>2, <1>3, <1>6, <1>8 DEF LastAlive, StartingRuns, OutputRead,
     RecipeLatest, Told, loop, shown, Alive
<1>10. WireAlive'
  BY <1>1, <1>5, <1>6, WireType DEF WireAlive, Alive
<1>11. /\ Unrecorded(proc)
       /\ \A i \in 1 .. Len(wire) : wire[i].state # "finished"
  BY <1>2, <1>3 DEF EndOnce, EndTold
<1>12. (EndOnce /\ HistoryTrue)'
  BY <1>1, <1>2, <1>3, <1>5, <1>6, <1>11 DEF EndOnce, HistoryTrue, EndTold,
     Unrecorded, loop, shown
<1> QED
  BY <1>7, <1>9, <1>10, <1>12

(* A process exits with nothing of it left on the way.                      *)
LEMMA ExitKeeps ==
  ASSUME IInv, NEW r \in Runs, TaskExits(r)
  PROVE  IInv'
<1> USE DEF IInv
<1>1. /\ life[r] \in Alive /\ life' = [life EXCEPT ![r] = "exited"]
      /\ web # "reset" /\ \A i \in 1 .. Len(wire) : wire[i].run # r
      /\ UNCHANGED <<failed, wire, loop, tick, pumps, shown, fresh, alarms>>
  BY DEF TaskExits, Prompt
<1>2. r = proc /\ proc \in pumps
  BY <1>1 DEF LastAlive, OutputRead, Running, TypeOK
<1>3. TypeOK'
  BY <1>1 DEF TypeOK, loop, shown
<1>4. ~Running'
  BY <1>1, <1>2 DEF Running, Alive, loop, TypeOK
<1>5. (/\ LastAlive /\ StartingRuns /\ OutputRead /\ RecipeLatest /\ Told)'
  BY <1>1, <1>2, <1>4 DEF LastAlive, StartingRuns, OutputRead, RecipeLatest,
     Told, loop, shown, Alive, TypeOK
<1>6. WireAlive'
  BY <1>1, WireType DEF WireAlive, TypeOK
<1>7. (EndOnce /\ HistoryTrue)'
  BY <1>1, <1>2 DEF EndOnce, HistoryTrue, EndTold, Unrecorded, loop, shown,
     TypeOK
<1> QED
  BY <1>3, <1>5, <1>6, <1>7

(* The inductive invariant, and what the panel promises by it.              *)
THEOREM PanelInvariance == Spec => []IInv
<1>1. Init => IInv
  BY InitIInv
<1>2. IInv /\ [Next]_vars => IInv'
  <2> SUFFICES ASSUME IInv, [Next]_vars PROVE IInv'
    OBVIOUS
  <2>1. CASE StartRefused \/ KillFails \/ EstopEnds \/ HealthTick
             \/ DataChanges \/ UNCHANGED vars \/ AckAlarm(Alarms)
             \/ \E a \in Alarms : AckAlarm({a})
    BY <2>1, QuietKeeps
  <2>2. CASE (\E emergency \in BOOLEAN : StopRun(emergency)) \/ Kill
             \/ HealthPoll \/ Snapshot
    BY <2>2, PollsKeep
  <2>3. CASE StartRun \/ ResetStatus \/ OnStatus
    BY <2>3, StartKeeps, ResetKeeps, StatusKeeps
  <2>4. CASE \E r \in Runs : Pump(r) \/ Task(r)
    BY <2>4, PumpKeeps, PublishKeeps, ExitKeeps DEF Task
  <2> QED
    BY <2>1, <2>2, <2>3, <2>4 DEF Next, Web
<1> QED
  BY <1>1, <1>2, PTL DEF Spec

(* Every variable of the panel keeps its type.                              *)
THEOREM PanelTypeCorrect == Spec => []TypeOK
<1>1. IInv => TypeOK
  BY DEF IInv
<1> QED
  BY <1>1, PanelInvariance, PTL

(* One run_cycle at a time commands the arm, those on their way out counted.*)
THEOREM OneTaskAtATime == Spec => []OneTask
<1>1. IInv => OneTask
  BY DEF IInv, LastAlive, OneTask
<1> QED
  BY <1>1, PanelInvariance, PTL

(* The history has each finished run once, under the recipe it was started  *)
(* with.                                                                    *)
THEOREM HistoryIsTrue == Spec => []HistoryTrue
<1>1. IInv => HistoryTrue
  BY DEF IInv
<1> QED
  BY <1>1, PanelInvariance, PTL

(* When the last process is gone and its output read, the panel says so.    *)
THEOREM StatusIsTold == Spec => []StateTold
<1>1. IInv => StateTold
  BY DEF IInv, Told, StateTold
<1> QED
  BY <1>1, PanelInvariance, PTL
=============================================================================
