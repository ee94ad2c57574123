----------------------------- MODULE HmiBridge -----------------------------
(***************************************************************************)
(* The operator's panel (togsim_hmi/server.py): it starts run_cycle as a   *)
(* process and interrupts it, keeps the status the process publishes, the  *)
(* history of finished runs, and the alarms.  Three kinds of threads meet  *)
(* in it: the event loop runs one operator's command at a time; the rclpy  *)
(* thread takes messages and the health timer; a thread per run reads the  *)
(* output of the process.  Between two uses of the lock any of the others, *)
(* and the process itself, may go on.                                      *)
(*                                                                         *)
(* A recipe is named by the run it was meant for.  The belts, and what the *)
(* panel shows of trays, products and joints, are left out.                *)
(***************************************************************************)
EXTENDS Integers, Sequences

CONSTANTS
  Topics,       \* the topics whose age is watched
  Estop,        \* the alarm of the emergency stop
  MaxRuns,      \* bound: runs started
  MaxFailures,  \* bound: failures a run reports
  MaxWire       \* bound: status messages under way

Runs == 1 .. MaxRuns
FailureAlarms == 1 .. MaxFailures    \* "fail_<kind>_<n>", of one kind
Alarms == {Estop} \cup Topics \cup FailureAlarms

ASSUME AlarmsAssumption ==
  /\ Estop \notin Topics /\ (Topics \cup {Estop}) \cap FailureAlarms = {}
  /\ MaxRuns \in Nat /\ MaxFailures \in Nat /\ MaxWire \in Nat

VARIABLES
  proc,      \* self.proc, by number; 0 for None
  life,      \* life[r]: the process of run r
  failed,    \* failures the running process has counted
  wire,      \* its status messages on their way
  web,       \* what the event loop is in the middle of
  estopping, \* the stop it is in the middle of is an emergency stop
  tick,      \* whether the health timer, between its two halves, saw a run
  pumps,     \* the runs whose output is still read
  state,     \* status["state"]
  seen,      \* seen_failures
  runStart,  \* run_start is set
  recipe,    \* recipe
  history,   \* history
  fresh,     \* the topics with data within their limit
  alarms     \* alarms

process == <<life, failed, wire>>
loop == <<proc, web, estopping>>
shown == <<state, seen, runStart, recipe, history>>
vars == <<process, loop, tick, pumps, shown, fresh, alarms>>

(* An alarm: none; active or not (cleared), acknowledged or not.            *)
AlarmStates == {"none", "raised", "acked", "cleared", "closed"}
Active == {"raised", "acked"}

Alive == {"up", "done", "signalled"}     \* "done": it published "finished"
Running == proc # 0 /\ life[proc] \in Alive

Init ==
  /\ proc = 0 /\ life = [r \in Runs |-> "none"] /\ failed = 0 /\ wire = <<>>
  /\ web = "idle" /\ estopping = FALSE /\ tick = "idle" /\ pumps = {}
  /\ state = "idle" /\ seen = 0 /\ runStart = FALSE /\ recipe = 0
  /\ history = <<>> /\ fresh = {}
  /\ alarms = [a \in Alarms |-> "none"]

-----------------------------------------------------------------------------
(* Alarms.                                                                  *)

(* An alarm that is still active is not raised again.                       *)
RaiseAlarm(s) == IF s \in Active THEN s ELSE "raised"

(* A bug to tell apart: an alarm that is over stays active.                 *)
ClearAlarmNever(s) == s

ClearAlarm(s) ==
  CASE s = "raised" -> "cleared" [] s = "acked" -> "closed" [] OTHER -> s

(* Whatever is named, all that are cleared and acknowledged are dropped.    *)
AckAlarm(which) ==
  /\ alarms' = [a \in Alarms |->
       CASE alarms[a] \in Active -> IF a \in which THEN "acked" ELSE alarms[a]
         [] alarms[a] = "cleared" -> IF a \in which THEN "none" ELSE "cleared"
         [] OTHER -> "none"]
  /\ web = "idle"
  /\ UNCHANGED <<process, loop, tick, pumps, shown, fresh>>

-----------------------------------------------------------------------------
(* The event loop: POST run, stop and estop.                                *)

(* poll() collects a process that has exited.                               *)
Poll == life' = [r \in Runs |-> IF r = proc /\ life[r] = "exited" THEN "reaped"
                                ELSE life[r]]

(* A bug to tell apart: the recipe is kept before the run is refused.       *)
StartRefusedLate ==
  /\ web = "idle" /\ Running
  /\ recipe' \in Runs
  /\ UNCHANGED <<process, loop, tick, pumps, state, seen, runStart, history,
                 fresh, alarms>>

StartRefused ==
  /\ web = "idle" /\ Running
  /\ UNCHANGED vars

(* A bug to tell apart: a run that was told to stop is taken for stopped.   *)
StartRunEarly ==
  /\ web = "idle" /\ proc < MaxRuns
  /\ proc # 0 => life[proc] \notin {"up", "done"}
  /\ recipe' = proc + 1 /\ proc' = proc + 1
  /\ life' = [life EXCEPT ![proc + 1] = "up"] /\ failed' = 0
  /\ pumps' = pumps \cup {proc + 1} /\ web' = "reset"
  /\ UNCHANGED <<wire, estopping, tick, state, seen, runStart, history, fresh,
                 alarms>>

StartRun ==
  /\ web = "idle" /\ ~Running /\ proc < MaxRuns
  /\ recipe' = proc + 1 /\ proc' = proc + 1
  /\ life' = [life EXCEPT ![proc + 1] = "up"] /\ failed' = 0
  /\ pumps' = pumps \cup {proc + 1} /\ web' = "reset"
  /\ UNCHANGED <<wire, estopping, tick, state, seen, runStart, history, fresh,
                 alarms>>

ResetStatus ==
  /\ web = "reset" /\ web' = "idle"
  /\ state' = "starting" /\ seen' = 0 /\ runStart' = TRUE
  /\ UNCHANGED <<process, proc, estopping, tick, pumps, recipe, history,
                 fresh, alarms>>

(* A bug to tell apart: nothing is looked at before the signal is sent.     *)
StopRunUnchecked(emergency) ==
  /\ web = "idle" /\ Poll
  /\ estopping' = emergency /\ web' = "kill"
  /\ UNCHANGED <<failed, wire, proc, tick, pumps, shown, fresh, alarms>>

(* stop_run, alone or as part of estop: is there something to stop?         *)
StopRun(emergency) ==
  /\ web = "idle" /\ Poll
  /\ estopping' = emergency
  /\ web' = IF Running THEN "kill" ELSE IF emergency THEN "belts" ELSE "idle"
  /\ UNCHANGED <<failed, wire, proc, tick, pumps, shown, fresh, alarms>>

(* A zombie takes the signal without effect.                                *)
Kill ==
  /\ web = "kill" /\ life[proc] # "reaped"
  /\ life' = [life EXCEPT ![proc] = IF @ \in Alive THEN "signalled" ELSE @]
  /\ web' = IF estopping THEN "belts" ELSE "idle"
  /\ UNCHANGED <<failed, wire, proc, estopping, tick, pumps, shown, fresh,
                 alarms>>

(* Another thread has collected the process since: getpgid raises, and the  *)
(* command, an emergency stop included, ends here.                          *)
KillFails ==
  /\ web = "kill" /\ life[proc] = "reaped"
  /\ web' = "idle"
  /\ UNCHANGED <<process, proc, estopping, tick, pumps, shown, fresh, alarms>>

(* The belts are stopped and the alarm is raised.                           *)
EstopEnds ==
  /\ web = "belts" /\ web' = "idle"
  /\ alarms' = [alarms EXCEPT ![Estop] = RaiseAlarm(@)]
  /\ UNCHANGED <<process, proc, estopping, tick, pumps, shown, fresh>>

-----------------------------------------------------------------------------
(* The rclpy thread: on_status, health_tick; and the others.                *)

(* bound: the fifty entries that are kept are not reached.                  *)
SaveHistory(entry) == history' = Append(history, entry)

OnStatus ==
  /\ wire # <<>> /\ wire' = Tail(wire) /\ tick = "idle"
  /\ LET m == Head(wire)
     IN /\ state' = m.state
        /\ IF m.failures > seen
           THEN /\ seen' = m.failures
                /\ alarms' = [alarms EXCEPT ![m.failures] = RaiseAlarm(@)]
           ELSE UNCHANGED <<seen, alarms>>
        /\ IF m.state = "finished" /\ runStart
           THEN /\ SaveHistory([run |-> m.run, as |-> recipe])
                /\ runStart' = FALSE
           ELSE UNCHANGED <<history, runStart>>
  /\ UNCHANGED <<life, failed, loop, tick, pumps, recipe, fresh>>

HealthPoll ==
  /\ tick = "idle" /\ Poll
  /\ tick' = IF Running THEN "running" ELSE "quiet"
  /\ UNCHANGED <<failed, wire, loop, pumps, shown, fresh, alarms>>

HealthTick ==
  /\ tick # "idle" /\ tick' = "idle"
  /\ alarms' = [a \in Alarms |->
       CASE a \in Topics \cap fresh -> ClearAlarm(alarms[a])
         [] a \in Topics \ fresh /\ tick = "running" -> RaiseAlarm(alarms[a])
         [] OTHER -> alarms[a]]
  /\ UNCHANGED <<process, loop, pumps, shown, fresh>>

(* Data arrives on the topics, or has not for too long.                     *)
DataChanges ==
  /\ \E now \in SUBSET Topics : fresh' = now
  /\ UNCHANGED <<process, loop, tick, pumps, shown, alarms>>

(* A bug to tell apart: the end of the output changes nothing.              *)
PumpSilent(r) ==
  /\ r \in pumps /\ life[r] \in {"exited", "reaped"}
  /\ pumps' = pumps \ {r}
  /\ UNCHANGED <<process, loop, tick, shown, fresh, alarms>>

Pump(r) ==
  /\ r \in pumps /\ life[r] \in {"exited", "reaped"}
  /\ pumps' = pumps \ {r}
  /\ state' = IF state = "finished" THEN state ELSE "stopped"
  /\ UNCHANGED <<process, loop, tick, seen, runStart, recipe, history, fresh,
                 alarms>>

(* GET state, on a thread of its own, polls the process too.                *)
Snapshot ==
  /\ Poll
  /\ UNCHANGED <<failed, wire, loop, tick, pumps, shown, fresh, alarms>>

-----------------------------------------------------------------------------
(* run_cycle, as a process.                                                 *)

Publish(r, s, n) ==
  /\ Len(wire) < MaxWire
  /\ wire' = Append(wire, [run |-> r, state |-> s, failures |-> n])

(* Failures are counted one at a time; the count is told with every status. *)
TaskReports(r) ==
  /\ life[r] = "up"
  /\ failed' \in {failed, failed + 1} /\ failed' <= MaxFailures
  /\ Publish(r, "running", failed')
  /\ UNCHANGED <<life, loop, tick, pumps, shown, fresh, alarms>>

TaskFinishes(r) ==
  /\ life[r] = "up" /\ life' = [life EXCEPT ![r] = "done"]
  /\ Publish(r, "finished", failed)
  /\ UNCHANGED <<failed, loop, tick, pumps, shown, fresh, alarms>>

(* A process takes a good part of a second to come up and to exit: by then  *)
(* start_run is through, and what it published has arrived.                 *)
Prompt(r) ==
  web # "reset" /\ \A i \in 1 .. Len(wire) : wire[i].run # r

(* At the end of its run, interrupted, or for a reason of its own.          *)
TaskExits(r) ==
  /\ life[r] \in Alive /\ Prompt(r)
  /\ life' = [life EXCEPT ![r] = "exited"]
  /\ UNCHANGED <<failed, wire, loop, tick, pumps, shown, fresh, alarms>>

Task(r) == TaskReports(r) \/ TaskFinishes(r) \/ TaskExits(r)

Web ==
  \/ StartRefused \/ StartRun \/ ResetStatus
  \/ \E emergency \in BOOLEAN : StopRun(emergency)
  \/ Kill \/ KillFails \/ EstopEnds
  \/ AckAlarm(Alarms) \/ \E a \in Alarms : AckAlarm({a})

Next ==
  \/ Web \/ OnStatus \/ HealthPoll \/ HealthTick \/ DataChanges \/ Snapshot
  \/ \E r \in Runs : Pump(r) \/ Task(r)

Spec == Init /\ [][Next]_vars

(* The rclpy thread spins and the health timer fires.                       *)
FairSpec == Spec /\ WF_vars(HealthPoll) /\ WF_vars(HealthTick)

-----------------------------------------------------------------------------
(* Properties.                                                              *)

TypeOK ==
  /\ proc \in 0 .. MaxRuns
  /\ life \in [Runs -> Alive \cup {"none", "exited", "reaped"}]
  /\ failed \in 0 .. MaxFailures
  /\ wire \in Seq([run : Runs, state : {"running", "finished"},
                   failures : 0 .. MaxFailures])
  /\ Len(wire) <= MaxWire
  /\ web \in {"idle", "reset", "kill", "belts"} /\ estopping \in BOOLEAN
  /\ web = "kill" => proc # 0
  /\ tick \in {"idle", "running", "quiet"} /\ pumps \subseteq Runs
  /\ state \in {"idle", "starting", "running", "finished", "stopped"}
  /\ seen \in 0 .. MaxFailures /\ runStart \in BOOLEAN
  /\ recipe \in 0 .. MaxRuns
  /\ history \in Seq([run : Runs, as : 0 .. MaxRuns])
  /\ fresh \subseteq Topics /\ alarms \in [Alarms -> AlarmStates]

(* There is never more than one run_cycle: not while one that was told to   *)
(* stop is still on its way out, either.  Two would command one arm.        *)
OneTask ==
  \A r, s \in Runs : life[r] \in Alive /\ life[s] \in Alive => r = s

(* The history tells every finished run at most once, each under the recipe *)
(* it was started with, whatever was asked for or started since.            *)
HistoryTrue ==
  \A i \in 1 .. Len(history) :
    /\ history[i].as = history[i].run
    /\ \A j \in 1 .. i - 1 : history[j].run < history[i].run

(* When the last process is gone and its output read, the panel does not    *)
(* say that it is starting or running, although the exit, the last status   *)
(* and the reader of an earlier run came in on three threads.               *)
StateTold ==
  proc # 0 /\ ~Running /\ pumps = {} /\ web # "reset"
    => state \in {"finished", "stopped"}

(* A topic that stays silent during a run is alarmed in the end, and one    *)
(* that stays heard of is not.                                              *)
OutageShown ==
  \A t \in Topics :
    /\ <>[](Running /\ t \notin fresh) => <>[](alarms[t] \in Active)
    /\ <>[](t \in fresh) => <>[](alarms[t] \notin Active)

(* "latched alarm until acknowledged": every emergency stop leaves an alarm *)
(* that waits for an acknowledgement.                                       *)
EstopLatched ==
  [][web = "belts" /\ web' = "idle" => alarms'[Estop] = "raised"]_vars
=============================================================================
