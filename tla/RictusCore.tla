----------------------------- MODULE RictusCore -----------------------------
(***************************************************************************)
(* The Core process (src/rictus.c): it evaluates the modules already there *)
(* with a first poll, enters the runtime loop (Runtime), which polls the   *)
(* module watch (Hotload) until a signal or a fault ends it, then stops    *)
(* every ACTIVE module (core_activation.c) and unloads what it may         *)
(* (core_discovery.c).                                                     *)
(*                                                                         *)
(* The normal path checks that every stop succeeded and otherwise exits    *)
(* with the handles retained; the log_failure path does not look.  Modules *)
(* are stopped and discarded in any order here, in reverse order of        *)
(* registration in the code, and visited in any order by a poll, in the    *)
(* order of the directory in the code.  Start-up failures before the first *)
(* poll find no module and are left out.                                   *)
(***************************************************************************)
EXTENDS Hotload, Runtime

CONSTANT ShutdownFaults   \* what may fail together in the main thread

MainFaults == {"stop",   \* stop() returns an error during the shutdown
               "log",    \* a mandatory event cannot be logged
               "os"}     \* sigaction or nanosleep returns an error

ASSUME ShutdownAssumption == ShutdownFaults \subseteq SUBSET MainFaults

VARIABLES pending,   \* entries the poll, or records stop_all, has still to visit
          good,      \* every stop of stop_all succeeded so far
          ending     \* what may fail in this process, of ShutdownFaults

process == <<runtime, pending, good, ending>>
coreVars == <<vars, process>>

Ended == {"exited", "retained", "killed"}
Stages == RuntimeStages \cup {"aborting", "cleanup"} \cup Ended

MainOutcomes(fault) == IF fault \in ending THEN BOOLEAN ELSE {TRUE}

ActiveIds == {m \in Ids : modules[m].state = "ACTIVE"}

-----------------------------------------------------------------------------
InPoll == stage \in {"scanning", "polling"}
PollDone == At("idle") /\ pending = {}

\* scan comes to the entry of m and takes up what it calls for, if anything.
Visit(m) ==
  /\ InPoll
  /\ m \in pending
  /\ At("idle")
  /\ \/ Detect(m)
     \/ Adopt(m)
     \/ ~Fresh(m) /\ ~Unknown(m) /\ UNCHANGED vars
  /\ pending' = pending \ {m}
  /\ UNCHANGED <<runtime, good, ending>>

PollWork == InPoll /\ Work /\ UNCHANGED process

OperatorWrites == stage \notin Ended /\ Environment /\ UNCHANGED process

\* What the main thread is about to go through: the entries of the directory
\* or the records of the registry.
Ahead(next) ==
  CASE next = "polling" -> Ids
    [] next = "stopping" -> ActiveIds
    [] OTHER -> pending

Loop ==
  /\ \/ PollDone /\ \E installed \in MainOutcomes("os") : Arm(installed)
     \/ \E logged \in MainOutcomes("log") : Start(logged) \/ LoopTest(logged)
     \/ Wake
     \/ "os" \in ending /\ SleepFails
     \/ PollDone /\ PollReturns
  /\ pending' = Ahead(stage')
  /\ UNCHANGED <<vars, good, ending>>

Interrupt ==
  /\ stage \notin Ended
  /\ Signal
  /\ UNCHANGED <<vars, pending, good, ending>>

\* A mandatory event cannot be logged between the first poll and run:
\* log_failure.
LogFails ==
  /\ stage = "scanning" /\ PollDone
  /\ "log" \in ending
  /\ stage' = "aborting"
  /\ result' = FALSE
  /\ pending' = ActiveIds
  /\ UNCHANGED <<vars, handler, stop_requested, operational, good, ending>>

\* Mutant: stop_all ends at the first module that does not stop.
StopOneGivesUp(m, requested, stopped, logged) ==
  /\ stage \in {"stopping", "aborting"}
  /\ m \in pending
  /\ CoreStop(m, requested, stopped)
  /\ good' = (good /\ requested /\ stopped /\ logged)
  /\ pending' = IF good' THEN pending \ {m} ELSE {}
  /\ UNCHANGED <<runtime, world, loader, candidate, seen, job, ending>>

\* One round of stop_all.
StopOne(m, requested, stopped, logged) ==
  /\ stage \in {"stopping", "aborting"}
  /\ m \in pending
  /\ CoreStop(m, requested, stopped)
  /\ pending' = pending \ {m}
  /\ good' = (good /\ requested /\ stopped /\ logged)
  /\ UNCHANGED <<runtime, world, loader, candidate, seen, job, ending>>

\* The main thread goes on to another stage and touches no module.
Proceed(next) ==
  /\ stage' = next
  /\ UNCHANGED <<vars, handler, stop_requested, operational, good, ending>>

\* stop_failure: exit without touching the handles.
StopFailed ==
  /\ stage = "stopping" /\ pending = {} /\ ~good
  /\ Proceed("retained")
  /\ result' = FALSE
  /\ UNCHANGED pending

\* Mutant: the result of stop_all is not looked at.
StopsDoneUnchecked(logged) ==
  /\ stage = "stopping" /\ pending = {}
  /\ Proceed(IF logged THEN "cleanup" ELSE "aborting")
  /\ result' = (result /\ logged)
  /\ pending' = ActiveIds

\* The inventory is logged, or stop_all runs again on the log_failure path.
StopsDone(logged) ==
  /\ stage = "stopping" /\ pending = {} /\ good
  /\ Proceed(IF logged THEN "cleanup" ELSE "aborting")
  /\ result' = (result /\ logged)
  /\ pending' = ActiveIds

\* Mutant: the log_failure path insists that every module stops.
AbortInsists ==
  /\ stage = "aborting" /\ pending = {} /\ good
  /\ Proceed("cleanup")
  /\ UNCHANGED <<pending, result>>

AbortStopsDone ==
  /\ stage = "aborting" /\ pending = {}
  /\ Proceed("cleanup")
  /\ UNCHANGED <<pending, result>>

\* core_discovery_cleanup: fail and unregister the last record unless it is
\* ACTIVE.
Discard(m) ==
  /\ stage = "cleanup"
  /\ modules[m].state \notin {"ABSENT", "ACTIVE"}
  /\ CanUnregister(Failed(modules[m]))
  /\ modules' = [modules EXCEPT ![m] = Absent]
  /\ UNCHANGED <<executing, world, loader, candidate, seen, job, process>>

\* ... an ACTIVE record ends the loop, and nothing is unloaded.  main()
\* returns after a last event.
CleanupBlocked(logged) ==
  /\ stage = "cleanup"
  /\ ActiveIds # {}
  /\ Proceed("exited")
  /\ result' = (result /\ logged)
  /\ UNCHANGED pending

\* ... with the registry empty the loader drops every handle.
CleanupDone(logged) ==
  /\ stage = "cleanup"
  /\ \A m \in Ids : modules[m].state = "ABSENT"
  /\ loader' = [m \in Ids |-> <<>>]
  /\ stage' = "exited"
  /\ result' = (result /\ logged)
  /\ UNCHANGED <<lifecycle, world, candidate, seen, job, pending, good, ending>>
  /\ UNCHANGED <<handler, stop_requested, operational>>

-----------------------------------------------------------------------------
CoreInit ==
  /\ Init
  /\ RuntimeInit
  /\ pending = Ids
  /\ good = TRUE
  /\ ending \in ShutdownFaults

StopAll ==
  \E m \in Ids, requested, logged \in MainOutcomes("log"),
     stopped \in MainOutcomes("stop") : StopOne(m, requested, stopped, logged)

Shutdown ==
  \/ StopAll
  \/ StopFailed
  \/ \E logged \in MainOutcomes("log") :
       StopsDone(logged) \/ CleanupBlocked(logged) \/ CleanupDone(logged)
  \/ AbortStopsDone
  \/ \E m \in Ids : Discard(m)

MainThread == (\E m \in Ids : Visit(m)) \/ PollWork \/ Loop \/ LogFails \/ Shutdown

CoreNext == MainThread \/ OperatorWrites \/ Interrupt

CoreSpec == CoreInit /\ [][CoreNext]_coreVars
\* The main thread goes on with what it is doing: callbacks return, and a
\* poll ends when it has visited every entry.
CoreFairSpec == CoreSpec /\ WF_coreVars(MainThread)

-----------------------------------------------------------------------------
CoreTypeOK ==
  /\ TypeOK
  /\ stage \in Stages
  /\ handler \in {"default", "ours"}
  /\ operational \in {"normal", "company_preservation"}
  /\ {stop_requested, result, good} \subseteq BOOLEAN
  /\ pending \subseteq Ids
  /\ ending \in ShutdownFaults

(* "Unload only modules known non-running or successfully stopped"         *)
(* (core_discovery.c:139): when the shutdown drops a handle, nothing of    *)
(* that module executes.                                                   *)
UnloadsOnlyStopped ==
  [][\A m \in Ids :
       stage = "cleanup" /\ loader[m] # <<>> /\ loader'[m] = <<>> =>
         executing[m] = {}]_coreVars

(* main() returns 0 only if the runtime was asked to stop, every module    *)
(* has been stopped and forgotten and every mandatory event is on the log; *)
(* a process that could not stop its modules ("shared library handles      *)
(* retained", rictus.c:107) still maps whatever executes.                  *)
ExitIsClean ==
  /\ stage = "exited" /\ good =>
       \A m \in Ids : executing[m] = {} /\ loader[m] = <<>>
  /\ stage \in {"exited", "retained"} =>
       \A m \in Ids : executing[m] \subseteq Held(m)
  /\ stage \in {"exited", "retained"} /\ result =>
       good /\ stop_requested /\ operational = "normal"

(* A module that cannot be stopped does not keep the others running: when  *)
(* the process gives up with its handles retained, and its log could be    *)
(* written, what still executes is what failed to stop (stop_all goes on   *)
(* past a failure, core_activation.c:144).                                 *)
RetainedFailedToStop ==
  stage = "retained" /\ "log" \notin ending =>
    \A m \in Ids : executing[m] # {} => modules[m].state = "FAILED"

(* Nothing is put into execution in preservation, nor once the main thread *)
(* has begun to stop the modules: what stop_all was to stop is all there   *)
(* is.                                                                     *)
StoppingStartsNothing ==
  [][\A m \in Ids :
       operational # "normal" \/ stage \notin {"scanning", "polling"} =>
         executing'[m] \subseteq executing[m]]_coreVars

(* The shutdown ends, whatever fails in it.                                *)
ShutdownEnds == stage \in {"stopping", "aborting", "cleanup"} ~> stage \in Ended

(* A signal that the loop's own handler has caught is heard, whatever the  *)
(* poll it interrupts is doing and whatever the operator goes on writing   *)
(* (runtime.c:86-103, "SIGINT/SIGTERM to stop", rictus.c:73).  One caught  *)
(* between Arm and Start is not: Start clears the flag (runtime.c:80).     *)
SignalIsHeard == stop_requested /\ stage \in Looping ~> stage \in Ended
=============================================================================
