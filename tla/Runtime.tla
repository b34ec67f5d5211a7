------------------------------ MODULE Runtime ------------------------------
(***************************************************************************)
(* The main loop of src/runtime.c and the signals that end it.             *)
(*                                                                         *)
(* SIGINT and SIGTERM have their default disposition, which kills the      *)
(* process, except while stnlabz_runtime_run holds its own handler, which  *)
(* sets a flag.  A signal may arrive between any two steps.  What the loop *)
(* polls, and what precedes and follows it, belong to RictusCore.  The     *)
(* release from preservation (stnlabz_runtime_human_release) has no caller *)
(* in the program.                                                         *)
(***************************************************************************)

VARIABLES stage,           \* where the main thread is
          handler,         \* disposition of SIGINT and SIGTERM
          stop_requested,  \* stnlabz_stop_requested
          operational,     \* runtime->operational_state
          result           \* whether main() would still return 0

runtime == <<stage, handler, stop_requested, operational, result>>

Looping == {"looping", "sleeping", "polling"}
RuntimeStages == {"scanning", "armed", "stopping", "killed"} \cup Looping

\* run returns: the previous dispositions are back, main() stops the modules.
Leave(ok) ==
  /\ stage' = "stopping"
  /\ handler' = "default"
  /\ result' = (result /\ ok)

-----------------------------------------------------------------------------
\* sigaction, twice.
Arm(installed) ==
  /\ stage = "scanning"
  /\ IF installed THEN stage' = "armed" /\ handler' = "ours" /\ UNCHANGED result
                  ELSE Leave(FALSE)
  /\ UNCHANGED <<stop_requested, operational>>

\* The flag is cleared, whatever the handler has put there since Arm, and
\* START is logged.
Start(logged) ==
  /\ stage = "armed"
  /\ stop_requested' = FALSE
  /\ IF logged THEN stage' = "looping" /\ UNCHANGED <<handler, result>>
               ELSE Leave(FALSE)
  /\ UNCHANGED operational

\* while (!stop_requested): STOP is logged after the loop.
LoopTest(logged) ==
  /\ stage = "looping"
  /\ IF stop_requested THEN Leave(logged)
                       ELSE stage' = "sleeping" /\ UNCHANGED <<handler, result>>
  /\ UNCHANGED <<stop_requested, operational>>

\* Mutant: the flag is cleared when the sleep ends.
WakeForgets ==
  /\ stage = "sleeping"
  /\ stop_requested' = FALSE
  /\ stage' = IF operational = "normal" THEN "polling" ELSE "looping"
  /\ UNCHANGED <<handler, operational, result>>

\* nanosleep has elapsed, or was interrupted with the flag set: one more
\* poll in either case, if normal operations are allowed.
Wake ==
  /\ stage = "sleeping"
  /\ stage' = IF operational = "normal" THEN "polling" ELSE "looping"
  /\ UNCHANGED <<handler, stop_requested, operational, result>>

\* Mutant: the fault is reported and the loop goes on.
SleepFailsGoesOn ==
  /\ stage = "sleeping"
  /\ operational' = "company_preservation"
  /\ stage' = "polling"
  /\ result' = FALSE
  /\ UNCHANGED <<handler, stop_requested>>

\* nanosleep fails: report_fault enters preservation, and run returns.
SleepFails ==
  /\ stage = "sleeping"
  /\ operational' = "company_preservation"
  /\ Leave(FALSE)
  /\ UNCHANGED stop_requested

PollReturns ==
  /\ stage = "polling"
  /\ stage' = "looping"
  /\ UNCHANGED <<handler, stop_requested, operational, result>>

Signal ==
  /\ IF handler = "ours" THEN stop_requested' = TRUE /\ UNCHANGED stage
                         ELSE stage' = "killed" /\ UNCHANGED stop_requested
  /\ UNCHANGED <<handler, operational, result>>

RuntimeInit ==
  /\ stage = "scanning"
  /\ handler = "default"
  /\ stop_requested = FALSE
  /\ operational = "normal"
  /\ result = TRUE
=============================================================================
