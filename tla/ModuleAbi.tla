------------------------------ MODULE ModuleAbi ------------------------------
(***************************************************************************)
(* The module lifecycle that the ABI layer (src/stnlabz_abi/abi.c) drives  *)
(* on top of the registry: a module's start() and stop() callbacks are     *)
(* called around the registry transitions.                                 *)
(*                                                                         *)
(* The registry is owned by the Core thread, so every ABI call is one      *)
(* step; the results of the module's callbacks are nondeterministic.  A    *)
(* call that returns an error and changes nothing is a stuttering step and *)
(* has no action.  "executing" is not program state: it is the fact the    *)
(* registry is there to keep track of, that code of the module has been    *)
(* started and not been stopped successfully since.                        *)
(***************************************************************************)
EXTENDS ModuleRegistry

VARIABLES modules,    \* registry->modules, by id
          executing   \* builds of each id that start() put into execution

vars == <<modules, executing>>

-----------------------------------------------------------------------------
\* abi_prepare: the three functions in turn, stopping at the first error.
Prepare(m, b, ok, q) ==
  /\ CanDiscover(modules[m])
  /\ modules' = [modules EXCEPT ![m] = Prepared(b, ok, q)]
  /\ UNCHANGED executing

\* The same three functions called one at a time, as core_discover,
\* core_verify and core_qualify do.
Discover(m, b) ==
  /\ CanDiscover(modules[m])
  /\ modules' = [modules EXCEPT ![m] = Discovered(b)]
  /\ UNCHANGED executing

Verify(m) ==
  /\ CanVerify(modules[m])
  /\ modules' = [modules EXCEPT ![m] = Verified(@)]
  /\ UNCHANGED executing

Qualify(m, ok, q) ==
  /\ CanQualify(modules[m])
  /\ modules' = [modules EXCEPT ![m] = Qualified(@, ok, q)]
  /\ UNCHANGED executing

RestoreQualification(m, q) ==
  /\ CanRestoreQualification(modules[m], q)
  /\ modules' = [modules EXCEPT ![m] = QualificationRestored(@, q)]
  /\ UNCHANGED executing

AuthorizeActivation(m) ==
  /\ CanAuthorize(modules[m])
  /\ modules' = [modules EXCEPT ![m] = Authorized(@)]
  /\ UNCHANGED executing

\* Mutant: the result of start() is not looked at.
ActivateUnchecked(m, started, stopped) ==
  /\ CanAuthorize(modules[m])
  /\ modules' = [modules EXCEPT ![m] = Activated(Authorized(@))]
  /\ executing' = IF started THEN [executing EXCEPT ![m] = @ \cup {modules[m].build}]
                             ELSE executing

\* abi_authorize_and_activate: authorize, start(), activate; a failure of
\* start() fails the record, a failure of activate stops the module again.
AuthorizeAndActivate(m, started, stopped) ==
  LET granted == Authorized(modules[m])
      active  == started /\ CanActivate(granted)
  IN  /\ CanAuthorize(modules[m])
      /\ modules' = [modules EXCEPT ![m] = IF active THEN Activated(granted)
                                                     ELSE Failed(granted)]
      /\ executing' = IF active \/ (started /\ ~stopped)
                      THEN [executing EXCEPT ![m] = @ \cup {modules[m].build}]
                      ELSE executing

\* abi_stop: a stop() that fails leaves the record FAILED.
AbiStop(m, stopped) ==
  /\ CanStop(modules[m])
  /\ IF stopped
     THEN /\ modules' = [modules EXCEPT ![m] = Stopped(@)]
          /\ executing' = [executing EXCEPT ![m] = @ \ {modules[m].build}]
     ELSE /\ modules' = [modules EXCEPT ![m] = Failed(@)]
          /\ UNCHANGED executing

Unregister(m) ==
  /\ CanUnregister(modules[m])
  /\ modules' = [modules EXCEPT ![m] = Absent]
  /\ UNCHANGED executing

\* abi_prepare_replacement on an ACTIVE incumbent: the unregistration is
\* only reached when the stop succeeded.  (On a record that is not ACTIVE it
\* is Unregister.)
PrepareReplacement(m, stopped) ==
  IF stopped
  THEN /\ CanStop(modules[m])
       /\ CanUnregister(Stopped(modules[m]))
       /\ modules' = [modules EXCEPT ![m] = Absent]
       /\ executing' = [executing EXCEPT ![m] = @ \ {modules[m].build}]
  ELSE AbiStop(m, FALSE)

Fail(m) ==
  /\ CanFail(modules[m])
  /\ modules' = [modules EXCEPT ![m] = Failed(@)]
  /\ UNCHANGED executing

Quarantine(m) ==
  /\ CanQuarantine(modules[m])
  /\ modules' = [modules EXCEPT ![m] = Quarantined(@)]
  /\ UNCHANGED executing

-----------------------------------------------------------------------------
Init ==
  /\ modules = [m \in Ids |-> Absent]
  /\ executing = [m \in Ids |-> {}]

Enter(m) ==
  \/ \E b \in Builds : Discover(m, b)
  \/ \E b \in Builds, ok \in BOOLEAN, q \in Reports : Prepare(m, b, ok, q)

Judge(m) ==
  \/ Verify(m)
  \/ \E ok \in BOOLEAN, q \in Reports : Qualify(m, ok, q)
  \/ \E q \in Reports : RestoreQualification(m, q)

Run(m) ==
  \/ AuthorizeActivation(m)
  \/ \E started, stopped \in BOOLEAN : AuthorizeAndActivate(m, started, stopped)
  \/ \E stopped \in BOOLEAN : AbiStop(m, stopped)

Leave(m) ==
  \/ Unregister(m)
  \/ \E stopped \in BOOLEAN : PrepareReplacement(m, stopped)
  \/ Fail(m)
  \/ Quarantine(m)

Next == \E m \in Ids : Enter(m) \/ Judge(m) \/ Run(m) \/ Leave(m)

Spec == Init /\ [][Next]_vars

-----------------------------------------------------------------------------
TypeOK ==
  /\ modules \in [Ids -> Record]
  /\ executing \in [Ids -> SUBSET Builds]

(* The registry never believes more than it was shown: a record that is    *)
(* QUALIFIED, ACTIVE or STOPPED holds a complete passing report and fits   *)
(* the Core API, authority is only held on top of that, and a record is    *)
(* ACTIVE only with authority (module_registry.c: verify, qualify,         *)
(* restore_qualification, authorize_activation, activate).                 *)
RecordsSound == \A m \in Ids : SoundRecord(modules[m])

(* A record says ACTIVE only while the build it names is executing: the    *)
(* state is set after start() succeeded and left before, or together with, *)
(* the execution's end (abi.c: authorize_and_activate, stop).              *)
ActiveIsExecuting ==
  \A m \in Ids : modules[m].state = "ACTIVE" => modules[m].build \in executing[m]

(* Code is started only on evidence: a build enters execution only from a  *)
(* record of that build which holds a valid report and fits the Core API,  *)
(* through every path a record can take to QUALIFIED or STOPPED.           *)
StartsOnlyProven ==
  [][\A m \in Ids, b \in Builds :
       b \in executing'[m] \ executing[m] =>
         /\ modules[m].build = b
         /\ modules[m].state \in {"QUALIFIED", "STOPPED"}
         /\ ValidReport(modules[m].qualification)
         /\ Compatible(b)]_vars

-----------------------------------------------------------------------------
\* The lifecycle the layer promises, and the phase a record stands for.
Phase(r) ==
  CASE r.state = "ABSENT" -> "out"
    [] r.state \in {"DISCOVERED", "UNVERIFIED"} -> "candidate"
    [] r.state \in {"QUALIFIED", "STOPPED"} -> "proven"
    [] r.state = "ACTIVE" -> "running"
    [] r.state \in {"FAILED", "QUARANTINED"} -> "rejected"

Lifecycle == INSTANCE ModuleLifecycle WITH phase <- [m \in Ids |-> Phase(modules[m])]

(* The ABI layer implements the abstract lifecycle: no sequence of calls   *)
(* moves a module along a path ModuleLifecycle does not have.              *)
ImplementsLifecycle == Lifecycle!Spec
=============================================================================
