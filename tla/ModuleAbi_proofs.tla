--------------------------- MODULE ModuleAbi_proofs ---------------------------
(***************************************************************************)
(* Proofs about ModuleAbi, for any set of ids, any builds and any reports. *)
(*                                                                         *)
(* The inductive invariant is TypeOK, RecordsSound and ActiveIsExecuting   *)
(* together.  It is needed for the action properties: that a start is      *)
(* preceded by valid evidence is not a guard of any action (the guards     *)
(* look at the state only) but a fact about QUALIFIED and STOPPED records. *)
(***************************************************************************)
EXTENDS ModuleAbi, TLAPS

Inv == TypeOK /\ RecordsSound /\ ActiveIsExecuting

(* Every registry function, applied to a well-typed sound record it        *)
(* accepts, leaves a well-typed sound record.                              *)
LEMMA OperationsKeepRecordsSound ==
  ASSUME NEW r \in Record, SoundRecord(r)
  PROVE  /\ \A b \in Builds : Discovered(b) \in Record /\ SoundRecord(Discovered(b))
         /\ CanVerify(r) => Verified(r) \in Record /\ SoundRecord(Verified(r))
         /\ \A ok \in BOOLEAN, q \in Reports :
              CanQualify(r) => Qualified(r, ok, q) \in Record /\ SoundRecord(Qualified(r, ok, q))
         /\ \A q \in Reports :
              CanRestoreQualification(r, q) =>
                /\ QualificationRestored(r, q) \in Record
                /\ SoundRecord(QualificationRestored(r, q))
         /\ CanAuthorize(r) =>
              /\ Authorized(r) \in Record
              /\ SoundRecord(Authorized(r))
         /\ CanActivate(r) => Activated(r) \in Record /\ SoundRecord(Activated(r))
         /\ CanStop(r) => Stopped(r) \in Record /\ SoundRecord(Stopped(r))
         /\ CanFail(r) => Failed(r) \in Record /\ SoundRecord(Failed(r))
         /\ CanQuarantine(r) => Quarantined(r) \in Record /\ SoundRecord(Quarantined(r))
  <1> USE RegistryAssumption DEF Record, States, SoundRecord, Absent, NoReport
  <1>1. \A b \in Builds : Discovered(b) \in Record /\ SoundRecord(Discovered(b))
    BY DEF Discovered
  <1>2. CanVerify(r) => Verified(r) \in Record /\ SoundRecord(Verified(r))
    BY DEF CanVerify, Verified
  <1>3. ASSUME NEW ok \in BOOLEAN, NEW q \in Reports, CanQualify(r)
        PROVE  Qualified(r, ok, q) \in Record /\ SoundRecord(Qualified(r, ok, q))
    BY <1>3 DEF CanQualify, Qualified
  <1>4. ASSUME NEW q \in Reports, CanRestoreQualification(r, q)
        PROVE  /\ QualificationRestored(r, q) \in Record
               /\ SoundRecord(QualificationRestored(r, q))
    BY <1>4 DEF CanRestoreQualification, QualificationRestored
  <1>5. CanAuthorize(r) => Authorized(r) \in Record /\ SoundRecord(Authorized(r))
    BY DEF CanAuthorize, Authorized
  <1>6. CanActivate(r) => Activated(r) \in Record /\ SoundRecord(Activated(r))
    BY DEF CanActivate, Activated
  <1>7. CanStop(r) => Stopped(r) \in Record /\ SoundRecord(Stopped(r))
    BY DEF CanStop, Stopped
  <1>8. CanFail(r) => Failed(r) \in Record /\ SoundRecord(Failed(r))
    BY DEF CanFail, Failed
  <1>9. CanQuarantine(r) => Quarantined(r) \in Record /\ SoundRecord(Quarantined(r))
    BY DEF CanQuarantine, Quarantined
  <1>10. QED
    BY ONLY <1>1, <1>2, <1>3, <1>4, <1>5, <1>6, <1>7, <1>8, <1>9
(* Once authorize has accepted a record, activate accepts it: the branch   *)
(* of abi_authorize_and_activate that stops the module again is not taken. *)
LEMMA AuthorizedCanActivate ==
  ASSUME NEW r \in Record, CanAuthorize(r)
  PROVE  CanActivate(Authorized(r))
  BY DEF Record, CanAuthorize, CanActivate, Authorized

(* Preparing a fresh record leaves a well-typed sound record that is not   *)
(* ACTIVE.                                                                 *)
LEMMA PreparedSound ==
  ASSUME NEW b \in Builds, NEW ok \in BOOLEAN, NEW q \in Reports
  PROVE  /\ Prepared(b, ok, q) \in Record
         /\ SoundRecord(Prepared(b, ok, q))
         /\ Prepared(b, ok, q).state \in {"QUALIFIED", "FAILED"}
         /\ ~Prepared(b, ok, q).authorized
  BY RegistryAssumption
     DEF Prepared, Discovered, CanQualify, Verified, Qualified, Record, States,
         SoundRecord, Absent, NoReport

(* An update of one record by a sound one that is ACTIVE only if its build *)
(* is executing afterwards keeps the invariant, as long as no other id's   *)
(* executing builds change.                                                *)
LEMMA UpdateKeepsInv ==
  ASSUME Inv, NEW m \in Ids, NEW r \in Record, SoundRecord(r),
         modules' = [modules EXCEPT ![m] = r],
         NEW e \in SUBSET Builds, executing' = [executing EXCEPT ![m] = e],
         r.state = "ACTIVE" => r.build \in e
  PROVE  Inv'
  BY DEF Inv, TypeOK, RecordsSound, ActiveIsExecuting

LEMMA StepKeepsInv == Inv /\ [Next]_vars => Inv'
  <1> SUFFICES ASSUME Inv, [Next]_vars PROVE Inv'
    OBVIOUS
  <1>1. CASE UNCHANGED vars
    BY <1>1 DEF vars, Inv, TypeOK, RecordsSound, ActiveIsExecuting
  <1>2. ASSUME NEW m \in Ids, Enter(m) \/ Judge(m) \/ Run(m) \/ Leave(m)
        PROVE  Inv'
    <2> DEFINE r == modules[m]
    <2>1. /\ r \in Record
          /\ SoundRecord(r)
          /\ executing[m] \in SUBSET Builds
          /\ r.state = "ACTIVE" => r.build \in executing[m]
          /\ executing = [executing EXCEPT ![m] = executing[m]]
      BY DEF Inv, TypeOK, RecordsSound, ActiveIsExecuting
    <2> HIDE DEF r
    <2>2. ASSUME NEW b \in Builds, Discover(m, b)
          PROVE  Inv'
      <3>1. Discovered(b).state = "DISCOVERED"
        BY DEF Discovered, Absent
      <3>2. QED
        BY <2>1, <2>2, <3>1, OperationsKeepRecordsSound, UpdateKeepsInv DEF Discover
    <2>3. ASSUME NEW b \in Builds, NEW ok \in BOOLEAN, NEW q \in Reports, Prepare(m, b, ok, q)
          PROVE  Inv'
      BY <2>1, <2>3, PreparedSound, UpdateKeepsInv DEF Prepare
    <2>4. ASSUME Verify(m)
          PROVE  Inv'
      <3>1. Verified(r).state # "ACTIVE"
        BY <2>1 DEF Verified, Record
      <3>2. QED
        BY <2>1, <2>4, <3>1, OperationsKeepRecordsSound, UpdateKeepsInv DEF Verify, r
    <2>5. ASSUME NEW ok \in BOOLEAN, NEW q \in Reports, Qualify(m, ok, q)
          PROVE  Inv'
      <3>1. Qualified(r, ok, q).state # "ACTIVE"
        BY <2>1 DEF Qualified, Record
      <3>2. QED
        BY <2>1, <2>5, <3>1, OperationsKeepRecordsSound, UpdateKeepsInv DEF Qualify, r
    <2>6. ASSUME NEW q \in Reports, RestoreQualification(m, q)
          PROVE  Inv'
      <3>1. QualificationRestored(r, q).state # "ACTIVE"
        BY <2>1 DEF QualificationRestored, Record
      <3>2. QED
        BY <2>1, <2>6, <3>1, OperationsKeepRecordsSound, UpdateKeepsInv
           DEF RestoreQualification, r
    <2>7. ASSUME AuthorizeActivation(m)
          PROVE  Inv'
      <3>1. Authorized(r).state # "ACTIVE"
        BY <2>1, <2>7 DEF Authorized, AuthorizeActivation, CanAuthorize, Record, r
      <3>2. QED
        BY <2>1, <2>7, <3>1, OperationsKeepRecordsSound, UpdateKeepsInv
           DEF AuthorizeActivation, r
    <2>8. ASSUME NEW started \in BOOLEAN, NEW stopped \in BOOLEAN,
                 AuthorizeAndActivate(m, started, stopped)
          PROVE  Inv'
      <3>1. /\ Authorized(r) \in Record
            /\ SoundRecord(Authorized(r))
            /\ CanActivate(Authorized(r))
            /\ Authorized(r).build = r.build
            /\ r.build \in Builds
        BY <2>1, <2>8, OperationsKeepRecordsSound, AuthorizedCanActivate
           DEF AuthorizeAndActivate, Authorized, CanAuthorize, Record, SoundRecord, r
      <3>2. /\ Activated(Authorized(r)) \in Record
            /\ SoundRecord(Activated(Authorized(r)))
            /\ Activated(Authorized(r)).build = r.build
        BY <3>1, OperationsKeepRecordsSound DEF Activated, Record
      <3>3. /\ Failed(Authorized(r)) \in Record
            /\ SoundRecord(Failed(Authorized(r)))
            /\ Failed(Authorized(r)).state # "ACTIVE"
        BY <3>1, OperationsKeepRecordsSound DEF Failed, Record, CanFail, CanActivate
      <3>4. CASE started
        <4>1. /\ modules' = [modules EXCEPT ![m] = Activated(Authorized(r))]
              /\ executing' = [executing EXCEPT ![m] = executing[m] \cup {r.build}]
          BY <2>8, <3>1, <3>4 DEF AuthorizeAndActivate, r
        <4>2. executing[m] \cup {r.build} \in SUBSET Builds
          BY <2>1, <3>1
        <4>3. Activated(Authorized(r)).build \in executing[m] \cup {r.build}
          BY <3>2
        <4>4. QED
          BY <3>2, <4>1, <4>2, <4>3, UpdateKeepsInv
      <3>5. CASE ~started
        <4>1. /\ modules' = [modules EXCEPT ![m] = Failed(Authorized(r))]
              /\ executing' = executing
          BY <2>8, <3>5 DEF AuthorizeAndActivate, r
        <4>2. QED
          BY <2>1, <3>3, <4>1, UpdateKeepsInv
      <3>6. QED
        BY <3>4, <3>5
    <2>9. ASSUME NEW stopped \in BOOLEAN, AbiStop(m, stopped)
          PROVE  Inv'
      <3>1. /\ Stopped(r) \in Record /\ SoundRecord(Stopped(r))
            /\ Failed(r) \in Record /\ SoundRecord(Failed(r))
            /\ Stopped(r).state # "ACTIVE" /\ Failed(r).state # "ACTIVE"
        BY <2>1, <2>9, OperationsKeepRecordsSound
           DEF AbiStop, CanStop, CanFail, Stopped, Failed, Record, r
      <3>2. CASE stopped
        BY <2>1, <2>9, <3>1, <3>2, UpdateKeepsInv DEF AbiStop, r
      <3>3. CASE ~stopped
        BY <2>1, <2>9, <3>1, <3>3, UpdateKeepsInv DEF AbiStop, r
      <3>4. QED
        BY <3>2, <3>3
    <2>10. Absent \in Record /\ SoundRecord(Absent) /\ Absent.state # "ACTIVE"
      BY RegistryAssumption DEF Absent, Record, States, SoundRecord, NoReport
    <2>11. ASSUME Unregister(m)
           PROVE  Inv'
      BY <2>1, <2>10, <2>11, UpdateKeepsInv DEF Unregister
    <2>12. ASSUME NEW stopped \in BOOLEAN, PrepareReplacement(m, stopped)
           PROVE  Inv'
      <3>1. CASE stopped
        BY <2>1, <2>10, <2>12, <3>1, UpdateKeepsInv DEF PrepareReplacement, r
      <3>2. CASE ~stopped
        BY <2>9, <2>12, <3>2 DEF PrepareReplacement
      <3>3. QED
        BY <3>1, <3>2
    <2>13. ASSUME Fail(m)
           PROVE  Inv'
      <3>1. Failed(r) \in Record /\ SoundRecord(Failed(r)) /\ Failed(r).state # "ACTIVE"
        BY <2>1, <2>13, OperationsKeepRecordsSound DEF Fail, Failed, Record, r
      <3>2. QED
        BY <2>1, <2>13, <3>1, UpdateKeepsInv DEF Fail, r
    <2>14. ASSUME Quarantine(m)
           PROVE  Inv'
      <3>1. /\ Quarantined(r) \in Record /\ SoundRecord(Quarantined(r))
            /\ Quarantined(r).state # "ACTIVE"
        BY <2>1, <2>14, OperationsKeepRecordsSound DEF Quarantine, Quarantined, Record, r
      <3>2. QED
        BY <2>1, <2>14, <3>1, UpdateKeepsInv DEF Quarantine, r
    <2>15. QED
      BY <1>2, <2>2, <2>3, <2>4, <2>5, <2>6, <2>7, <2>8, <2>9, <2>11, <2>12, <2>13, <2>14
         DEF Enter, Judge, Run, Leave
  <1>3. QED
    BY <1>1, <1>2 DEF Next

LEMMA InitInv == Init => Inv
  BY RegistryAssumption
     DEF Init, Inv, TypeOK, RecordsSound, ActiveIsExecuting, SoundRecord, Absent,
         Record, States, NoReport

(* The inductive invariant holds of every behaviour.                       *)
THEOREM InvAlways == Spec => []Inv
  BY InitInv, StepKeepsInv, PTL DEF Spec

(* Type correctness of the registry and of the execution record.           *)
THEOREM TypeCorrect == Spec => []TypeOK
  <1>1. Inv => TypeOK
    BY DEF Inv
  <1>2. QED
    BY <1>1, InvAlways, PTL

(* No record ever claims evidence or authority it does not hold, whatever  *)
(* sequence of registry and ABI calls is made.                             *)
THEOREM RecordsAlwaysSound == Spec => []RecordsSound
  <1>1. Inv => RecordsSound
    BY DEF Inv
  <1>2. QED
    BY <1>1, InvAlways, PTL

(* A record that says ACTIVE names a build that is executing.              *)
THEOREM ActiveAlwaysExecuting == Spec => []ActiveIsExecuting
  <1>1. Inv => ActiveIsExecuting
    BY DEF Inv
  <1>2. QED
    BY <1>1, InvAlways, PTL
-----------------------------------------------------------------------------
(* Only abi_authorize_and_activate puts a build into execution.            *)
LEMMA OnlyActivateStarts ==
  ASSUME Inv, [Next]_vars, NEW m \in Ids, NEW b \in executing'[m] \ executing[m]
  PROVE  /\ CanAuthorize(modules[m])
         /\ modules[m].build = b
  <1>1. executing' # executing
    OBVIOUS
  <1>2. PICK n \in Ids : Enter(n) \/ Judge(n) \/ Run(n) \/ Leave(n)
    BY <1>1 DEF Next, vars
  <1>3. executing \in [Ids -> SUBSET Builds]
    BY DEF Inv, TypeOK
  <1>4. ASSUME NEW stopped \in BOOLEAN, AbiStop(n, stopped) \/ PrepareReplacement(n, stopped)
        PROVE  FALSE
    BY <1>1, <1>3, <1>4 DEF AbiStop, PrepareReplacement
  <1>5. PICK started \in BOOLEAN, stopped \in BOOLEAN :
          AuthorizeAndActivate(n, started, stopped)
    BY <1>1, <1>2, <1>4
       DEF Enter, Discover, Prepare, Judge, Verify, Qualify, RestoreQualification,
           Run, AuthorizeActivation, Leave, Unregister, Fail, Quarantine
  <1>6. QED
    BY <1>1, <1>3, <1>5 DEF AuthorizeAndActivate

(* Code is started only on evidence (see StartsOnlyProven).                *)
THEOREM StartsAreProven == Spec => StartsOnlyProven
  <1> DEFINE A ==
        \A m \in Ids, b \in Builds :
          b \in executing'[m] \ executing[m] =>
            /\ modules[m].build = b
            /\ modules[m].state \in {"QUALIFIED", "STOPPED"}
            /\ ValidReport(modules[m].qualification)
            /\ Compatible(b)
  <1>1. Inv /\ [Next]_vars => A
    <2> SUFFICES ASSUME Inv, [Next]_vars,
                        NEW m \in Ids, NEW b \in Builds, b \in executing'[m] \ executing[m]
                 PROVE  /\ modules[m].build = b
                        /\ modules[m].state \in {"QUALIFIED", "STOPPED"}
                        /\ ValidReport(modules[m].qualification)
                        /\ Compatible(b)
      OBVIOUS
    <2>1. CanAuthorize(modules[m]) /\ modules[m].build = b
      BY OnlyActivateStarts
    <2>2. SoundRecord(modules[m])
      BY DEF Inv, RecordsSound
    <2>3. QED
      BY <2>1, <2>2 DEF CanAuthorize, SoundRecord
  <1>2. Inv /\ [Next]_vars => [A]_vars
    BY <1>1
  <1>3. QED
    BY <1>2, InvAlways, PTL DEF Spec, StartsOnlyProven

-----------------------------------------------------------------------------
(* What one step makes of one record: it is left alone or it is rewritten  *)
(* by one of the registry functions in a state that admits it.             *)
RecordStep(r, s) ==
  \/ s = r
  \/ CanDiscover(r) /\ s \in Record /\ ~s.authorized
       /\ s.state \in {"DISCOVERED", "QUALIFIED", "FAILED"}
  \/ CanVerify(r) /\ s = Verified(r)
  \/ CanQualify(r) /\ s \in Record /\ s.authorized \in {FALSE, r.authorized}
       /\ s.state \in {"QUALIFIED", "FAILED"}
  \/ CanAuthorize(r) /\ s \in {Authorized(r), Activated(Authorized(r)), Failed(Authorized(r))}
  \/ CanStop(r) /\ s \in {Stopped(r), Failed(r), Absent}
  \/ CanUnregister(r) /\ s = Absent
  \/ CanFail(r) /\ s \in {Failed(r), Quarantined(r)}

LEMMA StepsRewriteOneRecord ==
  ASSUME Inv, Next
  PROVE  \E m \in Ids : \E s : /\ RecordStep(modules[m], s)
                               /\ modules' = [modules EXCEPT ![m] = s]
  <1>1. PICK m \in Ids : Enter(m) \/ Judge(m) \/ Run(m) \/ Leave(m)
    BY DEF Next
  <1> DEFINE r == modules[m]
  <1>2. r \in Record
    BY DEF Inv, TypeOK
  <1> SUFFICES \E s : RecordStep(r, s) /\ modules' = [modules EXCEPT ![m] = s]
    OBVIOUS
  <1> HIDE DEF r
  <1>3. CASE Enter(m)
    <2>1. ASSUME NEW b \in Builds, Discover(m, b)
          PROVE  RecordStep(r, Discovered(b))
      <3>1. /\ Discovered(b) \in Record
            /\ ~Discovered(b).authorized
            /\ Discovered(b).state = "DISCOVERED"
        BY RegistryAssumption DEF Discovered, Absent, Record, States, NoReport
      <3>2. QED
        BY <2>1, <3>1 DEF Discover, RecordStep, r
    <2>2. ASSUME NEW b \in Builds, NEW ok \in BOOLEAN, NEW q \in Reports, Prepare(m, b, ok, q)
          PROVE  RecordStep(r, Prepared(b, ok, q))
      BY <2>2, PreparedSound DEF Prepare, RecordStep, r
    <2>3. QED
      BY <1>3, <2>1, <2>2 DEF Enter, Discover, Prepare
  <1>4. CASE Judge(m)
    <2>1. CASE Verify(m)
      BY <2>1 DEF Verify, RecordStep, r
    <2>2. ASSUME NEW ok \in BOOLEAN, NEW q \in Reports, Qualify(m, ok, q)
          PROVE  RecordStep(r, Qualified(r, ok, q))
      <3>1. /\ Qualified(r, ok, q) \in Record
            /\ Qualified(r, ok, q).authorized \in {FALSE, r.authorized}
            /\ Qualified(r, ok, q).state \in {"QUALIFIED", "FAILED"}
        BY <1>2 DEF Qualified, Record, States
      <3>2. QED
        BY <2>2, <3>1 DEF Qualify, RecordStep, r
    <2>3. ASSUME NEW q \in Reports, RestoreQualification(m, q)
          PROVE  RecordStep(r, QualificationRestored(r, q))
      <3>1. /\ QualificationRestored(r, q) \in Record
            /\ QualificationRestored(r, q).authorized = FALSE
            /\ QualificationRestored(r, q).state = "QUALIFIED"
        BY <1>2 DEF QualificationRestored, Record, States
      <3>2. QED
        BY <2>3, <3>1 DEF RestoreQualification, CanRestoreQualification, CanQualify, RecordStep, r
    <2>4. QED
      BY <1>4, <2>1, <2>2, <2>3 DEF Judge, Qualify, RestoreQualification, r
  <1>5. CASE Run(m)
    BY <1>5 DEF Run, AuthorizeActivation, AuthorizeAndActivate, AbiStop, RecordStep, r
  <1>6. CASE Leave(m)
    <2>1. CASE Unregister(m)
      BY <2>1 DEF Unregister, RecordStep, r
    <2>2. ASSUME NEW stopped \in BOOLEAN, PrepareReplacement(m, stopped)
          PROVE  \E s : RecordStep(r, s) /\ modules' = [modules EXCEPT ![m] = s]
      BY <2>2 DEF PrepareReplacement, AbiStop, RecordStep, r
    <2>3. CASE Fail(m)
      BY <2>3 DEF Fail, RecordStep, r
    <2>4. CASE Quarantine(m)
      BY <2>4 DEF Quarantine, CanQuarantine, CanFail, RecordStep, r
    <2>5. QED
      BY <1>6, <2>1, <2>2, <2>3, <2>4 DEF Leave
  <1>7. QED
    BY <1>1, <1>3, <1>4, <1>5, <1>6

(* The phases a record can move between in one step.                       *)
LEMMA RecordStepsMovePhase ==
  ASSUME NEW r \in Record, NEW s, RecordStep(r, s)
  PROVE  \/ Phase(r) = Phase(s)
         \/ Phase(r) = "out" /\ Phase(s) \in {"candidate", "proven", "rejected"}
         \/ Phase(r) = "candidate" /\ Phase(s) \in {"candidate", "proven", "rejected"}
         \/ Phase(r) = "proven" /\ Phase(s) \in {"proven", "running", "rejected"}
         \/ Phase(r) = "running" /\ Phase(s) \in {"proven", "rejected", "out"}
         \/ Phase(r) \in {"candidate", "proven", "running", "rejected"} /\ Phase(s) = "rejected"
         \/ Phase(r) \in {"proven", "rejected"} /\ Phase(s) = "out"
  <1>1. /\ r.state = "ABSENT" => Phase(r) = "out"
        /\ r.state \in {"DISCOVERED", "UNVERIFIED"} => Phase(r) = "candidate"
        /\ r.state \in {"QUALIFIED", "STOPPED"} => Phase(r) = "proven"
        /\ r.state = "ACTIVE" => Phase(r) = "running"
        /\ r.state \in {"FAILED", "QUARANTINED"} => Phase(r) = "rejected"
        /\ r.state \in States
    BY DEF Phase, Record
  <1>2. /\ Phase(Absent) = "out"
        /\ Phase(Failed(r)) = "rejected" /\ Phase(Quarantined(r)) = "rejected"
        /\ Phase(Stopped(r)) = "proven"
        /\ Phase(Authorized(r)) = Phase(r)
        /\ Phase(Activated(Authorized(r))) = "running"
        /\ Phase(Failed(Authorized(r))) = "rejected"
        /\ Phase(Verified(r)) \in {"candidate", "rejected"}
    BY DEF Phase, Record, Absent, Failed, Quarantined, Stopped, Authorized, Activated, Verified
  <1>3. /\ s.state = "DISCOVERED" => Phase(s) = "candidate"
        /\ s.state = "QUALIFIED" => Phase(s) = "proven"
        /\ s.state = "FAILED" => Phase(s) = "rejected"
    BY DEF Phase
  <1>4. CASE CanDiscover(r) /\ s.state \in {"DISCOVERED", "QUALIFIED", "FAILED"}
    BY <1>1, <1>3, <1>4 DEF CanDiscover
  <1>5. CASE CanVerify(r) /\ s = Verified(r)
    BY <1>1, <1>2, <1>5 DEF CanVerify
  <1>6. CASE CanQualify(r) /\ s.state \in {"QUALIFIED", "FAILED"}
    BY <1>1, <1>3, <1>6 DEF CanQualify
  <1>7. CASE CanAuthorize(r) /\ s \in {Authorized(r), Activated(Authorized(r)),
                                       Failed(Authorized(r))}
    BY <1>1, <1>2, <1>7 DEF CanAuthorize
  <1>8. CASE CanStop(r) /\ s \in {Stopped(r), Failed(r), Absent}
    BY <1>1, <1>2, <1>8 DEF CanStop
  <1>9. CASE CanUnregister(r) /\ s = Absent
    BY <1>1, <1>2, <1>9 DEF CanUnregister
  <1>10. CASE CanFail(r) /\ s \in {Failed(r), Quarantined(r)}
    BY <1>1, <1>2, <1>10 DEF CanFail, States
  <1>11. QED
    BY <1>4, <1>5, <1>6, <1>7, <1>8, <1>9, <1>10 DEF RecordStep

(* The ABI layer implements the abstract lifecycle: its initial state maps *)
(* to the abstract one, and every step maps to an abstract step or none.   *)
THEOREM Refinement == Spec => ImplementsLifecycle
  <1> DEFINE ph == [m \in Ids |-> Phase(modules[m])]
  <1>1. Init => Lifecycle!Init
    BY DEF Init, Lifecycle!Init, Phase, Absent
  <1>2. Inv /\ [Next]_vars => [Lifecycle!Next]_ph
    <2> SUFFICES ASSUME Inv, Next PROVE Lifecycle!Next \/ ph' = ph
      BY DEF vars
    <2>1. PICK m \in Ids : \E r : /\ RecordStep(modules[m], r)
                                  /\ modules' = [modules EXCEPT ![m] = r]
      BY StepsRewriteOneRecord
    <2>1a. PICK s : RecordStep(modules[m], s) /\ modules' = [modules EXCEPT ![m] = s]
      BY <2>1
    <2>2. modules \in [Ids -> Record]
      BY DEF Inv, TypeOK
    <2>3. ph' = [ph EXCEPT ![m] = Phase(s)]
      BY <2>1a, <2>2
    <2>4. ph[m] = Phase(modules[m])
      OBVIOUS
    <2>5. \/ ph[m] = Phase(s)
          \/ ph[m] = "out" /\ Phase(s) \in {"candidate", "proven", "rejected"}
          \/ ph[m] = "candidate" /\ Phase(s) \in {"candidate", "proven", "rejected"}
          \/ ph[m] = "proven" /\ Phase(s) \in {"proven", "running", "rejected"}
          \/ ph[m] = "running" /\ Phase(s) \in {"proven", "rejected", "out"}
          \/ ph[m] \in Lifecycle!Phases \ {"out"} /\ Phase(s) = "rejected"
          \/ ph[m] \in {"proven", "rejected"} /\ Phase(s) = "out"
      BY <2>1a, <2>2, <2>4, RecordStepsMovePhase DEF Lifecycle!Phases
    <2>6. QED
      BY <2>3, <2>5
         DEF Lifecycle!Next, Lifecycle!Admit, Lifecycle!Judge, Lifecycle!Start,
             Lifecycle!Stop, Lifecycle!Reject, Lifecycle!Remove, Lifecycle!Replace,
             Lifecycle!Move, Lifecycle!Phases
  <1>3. QED
    BY <1>1, <1>2, InvAlways, PTL DEF Spec, ImplementsLifecycle, Lifecycle!Spec
=============================================================================
