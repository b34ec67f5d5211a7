-------------------------- MODULE RictusCore_proofs --------------------------
(***************************************************************************)
(* Proofs about Hotload and about RictusCore, whose polls take its steps,  *)
(* for any ids, builds, files and faults.                                  *)
(*                                                                         *)
(* Of Hotload, three invariants, each on top of the one before.  JobInv    *)
(* says what the call in progress is holding at each of its places and     *)
(* needs nothing.  LedgerInv adds what the registry, the live loader and   *)
(* the watch's table say of the module in work and of the others; it needs *)
(* an audit log that can be written (LogIsWritten).  CodeInv adds what is  *)
(* executing; it needs besides that stop() does not fail in a module whose *)
(* handle the loader may be unable to take (StopOrLoader).  Without either *)
(* premise the code unloads running code: run hotload_log, and README      *)
(* section 7.                                                              *)
(*                                                                         *)
(* Of RictusCore, MainInv, of where the main thread is, which needs        *)
(* nothing, and CloseInv, of what the shutdown finds and leaves, which     *)
(* needs a stop() that does not fail in the watch (StopSucceeds), nor in a *)
(* process whose log fails (StopOrLog).  TriedInv follows stop_all where   *)
(* its result is looked at; it has the premises of CodeInv.                *)
(***************************************************************************)
EXTENDS RictusCore, FiniteSetTheorems, SequenceTheorems, TLAPS

LogIsWritten == \A f \in FaultMaps : \A m \in Ids : "log" \notin f[m]
StopOrLoader ==
  \A f \in FaultMaps : \A m \in Ids : "stop" \notin f[m] \/ "loader" \notin f[m]

\* The places of a job on a new module and on an update.
Fetching == {"detected", "staged", "loaded"}
InWork(m, places) == job.id = m /\ job.at \in places
New(m, places) == InWork(m, places) /\ job.kind = "new"
Update(m, places) == InWork(m, places) /\ job.kind = "update"

HasBuild == \A m \in Ids : modules[m].state # "ABSENT" => modules[m].build \in Builds

\* The candidate loader holds the candidate until the live one takes it.
HoldsAt(place, kind) ==
  \/ place \in {"loaded", "activated", "rollback", "green", "stopped"}
  \/ place = "qualified" /\ kind = "new"
HoldsCandidate == HoldsAt(job.at, job.kind)

JobInv ==
  /\ TypeOK
  /\ HasBuild
  /\ IF At("idle") THEN job.id = NoId ELSE job.id \in Ids /\ job.sha \in Builds
  /\ candidate = IF HoldsCandidate THEN job.sha ELSE NoBuild
  /\ HoldsCandidate => job.sha \notin Broken
  /\ job.at \in {"activated", "rollback"} => job.kind = "new"
  /\ job.at \in {"green", "stopped", "owned", "withdraw", "remove"} => job.kind = "update"
  /\ \A m \in Ids :
       Update(m, {"owned", "qualified", "withdraw", "remove"}) => loader[m] # <<>>

-----------------------------------------------------------------------------
\* What the table remembers of an ACTIVE module.
Remembered(m) ==
  modules[m].state = "ACTIVE" =>
    /\ seen[m].known => seen[m].version = Version[modules[m].build]
    /\ "seen" \notin faults[m] => seen[m].known /\ seen[m].active = modules[m].build

\* A module no call is changing.
Settled(m) ==
  /\ modules[m].state \in {"ABSENT", "ACTIVE", "FAILED"}
  /\ loader[m] = IF modules[m].state = "ABSENT" THEN <<>> ELSE <<modules[m].build>>
  /\ Remembered(m)

Proven(b) == Compatible(b) /\ ValidReport(Tests[b])

Ledger(m) ==
  /\ job.id # m \/ job.at \in Fetching \cup {"green"} => Settled(m)
  /\ New(m, Fetching) => modules[m].state = "ABSENT"
  /\ Update(m, Fetching \cup {"green"}) => modules[m].state = "ACTIVE" /\ seen[m].known
  /\ InWork(m, {"green"}) => VersionNewer(seen[m].version, Version[job.sha])
  /\ InWork(m, {"green", "stopped", "owned"}) => Proven(job.sha)
  /\ InWork(m, {"stopped"}) =>
       modules[m].state = "STOPPED" /\ loader[m] = <<modules[m].build>>
  /\ InWork(m, {"qualified", "activated"}) => modules[m].build = job.sha
  /\ InWork(m, {"qualified"}) => modules[m].state = "QUALIFIED"
  /\ InWork(m, {"activated"}) => modules[m].state = "ACTIVE"
  /\ InWork(m, {"owned"}) => modules[m].state = "ABSENT"
  /\ InWork(m, {"rollback"}) => modules[m].state \in {"ABSENT", "FAILED", "STOPPED"}
  /\ InWork(m, {"withdraw", "remove"}) => modules[m].state \in {"ABSENT", "FAILED"}
  /\ New(m, {"qualified", "activated", "rollback"}) => loader[m] = <<>>
  /\ Update(m, {"owned", "qualified", "withdraw", "remove"}) => loader[m] = <<job.sha>>

LedgerInv == JobInv /\ \A m \in Ids : Ledger(m)

-----------------------------------------------------------------------------
\* The one build of a module that may be executing.
Code(m) ==
  IF /\ modules[m].state \in {"ACTIVE", "FAILED"}
     /\ ~InWork(m, {"rollback", "withdraw", "remove"})
  THEN {modules[m].build} ELSE {}

CodeInv == LedgerInv /\ \A m \in Ids : executing[m] \subseteq Code(m)

-----------------------------------------------------------------------------
(* What the registry functions leave of a record.                          *)
LEMMA RecordResults ==
  ASSUME NEW r \in Record
  PROVE  /\ Absent \in Record /\ Absent.state = "ABSENT"
         /\ Stopped(r) \in Record /\ Stopped(r).state = "STOPPED"
         /\ Stopped(r).build = r.build
         /\ Failed(r) \in Record /\ Failed(r).state = "FAILED" /\ Failed(r).build = r.build
         /\ Authorized(r) \in Record /\ Authorized(r).state = r.state
         /\ Authorized(r).build = r.build
         /\ CanAuthorize(r) => CanActivate(Authorized(r))
         /\ Activated(r) \in Record /\ Activated(r).state = "ACTIVE"
         /\ Activated(r).build = r.build
  BY DEF Record, States, Absent, NoReport, Stopped, Failed, Authorized, Activated,
         CanAuthorize, CanActivate

(* A build that is prepared qualifies only if it is proven.                *)
LEMMA PreparedResults ==
  ASSUME NEW b \in Builds, NEW ok \in BOOLEAN, NEW q \in Reports
  PROVE  /\ Prepared(b, ok, q) \in Record /\ Prepared(b, ok, q).build = b
         /\ Prepared(b, ok, q).state \in {"QUALIFIED", "FAILED"}
         /\ Prepared(b, ok, q).state = "QUALIFIED" => Compatible(b) /\ ValidReport(q)
  BY DEF Prepared, Discovered, CanQualify, Verified, Qualified, Record, States,
         Absent, NoReport

(* A proven build is reinstated as QUALIFIED.                              *)
LEMMA ReinstatedResults ==
  ASSUME NEW b \in Builds, NEW q \in Reports
  PROVE  /\ Reinstated(b, q) \in Record /\ Reinstated(b, q).build = b
         /\ Reinstated(b, q).state # "ABSENT"
         /\ Compatible(b) /\ ValidReport(q) => Reinstated(b, q).state = "QUALIFIED"
  BY DEF Reinstated, Discovered, CanRestoreQualification, QualificationRestored,
         Verified, Record, States, Absent, NoReport

(* A note in the watch's table is lost only by an entry that is not there  *)
(* and cannot be made.                                                     *)
LEMMA NoteResults ==
  ASSUME TypeOK, NEW m \in Ids, NEW entry \in Observed, Note(m, entry)
  PROVE  /\ seen' \in [Ids -> Observed]
         /\ \A k \in Ids \ {m} : seen'[k] = seen[k]
         /\ \/ seen'[m] = [entry EXCEPT !.known = TRUE]
            \/ seen'[m] = seen[m] /\ ~seen[m].known /\ "seen" \in faults[m]
  <1> DEFINE noted == [entry EXCEPT !.known = TRUE]
  <1>1. noted \in Observed /\ seen \in [Ids -> Observed]
    BY DEF Observed, TypeOK
  <1>2. PICK allocated \in IF MayFail(m, "seen") THEN BOOLEAN ELSE {TRUE} :
          seen' = IF seen[m].known \/ allocated THEN [seen EXCEPT ![m] = noted] ELSE seen
    BY DEF Note
  <1> HIDE DEF noted
  <1>3. CASE seen[m].known \/ allocated
    BY <1>1, <1>2, <1>3 DEF noted
  <1>4. CASE ~(seen[m].known \/ allocated)
    BY <1>1, <1>2, <1>4 DEF MayFail
  <1>5. QED
    BY <1>3, <1>4

(* Rejecting the candidate's bytes changes nothing else that is remembered.*)
LEMMA MarkRejectedResults ==
  ASSUME TypeOK, job.id \in Ids, job.sha \in Builds, MarkRejected
  PROVE  /\ seen' \in [Ids -> Observed]
         /\ \A k \in Ids \ {job.id} : seen'[k] = seen[k]
         /\ seen[job.id].known => seen'[job.id].known
         /\ seen'[job.id].active = seen[job.id].active
         /\ seen'[job.id].version = seen[job.id].version
         /\ "seen" \notin faults[job.id] => seen'[job.id].known
  <1>1. seen[job.id] \in Observed
    BY DEF TypeOK
  <1>2. [seen[job.id] EXCEPT !.rejected = job.sha] \in Observed
    BY <1>1 DEF Observed
  <1> DEFINE noted == [[seen[job.id] EXCEPT !.rejected = job.sha] EXCEPT !.known = TRUE]
  <1>3. /\ noted.known /\ noted.active = seen[job.id].active
        /\ noted.version = seen[job.id].version
    BY <1>1 DEF Observed
  <1>4. /\ seen' \in [Ids -> Observed]
        /\ \A k \in Ids \ {job.id} : seen'[k] = seen[k]
        /\ \/ seen'[job.id] = noted
           \/ seen'[job.id] = seen[job.id] /\ ~seen[job.id].known /\ "seen" \in faults[job.id]
    BY <1>2, NoteResults DEF MarkRejected
  <1> HIDE DEF noted
  <1>5. QED
    BY <1>3, <1>4

(* The module that became ACTIVE is remembered with its version.           *)
LEMMA MarkActiveResults ==
  ASSUME TypeOK, job.id \in Ids, job.sha \in Builds, MarkActive
  PROVE  /\ seen' \in [Ids -> Observed]
         /\ \A k \in Ids \ {job.id} : seen'[k] = seen[k]
         /\ seen'[job.id].known =>
              seen'[job.id].active = job.sha /\ seen'[job.id].version = Version[job.sha]
         /\ "seen" \notin faults[job.id] => seen'[job.id].known
  <1> DEFINE v == Version[job.sha]
             entry == [known |-> TRUE, active |-> job.sha, rejected |-> NoBuild, version |-> v]
  <1>1. entry \in Observed
    <2>1. v \in Nat \X Nat \X Nat
      BY HotloadAssumption
    <2>2. QED
      BY <2>1, Zenon DEF Observed
  <1>2. Note(job.id, entry)
    BY DEF MarkActive
  <1>3. entry.active = job.sha /\ entry.version = v /\ entry.known
    BY Zenon
  <1>4. [entry EXCEPT !.known = TRUE] = entry
    BY <1>3, Zenon
  <1> HIDE DEF entry
  <1>5. QED
    BY <1>1, <1>2, <1>3, <1>4, NoteResults

-----------------------------------------------------------------------------
(* The registry operators the ABI layer uses are the registry's.           *)
LEMMA AbiIsRegistry ==
  /\ Abi!Record = Record
  /\ Abi!Absent = Absent
  /\ \A r : Abi!CanAuthorize(r) = CanAuthorize(r) /\ Abi!CanActivate(r) = CanActivate(r)
  /\ \A r : Abi!CanStop(r) = CanStop(r) /\ Abi!CanUnregister(r) = CanUnregister(r)
  /\ \A r : Abi!CanDiscover(r) = CanDiscover(r)
  /\ \A r : Abi!Authorized(r) = Authorized(r) /\ Abi!Activated(r) = Activated(r)
  /\ \A r : Abi!Failed(r) = Failed(r) /\ Abi!Stopped(r) = Stopped(r)
  <1>1. Abi!Record = Record /\ Abi!Absent = Absent
    BY DEF Abi!Record, Record, Abi!States, States, Abi!NoReport, NoReport, Abi!Absent, Absent
  <1>2. \A r : Abi!CanAuthorize(r) = CanAuthorize(r) /\ Abi!CanActivate(r) = CanActivate(r)
    BY Zenon DEF Abi!CanAuthorize, CanAuthorize, Abi!CanActivate, CanActivate
  <1>3. \A r : Abi!CanStop(r) = CanStop(r) /\ Abi!CanUnregister(r) = CanUnregister(r)
    BY Zenon DEF Abi!CanStop, CanStop, Abi!CanUnregister, CanUnregister
  <1>4. \A r : Abi!CanDiscover(r) = CanDiscover(r)
    BY Zenon DEF Abi!CanDiscover, CanDiscover
  <1>5. \A r : Abi!Authorized(r) = Authorized(r) /\ Abi!Activated(r) = Activated(r)
    BY Zenon DEF Abi!Authorized, Authorized, Abi!Activated, Activated
  <1>6. \A r : Abi!Failed(r) = Failed(r) /\ Abi!Stopped(r) = Stopped(r)
    BY Zenon DEF Abi!Failed, Failed, Abi!Stopped, Stopped
  <1>7. QED
    BY <1>1, <1>2, <1>3, <1>4, <1>5, <1>6

\* A step that changes the records of m at most.
Touches(m) ==
  /\ modules' \in [Ids -> Record]
  /\ executing' \in [Ids -> SUBSET Builds]
  /\ \A k \in Ids \ {m} : modules'[k] = modules[k] /\ executing'[k] = executing[k]
  /\ HasBuild'

(* A record that is replaced, and the code of its id.                      *)
LEMMA TouchesOne ==
  ASSUME JobInv, NEW m \in Ids, NEW r \in Record, r.state # "ABSENT" => r.build \in Builds,
         NEW E \in SUBSET Builds, modules' = [modules EXCEPT ![m] = r],
         executing' = [executing EXCEPT ![m] = E]
  PROVE  Touches(m) /\ modules'[m] = r /\ executing'[m] = E
  <1>1. modules \in [Ids -> Record] /\ executing \in [Ids -> SUBSET Builds]
    BY AbiIsRegistry DEF JobInv, TypeOK, Abi!TypeOK
  <1>2. /\ modules' \in [Ids -> Record] /\ executing' \in [Ids -> SUBSET Builds]
        /\ modules'[m] = r /\ executing'[m] = E
        /\ \A k \in Ids \ {m} : modules'[k] = modules[k] /\ executing'[k] = executing[k]
    BY <1>1
  <1>3. QED
    BY <1>2 DEF JobInv, HasBuild, Touches

(* authorize_and_activate with a stop() that would succeed.                *)
LEMMA ActivateResults ==
  ASSUME JobInv, NEW m \in Ids, NEW started \in BOOLEAN,
         Abi!AuthorizeAndActivate(m, started, TRUE)
  PROVE  /\ modules[m].state \in {"QUALIFIED", "STOPPED"}
         /\ Touches(m) /\ modules'[m].build = modules[m].build
         /\ modules'[m].state = IF started THEN "ACTIVE" ELSE "FAILED"
         /\ executing'[m] = IF started THEN executing[m] \cup {modules[m].build}
                                       ELSE executing[m]
  <1> DEFINE r == IF started THEN Activated(Authorized(modules[m]))
                             ELSE Failed(Authorized(modules[m]))
             E == IF started THEN executing[m] \cup {modules[m].build} ELSE executing[m]
  <1>1. modules[m] \in Record /\ executing[m] \in SUBSET Builds
        /\ executing \in [Ids -> SUBSET Builds]
    BY AbiIsRegistry DEF JobInv, TypeOK, Abi!TypeOK
  <1>2. CanAuthorize(modules[m]) /\ modules[m].state \in {"QUALIFIED", "STOPPED"}
    BY AbiIsRegistry DEF Abi!AuthorizeAndActivate, CanAuthorize
  <1>3. modules[m].build \in Builds
    BY <1>2 DEF JobInv, HasBuild
  <1>4. CanActivate(Authorized(modules[m]))
    BY <1>1, <1>2, RecordResults
  <1>5. modules' = [modules EXCEPT ![m] = r]
    BY <1>4, AbiIsRegistry, Zenon DEF Abi!AuthorizeAndActivate
  <1>6. executing' = [executing EXCEPT ![m] = E]
    <2>1. executing' = IF started THEN [executing EXCEPT ![m] = @ \cup {modules[m].build}]
                                  ELSE executing
      BY <1>4, AbiIsRegistry, Zenon DEF Abi!AuthorizeAndActivate
    <2>2. QED
      BY <1>1, <2>1
  <1>7. /\ r \in Record /\ r.build = modules[m].build /\ E \in SUBSET Builds
        /\ r.state = IF started THEN "ACTIVE" ELSE "FAILED"
    BY <1>1, <1>3, RecordResults
  <1> HIDE DEF r, E
  <1>8. Touches(m) /\ modules'[m] = r /\ executing'[m] = E
    BY <1>3, <1>5, <1>6, <1>7, TouchesOne
  <1>9. QED
    BY <1>2, <1>7, <1>8 DEF E

(* core_stop of a record: what became of it tells what was asked of it.    *)
LEMMA CoreStopResults ==
  ASSUME JobInv, NEW m \in Ids, NEW requested \in BOOLEAN, NEW stopped \in BOOLEAN,
         CoreStop(m, requested, stopped)
  PROVE  /\ requested => modules[m].state = "ACTIVE"
         /\ Touches(m) /\ modules'[m].build = modules[m].build
         /\ modules'[m].state = IF requested THEN IF stopped THEN "STOPPED" ELSE "FAILED"
                                             ELSE modules[m].state
         /\ executing'[m] = IF requested /\ stopped THEN executing[m] \ {modules[m].build}
                                                    ELSE executing[m]
  <1> DEFINE r == IF requested THEN IF stopped THEN Stopped(modules[m])
                                               ELSE Failed(modules[m])
                               ELSE modules[m]
             E == IF requested /\ stopped THEN executing[m] \ {modules[m].build}
                                          ELSE executing[m]
  <1>1. /\ modules[m] \in Record /\ executing[m] \in SUBSET Builds
        /\ modules \in [Ids -> Record] /\ executing \in [Ids -> SUBSET Builds]
    BY AbiIsRegistry DEF JobInv, TypeOK, Abi!TypeOK
  <1>2. CASE ~requested
    <2>1. modules' = modules /\ executing' = executing
      BY <1>2, Zenon DEF CoreStop, lifecycle
    <2>2. QED
      BY <1>1, <1>2, <2>1 DEF Touches, JobInv, HasBuild
  <1>3. CASE requested
    <2>1. Abi!AbiStop(m, stopped)
      BY <1>3, Zenon DEF CoreStop
    <2>2. CanStop(modules[m])
      BY <2>1, AbiIsRegistry, Zenon DEF Abi!AbiStop
    <2>3. modules[m].state = "ACTIVE" /\ modules[m].build \in Builds
      BY <2>2 DEF CanStop, JobInv, HasBuild
    <2>4. modules' = [modules EXCEPT ![m] = r]
      BY <1>3, <2>1, AbiIsRegistry, Zenon DEF Abi!AbiStop
    <2>5. executing' = IF stopped THEN [executing EXCEPT ![m] = @ \ {modules[m].build}]
                                  ELSE executing
      BY <2>1, Zenon DEF Abi!AbiStop
    <2>6. executing' = [executing EXCEPT ![m] = E]
      BY <1>1, <1>3, <2>5
    <2>7. /\ r \in Record /\ r.build = modules[m].build /\ E \in SUBSET Builds
          /\ r.state = IF stopped THEN "STOPPED" ELSE "FAILED"
      BY <1>1, <1>3, RecordResults
    <2> HIDE DEF r, E
    <2>8. Touches(m) /\ modules'[m] = r /\ executing'[m] = E
      BY <2>3, <2>4, <2>6, <2>7, TouchesOne
    <2>9. QED
      BY <1>3, <2>3, <2>7, <2>8 DEF E
  <1>4. QED
    BY <1>2, <1>3

(* Unregistering removes the record, not the code.                         *)
LEMMA UnregisterResults ==
  ASSUME JobInv, NEW m \in Ids, Abi!Unregister(m)
  PROVE  /\ modules[m].state \in {"QUALIFIED", "STOPPED", "FAILED", "QUARANTINED"}
         /\ Touches(m) /\ modules'[m].state = "ABSENT" /\ executing'[m] = executing[m]
  <1>1. /\ modules[m] \in Record /\ executing[m] \in SUBSET Builds
        /\ executing \in [Ids -> SUBSET Builds]
    BY AbiIsRegistry DEF JobInv, TypeOK, Abi!TypeOK
  <1>2. /\ CanUnregister(modules[m]) /\ modules' = [modules EXCEPT ![m] = Absent]
        /\ executing' = executing
    BY AbiIsRegistry, Zenon DEF Abi!Unregister
  <1>3. executing' = [executing EXCEPT ![m] = executing[m]]
    BY <1>1, <1>2
  <1>4. Absent \in Record /\ Absent.state = "ABSENT"
    BY <1>1, RecordResults
  <1>5. QED
    BY <1>1, <1>2, <1>3, <1>4, TouchesOne DEF CanUnregister

(* abi_prepare makes a record of the candidate.                            *)
LEMMA PrepareResults ==
  ASSUME JobInv, NEW m \in Ids, NEW b \in Builds, NEW ok \in BOOLEAN,
         Abi!Prepare(m, b, ok, Tests[b])
  PROVE  /\ modules[m].state = "ABSENT"
         /\ Touches(m) /\ modules'[m].build = b /\ executing'[m] = executing[m]
         /\ modules'[m].state \in {"QUALIFIED", "FAILED"}
  <1> DEFINE r == Prepared(b, ok, Tests[b])
  <1>1. executing[m] \in SUBSET Builds /\ executing \in [Ids -> SUBSET Builds]
    BY DEF JobInv, TypeOK, Abi!TypeOK
  <1>2. Abi!Prepared(b, ok, Tests[b]) = r
    BY DEF Abi!Prepared, Prepared, Abi!Discovered, Discovered, Abi!Verified, Verified,
           Abi!CanQualify, CanQualify, Abi!Qualified, Qualified, Abi!Compatible, Compatible,
           Abi!ValidReport, ValidReport, Abi!Absent, Absent, Abi!NoReport, NoReport,
           Abi!STNLABZ_MODULE_API_MAJOR, STNLABZ_MODULE_API_MAJOR,
           Abi!STNLABZ_MODULE_API_MINOR, STNLABZ_MODULE_API_MINOR,
           Abi!STNLABZ_MODULE_MIN_TESTS, STNLABZ_MODULE_MIN_TESTS
  <1>3. CanDiscover(modules[m]) /\ modules' = [modules EXCEPT ![m] = r]
        /\ executing' = executing
    BY <1>2, AbiIsRegistry, Zenon DEF Abi!Prepare
  <1>4. executing' = [executing EXCEPT ![m] = executing[m]]
    BY <1>1, <1>3
  <1>5. Tests[b] \in Reports
    BY HotloadAssumption
  <1>6. r \in Record /\ r.build = b /\ r.state \in {"QUALIFIED", "FAILED"}
    BY <1>5, PreparedResults
  <1> HIDE DEF r
  <1>7. QED
    BY <1>1, <1>3, <1>4, <1>6, TouchesOne DEF CanDiscover

(* A call that leaves the records alone.                                   *)
LEMMA NothingTouched ==
  ASSUME JobInv, NEW m \in Ids, UNCHANGED lifecycle
  PROVE  Touches(m) /\ modules' = modules /\ executing' = executing
  <1>1. modules' = modules /\ executing' = executing
    BY DEF lifecycle
  <1>2. modules \in [Ids -> Record] /\ executing \in [Ids -> SUBSET Builds]
    BY AbiIsRegistry DEF JobInv, TypeOK, Abi!TypeOK
  <1>3. QED
    BY <1>1, <1>2 DEF Touches, JobInv, HasBuild

-----------------------------------------------------------------------------
\* What a step of the work on m leaves alone: every other module.
OnlyOne(m) ==
  /\ Touches(m)
  /\ faults' = faults
  /\ job.id \in {m, NoId} /\ job'.id \in {m, NoId}
  /\ loader' \in [Ids -> Seq(Builds)] /\ seen' \in [Ids -> Observed]
  /\ \A k \in Ids \ {m} : loader'[k] = loader[k] /\ seen'[k] = seen[k]

\* What is to be shown of it.
Keeps(m) ==
  /\ JobInv' /\ OnlyOne(m)
  /\ LogIsWritten /\ LedgerInv => Ledger(m)'
  /\ LogIsWritten /\ StopOrLoader /\ CodeInv => executing'[m] \subseteq Code(m)'

(* A job that moves on keeps what it holds.                                *)
LEMMA GoesOn ==
  ASSUME JobInv, NEW m \in Ids, job.id = m, UNCHANGED world, Touches(m),
         seen' \in [Ids -> Observed], loader' \in [Ids -> Seq(Builds)],
         \A k \in Ids \ {m} : loader'[k] = loader[k] /\ seen'[k] = seen[k],
         NEW place \in Places \ {"idle"}, Goto(place),
         candidate' = IF HoldsAt(place, job.kind) THEN job.sha ELSE NoBuild,
         HoldsAt(place, job.kind) => job.sha \notin Broken,
         place \in {"activated", "rollback"} => job.kind = "new",
         place \in {"green", "stopped", "owned", "withdraw", "remove"} => job.kind = "update",
         job.kind = "update" /\ place \in {"owned", "qualified", "withdraw", "remove"} =>
           loader'[m] # <<>>
  PROVE  /\ JobInv' /\ OnlyOne(m)
         /\ job'.at = place /\ job'.id = m /\ job'.kind = job.kind /\ job'.sha = job.sha
  <1>1. /\ job \in [at : Places, kind : {"new", "update"},
                    id : Ids \cup {NoId}, sha : Builds \cup {NoBuild}]
        /\ job.sha \in Builds /\ m # NoId
    BY HotloadAssumption DEF JobInv, TypeOK, At
  <1>2. job' = [job EXCEPT !.at = place]
    BY DEF Goto
  <1>3. /\ job' \in [at : Places, kind : {"new", "update"},
                     id : Ids \cup {NoId}, sha : Builds \cup {NoBuild}]
        /\ job'.at = place /\ job'.id = m /\ job'.kind = job.kind /\ job'.sha = job.sha
    BY <1>1, <1>2
  <1>4. disk' = disk /\ changes' = changes /\ faults' = faults
    BY DEF world
  <1>5. TypeOK'
    <2>1. Abi!TypeOK'
      BY AbiIsRegistry DEF Abi!TypeOK, Touches
    <2>2. QED
      BY <1>1, <1>3, <1>4, <2>1 DEF JobInv, TypeOK
  <1>6. OnlyOne(m)
    BY <1>3, <1>4 DEF OnlyOne
  <1>7. HoldsCandidate' <=> HoldsAt(place, job.kind)
    BY <1>3 DEF HoldsCandidate
  <1>8. \A k \in Ids : Update(k, {"owned", "qualified", "withdraw", "remove"})' => loader'[k] # <<>>
    BY <1>3 DEF Update, InWork
  <1>9. HasBuild'
    BY DEF Touches
  <1>10. QED
    BY <1>1, <1>3, <1>5, <1>6, <1>7, <1>8, <1>9 DEF JobInv, At

(* A job that is over has dropped what it held.                            *)
LEMMA IsOver ==
  ASSUME JobInv, NEW m \in Ids, job.id = m, UNCHANGED world, Touches(m),
         seen' \in [Ids -> Observed], loader' \in [Ids -> Seq(Builds)],
         \A k \in Ids \ {m} : loader'[k] = loader[k] /\ seen'[k] = seen[k],
         Finish
  PROVE  JobInv' /\ OnlyOne(m) /\ job'.id = NoId /\ job'.at = "idle" /\ job'.id # m
  <1>1. /\ job' \in [at : Places, kind : {"new", "update"},
                     id : Ids \cup {NoId}, sha : Builds \cup {NoBuild}]
        /\ job'.at = "idle" /\ job'.id = NoId /\ candidate' = NoBuild
    BY DEF Finish, NoJob, Places
  <1>2. disk' = disk /\ changes' = changes /\ faults' = faults
    BY DEF world
  <1>3. TypeOK'
    <2>1. Abi!TypeOK'
      BY AbiIsRegistry DEF Abi!TypeOK, Touches
    <2>2. QED
      BY <1>1, <1>2, <2>1 DEF JobInv, TypeOK
  <1>4. OnlyOne(m)
    BY <1>1, <1>2 DEF OnlyOne
  <1>5. m # NoId /\ NoId \notin Ids
    BY HotloadAssumption
  <1>6. ~HoldsCandidate'
    BY <1>1 DEF HoldsCandidate, HoldsAt
  <1>7. \A k \in Ids : ~Update(k, {"owned", "qualified", "withdraw", "remove"})'
    BY <1>1, <1>5 DEF Update, InWork
  <1>8. HasBuild'
    BY DEF Touches
  <1>9. QED
    BY <1>1, <1>3, <1>4, <1>5, <1>6, <1>7, <1>8 DEF JobInv, At

(* The modules a step does not touch stay as they were.                    *)
LEMMA OthersAsBefore ==
  ASSUME NEW m \in Ids, NEW k \in Ids \ {m}, OnlyOne(m)
  PROVE  /\ Ledger(k) => Ledger(k)'
         /\ executing[k] \subseteq Code(k) => executing'[k] \subseteq Code(k)'
  <1>1. /\ modules'[k] = modules[k] /\ executing'[k] = executing[k]
        /\ loader'[k] = loader[k] /\ seen'[k] = seen[k] /\ faults' = faults
        /\ job.id # k /\ job'.id # k
    BY HotloadAssumption DEF OnlyOne, Touches
  <1>2. Ledger(k) => Ledger(k)'
    BY <1>1 DEF Ledger, Settled, Remembered, InWork, New, Update
  <1>3. Code(k)' = Code(k)
    BY <1>1 DEF Code, InWork
  <1>4. QED
    BY <1>1, <1>2, <1>3

(* Keeping the invariants is a matter of the module in work.               *)
LEMMA KeepsAll ==
  ASSUME NEW m \in Ids, Keeps(m)
  PROVE  /\ LogIsWritten /\ LedgerInv => LedgerInv'
         /\ LogIsWritten /\ StopOrLoader /\ CodeInv => CodeInv'
  <1>1. ASSUME LogIsWritten, LedgerInv PROVE LedgerInv'
    BY <1>1, OthersAsBefore DEF Keeps, LedgerInv
  <1>2. ASSUME LogIsWritten, StopOrLoader, CodeInv PROVE CodeInv'
    BY <1>1, <1>2, OthersAsBefore DEF Keeps, CodeInv
  <1>3. QED
    BY <1>1, <1>2

-----------------------------------------------------------------------------
(* A settled module stays settled while what is said of it does.           *)
LEMMA SettledStays ==
  ASSUME NEW m \in Ids, Settled(m), modules'[m] = modules[m], loader'[m] = loader[m],
         faults' = faults,
         modules[m].state = "ACTIVE" =>
           /\ seen'[m].known <=> seen[m].known
           /\ seen'[m].active = seen[m].active /\ seen'[m].version = seen[m].version
  PROVE  Settled(m)'
  BY DEF Settled, Remembered

(* The snapshot is taken.                                                  *)
LEMMA SnapshotStep ==
  ASSUME JobInv, NEW m \in Ids, job.id = m, Snapshot
  PROVE  Keeps(m)
  <1>1. /\ job.at = "detected" /\ Goto("staged")
        /\ UNCHANGED <<lifecycle, world, loader, candidate, seen>>
    BY DEF Snapshot, At
  <1>2. Touches(m) /\ modules' = modules /\ executing' = executing
    BY <1>1, NothingTouched
  <1>3. candidate' = NoBuild /\ "staged" \in Places \ {"idle"}
    BY <1>1 DEF JobInv, HoldsCandidate, HoldsAt, Places
  <1>4. /\ JobInv' /\ OnlyOne(m)
        /\ job'.at = "staged" /\ job'.id = m /\ job'.kind = job.kind /\ job'.sha = job.sha
    BY <1>1, <1>2, <1>3, GoesOn DEF JobInv, TypeOK, HoldsAt
  <1>5. LedgerInv => Ledger(m)'
    BY <1>1, <1>2, <1>4, SettledStays
       DEF LedgerInv, Ledger, InWork, New, Update, Fetching, OnlyOne
  <1>6. CodeInv => executing'[m] \subseteq Code(m)'
    BY <1>1, <1>2, <1>4 DEF CodeInv, Code, InWork
  <1>7. QED
    BY <1>4, <1>5, <1>6 DEF Keeps

(* The file that changed under the snapshot is left for the next poll.     *)
LEMMA SnapshotChangedStep ==
  ASSUME JobInv, NEW m \in Ids, job.id = m, SnapshotChanged
  PROVE  Keeps(m)
  <1>1. /\ job.at = "detected" /\ Finish
        /\ UNCHANGED <<lifecycle, world, loader, seen>>
    BY DEF SnapshotChanged, At
  <1>2. Touches(m) /\ modules' = modules /\ executing' = executing
    BY <1>1, NothingTouched
  <1>3. JobInv' /\ OnlyOne(m) /\ job'.id = NoId /\ job'.at = "idle" /\ job'.id # m
    BY <1>1, <1>2, IsOver DEF JobInv, TypeOK
  <1>4. LedgerInv => Ledger(m)'
    BY <1>1, <1>2, <1>3, SettledStays
       DEF LedgerInv, Ledger, InWork, New, Update, Fetching, OnlyOne
  <1>5. CodeInv => executing'[m] \subseteq Code(m)'
    BY <1>1, <1>2, <1>3 DEF CodeInv, Code, InWork
  <1>6. QED
    BY <1>3, <1>4, <1>5 DEF Keeps

(* A candidate that cannot be staged or loaded is rejected before anything *)
(* else is touched.                                                        *)
LEMMA FetchFailsStep ==
  ASSUME JobInv, NEW m \in Ids, job.id = m, job.at \in Fetching, MarkRejected, Finish,
         UNCHANGED <<lifecycle, world, loader>>
  PROVE  Keeps(m)
  <1>1. Touches(m) /\ modules' = modules /\ executing' = executing
    BY NothingTouched
  <1>2. job.sha \in Builds
    BY DEF JobInv, At, Fetching
  <1>3. /\ seen' \in [Ids -> Observed]
        /\ \A k \in Ids \ {m} : seen'[k] = seen[k]
        /\ seen[m].known => seen'[m].known
        /\ seen'[m].active = seen[m].active /\ seen'[m].version = seen[m].version
    BY <1>2, MarkRejectedResults DEF JobInv
  <1>4. JobInv' /\ OnlyOne(m) /\ job'.id = NoId /\ job'.at = "idle" /\ job'.id # m
    BY <1>1, <1>3, IsOver DEF JobInv, TypeOK
  <1>5. ASSUME LedgerInv PROVE Ledger(m)'
    <2>1. Settled(m) /\ (modules[m].state = "ACTIVE" => seen[m].known)
      <3>1. job.kind \in {"new", "update"}
        BY DEF JobInv, TypeOK
      <3>2. QED
        BY <1>5, <3>1 DEF LedgerInv, Ledger, InWork, New, Update, Fetching
    <2>2. Settled(m)'
      BY <1>1, <1>3, <1>4, <2>1, SettledStays DEF OnlyOne, JobInv, TypeOK, Observed
    <2>3. QED
      BY <1>4, <2>2 DEF Ledger, InWork, New, Update, Fetching
  <1>6. CodeInv => executing'[m] \subseteq Code(m)'
    BY <1>1, <1>4 DEF CodeInv, Code, InWork, Fetching
  <1>7. QED
    BY <1>4, <1>5, <1>6 DEF Keeps

(* The candidate is loaded and its bytes become code, not yet running.     *)
LEMMA LoadStep ==
  ASSUME JobInv, NEW m \in Ids, job.id = m, Load
  PROVE  Keeps(m)
  <1>1. /\ job.at = "staged" /\ job.sha \notin Broken /\ candidate' = job.sha
        /\ Goto("loaded") /\ UNCHANGED <<lifecycle, world, loader, seen>>
    BY DEF Load, At
  <1>2. Touches(m) /\ modules' = modules /\ executing' = executing
    BY <1>1, NothingTouched
  <1>3. "loaded" \in Places \ {"idle"}
    BY DEF Places
  <1>4. /\ JobInv' /\ OnlyOne(m)
        /\ job'.at = "loaded" /\ job'.id = m /\ job'.kind = job.kind /\ job'.sha = job.sha
    BY <1>1, <1>2, <1>3, GoesOn DEF JobInv, TypeOK, HoldsAt
  <1>5. LedgerInv => Ledger(m)'
    BY <1>1, <1>2, <1>4, SettledStays
       DEF LedgerInv, Ledger, InWork, New, Update, Fetching, OnlyOne
  <1>6. CodeInv => executing'[m] \subseteq Code(m)'
    BY <1>1, <1>2, <1>4 DEF CodeInv, Code, InWork
  <1>7. QED
    BY <1>4, <1>5, <1>6 DEF Keeps

(* A step of the staging of a candidate.                                   *)
LEMMA StageStep ==
  ASSUME JobInv, NEW m \in Ids, job.id = m, Stage
  PROVE  Keeps(m)
  <1>1. CASE SnapshotFails
    BY <1>1, FetchFailsStep DEF SnapshotFails, At, Fetching
  <1>2. CASE LoadFails
    BY <1>2, FetchFailsStep DEF LoadFails, At, Fetching
  <1>3. QED
    BY <1>1, <1>2, SnapshotStep, SnapshotChangedStep, LoadStep DEF Stage

-----------------------------------------------------------------------------
(* prepare: the new module has a record, QUALIFIED or to be rolled back.   *)
LEMMA PrepareNewStep ==
  ASSUME JobInv, NEW m \in Ids, job.id = m, NEW ok \in BOOLEAN, PrepareNew(ok)
  PROVE  Keeps(m)
  <1>1. /\ job.at = "loaded" /\ job.kind = "new"
        /\ Abi!Prepare(m, candidate, ok, Tests[candidate])
        /\ IF modules'[m].state = "QUALIFIED"
           THEN Goto("qualified") /\ UNCHANGED seen
           ELSE Goto("rollback") /\ MarkRejected
        /\ UNCHANGED <<world, loader, candidate>>
    BY DEF PrepareNew, At
  <1>2. candidate = job.sha /\ job.sha \in Builds /\ job.sha \notin Broken
    BY <1>1 DEF JobInv, At, HoldsCandidate, HoldsAt
  <1>3. /\ modules[m].state = "ABSENT"
        /\ Touches(m) /\ modules'[m].build = job.sha /\ executing'[m] = executing[m]
        /\ modules'[m].state \in {"QUALIFIED", "FAILED"}
    BY <1>1, <1>2, PrepareResults
  <1>4. /\ seen' \in [Ids -> Observed] /\ \A k \in Ids \ {m} : seen'[k] = seen[k]
    BY <1>1, <1>2, MarkRejectedResults DEF JobInv, TypeOK
  <1>5. PICK place \in {"qualified", "rollback"} :
          Goto(place) /\ (place = "qualified" <=> modules'[m].state = "QUALIFIED")
    BY <1>1
  <1>6. place \in Places \ {"idle"}
    BY DEF Places
  <1>7. /\ JobInv' /\ OnlyOne(m)
        /\ job'.at = place /\ job'.id = m /\ job'.kind = "new" /\ job'.sha = job.sha
    BY <1>1, <1>2, <1>3, <1>4, <1>5, <1>6, GoesOn DEF JobInv, TypeOK, HoldsAt
  <1>8. ASSUME LedgerInv PROVE Ledger(m)'
    <2>1. loader[m] = <<>>
      BY <1>1, <1>3, <1>8 DEF LedgerInv, Ledger, InWork, Fetching, Settled
    <2>2. QED
      BY <1>1, <1>3, <1>5, <1>7, <2>1
         DEF Ledger, InWork, New, Update, Fetching, OnlyOne
  <1>9. ASSUME CodeInv PROVE executing'[m] \subseteq Code(m)'
    BY <1>3, <1>9 DEF CodeInv, Code
  <1>10. QED
    BY <1>7, <1>8, <1>9 DEF Keeps

(* The registry could not take the new module.                             *)
LEMMA PrepareNewFailsStep ==
  ASSUME JobInv, NEW m \in Ids, job.id = m, PrepareNewFails
  PROVE  Keeps(m)
  <1>1. /\ job.at = "loaded" /\ job.kind = "new" /\ MarkRejected /\ Goto("rollback")
        /\ UNCHANGED <<lifecycle, world, loader, candidate>>
    BY DEF PrepareNewFails, At
  <1>2. candidate = job.sha /\ job.sha \in Builds /\ job.sha \notin Broken
    BY <1>1 DEF JobInv, At, HoldsCandidate, HoldsAt
  <1>3. Touches(m) /\ modules' = modules /\ executing' = executing
    BY <1>1, NothingTouched
  <1>4. /\ seen' \in [Ids -> Observed] /\ \A k \in Ids \ {m} : seen'[k] = seen[k]
    BY <1>1, <1>2, MarkRejectedResults DEF JobInv
  <1>5. "rollback" \in Places \ {"idle"}
    BY DEF Places
  <1>6. /\ JobInv' /\ OnlyOne(m)
        /\ job'.at = "rollback" /\ job'.id = m /\ job'.kind = "new" /\ job'.sha = job.sha
    BY <1>1, <1>2, <1>3, <1>4, <1>5, GoesOn DEF JobInv, TypeOK, HoldsAt
  <1>7. ASSUME LedgerInv
        PROVE  modules[m].state = "ABSENT" /\ loader[m] = <<>> /\ Ledger(m)'
    <2>1. modules[m].state = "ABSENT" /\ loader[m] = <<>>
      BY <1>1, <1>7 DEF LedgerInv, Ledger, InWork, New, Fetching, Settled
    <2>2. QED
      BY <1>1, <1>3, <1>6, <2>1 DEF Ledger, InWork, New, Update, Fetching, OnlyOne
  <1>8. ASSUME CodeInv PROVE executing'[m] \subseteq Code(m)'
    BY <1>3, <1>7, <1>8 DEF CodeInv, Code
  <1>9. QED
    BY <1>6, <1>7, <1>8 DEF Keeps

(* start() of the new module, and the record of it in the audit log.       *)
LEMMA ActivateNewStep ==
  ASSUME JobInv, NEW m \in Ids, job.id = m, NEW started \in BOOLEAN,
         NEW logged \in Outcomes("log"), ActivateNew(started, logged)
  PROVE  Keeps(m)
  <1>1. /\ job.at = "qualified" /\ job.kind = "new"
        /\ Abi!AuthorizeAndActivate(m, started, TRUE)
        /\ IF started /\ logged THEN Goto("activated") /\ UNCHANGED seen
                                ELSE Goto("rollback") /\ MarkRejected
        /\ UNCHANGED <<world, loader, candidate>>
    BY DEF ActivateNew, At
  <1>2. candidate = job.sha /\ job.sha \in Builds /\ job.sha \notin Broken
    BY <1>1 DEF JobInv, At, HoldsCandidate, HoldsAt
  <1>3. /\ Touches(m) /\ modules'[m].build = modules[m].build
        /\ modules'[m].state = IF started THEN "ACTIVE" ELSE "FAILED"
        /\ executing'[m] = IF started THEN executing[m] \cup {modules[m].build}
                                      ELSE executing[m]
    BY <1>1, ActivateResults
  <1>4. /\ seen' \in [Ids -> Observed] /\ \A k \in Ids \ {m} : seen'[k] = seen[k]
    BY <1>1, <1>2, MarkRejectedResults DEF JobInv, TypeOK
  <1>5. PICK place \in {"activated", "rollback"} :
          Goto(place) /\ (place = "activated" <=> started /\ logged)
    BY <1>1
  <1>6. place \in Places \ {"idle"}
    BY DEF Places
  <1>7. /\ JobInv' /\ OnlyOne(m)
        /\ job'.at = place /\ job'.id = m /\ job'.kind = "new" /\ job'.sha = job.sha
    BY <1>1, <1>2, <1>3, <1>4, <1>5, <1>6, GoesOn DEF JobInv, TypeOK, HoldsAt
  <1>8. LogIsWritten => logged
    BY DEF LogIsWritten, Outcomes, MayFail, JobInv, TypeOK
  <1>9. ASSUME LedgerInv, LogIsWritten
        PROVE  modules[m].state = "QUALIFIED" /\ modules[m].build = job.sha /\ Ledger(m)'
    <2>1. /\ loader[m] = <<>> /\ modules[m].state = "QUALIFIED" /\ modules[m].build = job.sha
      BY <1>1, <1>9 DEF LedgerInv, Ledger, InWork, New
    <2>2. QED
      BY <1>1, <1>3, <1>5, <1>7, <1>8, <1>9, <2>1
         DEF Ledger, InWork, New, Update, Fetching, OnlyOne
  <1>10. ASSUME CodeInv, LogIsWritten PROVE executing'[m] \subseteq Code(m)'
    <2>1. executing[m] = {}
      BY <1>9, <1>10 DEF CodeInv, Code
    <2>2. QED
      BY <1>3, <1>5, <1>7, <1>8, <1>10, <2>1 DEF Code, InWork
  <1>11. QED
    BY <1>7, <1>9, <1>10 DEF Keeps

(* What Outcomes allows under the premises.                                *)
LEMMA OutcomesResults ==
  ASSUME JobInv, job.id \in Ids
  PROVE  /\ \A f \in FaultKinds : Outcomes(f) \subseteq BOOLEAN
         /\ LogIsWritten => \A o \in Outcomes("log") : o
         /\ StopOrLoader /\ MayFail(job.id, "loader") => \A o \in Outcomes("stop") : o
  BY DEF LogIsWritten, StopOrLoader, Outcomes, MayFail, JobInv, TypeOK

(* The live loader takes the new module over.                              *)
LEMMA TakeNewStep ==
  ASSUME JobInv, NEW m \in Ids, job.id = m, TakeNew
  PROVE  Keeps(m)
  <1>1. /\ job.at = "activated" /\ loader' = [loader EXCEPT ![m] = Append(@, candidate)]
        /\ MarkActive /\ Finish /\ UNCHANGED <<lifecycle, world>>
    BY DEF TakeNew, At
  <1>2. candidate = job.sha /\ job.sha \in Builds
    BY <1>1 DEF JobInv, At, HoldsCandidate, HoldsAt
  <1>3. Touches(m) /\ modules' = modules /\ executing' = executing
    BY <1>1, NothingTouched
  <1>4. /\ seen' \in [Ids -> Observed] /\ \A k \in Ids \ {m} : seen'[k] = seen[k]
        /\ seen'[m].known =>
             seen'[m].active = job.sha /\ seen'[m].version = Version[job.sha]
        /\ "seen" \notin faults[m] => seen'[m].known
    BY <1>1, <1>2, MarkActiveResults DEF JobInv
  <1>5. loader \in [Ids -> Seq(Builds)]
    BY DEF JobInv, TypeOK
  <1>6. Append(loader[m], job.sha) \in Seq(Builds)
    BY <1>2, <1>5, AppendProperties
  <1>7. /\ loader' \in [Ids -> Seq(Builds)] /\ loader'[m] = Append(loader[m], job.sha)
        /\ \A k \in Ids \ {m} : loader'[k] = loader[k]
    BY <1>1, <1>2, <1>5, <1>6
  <1>8. JobInv' /\ OnlyOne(m) /\ job'.id = NoId /\ job'.at = "idle" /\ job'.id # m
    BY <1>1, <1>3, <1>4, <1>7, IsOver
  <1>9. ASSUME LedgerInv
        PROVE  /\ modules[m].state = "ACTIVE" /\ modules[m].build = job.sha
               /\ Ledger(m)'
    <2>1. loader[m] = <<>> /\ modules[m].state = "ACTIVE" /\ modules[m].build = job.sha
      BY <1>1, <1>9 DEF LedgerInv, Ledger, InWork, New, JobInv
    <2>2. loader'[m] = <<job.sha>>
      BY <1>7, <2>1
    <2>3. Settled(m)'
      BY <1>3, <1>4, <1>8, <2>1, <2>2 DEF Settled, Remembered, OnlyOne
    <2>4. QED
      BY <1>8, <2>1, <2>3 DEF Ledger, InWork, New, Update
  <1>10. ASSUME CodeInv PROVE executing'[m] \subseteq Code(m)'
    BY <1>1, <1>3, <1>8, <1>9, <1>10 DEF CodeInv, Code, InWork
  <1>11. QED
    BY <1>8, <1>9, <1>10 DEF Keeps

(* The live loader cannot: the module is stopped again.                    *)
LEMMA TakeNewFailsStep ==
  ASSUME JobInv, NEW m \in Ids, job.id = m, NEW requested \in Outcomes("log"),
         NEW stopped \in Outcomes("stop"), TakeNewFails(requested, stopped)
  PROVE  Keeps(m)
  <1>1. /\ job.at = "activated" /\ MayFail(m, "loader") /\ CoreStop(m, requested, stopped)
        /\ MarkRejected /\ Goto("rollback") /\ UNCHANGED <<world, loader, candidate>>
    BY DEF TakeNewFails, At
  <1>2. /\ candidate = job.sha /\ job.sha \in Builds /\ job.sha \notin Broken
        /\ job.kind = "new"
    BY <1>1 DEF JobInv, At, HoldsCandidate, HoldsAt
  <1>3. requested \in BOOLEAN /\ stopped \in BOOLEAN
    BY OutcomesResults DEF FaultKinds
  <1>4. /\ Touches(m) /\ modules'[m].build = modules[m].build
        /\ modules'[m].state = IF requested THEN IF stopped THEN "STOPPED" ELSE "FAILED"
                                            ELSE modules[m].state
        /\ executing'[m] = IF requested /\ stopped THEN executing[m] \ {modules[m].build}
                                                   ELSE executing[m]
    BY <1>1, <1>3, CoreStopResults
  <1>5. /\ seen' \in [Ids -> Observed] /\ \A k \in Ids \ {m} : seen'[k] = seen[k]
    BY <1>1, <1>2, MarkRejectedResults DEF JobInv
  <1>6. "rollback" \in Places \ {"idle"}
    BY DEF Places
  <1>7. /\ JobInv' /\ OnlyOne(m)
        /\ job'.at = "rollback" /\ job'.id = m /\ job'.kind = "new" /\ job'.sha = job.sha
    BY <1>1, <1>2, <1>4, <1>5, <1>6, GoesOn DEF JobInv, TypeOK, HoldsAt
  <1>8. LogIsWritten => requested
    BY OutcomesResults
  <1>9. ASSUME LedgerInv, LogIsWritten PROVE Ledger(m)'
    <2>1. loader[m] = <<>>
      BY <1>1, <1>2, <1>9 DEF LedgerInv, Ledger, InWork, New
    <2>2. QED
      BY <1>1, <1>4, <1>7, <1>8, <1>9, <2>1
         DEF Ledger, InWork, New, Update, Fetching, OnlyOne
  <1>10. ASSUME CodeInv, LogIsWritten, StopOrLoader PROVE executing'[m] \subseteq Code(m)'
    <2>1. requested /\ stopped
      BY <1>1, <1>10, OutcomesResults
    <2>2. executing[m] \subseteq {modules[m].build}
      BY <1>10 DEF CodeInv, Code
    <2>3. QED
      BY <1>4, <2>1, <2>2
  <1>11. QED
    BY <1>7, <1>9, <1>10 DEF Keeps

(* The record goes, and with it the candidate's code.                      *)
LEMMA RollbackStep ==
  ASSUME JobInv, NEW m \in Ids, job.id = m, Rollback
  PROVE  Keeps(m)
  <1>1. /\ job.at = "rollback" /\ Finish /\ UNCHANGED <<world, loader, seen>>
        /\ IF CanUnregister(modules[m]) THEN Abi!Unregister(m) ELSE UNCHANGED lifecycle
    BY DEF Rollback, At
  <1>2. job.kind = "new"
    BY <1>1 DEF JobInv
  <1>3. /\ Touches(m) /\ executing'[m] = executing[m]
        /\ modules'[m].state = IF CanUnregister(modules[m]) THEN "ABSENT" ELSE modules[m].state
    BY <1>1, UnregisterResults, NothingTouched
  <1>4. JobInv' /\ OnlyOne(m) /\ job'.id = NoId /\ job'.at = "idle" /\ job'.id # m
    BY <1>1, <1>3, IsOver DEF JobInv, TypeOK
  <1>5. ASSUME LedgerInv PROVE Ledger(m)'
    <2>1. loader[m] = <<>> /\ modules[m].state \in {"ABSENT", "FAILED", "STOPPED"}
      BY <1>1, <1>2, <1>5 DEF LedgerInv, Ledger, InWork, New
    <2>2. modules'[m].state = "ABSENT"
      BY <1>3, <2>1 DEF CanUnregister
    <2>3. QED
      BY <1>1, <1>4, <2>1, <2>2 DEF Ledger, Settled, Remembered, InWork, New, Update
  <1>6. ASSUME CodeInv PROVE executing'[m] \subseteq Code(m)'
    BY <1>1, <1>3, <1>6 DEF CodeInv, Code, InWork
  <1>7. QED
    BY <1>4, <1>5, <1>6 DEF Keeps

(* A step of the admission of a new module.                                *)
LEMMA AdmitStep ==
  ASSUME JobInv, NEW m \in Ids, job.id = m, Admit
  PROVE  Keeps(m)
  <1>1. /\ Outcomes("qualify") \subseteq BOOLEAN /\ Outcomes("start") \subseteq BOOLEAN
    BY OutcomesResults DEF FaultKinds
  <1>2. ASSUME NEW ok \in Outcomes("qualify"), PrepareNew(ok) PROVE Keeps(m)
    BY <1>1, <1>2, PrepareNewStep
  <1>3. ASSUME NEW started \in Outcomes("start"), NEW logged \in Outcomes("log"),
               ActivateNew(started, logged)
        PROVE  Keeps(m)
    BY <1>1, <1>3, ActivateNewStep
  <1>4. ASSUME NEW requested \in Outcomes("log"), NEW stopped \in Outcomes("stop"),
               TakeNewFails(requested, stopped)
        PROVE  Keeps(m)
    BY <1>4, TakeNewFailsStep
  <1>5. QED
    BY <1>2, <1>3, <1>4, PrepareNewFailsStep, TakeNewStep, RollbackStep DEF Admit

-----------------------------------------------------------------------------
(* Only a newer candidate that passes its tests gets past the preflight.   *)
LEMMA PreflightStep ==
  ASSUME JobInv, NEW m \in Ids, job.id = m, NEW ok \in BOOLEAN, Preflight(ok)
  PROVE  Keeps(m)
  <1>1. /\ job.at = "loaded" /\ job.kind = "update" /\ UNCHANGED <<lifecycle, world, loader>>
    BY DEF Preflight, At
  <1>2. /\ candidate = job.sha /\ job.sha \in Builds /\ job.sha \notin Broken
    BY <1>1 DEF JobInv, At, HoldsCandidate, HoldsAt
  <1>3. Touches(m) /\ modules' = modules /\ executing' = executing
    BY <1>1, NothingTouched
  <1>4. CASE Goto("green")
    <2>1. /\ VersionNewer(seen[m].version, Version[candidate]) /\ QualifiesIsolated(ok)
          /\ modules[m].state = "ACTIVE" /\ UNCHANGED <<candidate, seen>>
      BY <1>1, <1>4 DEF Preflight, Goto, Finish, NoJob, JobInv, TypeOK
    <2>2. "green" \in Places \ {"idle"}
      BY DEF Places
    <2>3. /\ JobInv' /\ OnlyOne(m)
          /\ job'.at = "green" /\ job'.id = m /\ job'.kind = "update" /\ job'.sha = job.sha
      BY <1>1, <1>2, <1>3, <1>4, <2>1, <2>2, GoesOn DEF JobInv, TypeOK, HoldsAt
    <2>4. Proven(job.sha)
      BY <1>2, <2>1, PreparedResults, HotloadAssumption DEF QualifiesIsolated, Proven
    <2>5. LedgerInv => Ledger(m)'
      <3>1. Proven(job.sha)' /\ VersionNewer(seen[m].version, Version[job.sha])'
        BY <1>2, <2>1, <2>3, <2>4 DEF Proven, VersionNewer
      <3>2. LedgerInv => Settled(m)' /\ seen'[m].known
        BY <1>1, <1>3, <2>1, <2>3, SettledStays
           DEF LedgerInv, Ledger, InWork, Update, Fetching, OnlyOne
      <3>3. QED
        BY <1>3, <2>1, <2>3, <3>1, <3>2 DEF Ledger, InWork, New, Update, Fetching
    <2>6. CodeInv => executing'[m] \subseteq Code(m)'
      BY <1>1, <1>3, <2>3 DEF CodeInv, Code, InWork
    <2>7. QED
      BY <2>3, <2>5, <2>6 DEF Keeps
  <1>5. CASE ~Goto("green")
    <2>1. MarkRejected /\ Finish
      BY <1>5, Zenon DEF Preflight
    <2>2. QED
      BY <1>1, <2>1, FetchFailsStep DEF Fetching
  <1>6. QED
    BY <1>4, <1>5

(* The incumbent is stopped for a candidate that has been proven, or stays *)
(* in the loader when stop() failed.                                       *)
LEMMA StopIncumbentStep ==
  ASSUME JobInv, NEW m \in Ids, job.id = m, NEW requested \in Outcomes("log"),
         NEW stopped \in Outcomes("stop"), NEW logged \in Outcomes("log"),
         StopIncumbent(requested, stopped, logged)
  PROVE  Keeps(m)
  <1>1. /\ job.at = "green" /\ CoreStop(m, requested, stopped) /\ UNCHANGED <<world, loader>>
        /\ IF requested /\ stopped /\ logged
           THEN Goto("stopped") /\ UNCHANGED <<candidate, seen>>
           ELSE Finish /\ MarkRejected
    BY DEF StopIncumbent, At
  <1>2. /\ candidate = job.sha /\ job.sha \in Builds /\ job.sha \notin Broken
        /\ job.kind = "update"
    BY <1>1 DEF JobInv, At, HoldsCandidate, HoldsAt
  <1>3. requested \in BOOLEAN /\ stopped \in BOOLEAN /\ logged \in BOOLEAN
    BY OutcomesResults DEF FaultKinds
  <1>4. /\ Touches(m) /\ modules'[m].build = modules[m].build
        /\ modules'[m].state = IF requested THEN IF stopped THEN "STOPPED" ELSE "FAILED"
                                            ELSE modules[m].state
        /\ executing'[m] = IF requested /\ stopped THEN executing[m] \ {modules[m].build}
                                                   ELSE executing[m]
    BY <1>1, <1>3, CoreStopResults
  <1>5. LogIsWritten => requested /\ logged
    BY OutcomesResults
  <1>6. ASSUME LedgerInv
        PROVE  /\ modules[m].state = "ACTIVE" /\ loader[m] = <<modules[m].build>>
               /\ Proven(job.sha)
    BY <1>1, <1>2, <1>6 DEF LedgerInv, Ledger, InWork, Update, Settled
  <1>7. ASSUME CodeInv PROVE executing[m] \subseteq {modules[m].build}
    BY <1>7 DEF CodeInv, Code
  <1>8. CASE requested /\ stopped /\ logged
    <2>1. "stopped" \in Places \ {"idle"}
      BY DEF Places
    <2>2. /\ JobInv' /\ OnlyOne(m)
          /\ job'.at = "stopped" /\ job'.id = m /\ job'.kind = "update" /\ job'.sha = job.sha
      BY <1>1, <1>2, <1>4, <1>8, <2>1, GoesOn DEF JobInv, TypeOK, HoldsAt
    <2>3. LedgerInv => Ledger(m)'
      BY <1>1, <1>4, <1>6, <1>8, <2>2
         DEF Ledger, InWork, New, Update, Fetching, Proven
    <2>4. CodeInv => executing'[m] \subseteq Code(m)'
      BY <1>4, <1>7, <1>8
    <2>5. QED
      BY <2>2, <2>3, <2>4 DEF Keeps
  <1>9. CASE ~(requested /\ stopped /\ logged)
    <2>1. /\ seen' \in [Ids -> Observed] /\ \A k \in Ids \ {m} : seen'[k] = seen[k]
      BY <1>1, <1>2, <1>9, MarkRejectedResults DEF JobInv
    <2>2. JobInv' /\ OnlyOne(m) /\ job'.id = NoId /\ job'.at = "idle" /\ job'.id # m
      BY <1>1, <1>4, <1>9, <2>1, IsOver DEF JobInv, TypeOK
    <2>3. LedgerInv /\ LogIsWritten => Ledger(m)'
      BY <1>1, <1>4, <1>5, <1>6, <1>9, <2>2
         DEF Ledger, Settled, Remembered, InWork, New, Update
    <2>4. CodeInv /\ LogIsWritten => executing'[m] \subseteq Code(m)'
      BY <1>4, <1>5, <1>7, <1>9, <2>2 DEF Code, InWork
    <2>5. QED
      BY <2>2, <2>3, <2>4 DEF Keeps
  <1>10. QED
    BY <1>8, <1>9

(* The loader lets the old build go and takes the candidate, or nothing.   *)
LEMMA ExchangeStep ==
  ASSUME JobInv, NEW m \in Ids, job.id = m, NEW taken \in BOOLEAN, Exchange(taken)
  PROVE  Keeps(m)
  <1>0. PICK emptied : emptied = [loader EXCEPT ![m] = Tail(@)]
    OBVIOUS
  <1>1. /\ job.at = "stopped" /\ Abi!Unregister(m) /\ UNCHANGED world
        /\ IF loader[m] = <<>>
           THEN Finish /\ MarkRejected /\ UNCHANGED loader
           ELSE IF taken
           THEN /\ loader' = [emptied EXCEPT ![m] = Append(@, candidate)]
                /\ candidate' = NoBuild /\ Goto("owned") /\ UNCHANGED seen
           ELSE loader' = emptied /\ Finish /\ MarkRejected
    BY <1>0 DEF Exchange, At
  <1>2. candidate = job.sha /\ job.sha \in Builds /\ job.kind = "update"
    BY <1>1 DEF JobInv, At, HoldsCandidate, HoldsAt
  <1>3. Touches(m) /\ modules'[m].state = "ABSENT" /\ executing'[m] = executing[m]
    BY <1>1, UnregisterResults
  <1>4. loader \in [Ids -> Seq(Builds)]
    BY DEF JobInv, TypeOK
  <1>5. loader[m] # <<>> =>
          /\ Tail(loader[m]) \in Seq(Builds)
          /\ Append(Tail(loader[m]), job.sha) \in Seq(Builds)
          /\ Append(Tail(loader[m]), job.sha) # <<>>
    <2>1. ASSUME loader[m] # <<>> PROVE Tail(loader[m]) \in Seq(Builds)
      BY <1>4, <2>1, HeadTailProperties
    <2>2. QED
      BY <1>2, <2>1, AppendProperties
  <1>6. ASSUME LedgerInv
        PROVE  /\ loader[m] = <<modules[m].build>> /\ modules[m].state = "STOPPED"
               /\ Proven(job.sha)
               /\ Tail(loader[m]) = <<>> /\ loader[m] # <<>>
    <2>1. /\ loader[m] = <<modules[m].build>> /\ modules[m].state = "STOPPED"
          /\ Proven(job.sha)
      BY <1>1, <1>6 DEF LedgerInv, Ledger, InWork
    <2>2. QED
      BY <2>1
  <1>7. ASSUME CodeInv PROVE executing'[m] = {}
    BY <1>3, <1>6, <1>7 DEF CodeInv, Code
  <1>8. CASE loader[m] # <<>> /\ taken
    <2>1. /\ loader' \in [Ids -> Seq(Builds)]
          /\ loader'[m] = Append(Tail(loader[m]), job.sha)
          /\ \A k \in Ids \ {m} : loader'[k] = loader[k]
      BY <1>0, <1>1, <1>2, <1>4, <1>5, <1>8
    <2>2. "owned" \in Places \ {"idle"}
      BY DEF Places
    <2>3. /\ JobInv' /\ OnlyOne(m)
          /\ job'.at = "owned" /\ job'.id = m /\ job'.kind = "update" /\ job'.sha = job.sha
      <3>1. /\ Goto("owned") /\ UNCHANGED <<world, seen>> /\ loader'[m] # <<>>
            /\ candidate' = NoBuild
        BY <1>1, <1>5, <1>8, <2>1
      <3>2. ~HoldsAt("owned", job.kind)
        BY DEF HoldsAt
      <3>3. seen' \in [Ids -> Observed] /\ \A k \in Ids \ {m} : seen'[k] = seen[k]
        BY <3>1 DEF JobInv, TypeOK
      <3>4. QED
        BY <1>2, <1>3, <2>1, <2>2, <3>1, <3>2, <3>3, GoesOn
    <2>4. ASSUME LedgerInv PROVE Ledger(m)'
      <3>1. loader'[m] = <<job.sha>>
        <4>1. \A x : Append(<<>>, x) = <<x>>
          OBVIOUS
        <4>2. QED
          BY <1>6, <2>1, <2>4, <4>1
      <3>2. QED
        BY <1>3, <1>6, <2>3, <2>4, <3>1 DEF Ledger, InWork, New, Update, Fetching, Proven
    <2>5. QED
      BY <1>7, <2>3, <2>4 DEF Keeps
  <1>9. CASE ~(loader[m] # <<>> /\ taken)
    <2>1. /\ loader' \in [Ids -> Seq(Builds)]
          /\ loader[m] # <<>> => loader'[m] = Tail(loader[m])
          /\ \A k \in Ids \ {m} : loader'[k] = loader[k]
          /\ Finish /\ MarkRejected
      BY <1>0, <1>1, <1>4, <1>5, <1>9
    <2>2. /\ seen' \in [Ids -> Observed] /\ \A k \in Ids \ {m} : seen'[k] = seen[k]
      BY <1>2, <2>1, MarkRejectedResults DEF JobInv
    <2>3. JobInv' /\ OnlyOne(m) /\ job'.id = NoId /\ job'.at = "idle" /\ job'.id # m
      BY <1>1, <1>3, <2>1, <2>2, IsOver
    <2>4. LedgerInv => Ledger(m)'
      BY <1>3, <1>6, <2>1, <2>3 DEF Ledger, Settled, Remembered, InWork, New, Update
    <2>5. QED
      BY <1>7, <2>3, <2>4 DEF Keeps
  <1>10. QED
    BY <1>8, <1>9

(* A job on a replacement that the loader owns goes on: no candidate is    *)
(* held besides.                                                           *)
LEMMA OwnedGoesOn ==
  ASSUME JobInv, NEW m \in Ids, job.id = m, job.kind = "update",
         job.at \in {"owned", "qualified", "withdraw"}, UNCHANGED <<world, loader, candidate, seen>>,
         Touches(m), NEW place \in {"qualified", "withdraw", "remove"}, Goto(place)
  PROVE  /\ JobInv' /\ OnlyOne(m)
         /\ job'.at = place /\ job'.id = m /\ job'.kind = "update" /\ job'.sha = job.sha
  <1>1. candidate' = NoBuild /\ loader[m] # <<>>
    BY DEF JobInv, HoldsCandidate, HoldsAt, Update, InWork
  <1>2. place \in Places \ {"idle"}
    BY DEF Places
  <1>3. ~HoldsAt(place, job.kind)
    BY DEF HoldsAt
  <1>4. QED
    BY <1>1, <1>2, <1>3, GoesOn DEF JobInv, TypeOK

(* The replacement is registered with the report of its preflight.         *)
LEMMA ReinstateStep ==
  ASSUME JobInv, NEW m \in Ids, job.id = m, Reinstate
  PROVE  Keeps(m)
  <1> DEFINE r == Reinstated(job.sha, Tests[job.sha])
  <1>1. /\ job.at = "owned" /\ modules' = [modules EXCEPT ![m] = r]
        /\ Goto(IF modules'[m].state = "QUALIFIED" THEN "qualified" ELSE "withdraw")
        /\ UNCHANGED <<executing, world, loader, candidate, seen>>
    BY DEF Reinstate, At
  <1>2. job.sha \in Builds /\ job.kind = "update" /\ Tests[job.sha] \in Reports
    BY <1>1, HotloadAssumption DEF JobInv, At
  <1>3. /\ r \in Record /\ r.build = job.sha /\ r.state # "ABSENT"
        /\ Proven(job.sha) => r.state = "QUALIFIED"
    BY <1>2, ReinstatedResults DEF Proven
  <1> HIDE DEF r
  <1>4. executing[m] \in SUBSET Builds /\ executing' = [executing EXCEPT ![m] = executing[m]]
    BY <1>1 DEF JobInv, TypeOK, Abi!TypeOK
  <1>5. Touches(m) /\ modules'[m] = r /\ executing'[m] = executing[m]
    BY <1>1, <1>2, <1>3, <1>4, TouchesOne
  <1>6. PICK place \in {"qualified", "withdraw"} :
          Goto(place) /\ (place = "qualified" <=> modules'[m].state = "QUALIFIED")
    BY <1>1
  <1>7. /\ JobInv' /\ OnlyOne(m)
        /\ job'.at = place /\ job'.id = m /\ job'.kind = "update" /\ job'.sha = job.sha
    BY <1>1, <1>2, <1>5, <1>6, OwnedGoesOn
  <1>8. ASSUME LedgerInv PROVE Ledger(m)' /\ modules[m].state = "ABSENT" /\ place = "qualified"
    <2>1. Proven(job.sha) /\ loader[m] = <<job.sha>> /\ modules[m].state = "ABSENT"
      BY <1>1, <1>2, <1>8 DEF LedgerInv, Ledger, InWork, Update
    <2>2. QED
      BY <1>1, <1>3, <1>5, <1>6, <1>7, <2>1
         DEF Ledger, InWork, New, Update, Fetching
  <1>9. ASSUME CodeInv PROVE executing'[m] \subseteq Code(m)'
    BY <1>5, <1>8, <1>9 DEF CodeInv, Code
  <1>10. QED
    BY <1>7, <1>8, <1>9 DEF Keeps

(* The registry could not take the replacement.                            *)
LEMMA ReinstateFailsStep ==
  ASSUME JobInv, NEW m \in Ids, job.id = m, ReinstateFails
  PROVE  Keeps(m)
  <1>1. /\ job.at = "owned" /\ Goto("withdraw")
        /\ UNCHANGED <<lifecycle, world, loader, candidate, seen>>
    BY DEF ReinstateFails, At
  <1>2. job.kind = "update"
    BY <1>1 DEF JobInv
  <1>3. Touches(m) /\ modules' = modules /\ executing' = executing
    BY <1>1, NothingTouched
  <1>4. /\ JobInv' /\ OnlyOne(m)
        /\ job'.at = "withdraw" /\ job'.id = m /\ job'.kind = "update" /\ job'.sha = job.sha
    BY <1>1, <1>2, <1>3, OwnedGoesOn
  <1>5. ASSUME LedgerInv PROVE Ledger(m)' /\ modules[m].state = "ABSENT"
    BY <1>1, <1>2, <1>3, <1>4, <1>5 DEF LedgerInv, Ledger, InWork, New, Update, Fetching
  <1>6. ASSUME CodeInv PROVE executing'[m] \subseteq Code(m)'
    BY <1>3, <1>5, <1>6 DEF CodeInv, Code
  <1>7. QED
    BY <1>4, <1>5, <1>6 DEF Keeps

(* start() of the replacement: it is remembered as what runs, or it has to *)
(* be withdrawn, which without a log failure is never an ACTIVE module.    *)
LEMMA ActivateUpdateStep ==
  ASSUME JobInv, NEW m \in Ids, job.id = m, NEW started \in BOOLEAN,
         NEW logged \in Outcomes("log"), ActivateUpdate(started, logged)
  PROVE  Keeps(m)
  <1>1. /\ job.at = "qualified" /\ job.kind = "update"
        /\ Abi!AuthorizeAndActivate(m, started, TRUE)
        /\ IF started /\ logged THEN Finish /\ MarkActive
                                ELSE Goto("withdraw") /\ UNCHANGED <<candidate, seen>>
        /\ UNCHANGED <<world, loader>>
    BY DEF ActivateUpdate, At
  <1>2. job.sha \in Builds
    BY <1>1 DEF JobInv, At
  <1>3. /\ Touches(m) /\ modules'[m].build = modules[m].build
        /\ modules'[m].state = IF started THEN "ACTIVE" ELSE "FAILED"
        /\ executing'[m] = IF started THEN executing[m] \cup {modules[m].build}
                                      ELSE executing[m]
    BY <1>1, ActivateResults
  <1>4. LogIsWritten => logged
    BY OutcomesResults
  <1>5. ASSUME LedgerInv
        PROVE  /\ modules[m].state = "QUALIFIED" /\ modules[m].build = job.sha
               /\ loader[m] = <<job.sha>>
    BY <1>1, <1>5 DEF LedgerInv, Ledger, InWork, Update
  <1>6. ASSUME CodeInv PROVE executing[m] = {}
    BY <1>5, <1>6 DEF CodeInv, Code
  <1>7. CASE started /\ logged
    <2>1. /\ seen' \in [Ids -> Observed] /\ \A k \in Ids \ {m} : seen'[k] = seen[k]
          /\ seen'[m].known =>
               seen'[m].active = job.sha /\ seen'[m].version = Version[job.sha]
          /\ "seen" \notin faults[m] => seen'[m].known
      BY <1>1, <1>2, <1>7, MarkActiveResults DEF JobInv
    <2>2. JobInv' /\ OnlyOne(m) /\ job'.id = NoId /\ job'.at = "idle" /\ job'.id # m
      BY <1>1, <1>3, <1>7, <2>1, IsOver DEF JobInv, TypeOK
    <2>3. ASSUME LedgerInv PROVE Ledger(m)'
      <3>1. Settled(m)'
        BY <1>1, <1>3, <1>5, <1>7, <2>1, <2>2, <2>3 DEF Settled, Remembered, OnlyOne
      <3>2. QED
        BY <2>2, <3>1 DEF Ledger, InWork, New, Update
    <2>4. CodeInv => executing'[m] \subseteq Code(m)'
      BY <1>3, <1>6, <1>7, <2>2 DEF Code, InWork
    <2>5. QED
      BY <2>2, <2>3, <2>4 DEF Keeps
  <1>8. CASE ~(started /\ logged)
    <2>1. /\ JobInv' /\ OnlyOne(m)
          /\ job'.at = "withdraw" /\ job'.id = m /\ job'.kind = "update" /\ job'.sha = job.sha
      BY <1>1, <1>3, <1>8, OwnedGoesOn
    <2>2. LedgerInv /\ LogIsWritten => Ledger(m)'
      BY <1>1, <1>3, <1>4, <1>5, <1>8, <2>1 DEF Ledger, InWork, New, Update, Fetching
    <2>3. CodeInv /\ LogIsWritten => executing'[m] \subseteq Code(m)'
      BY <1>3, <1>4, <1>6, <1>8
    <2>4. QED
      BY <2>1, <2>2, <2>3 DEF Keeps
  <1>9. QED
    BY <1>7, <1>8

(* The failed replacement is stopped if it is ACTIVE.                      *)
LEMMA WithdrawStep ==
  ASSUME JobInv, NEW m \in Ids, job.id = m, NEW requested \in Outcomes("log"),
         NEW stopped \in Outcomes("stop"), Withdraw(requested, stopped)
  PROVE  Keeps(m)
  <1>1. /\ job.at = "withdraw" /\ Goto("remove")
        /\ IF CanStop(modules[m]) THEN CoreStop(m, requested, stopped)
                                  ELSE UNCHANGED lifecycle
        /\ UNCHANGED <<world, loader, candidate, seen>>
    BY DEF Withdraw, At
  <1>2. job.kind = "update"
    BY <1>1 DEF JobInv
  <1>3. requested \in BOOLEAN /\ stopped \in BOOLEAN
    BY OutcomesResults DEF FaultKinds
  <1>4. /\ Touches(m)
        /\ ~CanStop(modules[m]) => modules' = modules /\ executing' = executing
    BY <1>1, <1>3, CoreStopResults, NothingTouched
  <1>5. /\ JobInv' /\ OnlyOne(m)
        /\ job'.at = "remove" /\ job'.id = m /\ job'.kind = "update" /\ job'.sha = job.sha
    BY <1>1, <1>2, <1>4, OwnedGoesOn
  <1>6. ASSUME LedgerInv PROVE Ledger(m)' /\ ~CanStop(modules[m])
    <2>1. /\ modules[m].state \in {"ABSENT", "FAILED"} /\ loader[m] = <<job.sha>>
          /\ ~CanStop(modules[m])
      BY <1>1, <1>2, <1>6 DEF LedgerInv, Ledger, InWork, Update, CanStop
    <2>2. QED
      BY <1>1, <1>4, <1>5, <2>1 DEF Ledger, InWork, New, Update, Fetching
  <1>7. ASSUME CodeInv PROVE executing'[m] \subseteq Code(m)'
    BY <1>1, <1>4, <1>6, <1>7 DEF CodeInv, Code, InWork
  <1>8. QED
    BY <1>5, <1>6, <1>7 DEF Keeps

(* It is unregistered and its handle dropped: nothing of the id is left.   *)
LEMMA RemoveStep ==
  ASSUME JobInv, NEW m \in Ids, job.id = m, Remove
  PROVE  Keeps(m)
  <1>1. /\ job.at = "remove" /\ loader' = [loader EXCEPT ![m] = Tail(@)]
        /\ IF CanUnregister(modules[m]) THEN Abi!Unregister(m) ELSE UNCHANGED lifecycle
        /\ MarkRejected /\ Finish /\ UNCHANGED world
    BY DEF Remove, At
  <1>2. job.kind = "update" /\ job.sha \in Builds /\ loader[m] # <<>>
    BY <1>1 DEF JobInv, At, Update, InWork
  <1>3. loader \in [Ids -> Seq(Builds)] /\ Tail(loader[m]) \in Seq(Builds)
    BY <1>2, HeadTailProperties DEF JobInv, TypeOK
  <1>4. /\ loader' \in [Ids -> Seq(Builds)] /\ loader'[m] = Tail(loader[m])
        /\ \A k \in Ids \ {m} : loader'[k] = loader[k]
    BY <1>1, <1>3
  <1>5. /\ Touches(m) /\ executing'[m] = executing[m]
        /\ modules'[m].state = IF CanUnregister(modules[m]) THEN "ABSENT" ELSE modules[m].state
    BY <1>1, UnregisterResults, NothingTouched
  <1>6. /\ seen' \in [Ids -> Observed] /\ \A k \in Ids \ {m} : seen'[k] = seen[k]
    BY <1>1, <1>2, MarkRejectedResults DEF JobInv
  <1>7. JobInv' /\ OnlyOne(m) /\ job'.id = NoId /\ job'.at = "idle" /\ job'.id # m
    BY <1>1, <1>4, <1>5, <1>6, IsOver
  <1>8. ASSUME LedgerInv PROVE Ledger(m)'
    <2>1. loader[m] = <<job.sha>> /\ modules[m].state \in {"ABSENT", "FAILED"}
      BY <1>1, <1>2, <1>8 DEF LedgerInv, Ledger, InWork, Update
    <2>2. modules'[m].state = "ABSENT" /\ loader'[m] = <<>>
      BY <1>4, <1>5, <2>1 DEF CanUnregister
    <2>3. QED
      BY <1>7, <2>2 DEF Ledger, Settled, Remembered, InWork, New, Update
  <1>9. ASSUME CodeInv PROVE executing'[m] \subseteq Code(m)'
    BY <1>1, <1>5, <1>9 DEF CodeInv, Code, InWork
  <1>10. QED
    BY <1>7, <1>8, <1>9 DEF Keeps

(* A step of the replacement of an ACTIVE module.                          *)
LEMMA ReplaceStep ==
  ASSUME JobInv, NEW m \in Ids, job.id = m, Replace
  PROVE  Keeps(m)
  <1>1. /\ Outcomes("qualify") \subseteq BOOLEAN /\ Outcomes("start") \subseteq BOOLEAN
        /\ Outcomes("loader") \subseteq BOOLEAN
    BY OutcomesResults DEF FaultKinds
  <1>2. ASSUME NEW ok \in Outcomes("qualify"), Preflight(ok) PROVE Keeps(m)
    BY <1>1, <1>2, PreflightStep
  <1>3. ASSUME NEW requested \in Outcomes("log"), NEW logged \in Outcomes("log"),
               NEW stopped \in Outcomes("stop"), StopIncumbent(requested, stopped, logged)
        PROVE  Keeps(m)
    BY <1>3, StopIncumbentStep
  <1>4. ASSUME NEW taken \in Outcomes("loader"), Exchange(taken) PROVE Keeps(m)
    BY <1>1, <1>4, ExchangeStep
  <1>5. ASSUME NEW started \in Outcomes("start"), NEW logged \in Outcomes("log"),
               ActivateUpdate(started, logged)
        PROVE  Keeps(m)
    BY <1>1, <1>5, ActivateUpdateStep
  <1>6. ASSUME NEW requested \in Outcomes("log"), NEW stopped \in Outcomes("stop"),
               Withdraw(requested, stopped)
        PROVE  Keeps(m)
    BY <1>6, WithdrawStep
  <1>7. QED
    BY <1>2, <1>3, <1>4, <1>5, <1>6, ReinstateStep, ReinstateFailsStep, RemoveStep DEF Replace

-----------------------------------------------------------------------------
(* A step of the work is a step of the work on one module.                 *)
LEMMA WorkStep ==
  ASSUME JobInv, Work
  PROVE  \E m \in Ids : job.id = m /\ Keeps(m)
  <1>1. job.at # "idle"
    <2>1. Stage => job.at # "idle"
      BY DEF Stage, Snapshot, SnapshotChanged, SnapshotFails, Load, LoadFails, At
    <2>2. Admit => job.at # "idle"
      BY DEF Admit, PrepareNew, PrepareNewFails, ActivateNew, TakeNew, TakeNewFails,
             Rollback, At
    <2>3. Replace => job.at # "idle"
      BY DEF Replace, Preflight, StopIncumbent, Exchange, Reinstate, ReinstateFails,
             ActivateUpdate, Withdraw, Remove, At
    <2>4. QED
      BY <2>1, <2>2, <2>3 DEF Work
  <1>2. PICK m \in Ids : m = job.id
    BY <1>1 DEF JobInv, At
  <1>3. Keeps(m)
    BY <1>2, StageStep, AdmitStep, ReplaceStep DEF Work
  <1>4. QED
    BY <1>2, <1>3

(* A fresh file is taken up.                                               *)
LEMMA DetectStep ==
  ASSUME JobInv, NEW m \in Ids, Detect(m)
  PROVE  Keeps(m) /\ modules' = modules
  <1> DEFINE kind == IF modules[m].state = "ABSENT" THEN "new" ELSE "update"
             j == [at |-> "detected", kind |-> kind, id |-> m, sha |-> disk[m]]
  <1>1. /\ job.at = "idle" /\ Fresh(m) /\ job' = j
        /\ UNCHANGED <<lifecycle, world, loader, candidate, seen>>
    BY DEF Detect, At
  <1>2. job.id = NoId /\ candidate = NoBuild
    BY <1>1 DEF JobInv, At, HoldsCandidate, HoldsAt
  <1>3. Touches(m) /\ modules' = modules /\ executing' = executing
    BY <1>1, NothingTouched
  <1>4. disk[m] \in Builds
    BY <1>1 DEF Fresh, JobInv, TypeOK
  <1>5. /\ job' \in [at : Places, kind : {"new", "update"},
                     id : Ids \cup {NoId}, sha : Builds \cup {NoBuild}]
        /\ job'.at = "detected" /\ job'.kind = kind /\ job'.id = m /\ job'.sha = disk[m]
    BY <1>1, <1>4 DEF Places
  <1>6. disk' = disk /\ changes' = changes /\ faults' = faults /\ loader' = loader
        /\ candidate' = candidate /\ seen' = seen
    BY <1>1 DEF world
  <1>7. TypeOK'
    <2>1. Abi!TypeOK'
      BY <1>3, AbiIsRegistry DEF Abi!TypeOK, Touches
    <2>2. QED
      BY <1>5, <1>6, <2>1 DEF JobInv, TypeOK
  <1>8. OnlyOne(m)
    BY <1>2, <1>3, <1>5, <1>6 DEF OnlyOne, JobInv, TypeOK
  <1>9. JobInv'
    <2>1. ~HoldsCandidate'
      BY <1>5 DEF HoldsCandidate, HoldsAt
    <2>2. \A k \in Ids : ~Update(k, {"owned", "qualified", "withdraw", "remove"})'
      BY <1>5 DEF Update, InWork
    <2>3. HasBuild'
      BY <1>3 DEF Touches
    <2>4. QED
      BY <1>2, <1>4, <1>5, <1>6, <1>7, <2>1, <2>2, <2>3 DEF JobInv, At
  <1>10. ASSUME LedgerInv PROVE Ledger(m)'
    <2>1. Settled(m) /\ m # NoId
      BY <1>2, <1>10, HotloadAssumption DEF LedgerInv, Ledger
    <2>2. Settled(m)'
      BY <1>3, <1>6, <2>1, SettledStays
    <2>3. kind = "update" => modules[m].state = "ACTIVE" /\ seen[m].known
      BY <1>1 DEF Fresh
    <2>4. QED
      BY <1>3, <1>5, <1>6, <2>2, <2>3 DEF Ledger, InWork, New, Update, Fetching
  <1>11. ASSUME CodeInv PROVE executing'[m] \subseteq Code(m)'
    BY <1>2, <1>3, <1>5, <1>11 DEF CodeInv, Code, InWork
  <1>12. QED
    BY <1>3, <1>8, <1>9, <1>10, <1>11 DEF Keeps

(* An ACTIVE module is only unknown if its entry could not be made.        *)
LEMMA AdoptStep ==
  ASSUME JobInv, NEW m \in Ids, Adopt(m)
  PROVE  Keeps(m) /\ modules' = modules
  <1> DEFINE entry == [Unseen EXCEPT !.active = disk[m], !.version = Version[modules[m].build]]
  <1>1. /\ job.at = "idle" /\ disk[m] # NoBuild /\ modules[m].state = "ACTIVE"
        /\ ~seen[m].known /\ Note(m, entry)
        /\ UNCHANGED <<lifecycle, world, loader, candidate, job>>
    BY DEF Adopt, Unknown, At
  <1>2. job.id = NoId
    BY <1>1 DEF JobInv, At
  <1>3. Touches(m) /\ modules' = modules /\ executing' = executing
    BY <1>1, NothingTouched
  <1>4. /\ entry \in Observed /\ entry.version = Version[modules[m].build]
        /\ [entry EXCEPT !.known = TRUE].version = Version[modules[m].build]
    <2> DEFINE v == Version[modules[m].build]
    <2>1. v \in Nat \X Nat \X Nat /\ disk[m] \in Builds
      BY <1>1, HotloadAssumption DEF JobInv, HasBuild, TypeOK
    <2> HIDE DEF v
    <2>2. [Unseen EXCEPT !.active = disk[m], !.version = v] \in Observed
      BY <2>1 DEF Unseen, Observed
    <2>3. /\ [Unseen EXCEPT !.active = disk[m], !.version = v].version = v
          /\ [[Unseen EXCEPT !.active = disk[m], !.version = v] EXCEPT !.known = TRUE].version = v
      BY Zenon DEF Unseen
    <2>4. QED
      BY <2>2, <2>3 DEF v
  <1> HIDE DEF entry
  <1>5. /\ seen' \in [Ids -> Observed] /\ \A k \in Ids \ {m} : seen'[k] = seen[k]
        /\ \/ seen'[m].version = Version[modules[m].build]
           \/ ~seen'[m].known /\ "seen" \in faults[m]
    BY <1>1, <1>4, NoteResults DEF JobInv
  <1>6. disk' = disk /\ changes' = changes /\ faults' = faults /\ loader' = loader
        /\ candidate' = candidate /\ job' = job
    BY <1>1 DEF world
  <1>7. JobInv'
    <2>1. TypeOK'
      <3>1. Abi!TypeOK'
        BY <1>3, AbiIsRegistry DEF Abi!TypeOK, Touches
      <3>2. QED
        BY <1>5, <1>6, <3>1 DEF JobInv, TypeOK
    <2>2. HasBuild'
      BY <1>3 DEF Touches
    <2>3. QED
      BY <1>6, <2>1, <2>2 DEF JobInv, At, HoldsCandidate, HoldsAt, Update, InWork
  <1>8. OnlyOne(m)
    BY <1>2, <1>3, <1>5, <1>6 DEF OnlyOne, JobInv, TypeOK
  <1>9. ASSUME LedgerInv PROVE Ledger(m)'
    <2>1. Settled(m) /\ job.id # m
      BY <1>2, <1>9, HotloadAssumption DEF LedgerInv, Ledger
    <2>2. "seen" \in faults[m]
      BY <1>1, <2>1 DEF Settled, Remembered
    <2>3. Settled(m)'
      BY <1>3, <1>5, <1>6, <2>1, <2>2 DEF Settled, Remembered
    <2>4. QED
      BY <1>6, <2>1, <2>3 DEF Ledger, InWork, New, Update
  <1>10. ASSUME CodeInv PROVE executing'[m] \subseteq Code(m)'
    BY <1>3, <1>6, <1>10 DEF CodeInv, Code, InWork
  <1>11. QED
    BY <1>3, <1>7, <1>8, <1>9, <1>10 DEF Keeps

(* What changes in the directory, or nothing, changes no invariant.        *)
LEMMA RestStep ==
  ASSUME JobInv, UNCHANGED <<lifecycle, faults, loader, candidate, seen, job>>,
         disk' \in [Ids -> Builds \cup {NoBuild}], changes' \in 0 .. MaxChanges
  PROVE  JobInv' /\ (LedgerInv => LedgerInv') /\ (CodeInv => CodeInv') /\ modules' = modules
  <1>1. /\ modules' = modules /\ executing' = executing /\ faults' = faults
        /\ loader' = loader /\ candidate' = candidate /\ seen' = seen /\ job' = job
    BY DEF lifecycle
  <1>2. JobInv'
    BY <1>1 DEF JobInv, TypeOK, Abi!TypeOK, HasBuild, At, HoldsCandidate, Update, InWork
  <1>3. \A m \in Ids : (Ledger(m) => Ledger(m)') /\ Code(m)' = Code(m)
    BY <1>1 DEF Ledger, Settled, Remembered, InWork, New, Update, Code
  <1>4. QED
    BY <1>1, <1>2, <1>3 DEF LedgerInv, CodeInv

(* Each invariant is kept by every step.                                   *)
LEMMA InvariantsStep ==
  ASSUME JobInv, [Next]_vars
  PROVE  /\ JobInv'
         /\ LogIsWritten /\ LedgerInv => LedgerInv'
         /\ LogIsWritten /\ StopOrLoader /\ CodeInv => CodeInv'
  <1>1. ASSUME NEW m \in Ids, Keeps(m)
        PROVE  /\ JobInv'
               /\ LogIsWritten /\ LedgerInv => LedgerInv'
               /\ LogIsWritten /\ StopOrLoader /\ CodeInv => CodeInv'
    BY <1>1, KeepsAll DEF Keeps
  <1>2. CASE Scan
    BY <1>1, <1>2, DetectStep, AdoptStep DEF Scan
  <1>3. CASE Work
    BY <1>1, <1>3, WorkStep
  <1>4. CASE Environment
    <2>1. PICK m \in Ids, f \in Files : Write(m, f)
      BY <1>4 DEF Environment
    <2>2. /\ UNCHANGED <<lifecycle, faults, loader, candidate, seen, job>>
          /\ disk' = [disk EXCEPT ![m] = f] /\ changes' = changes + 1 /\ changes < MaxChanges
      BY <2>1 DEF Write
    <2>3. disk' \in [Ids -> Builds \cup {NoBuild}] /\ changes' \in 0 .. MaxChanges
      BY <2>2, HotloadAssumption DEF JobInv, TypeOK
    <2>4. QED
      BY <2>2, <2>3, RestStep
  <1>5. CASE UNCHANGED vars
    <2>1. /\ UNCHANGED <<lifecycle, faults, loader, candidate, seen, job>>
          /\ disk' = disk /\ changes' = changes
      BY <1>5 DEF vars, world
    <2>2. QED
      BY <2>1, RestStep DEF JobInv, TypeOK
  <1>6. QED
    BY <1>2, <1>3, <1>4, <1>5 DEF Next

(* Nothing is registered, loaded, remembered or running at the start.      *)
LEMMA InvariantsInit ==
  ASSUME Init
  PROVE  CodeInv
  <1>1. /\ modules = [m \in Ids |-> Absent] /\ executing = [m \in Ids |-> {}]
    BY AbiIsRegistry DEF Init, Abi!Init
  <1>2. Absent \in Record /\ Absent.state = "ABSENT"
    BY DEF Absent, Record, States, NoReport
  <1>3. job.at = "idle" /\ job.id = NoId /\ NoId \notin Ids /\ candidate = NoBuild
    BY HotloadAssumption DEF Init, NoJob
  <1>4. TypeOK
    <2>1. Abi!TypeOK
      BY <1>1, <1>2, AbiIsRegistry DEF Abi!TypeOK
    <2>2. /\ disk \in [Ids -> Builds \cup {NoBuild}] /\ changes \in 0 .. MaxChanges
          /\ faults \in FaultMaps /\ candidate \in Builds \cup {NoBuild}
      BY HotloadAssumption DEF Init
    <2>3. loader \in [Ids -> Seq(Builds)]
      BY EmptySeq DEF Init
    <2>4. seen \in [Ids -> Observed]
      BY DEF Init, Unseen, Observed
    <2>5. job \in [at : Places, kind : {"new", "update"},
                   id : Ids \cup {NoId}, sha : Builds \cup {NoBuild}]
      BY DEF Init, NoJob, Places
    <2>6. QED
      BY <2>1, <2>2, <2>3, <2>4, <2>5 DEF TypeOK
  <1>5. JobInv
    BY <1>1, <1>2, <1>3, <1>4
       DEF JobInv, HasBuild, At, HoldsCandidate, HoldsAt, Update, InWork
  <1>6. ASSUME NEW m \in Ids PROVE Ledger(m)
    <2>1. modules[m].state = "ABSENT" /\ loader[m] = <<>>
      BY <1>1, <1>2 DEF Init
    <2>2. QED
      BY <1>3, <2>1 DEF Ledger, Settled, Remembered, InWork, New, Update
  <1>7. QED
    BY <1>1, <1>5, <1>6 DEF LedgerInv, CodeInv

-----------------------------------------------------------------------------
(* The job in progress holds what its place says, whatever fails.          *)
THEOREM JobInvAlways == Spec => []JobInv
  <1>1. Init => JobInv
    BY InvariantsInit DEF CodeInv, LedgerInv
  <1>2. JobInv /\ [Next]_vars => JobInv'
    BY InvariantsStep
  <1>3. QED
    BY <1>1, <1>2, PTL DEF Spec

(* Every variable keeps its type, whatever fails: in particular the live   *)
(* loader is never asked to let go of a handle it does not have.           *)
THEOREM HotloadTypeCorrect == Spec => []TypeOK
  <1>1. JobInv => TypeOK
    BY DEF JobInv
  <1>2. QED
    BY <1>1, JobInvAlways, PTL

(* Registry, loader and table agree, if the audit log can be written.      *)
THEOREM LedgerInvAlways ==
  ASSUME LogIsWritten
  PROVE  Spec => []LedgerInv
  <1>1. Init => LedgerInv
    BY InvariantsInit DEF CodeInv
  <1>2. LedgerInv /\ [Next]_vars => LedgerInv'
    BY InvariantsStep DEF LedgerInv
  <1>3. QED
    BY <1>1, <1>2, PTL DEF Spec

(* What executes is what the registry says, if besides no module can fail  *)
(* both in stop() and in the transfer of its handle.                       *)
THEOREM CodeInvAlways ==
  ASSUME LogIsWritten, StopOrLoader
  PROVE  Spec => []CodeInv
  <1>1. Init => CodeInv
    BY InvariantsInit
  <1>2. CodeInv /\ [Next]_vars => CodeInv'
    BY InvariantsStep DEF CodeInv, LedgerInv
  <1>3. QED
    BY <1>1, <1>2, PTL DEF Spec

(* An ACTIVE module is the one build the live loader holds of its id, and  *)
(* an unknown id has no handle left, between polls.                        *)
THEOREM LoaderAlwaysMatchesRegistry ==
  ASSUME LogIsWritten
  PROVE  Spec => []LoaderMatchesRegistry
  <1>1. LedgerInv => LoaderMatchesRegistry
    <2>1. ASSUME LedgerInv, At("idle"), NEW m \in Ids
          PROVE  /\ modules[m].state = "ACTIVE" => loader[m] = <<modules[m].build>>
                 /\ modules[m].state = "ABSENT" => loader[m] = <<>>
                 /\ Len(loader[m]) <= 1
      <3>1. Settled(m)
        BY <2>1, HotloadAssumption DEF LedgerInv, JobInv, Ledger
      <3>2. loader[m] = <<>> \/ loader[m] = <<modules[m].build>>
        BY <3>1 DEF Settled
      <3>3. Len(loader[m]) <= 1
        <4>1. Len(<<>>) = 0 /\ \A x : Len(<<x>>) = 1
          OBVIOUS
        <4>2. Len(loader[m]) \in {0, 1}
          BY <3>2, <4>1
        <4>3. \A n \in {0, 1} : n <= 1
          OBVIOUS
        <4>4. QED
          BY <4>2, <4>3, Zenon
      <3>4. QED
        BY <3>1, <3>3 DEF Settled
    <2>2. QED
      BY <2>1 DEF LoaderMatchesRegistry
  <1>2. QED
    BY <1>1, LedgerInvAlways, PTL

(* The hash and version the watch compares the disk with are those of the  *)
(* loaded build.                                                           *)
THEOREM SeenIsAlwaysWhatRuns ==
  ASSUME LogIsWritten
  PROVE  Spec => []SeenIsWhatRuns
  <1>1. LedgerInv => SeenIsWhatRuns
    BY HotloadAssumption
       DEF LedgerInv, JobInv, Ledger, Settled, Remembered, SeenIsWhatRuns
  <1>2. QED
    BY <1>1, LedgerInvAlways, PTL

(* Two revisions of a module never execute side by side.                   *)
THEOREM OneRevisionAlwaysRuns ==
  ASSUME LogIsWritten, StopOrLoader
  PROVE  Spec => []OneRevisionRuns
  <1>1. CodeInv => OneRevisionRuns
    <2>1. ASSUME CodeInv, NEW m \in Ids PROVE Cardinality(executing[m]) <= 1
      <3>1. IsFiniteSet(Code(m)) /\ Cardinality(Code(m)) <= 1 /\ Cardinality(Code(m)) \in Nat
        <4>1. IsFiniteSet({}) /\ Cardinality({}) = 0
          BY FS_EmptySet
        <4>2. \A b : IsFiniteSet({b}) /\ Cardinality({b}) = 1
          BY FS_Singleton
        <4>3. Code(m) = {} \/ \E b : Code(m) = {b}
          BY DEF Code
        <4>4. IsFiniteSet(Code(m)) /\ Cardinality(Code(m)) \in {0, 1}
          BY <4>1, <4>2, <4>3, Zenon
        <4>5. QED
          BY <4>4
      <3>2. executing[m] \in SUBSET Code(m)
        BY <2>1 DEF CodeInv
      <3>3. IsFiniteSet(executing[m]) /\ Cardinality(executing[m]) <= Cardinality(Code(m))
        BY <3>1, <3>2, FS_Subset
      <3>4. Cardinality(executing[m]) \in Nat
        BY <3>3, FS_CardinalityType
      <3>5. QED
        BY <3>1, <3>3, <3>4
    <2>2. QED
      BY <2>1 DEF OneRevisionRuns
  <1>2. QED
    BY <1>1, CodeInvAlways, PTL

(* No shared object is unloaded under code that is still executing.        *)
THEOREM RunningIsAlwaysMapped ==
  ASSUME LogIsWritten, StopOrLoader
  PROVE  Spec => []RunningIsMapped
  <1>1. CodeInv => RunningIsMapped
    <2>1. ASSUME CodeInv, NEW m \in Ids, NEW b \in executing[m] PROVE b \in Mapped(m)
      <3>1. /\ b = modules[m].build /\ modules[m].state \in {"ACTIVE", "FAILED"}
            /\ ~InWork(m, {"rollback", "withdraw", "remove"})
        BY <2>1 DEF CodeInv, Code
      <3>2. Ledger(m) /\ JobInv
        BY <2>1 DEF CodeInv, LedgerInv
      <3>3. CASE InWork(m, {"activated"})
        <4>1. candidate = b /\ job.id = m
          BY <3>1, <3>2, <3>3 DEF Ledger, InWork, JobInv, HoldsCandidate, HoldsAt
        <4>2. QED
          BY <4>1 DEF Mapped
      <3>4. CASE ~InWork(m, {"activated"})
        <4>1. job.id # m \/ job.at \in Fetching \cup {"green", "idle"}
          BY <3>1, <3>2, <3>4
             DEF Ledger, InWork, JobInv, TypeOK, Places, Fetching
        <4>2. Settled(m)
          BY <3>2, <4>1, HotloadAssumption DEF Ledger, JobInv, At
        <4>3. loader[m] = <<b>>
          BY <3>1, <4>2 DEF Settled
        <4>4. b \in Held(m)
          BY <4>3 DEF Held
        <4>5. QED
          BY <4>4 DEF Mapped
      <3>5. QED
        BY <3>3, <3>4
    <2>2. QED
      BY <2>1 DEF RunningIsMapped
  <1>2. QED
    BY <1>1, CodeInvAlways, PTL

(* A module in service is only taken out of it for a loaded candidate that *)
(* is newer and proven.                                                    *)
THEOREM AlwaysDisturbedOnlyByProven ==
  ASSUME LogIsWritten
  PROVE  Spec => DisturbedOnlyByProven
  <1> DEFINE Disturbed(m) == InService(m) /\ modules'[m].state # "ACTIVE"
             Justified(m) ==
               /\ job.id = m /\ candidate \in Builds \ Broken
               /\ VersionNewer(Version[modules[m].build], Version[candidate])
               /\ Compatible(candidate) /\ ValidReport(Tests[candidate])
  <1>1. ASSUME LedgerInv, [Next]_vars, NEW m \in Ids, Disturbed(m) PROVE Justified(m)
    <2>1. JobInv /\ Ledger(m)
      BY <1>1 DEF LedgerInv
    <2>2. modules' # modules
      BY <1>1 DEF InService
    <2>3. Work
      <3>1. ASSUME NEW k \in Ids, Detect(k) PROVE FALSE
        BY <2>1, <2>2, <3>1, DetectStep
      <3>2. ASSUME NEW k \in Ids, Adopt(k) PROVE FALSE
        BY <2>1, <2>2, <3>2, AdoptStep
      <3>3. Environment => modules' = modules
        BY DEF Environment, Write, lifecycle
      <3>4. vars' = vars => modules' = modules
        BY DEF vars, lifecycle
      <3>5. QED
        BY <1>1, <2>2, <3>1, <3>2, <3>3, <3>4 DEF Next, Scan
    <2>4. job.id = m
      <3>1. PICK k \in Ids : job.id = k /\ Keeps(k)
        BY <2>1, <2>3, WorkStep
      <3>2. m # k => modules'[m] = modules[m]
        BY <3>1 DEF Keeps, OnlyOne, Touches
      <3>3. QED
        BY <1>1, <3>1, <3>2 DEF InService
    <2>5. modules[m].state = "ACTIVE" /\ loader[m] # <<>>
      BY <1>1 DEF InService
    <2>6. job.at \in Fetching \cup {"green"} /\ job.kind = "update"
      <3>1. job.at \in Places /\ job.at # "idle" /\ job.kind \in {"new", "update"}
        BY <2>1, <2>4, HotloadAssumption DEF JobInv, TypeOK, At
      <3>2. job.at \in Fetching \cup {"green"}
        BY <2>1, <2>4, <2>5, <3>1 DEF Ledger, InWork, New, Update, Places, Fetching, JobInv
      <3>3. QED
        BY <2>1, <2>4, <2>5, <3>1, <3>2 DEF Ledger, InWork, New, Fetching, JobInv
    <2>7. job.at = "green"
      <3>1. ASSUME job.at \in Fetching PROVE modules' = modules
        <4>1. Stage => modules' = modules
          BY DEF Stage, Snapshot, SnapshotChanged, SnapshotFails, Load, LoadFails, lifecycle
        <4>2. ~Admit
          BY <2>6, <3>1 DEF Admit, PrepareNew, PrepareNewFails, ActivateNew, TakeNew,
                            TakeNewFails, Rollback, At, Fetching
        <4>3. Replace => modules' = modules
          BY <3>1 DEF Replace, Preflight, StopIncumbent, Exchange, Reinstate, ReinstateFails,
                      ActivateUpdate, Withdraw, Remove, At, Fetching, lifecycle
        <4>4. QED
          BY <2>3, <4>1, <4>2, <4>3 DEF Work
      <3>2. QED
        BY <2>2, <2>6, <3>1
    <2>8. candidate = job.sha /\ job.sha \in Builds \ Broken
      BY <2>1, <2>7 DEF JobInv, At, HoldsCandidate, HoldsAt
    <2>9. /\ VersionNewer(seen[m].version, Version[job.sha]) /\ Proven(job.sha)
          /\ Settled(m) /\ seen[m].known
      BY <2>1, <2>4, <2>6, <2>7 DEF Ledger, InWork, Update
    <2>10. seen[m].version = Version[modules[m].build]
      BY <2>5, <2>9 DEF Settled, Remembered
    <2>11. QED
      BY <2>4, <2>8, <2>9, <2>10 DEF Proven
  <1>2. LedgerInv /\ [Next]_vars => [\A m \in Ids : Disturbed(m) => Justified(m)]_vars
    BY <1>1
  <1> HIDE DEF Disturbed, Justified
  <1>3. Spec => [][\A m \in Ids : Disturbed(m) => Justified(m)]_vars
    BY <1>2, LedgerInvAlways, PTL DEF Spec
  <1>4. QED
    BY <1>3 DEF DisturbedOnlyByProven, Disturbed, Justified


-----------------------------------------------------------------------------
(* Which modules a poll leaves FAILED and executing                        *)

StopSucceeds == \A f \in FaultMaps : \A m \in Ids : "stop" \notin f[m]

Quiet(m) == modules[m].state = "FAILED" => executing[m] = {}

(* A call of the ABI layer fails a module only if nothing of it executes,  *)
(* when its stop() succeeds.                                               *)
LEMMA CallsKeepQuiet ==
  ASSUME JobInv, CodeInv, NEW m \in Ids, Quiet(m),
         \/ UNCHANGED lifecycle
         \/ \E b \in Builds, ok \in BOOLEAN : Abi!Prepare(m, b, ok, Tests[b])
         \/ \E started \in BOOLEAN : Abi!AuthorizeAndActivate(m, started, TRUE)
         \/ \E requested \in BOOLEAN : CoreStop(m, requested, TRUE)
         \/ Abi!Unregister(m)
  PROVE  Quiet(m)'
  <1>1. modules[m].state \notin {"ACTIVE", "FAILED"} => executing[m] = {}
    BY DEF CodeInv, Code
  <1>2. CASE UNCHANGED lifecycle
    BY <1>2 DEF lifecycle, Quiet
  <1>3. ASSUME NEW b \in Builds, NEW ok \in BOOLEAN, Abi!Prepare(m, b, ok, Tests[b])
        PROVE  Quiet(m)'
    BY <1>1, <1>3, PrepareResults DEF Quiet
  <1>4. ASSUME NEW started \in BOOLEAN, Abi!AuthorizeAndActivate(m, started, TRUE)
        PROVE  Quiet(m)'
    BY <1>1, <1>4, ActivateResults DEF Quiet
  <1>5. ASSUME NEW requested \in BOOLEAN, CoreStop(m, requested, TRUE)
        PROVE  Quiet(m)'
    BY <1>5, CoreStopResults DEF Quiet
  <1>6. CASE Abi!Unregister(m)
    BY <1>6, UnregisterResults DEF Quiet
  <1>7. QED
    BY <1>2, <1>3, <1>4, <1>5, <1>6

(* So no step of a poll leaves a module FAILED and executing.              *)
LEMMA WorkKeepsQuiet ==
  ASSUME JobInv, CodeInv, StopSucceeds, Work, NEW m \in Ids, job.id = m, Quiet(m)
  PROVE  Quiet(m)'
  <1>1. /\ Outcomes("qualify") \subseteq BOOLEAN /\ Outcomes("start") \subseteq BOOLEAN
        /\ Outcomes("log") \subseteq BOOLEAN /\ Outcomes("stop") = {TRUE}
    BY OutcomesResults DEF FaultKinds, StopSucceeds, Outcomes, MayFail, JobInv, TypeOK
  <1>2. CASE UNCHANGED lifecycle
    BY <1>2, CallsKeepQuiet
  <1>3. ASSUME NEW ok \in Outcomes("qualify"), PrepareNew(ok) PROVE Quiet(m)'
    <2>1. Abi!Prepare(m, candidate, ok, Tests[candidate]) /\ At("loaded")
      BY <1>3 DEF PrepareNew
    <2>2. candidate \in Builds
      BY <2>1 DEF At, JobInv, HoldsCandidate, HoldsAt
    <2>3. QED
      BY <1>1, <2>1, <2>2, CallsKeepQuiet
  <1>4. ASSUME NEW started \in Outcomes("start"), NEW logged \in Outcomes("log"),
               ActivateNew(started, logged) \/ ActivateUpdate(started, logged)
        PROVE  Quiet(m)'
    <2>1. Abi!AuthorizeAndActivate(m, started, TRUE)
      BY <1>4 DEF ActivateNew, ActivateUpdate
    <2>2. QED
      BY <1>1, <2>1, CallsKeepQuiet
  <1>5. ASSUME NEW requested \in Outcomes("log"), NEW logged \in Outcomes("log"),
               NEW stopped \in Outcomes("stop"),
               \/ TakeNewFails(requested, stopped)
               \/ StopIncumbent(requested, stopped, logged)
               \/ Withdraw(requested, stopped)
        PROVE  Quiet(m)'
    <2>1. CoreStop(m, requested, TRUE) \/ UNCHANGED lifecycle
      BY <1>1, <1>5 DEF TakeNewFails, StopIncumbent, Withdraw
    <2>2. QED
      BY <1>1, <1>2, <2>1, CallsKeepQuiet
  <1>6. CASE Rollback \/ Remove \/ \E taken \in Outcomes("loader") : Exchange(taken)
    <2>1. Abi!Unregister(m) \/ UNCHANGED lifecycle
      BY <1>6 DEF Rollback, Remove, Exchange
    <2>2. QED
      BY <1>2, <2>1, CallsKeepQuiet
  <1>7. CASE Reinstate
    <2>1. At("owned") /\ executing' = executing
      BY <1>7 DEF Reinstate
    <2>2. modules[m].state = "ABSENT"
      BY <2>1 DEF At, CodeInv, LedgerInv, Ledger, InWork
    <2>3. QED
      BY <2>1, <2>2 DEF CodeInv, Code, Quiet
  <1>8. Stage => UNCHANGED lifecycle
    BY DEF Stage, Snapshot, SnapshotChanged, SnapshotFails, Load, LoadFails
  <1>9. /\ PrepareNewFails => UNCHANGED lifecycle
        /\ TakeNew => UNCHANGED lifecycle
        /\ ReinstateFails => UNCHANGED lifecycle
        /\ \A ok : Preflight(ok) => UNCHANGED lifecycle
    BY DEF PrepareNewFails, TakeNew, ReinstateFails, Preflight
  <1>10. CASE Admit
    BY <1>1, <1>2, <1>3, <1>4, <1>5, <1>6, <1>9, <1>10 DEF Admit
  <1>11. CASE Replace
    BY <1>1, <1>2, <1>4, <1>5, <1>6, <1>7, <1>9, <1>11 DEF Replace
  <1>12. QED
    BY <1>2, <1>8, <1>10, <1>11 DEF Work

(* ... whichever module it is working on.                                  *)
LEMMA PollKeepsQuiet ==
  ASSUME JobInv, CodeInv, StopSucceeds, [Next]_vars, \A m \in Ids : Quiet(m)
  PROVE  \A m \in Ids : Quiet(m)'
  <1>1. CASE Work
    <2>1. PICK m \in Ids : job.id = m /\ Keeps(m)
      BY <1>1, WorkStep
    <2>2. Quiet(m)'
      BY <1>1, <2>1, WorkKeepsQuiet
    <2>3. \A k \in Ids \ {m} : modules'[k] = modules[k] /\ executing'[k] = executing[k]
      BY <2>1 DEF Keeps, OnlyOne, Touches
    <2>4. QED
      BY <2>2, <2>3 DEF Quiet
  <1>2. UNCHANGED lifecycle => \A m \in Ids : Quiet(m)'
    BY DEF lifecycle, Quiet
  <1>3. Scan \/ Environment \/ UNCHANGED vars => UNCHANGED lifecycle
    BY DEF Scan, Detect, Adopt, Environment, Write, vars
  <1>4. QED
    BY <1>1, <1>2, <1>3 DEF Next


-----------------------------------------------------------------------------
(* The main thread                                                         *)

\* Fault sets in which no stop() fails that the log_failure path runs.
StopOrLog == \A f \in ShutdownFaults : "stop" \notin f \/ "log" \notin f

\* Where the modules are served, and where they are stopped and discarded.
Serving == {"scanning", "armed"} \cup Looping
Closing == {"stopping", "aborting", "cleanup"}

MainType ==
  /\ stage \in Stages
  /\ handler \in {"default", "ours"}
  /\ operational \in {"normal", "company_preservation"}
  /\ {stop_requested, result, good} \subseteq BOOLEAN
  /\ pending \subseteq Ids
  /\ ending \in ShutdownFaults

\* Between polls the watch is idle, preservation is never served, and an exit
\* that is still clean was asked for and is logged.
MainInv ==
  /\ JobInv
  /\ MainType
  /\ stage \notin {"scanning", "polling", "killed"} => At("idle")
  /\ operational # "normal" => stage \notin Serving
  /\ stage = "aborting" => "log" \in ending /\ ~result
  /\ stage \in Closing \cup {"exited"} /\ result =>
       stop_requested /\ operational = "normal"
  /\ stage \in {"cleanup", "exited"} /\ result => good
  /\ stage = "retained" => ~result

\* Of a module that is being stopped or discarded: the loader has its build,
\* nothing else of it executes, and if its stop() has failed the process ends
\* with the handles retained.
Closed(m) ==
  /\ modules[m].state # "ABSENT" => loader[m] = <<modules[m].build>>
  /\ executing[m] \subseteq
       IF modules[m].state \in {"ACTIVE", "FAILED"} THEN {modules[m].build} ELSE {}
  /\ ~Quiet(m) => stage = "stopping" /\ ~good

Left(m) == executing[m] = {} /\ loader[m] = <<>>

CloseInv ==
  /\ stage \in Serving => CodeInv /\ \A m \in Ids : Quiet(m)
  /\ stage \in Closing => \A m \in Ids : Closed(m)
  /\ stage \in {"stopping", "aborting"} /\ good => ActiveIds \subseteq pending
  /\ stage = "cleanup" /\ good => ActiveIds = {}
  /\ stage = "exited" /\ good => \A m \in Ids : Left(m)
  /\ stage \in {"exited", "retained"} => \A m \in Ids : executing[m] \subseteq Held(m)

\* A step of a poll, of the operator, or none.
PollStep ==
  /\ [Next]_vars
  /\ UNCHANGED <<runtime, good, ending>>
  /\ pending' \subseteq pending
  /\ InPoll \/ UNCHANGED <<lifecycle, loader, job, pending>>

\* A step of the main thread or a signal, which touches no module.
LoopStep ==
  \/ Loop \/ Interrupt \/ LogFails \/ StopFailed \/ AbortStopsDone
  \/ \E logged \in MainOutcomes("log") : StopsDone(logged) \/ CleanupBlocked(logged)

(* Every step of the process is one of these, or touches the modules in    *)
(* the shutdown.                                                           *)
LEMMA CoreSteps ==
  ASSUME [CoreNext]_coreVars
  PROVE  \/ PollStep
         \/ LoopStep
         \/ \E m \in Ids, requested, logged \in MainOutcomes("log"),
               stopped \in MainOutcomes("stop") : StopOne(m, requested, stopped, logged)
         \/ \E m \in Ids : Discard(m)
         \/ \E logged \in MainOutcomes("log") : CleanupDone(logged)
  <1>1. ASSUME NEW m \in Ids, Visit(m) PROVE PollStep
    <2>1. [Next]_vars
      BY <1>1 DEF Visit, Next, Scan
    <2>2. QED
      BY <1>1, <2>1 DEF Visit, PollStep
  <1>2. PollWork => PollStep
    BY DEF PollWork, PollStep, Next, process
  <1>3. OperatorWrites => PollStep
    <2> SUFFICES ASSUME OperatorWrites PROVE PollStep
      OBVIOUS
    <2>1. /\ [Next]_vars /\ UNCHANGED process
      BY DEF OperatorWrites, Next
    <2>2. UNCHANGED <<lifecycle, loader, job>>
      BY DEF OperatorWrites, Environment, Write
    <2>3. QED
      BY <2>1, <2>2 DEF process, PollStep
  <1>4. UNCHANGED coreVars => PollStep
    BY DEF coreVars, vars, process, PollStep
  <1>5. QED
    BY <1>1, <1>2, <1>3, <1>4
       DEF CoreNext, MainThread, Shutdown, StopAll, LoopStep

(* Where no poll is, the job does not change.                              *)
LEMMA PollStepResults ==
  ASSUME PollStep
  PROVE  /\ stage' = stage /\ handler' = handler /\ stop_requested' = stop_requested
         /\ operational' = operational /\ result' = result /\ good' = good
         /\ ending' = ending
         /\ ~InPoll =>
              /\ modules' = modules /\ executing' = executing /\ loader' = loader
              /\ job' = job /\ pending' = pending
  BY DEF PollStep, runtime, lifecycle

(* A record that is stopped or discarded between polls.                    *)
LEMMA RecordsOnly ==
  ASSUME JobInv, NEW m \in Ids, Touches(m), UNCHANGED <<world, loader, candidate, seen, job>>
  PROVE  JobInv'
  <1>1. /\ disk' = disk /\ changes' = changes /\ faults' = faults /\ loader' = loader
        /\ candidate' = candidate /\ seen' = seen /\ job' = job
    BY DEF world
  <1>2. TypeOK'
    <2>1. Abi!TypeOK'
      BY AbiIsRegistry DEF Abi!TypeOK, Touches
    <2>2. QED
      BY <1>1, <2>1 DEF JobInv, TypeOK
  <1>3. HasBuild'
    BY DEF Touches
  <1>4. QED
    BY <1>1, <1>2, <1>3 DEF JobInv, At, HoldsCandidate, HoldsAt, Update, InWork

(* A step of the main thread leaves the watch as it is.                    *)
LEMMA LoopStepResults ==
  ASSUME LoopStep
  PROVE  UNCHANGED vars /\ good' = good /\ ending' = ending
  BY DEF LoopStep, Loop, Interrupt, LogFails, StopFailed, AbortStopsDone, StopsDone,
         CleanupBlocked, Proceed


(* The process begins with its first poll.                                 *)
LEMMA MainInvInit ==
  ASSUME CoreInit
  PROVE  MainInv
  <1>1. JobInv /\ At("idle")
    BY InvariantsInit DEF CoreInit, CodeInv, LedgerInv, Init, NoJob, At
  <1>2. MainType
    BY DEF CoreInit, RuntimeInit, MainType, Stages, RuntimeStages
  <1>3. QED
    BY <1>1, <1>2 DEF CoreInit, RuntimeInit, MainInv, Closing, Serving

(* The main thread goes from stage to stage.                               *)
LEMMA LoopKeepsMain ==
  ASSUME MainInv, LoopStep
  PROVE  MainInv'
  <1>1. UNCHANGED vars /\ good' = good /\ ending' = ending
    BY LoopStepResults
  <1>2. JobInv' /\ (At("idle") => At("idle")')
    BY <1>1, InvariantsStep DEF MainInv, vars, At
  <1>3. ending \subseteq MainFaults
    BY ShutdownAssumption DEF MainInv, MainType
  <1>4. \A f : \A o \in MainOutcomes(f) : o \in BOOLEAN /\ (~o => f \in ending)
    BY DEF MainOutcomes
  <1>5. ActiveIds \subseteq Ids /\ pending \subseteq Ids
    BY DEF ActiveIds, MainInv, MainType
  <1> USE DEF MainType, Closing, Serving, Stages, RuntimeStages, Looping, Ended
  <1>6. CASE Loop
    <2>1. pending' \subseteq Ids
      BY <1>5, <1>6 DEF Loop, Ahead
    <2>2. CASE PollDone /\ \E installed \in MainOutcomes("os") : Arm(installed)
      BY <1>1, <1>2, <1>4, <2>1, <2>2 DEF MainInv, Arm, Leave, PollDone
    <2>3. ASSUME NEW logged \in MainOutcomes("log"), Start(logged) \/ LoopTest(logged)
          PROVE  MainInv'
      <3>1. stop_requested' \in BOOLEAN /\ result' \in BOOLEAN /\ good' \in BOOLEAN
        BY <1>1, <1>4, <2>3 DEF MainInv, Start, LoopTest, Leave
      <3>2. MainType'
        BY <1>1, <2>1, <2>3, <3>1 DEF MainInv, Start, LoopTest, Leave
      <3>3. QED
        BY <1>1, <1>2, <2>3, <3>2 DEF MainInv, Start, LoopTest, Leave
    <2>4. CASE Wake
      BY <1>1, <1>2, <2>1, <2>4 DEF MainInv, Wake
    <2>5. CASE "os" \in ending /\ SleepFails
      BY <1>1, <1>2, <2>1, <2>5 DEF MainInv, SleepFails, Leave
    <2>6. CASE PollDone /\ PollReturns
      BY <1>1, <1>2, <2>1, <2>6 DEF MainInv, PollReturns, PollDone
    <2>7. QED
      BY <1>6, <2>2, <2>3, <2>4, <2>5, <2>6 DEF Loop
  <1>7. CASE Interrupt
    <2>1. stop_requested' \in BOOLEAN /\ result' = result /\ pending' = pending
      BY <1>7 DEF MainInv, Interrupt, Signal
    <2>2. MainType'
      BY <1>1, <1>7, <2>1 DEF MainInv, Interrupt, Signal
    <2>3. QED
      BY <1>1, <1>2, <1>7, <2>2 DEF MainInv, Interrupt, Signal
  <1>8. CASE LogFails
    BY <1>1, <1>2, <1>5, <1>8 DEF MainInv, LogFails, PollDone
  <1>9. CASE StopFailed
    BY <1>1, <1>2, <1>9 DEF MainInv, StopFailed, Proceed
  <1>10. CASE AbortStopsDone
    BY <1>1, <1>2, <1>10 DEF MainInv, AbortStopsDone, Proceed
  <1>11. ASSUME NEW logged \in MainOutcomes("log"), StopsDone(logged) PROVE MainInv'
    BY <1>1, <1>2, <1>4, <1>5, <1>11 DEF MainInv, StopsDone, Proceed
  <1>12. ASSUME NEW logged \in MainOutcomes("log"), CleanupBlocked(logged) PROVE MainInv'
    BY <1>1, <1>2, <1>4, <1>12 DEF MainInv, CleanupBlocked, Proceed
  <1>13. QED
    BY <1>6, <1>7, <1>8, <1>9, <1>10, <1>11, <1>12 DEF LoopStep

(* What stop_all does to a record that is ACTIVE, or that it cannot log.   *)
LEMMA StopOneResults ==
  ASSUME JobInv, NEW m \in Ids, NEW requested \in MainOutcomes("log"),
         NEW logged \in MainOutcomes("log"), NEW stopped \in MainOutcomes("stop"),
         StopOne(m, requested, stopped, logged)
  PROVE  /\ stage \in {"stopping", "aborting"} /\ pending' = pending \ {m}
         /\ stage' = stage /\ handler' = handler /\ stop_requested' = stop_requested
         /\ operational' = operational /\ result' = result /\ ending' = ending
         /\ good' = (good /\ requested /\ stopped /\ logged)
         /\ UNCHANGED <<world, loader, candidate, seen, job>>
         /\ Touches(m) /\ modules'[m].build = modules[m].build
         /\ requested => modules[m].state = "ACTIVE"
         /\ modules'[m].state = IF requested THEN IF stopped THEN "STOPPED" ELSE "FAILED"
                                             ELSE modules[m].state
         /\ executing'[m] = IF requested /\ stopped THEN executing[m] \ {modules[m].build}
                                                    ELSE executing[m]
  <1>1. requested \in BOOLEAN /\ logged \in BOOLEAN /\ stopped \in BOOLEAN
    BY DEF MainOutcomes
  <1>2. CoreStop(m, requested, stopped)
    BY DEF StopOne
  <1>3. QED
    BY <1>1, <1>2, CoreStopResults DEF StopOne, runtime

(* What the cleanup does to a record that is not ACTIVE.                   *)
LEMMA DiscardResults ==
  ASSUME JobInv, NEW m \in Ids, Discard(m)
  PROVE  /\ stage = "cleanup" /\ modules[m].state \notin {"ABSENT", "ACTIVE"}
         /\ UNCHANGED process /\ UNCHANGED <<world, loader, candidate, seen, job>>
         /\ Touches(m) /\ modules'[m].state = "ABSENT" /\ executing'[m] = executing[m]
  <1>1. /\ modules[m] \in Record /\ executing[m] \in SUBSET Builds
        /\ executing \in [Ids -> SUBSET Builds]
    BY AbiIsRegistry DEF JobInv, TypeOK, Abi!TypeOK
  <1>2. /\ modules' = [modules EXCEPT ![m] = Absent]
        /\ executing' = [executing EXCEPT ![m] = executing[m]]
    BY <1>1 DEF Discard
  <1>3. Absent \in Record /\ Absent.state = "ABSENT"
    BY <1>1, RecordResults
  <1>4. Touches(m) /\ modules'[m] = Absent /\ executing'[m] = executing[m]
    BY <1>1, <1>2, <1>3, TouchesOne
  <1>5. QED
    BY <1>3, <1>4 DEF Discard

(* Each step keeps what the main thread may rely on.                       *)
LEMMA MainInvStep ==
  ASSUME MainInv, [CoreNext]_coreVars
  PROVE  MainInv'
  <1>1. CASE PollStep
    <2>1. JobInv'
      BY <1>1, InvariantsStep DEF PollStep, MainInv
    <2>2. MainType' /\ (~InPoll /\ At("idle") => At("idle")')
      BY <1>1, PollStepResults DEF PollStep, MainInv, MainType, At
    <2>3. QED
      BY <1>1, <2>1, <2>2, PollStepResults DEF MainInv, InPoll, Serving
  <1>2. ASSUME NEW m \in Ids, NEW requested \in MainOutcomes("log"),
               NEW logged \in MainOutcomes("log"), NEW stopped \in MainOutcomes("stop"),
               StopOne(m, requested, stopped, logged)
        PROVE  MainInv'
    <2>1. JobInv'
      BY <1>2, StopOneResults, RecordsOnly DEF MainInv
    <2>2. good' \in BOOLEAN
      BY <1>2, StopOneResults DEF MainInv
    <2>3. MainType' /\ (At("idle") => At("idle")')
      BY <1>2, <2>2, StopOneResults DEF MainInv, MainType, At
    <2>4. QED
      BY <1>2, <2>1, <2>3, StopOneResults DEF MainInv, Serving, Looping
  <1>3. ASSUME NEW m \in Ids, Discard(m) PROVE MainInv'
    <2>1. JobInv'
      BY <1>3, DiscardResults, RecordsOnly DEF MainInv
    <2>2. UNCHANGED process /\ job' = job
      BY <1>3, DiscardResults DEF MainInv
    <2>3. QED
      BY <2>1, <2>2 DEF MainInv, MainType, process, runtime, At
  <1>4. ASSUME NEW logged \in MainOutcomes("log"), CleanupDone(logged) PROVE MainInv'
    <2>1. /\ stage = "cleanup" /\ stage' = "exited" /\ loader' = [m \in Ids |-> <<>>]
          /\ UNCHANGED <<lifecycle, world, candidate, seen, job, pending, good, ending>>
          /\ UNCHANGED <<handler, stop_requested, operational>>
          /\ result' = (result /\ logged) /\ logged \in BOOLEAN
      BY <1>4 DEF CleanupDone, MainOutcomes
    <2>2. At("idle") /\ At("idle")'
      BY <2>1 DEF MainInv, At
    <2>3. loader' \in [Ids -> Seq(Builds)]
      BY <2>1, EmptySeq
    <2>4. JobInv'
      BY <2>1, <2>2, <2>3
         DEF MainInv, JobInv, TypeOK, Abi!TypeOK, HasBuild, lifecycle, world, At,
             HoldsCandidate, HoldsAt, Update, InWork
    <2>5. MainType'
      BY <2>1 DEF MainInv, MainType, Stages, Ended
    <2>6. QED
      BY <2>1, <2>2, <2>4, <2>5 DEF MainInv, Closing, Serving, Looping
  <1>5. QED
    BY <1>1, <1>2, <1>3, <1>4, CoreSteps, LoopKeepsMain


-----------------------------------------------------------------------------
(* The shutdown                                                            *)

(* Between polls every module can be closed.                               *)
LEMMA ServedIsClosed ==
  ASSUME CodeInv, At("idle")
  PROVE  \A m \in Ids :
           /\ modules[m].state # "ABSENT" => loader[m] = <<modules[m].build>>
           /\ executing[m] \subseteq
                IF modules[m].state \in {"ACTIVE", "FAILED"} THEN {modules[m].build} ELSE {}
  <1>1. job.id = NoId /\ NoId \notin Ids
    BY HotloadAssumption DEF CodeInv, LedgerInv, JobInv
  <1>2. \A m \in Ids : Settled(m)
    BY <1>1 DEF CodeInv, LedgerInv, Ledger
  <1>3. QED
    BY <1>2 DEF CodeInv, Code, Settled

(* What the loader has of a module is what executes of it, or nothing is.  *)
LEMMA ClosedIsHeld ==
  ASSUME NEW m \in Ids, Closed(m)
  PROVE  executing[m] \subseteq Held(m)
  <1>1. modules[m].state # "ABSENT" => modules[m].build \in Held(m)
    BY DEF Closed, Held
  <1>2. QED
    BY <1>1 DEF Closed

(* The process begins with nothing loaded.                                 *)
LEMMA CloseInvInit ==
  ASSUME CoreInit
  PROVE  CloseInv
  <1>1. CodeInv
    BY InvariantsInit DEF CoreInit
  <1>2. \A m \in Ids : Quiet(m)
    <2>1. \A m \in Ids : executing[m] = {}
      BY DEF CoreInit, Init, Abi!Init
    <2>2. QED
      BY <2>1 DEF Quiet
  <1>3. QED
    BY <1>1, <1>2 DEF CoreInit, RuntimeInit, CloseInv, Closing

(* The polls leave what the shutdown relies on.                            *)
LEMMA PollKeepsClose ==
  ASSUME LogIsWritten, StopSucceeds, MainInv, CloseInv, PollStep
  PROVE  CloseInv'
  <1>1. StopOrLoader
    BY DEF StopSucceeds, StopOrLoader
  <1>2. [Next]_vars
    BY DEF PollStep
  <1>3. stage \in Serving => CodeInv' /\ \A m \in Ids : Quiet(m)'
    BY <1>1, <1>2, InvariantsStep, PollKeepsQuiet DEF MainInv, CloseInv
  <1>4. stage' = stage /\ good' = good
    BY PollStepResults
  <1>5. CASE stage \in Serving
    BY <1>3, <1>4, <1>5 DEF CloseInv, Serving, Looping, Closing
  <1>6. CASE stage \notin Serving
    <2>1. /\ modules' = modules /\ executing' = executing /\ loader' = loader
          /\ pending' = pending
      BY <1>6, PollStepResults DEF Serving, Looping, InPoll
    <2>2. QED
      BY <1>4, <1>6, <2>1 DEF CloseInv, Closed, Left, Quiet, ActiveIds, Held
  <1>7. QED
    BY <1>5, <1>6

(* So does the main thread, which goes on to the cleanup only when every   *)
(* stop has succeeded, or by the log_failure path.                         *)
LEMMA LoopKeepsClose ==
  ASSUME LogIsWritten, StopSucceeds, MainInv, CloseInv, LoopStep
  PROVE  CloseInv'
  <1>1. UNCHANGED vars /\ good' = good
    BY LoopStepResults
  <1>2. /\ modules' = modules /\ executing' = executing /\ loader' = loader
        /\ ActiveIds' = ActiveIds /\ \A m \in Ids : Quiet(m)' = Quiet(m)
        /\ \A m \in Ids : Held(m)' = Held(m) /\ Left(m)' = Left(m)
    BY <1>1 DEF vars, lifecycle, ActiveIds, Quiet, Held, Left
  <1>3. CodeInv => CodeInv'
    BY <1>1, InvariantsStep DEF MainInv, StopSucceeds, StopOrLoader
  <1>4. stage \in Serving /\ At("idle") => \A m \in Ids : Closed(m)
    BY ServedIsClosed DEF CloseInv, Closed
  \* The modules as they are, seen from the next stage.
  <1>5. ASSUME NEW m \in Ids, Closed(m), Quiet(m) PROVE Closed(m)'
    BY <1>2, <1>5 DEF Closed
  <1> USE DEF Serving, Closing, Looping
  <1>6. CASE stage \in Serving /\ stage' \in Serving
    BY <1>2, <1>3, <1>6 DEF CloseInv
  <1>7. CASE /\ stage \in Serving /\ At("idle")
             /\ stage' \in {"stopping", "aborting"} /\ pending' = ActiveIds
    BY <1>2, <1>4, <1>5, <1>7 DEF CloseInv
  <1>8. CASE Loop
    <2>1. stage \in Serving
      BY <1>8 DEF Loop, Arm, Start, LoopTest, Wake, SleepFails, PollReturns
    <2>2. stage' \in Serving \cup {"stopping"}
      BY <1>8 DEF Loop, Arm, Start, LoopTest, Wake, SleepFails, PollReturns, Leave
    <2>3. stage' = "stopping" => At("idle") /\ pending' = ActiveIds
      BY <1>8, <2>1 DEF Loop, Ahead, PollDone, Wake, PollReturns, MainInv, Start, LoopTest,
                        SleepFails
    <2>4. QED
      BY <1>6, <1>7, <2>1, <2>2, <2>3
  <1>9. CASE Interrupt
    <2>1. stage \notin Ended /\ pending' = pending /\ stage' \in {stage, "killed"}
      BY <1>9 DEF Interrupt, Signal
    <2>2. CASE stage' = "killed"
      BY <2>2 DEF CloseInv
    <2>3. CASE stage' = stage
      BY <1>1, <1>2, <1>3, <2>1, <2>3 DEF CloseInv, Closed
    <2>4. QED
      BY <2>1, <2>2, <2>3
  <1>10. CASE LogFails
    BY <1>7, <1>10 DEF LogFails, PollDone
  <1>11. CASE StopFailed
    <2>1. stage = "stopping" /\ stage' = "retained"
      BY <1>11 DEF StopFailed, Proceed
    <2>2. QED
      BY <1>2, <2>1, ClosedIsHeld DEF CloseInv
  <1>12. CASE AbortStopsDone
    <2>1. stage = "aborting" /\ stage' = "cleanup" /\ pending = {}
      BY <1>12 DEF AbortStopsDone, Proceed
    <2>2. \A m \in Ids : Closed(m) /\ Quiet(m)
      BY <2>1 DEF CloseInv, Closed
    <2>3. QED
      BY <1>1, <1>2, <1>5, <2>1, <2>2 DEF CloseInv
  <1>13. ASSUME NEW logged \in MainOutcomes("log"), StopsDone(logged) PROVE CloseInv'
    <2>1. /\ stage = "stopping" /\ stage' \in {"cleanup", "aborting"}
          /\ pending = {} /\ good /\ pending' = ActiveIds
      BY <1>13 DEF StopsDone, Proceed
    <2>2. ActiveIds = {} /\ \A m \in Ids : Closed(m) /\ Quiet(m)
      BY <2>1 DEF CloseInv, Closed
    <2>3. QED
      BY <1>1, <1>2, <1>5, <2>1, <2>2 DEF CloseInv
  <1>14. ASSUME NEW logged \in MainOutcomes("log"), CleanupBlocked(logged) PROVE CloseInv'
    <2>1. stage = "cleanup" /\ stage' = "exited" /\ ~good
      BY <1>14 DEF CleanupBlocked, Proceed, CloseInv
    <2>2. QED
      BY <1>1, <1>2, <2>1, ClosedIsHeld DEF CloseInv
  <1>15. QED
    BY <1>8, <1>9, <1>10, <1>11, <1>12, <1>13, <1>14 DEF LoopStep

(* stop_all takes a module out of execution, or the stop is not good; one  *)
(* that fails does so on the path that retains the handles.                *)
LEMMA StopOneKeepsClose ==
  ASSUME StopOrLog, MainInv, CloseInv, NEW m \in Ids,
         NEW requested \in MainOutcomes("log"), NEW logged \in MainOutcomes("log"),
         NEW stopped \in MainOutcomes("stop"), StopOne(m, requested, stopped, logged)
  PROVE  CloseInv'
  <1>1. requested \in BOOLEAN /\ logged \in BOOLEAN /\ stopped \in BOOLEAN
    BY DEF MainOutcomes
  <1>2. /\ stage \in {"stopping", "aborting"} /\ stage' = stage /\ pending' = pending \ {m}
        /\ good' = (good /\ requested /\ stopped /\ logged)
        /\ loader' = loader
        /\ modules'[m].build = modules[m].build
        /\ requested => modules[m].state = "ACTIVE"
        /\ modules'[m].state = IF requested THEN IF stopped THEN "STOPPED" ELSE "FAILED"
                                            ELSE modules[m].state
        /\ executing'[m] = IF requested /\ stopped THEN executing[m] \ {modules[m].build}
                                                   ELSE executing[m]
        /\ \A k \in Ids \ {m} : modules'[k] = modules[k] /\ executing'[k] = executing[k]
    BY StopOneResults DEF MainInv, Touches
  <1>3. ~stopped => stage = "stopping"
    BY <1>2 DEF MainOutcomes, StopOrLog, MainInv, MainType
  <1>4. \A k \in Ids : Closed(k)
    BY <1>2 DEF CloseInv, Closing
  <1>5. \A k \in Ids \ {m} : Closed(k)'
    BY <1>1, <1>2, <1>4 DEF Closed, Quiet
  <1>6. Closed(m)'
    <2>1. CASE requested /\ stopped
      BY <1>2, <1>4, <2>1 DEF Closed, Quiet
    <2>2. CASE requested /\ ~stopped
      BY <1>2, <1>3, <1>4, <2>2 DEF Closed, Quiet
    <2>3. CASE ~requested
      BY <1>2, <1>4, <2>3 DEF Closed, Quiet
    <2>4. QED
      BY <1>1, <2>1, <2>2, <2>3
  <1>7. good' => ActiveIds' \subseteq pending'
    BY <1>1, <1>2 DEF CloseInv, ActiveIds
  <1>8. QED
    BY <1>2, <1>5, <1>6, <1>7 DEF CloseInv, Closing, Serving, Looping

(* A record that is discarded has no code left in execution.               *)
LEMMA DiscardKeepsClose ==
  ASSUME MainInv, CloseInv, NEW m \in Ids, Discard(m)
  PROVE  CloseInv'
  <1>1. /\ stage = "cleanup" /\ stage' = stage /\ good' = good /\ loader' = loader
        /\ modules[m].state \notin {"ABSENT", "ACTIVE"}
        /\ modules'[m].state = "ABSENT" /\ executing'[m] = executing[m]
        /\ \A k \in Ids \ {m} : modules'[k] = modules[k] /\ executing'[k] = executing[k]
    BY DiscardResults DEF MainInv, Touches, process, runtime
  <1>2. \A k \in Ids : Closed(k) /\ Quiet(k)
    BY <1>1 DEF CloseInv, Closing, Closed
  <1>3. executing[m] = {}
    BY <1>1, <1>2 DEF Closed, Quiet
  <1>4. Closed(m)'
    BY <1>1, <1>3 DEF Closed, Quiet
  <1>5. \A k \in Ids \ {m} : Closed(k)'
    BY <1>1, <1>2 DEF Closed, Quiet
  <1>6. ActiveIds' \subseteq ActiveIds
    BY <1>1 DEF ActiveIds
  <1>7. QED
    BY <1>1, <1>4, <1>5, <1>6 DEF CloseInv, Closing, Serving, Looping

(* The handles are dropped when no record is left, so no code either.      *)
LEMMA CleanupKeepsClose ==
  ASSUME CloseInv, NEW logged \in MainOutcomes("log"), CleanupDone(logged)
  PROVE  CloseInv'
  <1>1. /\ stage = "cleanup" /\ stage' = "exited" /\ executing' = executing
        /\ loader' = [m \in Ids |-> <<>>] /\ \A m \in Ids : modules[m].state = "ABSENT"
    BY DEF CleanupDone, lifecycle
  <1>2. \A m \in Ids : executing'[m] = {} /\ loader'[m] = <<>>
    BY <1>1 DEF CloseInv, Closing, Closed
  <1>3. QED
    BY <1>1, <1>2 DEF CloseInv, Left, Closing, Serving, Looping

(* Each step keeps what the shutdown relies on.                            *)
LEMMA CloseInvStep ==
  ASSUME LogIsWritten, StopSucceeds, StopOrLog, MainInv, CloseInv, [CoreNext]_coreVars
  PROVE  CloseInv'
  BY CoreSteps, PollKeepsClose, LoopKeepsClose, StopOneKeepsClose, DiscardKeepsClose,
     CleanupKeepsClose

-----------------------------------------------------------------------------
(* The main thread is where its variables say, whatever fails.             *)
THEOREM MainInvAlways == CoreSpec => []MainInv
  <1>1. CoreInit => MainInv
    BY MainInvInit
  <1>2. MainInv /\ [CoreNext]_coreVars => MainInv'
    BY MainInvStep
  <1>3. QED
    BY <1>1, <1>2, PTL DEF CoreSpec

(* Every variable of the process keeps its type, whatever fails and        *)
(* whenever a signal arrives.                                              *)
THEOREM CoreTypeCorrect == CoreSpec => []CoreTypeOK
  <1>1. MainInv => CoreTypeOK
    BY DEF MainInv, MainType, JobInv, CoreTypeOK
  <1>2. QED
    BY <1>1, MainInvAlways, PTL

(* Nothing is put into execution in preservation, nor once the main thread *)
(* has begun to stop the modules, whatever fails.                          *)
THEOREM StoppingNeverStarts == CoreSpec => StoppingStartsNothing
  <1> DEFINE Settles(m) ==
               operational # "normal" \/ stage \notin {"scanning", "polling"} =>
                 executing'[m] \subseteq executing[m]
  <1>1. MainInv /\ [CoreNext]_coreVars => [\A m \in Ids : Settles(m)]_coreVars
    <2> SUFFICES ASSUME MainInv, [CoreNext]_coreVars, NEW m \in Ids,
                        operational # "normal" \/ stage \notin {"scanning", "polling"}
                 PROVE  executing'[m] \subseteq executing[m]
      OBVIOUS
    <2>1. ~InPoll
      BY DEF MainInv, InPoll, Serving, Looping
    <2>2. CASE PollStep
      BY <2>1, <2>2, PollStepResults
    <2>3. CASE LoopStep
      BY <2>3, LoopStepResults DEF vars, lifecycle
    <2>4. ASSUME NEW k \in Ids, NEW requested \in MainOutcomes("log"),
                 NEW logged \in MainOutcomes("log"), NEW stopped \in MainOutcomes("stop"),
                 StopOne(k, requested, stopped, logged)
          PROVE  executing'[m] \subseteq executing[m]
      BY <2>4, StopOneResults DEF MainInv, Touches
    <2>5. ASSUME NEW k \in Ids, Discard(k) PROVE executing'[m] \subseteq executing[m]
      BY <2>5 DEF Discard
    <2>6. ASSUME NEW logged, CleanupDone(logged)
          PROVE  executing'[m] \subseteq executing[m]
      BY <2>6 DEF CleanupDone, lifecycle
    <2>7. QED
      BY <2>2, <2>3, <2>4, <2>5, <2>6, CoreSteps
  <1>2. QED
    BY <1>1, MainInvAlways, PTL DEF CoreSpec, StoppingStartsNothing

(* The process exits clean, or with the handles of what executes retained, *)
(* if no stop() fails in the watch, nor in a process whose log fails.      *)
THEOREM ExitAlwaysClean ==
  ASSUME LogIsWritten, StopSucceeds, StopOrLog
  PROVE  CoreSpec => []ExitIsClean
  <1>1. CoreInit => CloseInv
    BY CloseInvInit
  <1>2. MainInv /\ CloseInv /\ [CoreNext]_coreVars => CloseInv'
    BY CloseInvStep
  <1>3. MainInv /\ CloseInv => ExitIsClean
    BY DEF MainInv, CloseInv, ExitIsClean, Closing, Left
  <1>4. QED
    BY <1>1, <1>2, <1>3, MainInvAlways, PTL DEF CoreSpec


(* What the shutdown has still to stop, on the path that looks at the      *)
(* results.                                                                *)
Served(m) ==
  executing[m] \subseteq
    IF modules[m].state \in {"ACTIVE", "FAILED"} THEN {modules[m].build} ELSE {}

TriedInv ==
  /\ stage \in Serving => CodeInv
  /\ stage \in {"stopping", "retained"} => \A m \in Ids : Served(m)
  /\ "log" \notin ending /\ stage = "stopping" => ActiveIds \subseteq pending
  /\ "log" \notin ending /\ stage = "retained" => ActiveIds = {}

(* The process begins with nothing to stop.                                *)
LEMMA TriedInvInit ==
  ASSUME CoreInit
  PROVE  TriedInv
  BY InvariantsInit DEF CoreInit, RuntimeInit, TriedInv

(* The polls are over when the stopping begins.                            *)
LEMMA PollKeepsTried ==
  ASSUME LogIsWritten, StopOrLoader, MainInv, TriedInv, PollStep
  PROVE  TriedInv'
  <1>1. stage \in Serving => CodeInv'
    BY InvariantsStep DEF PollStep, MainInv, TriedInv
  <1>2. stage' = stage /\ ending' = ending
    BY PollStepResults
  <1>3. CASE stage \in Serving
    BY <1>1, <1>2, <1>3 DEF TriedInv, Serving, Looping
  <1>4. CASE stage \notin Serving
    <2>1. modules' = modules /\ executing' = executing /\ pending' = pending
      BY <1>4, PollStepResults DEF Serving, Looping, InPoll
    <2>2. QED
      BY <1>2, <1>4, <2>1 DEF TriedInv, Served, ActiveIds
  <1>5. QED
    BY <1>3, <1>4

(* The main thread begins with every ACTIVE module, and gives up when it   *)
(* has been through all of them.                                           *)
LEMMA LoopKeepsTried ==
  ASSUME LogIsWritten, StopOrLoader, MainInv, TriedInv, LoopStep
  PROVE  TriedInv'
  <1>1. UNCHANGED vars /\ ending' = ending
    BY LoopStepResults
  <1>2. ActiveIds' = ActiveIds /\ \A m \in Ids : Served(m)' = Served(m)
    BY <1>1 DEF vars, lifecycle, ActiveIds, Served
  <1>3. CodeInv => CodeInv'
    BY <1>1, InvariantsStep DEF MainInv
  <1>4. stage \in Serving /\ At("idle") => \A m \in Ids : Served(m)
    BY ServedIsClosed DEF TriedInv, Served
  <1> USE DEF Serving, Looping
  <1>5. CASE stage \in Serving /\ stage' \in Serving
    BY <1>3, <1>5 DEF TriedInv
  <1>6. CASE stage' \in {"aborting", "cleanup", "exited", "killed"}
    BY <1>6 DEF TriedInv
  <1>7. CASE Loop
    <2>1. stage \in Serving
      BY <1>7 DEF Loop, Arm, Start, LoopTest, Wake, SleepFails, PollReturns
    <2>2. stage' \in Serving \cup {"stopping"}
      BY <1>7 DEF Loop, Arm, Start, LoopTest, Wake, SleepFails, PollReturns, Leave
    <2>3. stage' = "stopping" => At("idle") /\ pending' = ActiveIds
      BY <1>7, <2>1 DEF Loop, Ahead, PollDone, Wake, PollReturns, MainInv, Start, LoopTest,
                        SleepFails
    <2>4. QED
      BY <1>2, <1>4, <1>5, <2>1, <2>2, <2>3 DEF TriedInv
  <1>8. CASE Interrupt
    <2>1. pending' = pending /\ stage' \in {stage, "killed"}
      BY <1>8 DEF Interrupt, Signal
    <2>2. QED
      BY <1>1, <1>2, <1>3, <1>6, <2>1 DEF TriedInv
  <1>9. CASE StopFailed
    <2>1. stage = "stopping" /\ stage' = "retained" /\ pending = {}
      BY <1>9 DEF StopFailed, Proceed
    <2>2. QED
      BY <1>1, <1>2, <2>1 DEF TriedInv
  <1>10. CASE LogFails \/ AbortStopsDone \/ \E logged \in MainOutcomes("log") :
                StopsDone(logged) \/ CleanupBlocked(logged)
    BY <1>6, <1>10 DEF LogFails, AbortStopsDone, StopsDone, CleanupBlocked, Proceed
  <1>11. QED
    BY <1>7, <1>8, <1>9, <1>10 DEF LoopStep

(* stop_all leaves the module it has been to STOPPED, or FAILED.           *)
LEMMA StopOneKeepsTried ==
  ASSUME MainInv, TriedInv, NEW m \in Ids,
         NEW requested \in MainOutcomes("log"), NEW logged \in MainOutcomes("log"),
         NEW stopped \in MainOutcomes("stop"), StopOne(m, requested, stopped, logged)
  PROVE  TriedInv'
  <1>1. /\ requested \in BOOLEAN /\ stopped \in BOOLEAN
        /\ "log" \notin ending => requested
    BY DEF MainOutcomes
  <1>2. /\ stage \in {"stopping", "aborting"} /\ stage' = stage /\ pending' = pending \ {m}
        /\ ending' = ending
        /\ modules'[m].build = modules[m].build
        /\ requested => modules[m].state = "ACTIVE"
        /\ modules'[m].state = IF requested THEN IF stopped THEN "STOPPED" ELSE "FAILED"
                                            ELSE modules[m].state
        /\ executing'[m] = IF requested /\ stopped THEN executing[m] \ {modules[m].build}
                                                   ELSE executing[m]
        /\ \A k \in Ids \ {m} : modules'[k] = modules[k] /\ executing'[k] = executing[k]
    BY StopOneResults DEF MainInv, Touches
  <1>3. CASE stage = "aborting"
    BY <1>2, <1>3 DEF TriedInv, Serving, Looping
  <1>4. CASE stage = "stopping"
    <2>1. \A k \in Ids \ {m} : Served(k)'
      BY <1>2, <1>4 DEF TriedInv, Served
    <2>2. Served(m)'
      BY <1>1, <1>2, <1>4 DEF TriedInv, Served
    <2>3. "log" \notin ending => ActiveIds' \subseteq pending'
      BY <1>1, <1>2, <1>4 DEF TriedInv, ActiveIds
    <2>4. QED
      BY <1>2, <1>4, <2>1, <2>2, <2>3 DEF TriedInv, Serving, Looping
  <1>5. QED
    BY <1>2, <1>3, <1>4

(* Each step keeps what stop_all has tried.                                *)
LEMMA TriedInvStep ==
  ASSUME LogIsWritten, StopOrLoader, MainInv, TriedInv, [CoreNext]_coreVars
  PROVE  TriedInv'
  <1>1. ASSUME NEW m \in Ids, Discard(m) PROVE TriedInv'
    <2>1. stage' = "cleanup"
      BY <1>1 DEF Discard, process, runtime
    <2>2. QED
      BY <2>1 DEF TriedInv, Serving, Looping
  <1>2. ASSUME NEW logged, CleanupDone(logged) PROVE TriedInv'
    BY <1>2 DEF CleanupDone, TriedInv, Serving, Looping
  <1>3. QED
    BY <1>1, <1>2, CoreSteps, PollKeepsTried, LoopKeepsTried, StopOneKeepsTried

(* A module that cannot be stopped does not keep the others running: if    *)
(* the log can be written, a process that gives up leaves executing only   *)
(* what failed to stop.                                                    *)
THEOREM RetainedAlwaysFailedToStop ==
  ASSUME LogIsWritten, StopOrLoader
  PROVE  CoreSpec => []RetainedFailedToStop
  <1>1. CoreInit => TriedInv
    BY TriedInvInit
  <1>2. MainInv /\ TriedInv /\ [CoreNext]_coreVars => TriedInv'
    BY TriedInvStep
  <1>3. TriedInv => RetainedFailedToStop
    <2> SUFFICES ASSUME TriedInv, stage = "retained", "log" \notin ending,
                        NEW m \in Ids, executing[m] # {}
                 PROVE  modules[m].state = "FAILED"
      BY DEF RetainedFailedToStop
    <2>1. modules[m].state \in {"ACTIVE", "FAILED"} /\ m \notin ActiveIds
      BY DEF TriedInv, Served
    <2>2. QED
      BY <2>1 DEF ActiveIds
  <1>4. QED
    BY <1>1, <1>2, <1>3, MainInvAlways, PTL DEF CoreSpec

(* "Unload only modules known non-running or successfully stopped"         *)
(* (core_discovery.c:139) holds under the same premises; without them it   *)
(* does not, run core_unload_failed.                                       *)
THEOREM AlwaysUnloadsOnlyStopped ==
  ASSUME LogIsWritten, StopSucceeds, StopOrLog
  PROVE  CoreSpec => UnloadsOnlyStopped
  <1> DEFINE Unloads(m) == stage = "cleanup" /\ loader[m] # <<>> /\ loader'[m] = <<>>
  <1>1. CoreInit => CloseInv
    BY CloseInvInit
  <1>2. MainInv /\ CloseInv /\ [CoreNext]_coreVars => CloseInv'
    BY CloseInvStep
  <1>3. MainInv /\ CloseInv /\ [CoreNext]_coreVars =>
          [\A m \in Ids : Unloads(m) => executing[m] = {}]_coreVars
    <2> SUFFICES ASSUME MainInv, CloseInv, [CoreNext]_coreVars, NEW m \in Ids, Unloads(m)
                 PROVE  executing[m] = {}
      OBVIOUS
    <2>1. ~InPoll /\ loader' # loader
      BY DEF InPoll
    <2>2. ~PollStep
      BY <2>1, PollStepResults
    <2>3. ~LoopStep
      BY <2>1, LoopStepResults DEF vars
    <2>4. ASSUME NEW k \in Ids, NEW requested \in MainOutcomes("log"),
                 NEW logged \in MainOutcomes("log"), NEW stopped \in MainOutcomes("stop"),
                 StopOne(k, requested, stopped, logged)
          PROVE  FALSE
      BY <2>1, <2>4 DEF StopOne
    <2>5. ASSUME NEW k \in Ids, Discard(k) PROVE FALSE
      BY <2>1, <2>5 DEF Discard
    <2>6. PICK logged : CleanupDone(logged)
      BY <2>2, <2>3, <2>4, <2>5, CoreSteps
    <2>7. Closed(m) /\ modules[m].state = "ABSENT"
      BY <2>6 DEF CloseInv, Closing, CleanupDone
    <2>8. QED
      BY <2>7 DEF Closed
  <1>4. QED
    BY <1>1, <1>2, <1>3, MainInvAlways, PTL DEF CoreSpec, UnloadsOnlyStopped
=============================================================================
