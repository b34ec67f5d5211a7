------------------------------ MODULE Hotload ------------------------------
(***************************************************************************)
(* The module watch of the Core thread (src/core_hotload.c): each poll     *)
(* scans modules/<id>/<id>.so and admits a new candidate or replaces the   *)
(* ACTIVE incumbent by an updated one.                                     *)
(*                                                                         *)
(* The poll is one thread, but the files it reads change under it, and the *)
(* audit log, the modules' callbacks and the allocator can fail in the     *)
(* middle: each step is one call, so that what has been done when the next *)
(* call fails is visible.  Registry transitions are the ABI layer's own    *)
(* (Abi, module ModuleAbi).  A build stands for a file's bytes and for     *)
(* their SHA-256.  A scan that leaves an entry as it is is a stutter.      *)
(***************************************************************************)
EXTENDS ModuleRegistry, Sequences, FiniteSets

CONSTANTS NoId,        \* the idle watch is working on no module
          Version,     \* descriptor version of a build: <<major, minor, patch>>
          Tests,       \* the report a build's qualify() fills in
          Broken,      \* builds loader_load refuses
          Files,       \* what may be written to the watched directory
          MaxChanges,  \* bound on the writes
          FaultMaps    \* what may fail in the work on each id, run by run

FaultKinds == {"snapshot",   \* the snapshot cannot be written
               "qualify",    \* qualify() returns an error, or has no registry to run in
               "start",      \* start() returns an error
               "stop",       \* stop() returns an error
               "log",        \* the audit record cannot be written
               "registry",   \* discover cannot grow the registry
               "loader",     \* a loader's table cannot grow
               "seen"}       \* ensure_seen cannot grow the watch's table

ASSUME HotloadAssumption ==
  /\ NoId \notin Ids
  /\ Version \in [Builds -> Nat \X Nat \X Nat]
  /\ Tests \in [Builds -> Reports]
  /\ Broken \subseteq Builds
  /\ Files \subseteq Builds \cup {NoBuild}
  /\ MaxChanges \in Nat
  /\ FaultMaps \subseteq [Ids -> SUBSET FaultKinds]

VARIABLES modules,    \* the Core registry, by id
          executing,  \* builds that start() put into execution, by id
          disk,       \* the build at modules/<id>/<id>.so, if any
          changes,    \* writes to the directory so far
          faults,     \* what may fail in this process, of FaultMaps
          loader,     \* builds the live loader holds handles of, oldest first
          candidate,  \* the build the candidate loader holds, if any
          seen,       \* watch->seen, by id
          job         \* the call in progress on one module

Abi == INSTANCE ModuleAbi

lifecycle == <<modules, executing>>
world == <<disk, changes, faults>>
vars == <<lifecycle, world, loader, candidate, seen, job>>

\* observed_t; a NULL find_seen is an entry that is not known.
Observed == [known : BOOLEAN, active : Builds \cup {NoBuild},
             rejected : Builds \cup {NoBuild}, version : Nat \X Nat \X Nat]
Unseen == [known |-> FALSE, active |-> NoBuild,
           rejected |-> NoBuild, version |-> <<0, 0, 0>>]

Places == {"idle", "detected", "staged", "loaded", "qualified", "activated",
           "rollback", "green", "stopped", "owned", "withdraw", "remove"}
NoJob == [at |-> "idle", kind |-> "new", id |-> NoId, sha |-> NoBuild]

MayFail(m, fault) == m \in Ids /\ fault \in faults[m]
\* A call that can fail returns an error or not.
Outcomes(fault) == IF MayFail(job.id, fault) THEN BOOLEAN ELSE {TRUE}

-----------------------------------------------------------------------------
\* Lexicographic on (major, minor, patch), against the zeroed version of an
\* entry that was never active too.
VersionNewer(old, new) ==
  \/ new[1] > old[1]
  \/ new[1] = old[1] /\ new[2] > old[2]
  \/ new[1] = old[1] /\ new[2] = old[2] /\ new[3] > old[3]

\* Every use of the table goes through ensure_seen, which may fail on an id
\* that has no entry yet: the table is then left as it is.
Note(m, entry) ==
  \E allocated \in IF MayFail(m, "seen") THEN BOOLEAN ELSE {TRUE} :
    seen' = IF seen[m].known \/ allocated
            THEN [seen EXCEPT ![m] = [entry EXCEPT !.known = TRUE]] ELSE seen

MarkRejected == Note(job.id, [seen[job.id] EXCEPT !.rejected = job.sha])
\* Mutant: the version of the module that became active is not recorded.
MarkActiveKeepsVersion ==
  Note(job.id, [seen[job.id] EXCEPT !.active = job.sha, !.rejected = NoBuild])

MarkActive ==
  Note(job.id, [known |-> TRUE, active |-> job.sha, rejected |-> NoBuild,
                version |-> Version[job.sha]])

At(place) == job.at = place
Goto(place) == job' = [job EXCEPT !.at = place]

\* done: the candidate loader is emptied and the staged copy unlinked.
Finish == job' = NoJob /\ candidate' = NoBuild

\* core_stop on an ACTIVE record: the request is logged, the ABI stop runs,
\* its result is logged; it reports success if all three succeeded.
\* Mutant: the record is stopped without a call of stop().
CoreStopRecordOnly(m, requested, stopped) ==
  /\ modules' = [modules EXCEPT ![m] = Stopped(@)]
  /\ UNCHANGED executing

CoreStop(m, requested, stopped) ==
  IF requested THEN Abi!AbiStop(m, stopped) ELSE UNCHANGED lifecycle

-----------------------------------------------------------------------------
\* The watched directory: an operator installs, replaces or removes a file.
Write(m, f) ==
  /\ changes < MaxChanges
  /\ f # disk[m]
  /\ disk' = [disk EXCEPT ![m] = f]
  /\ changes' = changes + 1
  /\ UNCHANGED <<lifecycle, faults, loader, candidate, seen, job>>

\* scan of one directory entry: the file is digested and compared with what
\* is known of the id ...
Fresh(m) ==
  /\ disk[m] # NoBuild
  /\ \/ modules[m].state = "ABSENT" /\ ~(seen[m].known /\ seen[m].rejected = disk[m])
     \/ modules[m].state = "ACTIVE" /\ seen[m].known
        /\ disk[m] \notin {seen[m].active, seen[m].rejected}

Detect(m) ==
  LET kind == IF modules[m].state = "ABSENT" THEN "new" ELSE "update"
  IN  /\ At("idle")
      /\ Fresh(m)
      /\ job' = [at |-> "detected", kind |-> kind, id |-> m, sha |-> disk[m]]
      /\ UNCHANGED <<lifecycle, world, loader, candidate, seen>>

\* ... and an ACTIVE module the table does not know is taken for what is on
\* the disk.
Unknown(m) == disk[m] # NoBuild /\ modules[m].state = "ACTIVE" /\ ~seen[m].known

Adopt(m) ==
  /\ At("idle")
  /\ Unknown(m)
  /\ Note(m, [Unseen EXCEPT !.active = disk[m], !.version = Version[modules[m].build]])
  /\ UNCHANGED <<lifecycle, world, loader, candidate, job>>

\* snapshot reads the file again and digests what it copied.
Snapshot ==
  /\ At("detected")
  /\ disk[job.id] = job.sha
  /\ Goto("staged")
  /\ UNCHANGED <<lifecycle, world, loader, candidate, seen>>

\* Mutant: a file that changed under the snapshot counts as rejected.
SnapshotChangedRejects ==
  /\ At("detected")
  /\ disk[job.id] \notin {job.sha, NoBuild}
  /\ MarkRejected
  /\ Finish
  /\ UNCHANGED <<lifecycle, world, loader>>

SnapshotChanged ==
  /\ At("detected")
  /\ disk[job.id] \notin {job.sha, NoBuild}
  /\ Finish
  /\ UNCHANGED <<lifecycle, world, loader, seen>>

\* Mutant: a snapshot that fails is not remembered.
SnapshotForgets ==
  /\ At("detected")
  /\ disk[job.id] = NoBuild \/ MayFail(job.id, "snapshot")
  /\ Finish
  /\ UNCHANGED <<lifecycle, world, loader, seen>>

SnapshotFails ==
  /\ At("detected")
  /\ disk[job.id] = NoBuild \/ MayFail(job.id, "snapshot")
  /\ MarkRejected
  /\ Finish
  /\ UNCHANGED <<lifecycle, world, loader>>

Load ==
  /\ At("staged")
  /\ job.sha \notin Broken
  /\ candidate' = job.sha
  /\ Goto("loaded")
  /\ UNCHANGED <<lifecycle, world, loader, seen>>

LoadFails ==
  /\ At("staged")
  /\ job.sha \in Broken \/ MayFail(job.id, "loader")
  /\ MarkRejected
  /\ Finish
  /\ UNCHANGED <<lifecycle, world, loader>>

-----------------------------------------------------------------------------
\* admit_new.
PrepareNew(ok) ==
  /\ At("loaded") /\ job.kind = "new"
  /\ Abi!Prepare(job.id, candidate, ok, Tests[candidate])
  /\ IF modules'[job.id].state = "QUALIFIED"
     THEN Goto("qualified") /\ UNCHANGED seen
     ELSE Goto("rollback") /\ MarkRejected
  /\ UNCHANGED <<world, loader, candidate>>

PrepareNewFails ==
  /\ At("loaded") /\ job.kind = "new"
  /\ MayFail(job.id, "registry")
  /\ MarkRejected
  /\ Goto("rollback")
  /\ UNCHANGED <<lifecycle, world, loader, candidate>>

\* core_activate_qualified reports failure when its audit record cannot be
\* written, although the record is ACTIVE by then.
ActivateNew(started, logged) ==
  /\ At("qualified") /\ job.kind = "new"
  /\ Abi!AuthorizeAndActivate(job.id, started, TRUE)
  /\ IF started /\ logged
     THEN Goto("activated") /\ UNCHANGED seen
     ELSE Goto("rollback") /\ MarkRejected
  /\ UNCHANGED <<world, loader, candidate>>

TakeNew ==
  /\ At("activated")
  /\ loader' = [loader EXCEPT ![job.id] = Append(@, candidate)]
  /\ MarkActive
  /\ Finish
  /\ UNCHANGED <<lifecycle, world>>

\* Mutant: the activated module is not stopped.
TakeNewFailsRunning(requested, stopped) ==
  /\ At("activated")
  /\ MayFail(job.id, "loader")
  /\ MarkRejected
  /\ Goto("rollback")
  /\ UNCHANGED <<lifecycle, world, loader, candidate>>

TakeNewFails(requested, stopped) ==
  /\ At("activated")
  /\ MayFail(job.id, "loader")
  /\ CoreStop(job.id, requested, stopped)
  /\ MarkRejected
  /\ Goto("rollback")
  /\ UNCHANGED <<world, loader, candidate>>

\* rollback: the record goes unless it is ACTIVE, the candidate is unloaded.
Rollback ==
  /\ At("rollback")
  /\ IF CanUnregister(modules[job.id]) THEN Abi!Unregister(job.id)
                                       ELSE UNCHANGED lifecycle
  /\ Finish
  /\ UNCHANGED <<world, loader, seen>>

-----------------------------------------------------------------------------
\* replace_active: the candidate is tried in an isolated registry first.
QualifiesIsolated(ok) == Prepared(candidate, ok, Tests[candidate]).state = "QUALIFIED"

\* Mutant: the candidate's tests are not run.
PreflightUntested(ok) ==
  /\ At("loaded") /\ job.kind = "update"
  /\ IF /\ VersionNewer(seen[job.id].version, Version[candidate])
        /\ modules[job.id].state = "ACTIVE"
     THEN Goto("green") /\ UNCHANGED <<candidate, seen>>
     ELSE Finish /\ MarkRejected
  /\ UNCHANGED <<lifecycle, world, loader>>

Preflight(ok) ==
  /\ At("loaded") /\ job.kind = "update"
  /\ IF /\ VersionNewer(seen[job.id].version, Version[candidate])
        /\ QualifiesIsolated(ok)
        /\ modules[job.id].state = "ACTIVE"
     THEN Goto("green") /\ UNCHANGED <<candidate, seen>>
     ELSE Finish /\ MarkRejected
  /\ UNCHANGED <<lifecycle, world, loader>>

StopIncumbent(requested, stopped, logged) ==
  /\ At("green")
  /\ CoreStop(job.id, requested, stopped)
  /\ IF requested /\ stopped /\ logged
     THEN Goto("stopped") /\ UNCHANGED <<candidate, seen>>
     ELSE Finish /\ MarkRejected
  /\ UNCHANGED <<world, loader>>

\* The incumbent is unregistered and unloaded, and the live loader takes the
\* candidate over.
Exchange(taken) ==
  LET emptied == [loader EXCEPT ![job.id] = Tail(@)]
  IN  /\ At("stopped")
      /\ Abi!Unregister(job.id)
      /\ IF loader[job.id] = <<>>
         THEN Finish /\ MarkRejected /\ UNCHANGED loader
         ELSE IF taken
         THEN /\ loader' = [emptied EXCEPT ![job.id] = Append(@, candidate)]
              /\ candidate' = NoBuild
              /\ Goto("owned")
              /\ UNCHANGED seen
         ELSE loader' = emptied /\ Finish /\ MarkRejected
      /\ UNCHANGED world

\* discover, verify and restore_qualification with the isolated report.
Reinstate ==
  /\ At("owned")
  /\ modules' = [modules EXCEPT ![job.id] = Reinstated(job.sha, Tests[job.sha])]
  /\ Goto(IF modules'[job.id].state = "QUALIFIED" THEN "qualified" ELSE "withdraw")
  /\ UNCHANGED <<executing, world, loader, candidate, seen>>

ReinstateFails ==
  /\ At("owned")
  /\ MayFail(job.id, "registry")
  /\ Goto("withdraw")
  /\ UNCHANGED <<lifecycle, world, loader, candidate, seen>>

ActivateUpdate(started, logged) ==
  /\ At("qualified") /\ job.kind = "update"
  /\ Abi!AuthorizeAndActivate(job.id, started, TRUE)
  /\ IF started /\ logged THEN Finish /\ MarkActive
                          ELSE Goto("withdraw") /\ UNCHANGED <<candidate, seen>>
  /\ UNCHANGED <<world, loader>>

\* The replacement failed: stop it if it is ACTIVE ...
Withdraw(requested, stopped) ==
  /\ At("withdraw")
  /\ IF CanStop(modules[job.id]) THEN CoreStop(job.id, requested, stopped)
                                 ELSE UNCHANGED lifecycle
  /\ Goto("remove")
  /\ UNCHANGED <<world, loader, candidate, seen>>

\* Mutant: the handle of the failed replacement is not dropped.
RemoveKeepsHandle ==
  /\ At("remove")
  /\ IF CanUnregister(modules[job.id]) THEN Abi!Unregister(job.id)
                                       ELSE UNCHANGED lifecycle
  /\ MarkRejected
  /\ Finish
  /\ UNCHANGED <<world, loader>>

\* ... unregister it and unload it, whatever came of the stop.
Remove ==
  /\ At("remove")
  /\ IF CanUnregister(modules[job.id]) THEN Abi!Unregister(job.id)
                                       ELSE UNCHANGED lifecycle
  /\ loader' = [loader EXCEPT ![job.id] = Tail(@)]
  /\ MarkRejected
  /\ Finish
  /\ UNCHANGED world

-----------------------------------------------------------------------------
Init ==
  /\ Abi!Init
  /\ disk \in [Ids -> Files \cup {NoBuild}]
  /\ changes = 0
  /\ faults \in FaultMaps
  /\ loader = [m \in Ids |-> <<>>]
  /\ candidate = NoBuild
  /\ seen = [m \in Ids |-> Unseen]
  /\ job = NoJob

Stage == Snapshot \/ SnapshotChanged \/ SnapshotFails \/ Load \/ LoadFails

Admit ==
  \/ \E ok \in Outcomes("qualify") : PrepareNew(ok)
  \/ PrepareNewFails
  \/ \E started \in Outcomes("start"), logged \in Outcomes("log") :
       ActivateNew(started, logged)
  \/ TakeNew
  \/ \E requested \in Outcomes("log"), stopped \in Outcomes("stop") :
       TakeNewFails(requested, stopped)
  \/ Rollback

Replace ==
  \/ \E ok \in Outcomes("qualify") : Preflight(ok)
  \/ \E requested, logged \in Outcomes("log"), stopped \in Outcomes("stop") :
       StopIncumbent(requested, stopped, logged)
  \/ \E taken \in Outcomes("loader") : Exchange(taken)
  \/ Reinstate \/ ReinstateFails
  \/ \E started \in Outcomes("start"), logged \in Outcomes("log") :
       ActivateUpdate(started, logged)
  \/ \E requested \in Outcomes("log"), stopped \in Outcomes("stop") :
       Withdraw(requested, stopped)
  \/ Remove

Scan == \E m \in Ids : Detect(m) \/ Adopt(m)
Work == Stage \/ Admit \/ Replace
Environment == \E m \in Ids, f \in Files : Write(m, f)

Next == Scan \/ Work \/ Environment

\* A poll completes what it has begun, and every poll visits every entry:
\* an entry that calls for work again and again is reached.
Fairness ==
  /\ WF_vars(Work)
  /\ \A m \in Ids : SF_vars(Detect(m)) /\ SF_vars(Adopt(m))

Spec == Init /\ [][Next]_vars
FairSpec == Spec /\ Fairness

-----------------------------------------------------------------------------
Held(m) == {loader[m][i] : i \in 1 .. Len(loader[m])}
Mapped(m) == Held(m) \cup (IF job.id = m THEN {candidate} ELSE {})

TypeOK ==
  /\ Abi!TypeOK
  /\ disk \in [Ids -> Builds \cup {NoBuild}]
  /\ changes \in 0 .. MaxChanges
  /\ faults \in FaultMaps
  /\ loader \in [Ids -> Seq(Builds)]
  /\ candidate \in Builds \cup {NoBuild}
  /\ seen \in [Ids -> Observed]
  /\ job \in [at : Places, kind : {"new", "update"},
              id : Ids \cup {NoId}, sha : Builds \cup {NoBuild}]

(* No shared object is unloaded under code that is still executing:        *)
(* whatever start() put into execution is mapped until stop() succeeded    *)
(* ("ACTIVE -> STOPPED -> UNREGISTERED -> old shared object unloaded",     *)
(* core_hotload.c:311).                                                    *)
RunningIsMapped == \A m \in Ids : executing[m] \subseteq Mapped(m)

(* Two revisions of a module never execute side by side: the replacement   *)
(* starts only after the incumbent's stop() succeeded.                     *)
OneRevisionRuns == \A m \in Ids : Cardinality(executing[m]) <= 1

(* Between polls the registry and the live loader agree: an ACTIVE module  *)
(* is exactly the one build the loader holds, and the loader holds nothing *)
(* of an id the registry does not know, so a later candidate is not taken  *)
(* in beside a forgotten handle (take_loaded_module does not look).        *)
LoaderMatchesRegistry ==
  At("idle") =>
    \A m \in Ids :
      /\ modules[m].state = "ACTIVE" => loader[m] = <<modules[m].build>>
      /\ modules[m].state = "ABSENT" => loader[m] = <<>>
      /\ Len(loader[m]) <= 1

(* What the watch compares the disk with is what runs: the remembered hash *)
(* and version of an ACTIVE module are those of the loaded build, so an    *)
(* update is neither missed nor admitted against the wrong version.  (A    *)
(* table that cannot grow forgets the entry and adopts it later.)          *)
SeenIsWhatRuns ==
  At("idle") =>
    \A m \in Ids :
      modules[m].state = "ACTIVE" /\ "seen" \notin faults[m] =>
        /\ seen[m].known
        /\ seen[m].active = modules[m].build
        /\ seen[m].version = Version[modules[m].build]

(* "Preflight the candidate before disturbing the ACTIVE incumbent"        *)
(* (core_hotload.c:274): a module the live loader holds leaves ACTIVE only *)
(* for a loaded candidate that is newer than the build which runs and      *)
(* passes its tests against this Core.                                     *)
InService(m) == modules[m].state = "ACTIVE" /\ loader[m] # <<>>

DisturbedOnlyByProven ==
  [][\A m \in Ids :
       InService(m) /\ modules'[m].state # "ACTIVE" =>
         /\ job.id = m /\ candidate \in Builds \ Broken
         /\ VersionNewer(Version[modules[m].build], Version[candidate])
         /\ Compatible(candidate) /\ ValidReport(Tests[candidate])]_vars

(* "The same failed bytes are not retried until the file changes"          *)
(* (modules/irc/README.md:56): once the directory is left alone the watch  *)
(* comes to rest, whatever failed on the way.  (A table that never grows   *)
(* has nothing to remember the bytes in, and each poll tries them again.)  *)
WatchSettles == (\A m \in Ids : "seen" \notin faults[m]) => <>[]At("idle")

(* A passing, newest candidate that stays in the directory becomes ACTIVE  *)
(* and stays so, whichever revisions were installed before it, at whatever *)
(* moment of a poll each was written, and whatever fails in the work on    *)
(* the other modules.                                                      *)
Passing(b) == b \notin Broken /\ Compatible(b) /\ ValidReport(Tests[b])
Newest(b) ==
  \A c \in Builds \ {b} : Passing(c) => VersionNewer(Version[c], Version[b])

PassingIsActivated ==
  \A m \in Ids, b \in Builds :
    faults[m] = {} /\ Passing(b) /\ Newest(b) =>
      ((<>[](disk[m] = b)) =>
         <>[](modules[m].state = "ACTIVE" /\ modules[m].build = b))
=============================================================================
