--------------------------- MODULE ModuleRegistry ---------------------------
(***************************************************************************)
(* The records of the Core module registry (src/stnlabz_abi/               *)
(* module_registry.c) and what each registry function does to one record.  *)
(*                                                                         *)
(* A registry function looks a record up by id, returns an error when the  *)
(* record's state does not admit the operation, and otherwise rewrites the *)
(* record.  Each function is therefore a pair of operators: Can<Op>(r),    *)
(* the conjunction of its early returns, and <Op>ed(r), the record it      *)
(* leaves behind.  The state machines that call them (ModuleAbi, Hotload)  *)
(* keep the records in a variable.                                         *)
(***************************************************************************)
EXTENDS Naturals

CONSTANTS Ids,       \* module identities, one record at most for each
          Builds,    \* compiled revisions of modules, each with its descriptor
          NoBuild,   \* the zeroed descriptor of an empty record
          ApiMajor,  \* descriptor.required_core_api_major of a build
          ApiMinor,  \* descriptor.required_core_api_minor of a build
          Reports    \* qualification reports a module's qualify() may return

STNLABZ_MODULE_API_MAJOR == 1
STNLABZ_MODULE_API_MINOR == 5
STNLABZ_MODULE_MIN_TESTS == 10

Report == [executed : Nat, passed : Nat, failed : Nat,
           negativeExecuted : BOOLEAN, negativePassed : BOOLEAN]

ASSUME RegistryAssumption ==
  /\ NoBuild \notin Builds
  /\ ApiMajor \in [Builds -> Nat]
  /\ ApiMinor \in [Builds -> Nat]
  /\ Reports \subseteq Report

\* The zeroed report of a record that has not been qualified.
NoReport == [executed |-> 0, passed |-> 0, failed |-> 0,
             negativeExecuted |-> FALSE, negativePassed |-> FALSE]

States == {"ABSENT", "DISCOVERED", "UNVERIFIED", "QUALIFIED", "ACTIVE",
           "STOPPED", "FAILED", "QUARANTINED"}

Record == [state : States,
           build : Builds \cup {NoBuild},
           qualification : Reports \cup {NoReport},
           authorized : BOOLEAN]

\* The registry holds no record of the id: registry_find returns NULL.
Absent == [state |-> "ABSENT", build |-> NoBuild,
           qualification |-> NoReport, authorized |-> FALSE]

-----------------------------------------------------------------------------
\* What registry_verify and registry_qualify accept.

Compatible(b) ==
  /\ ApiMajor[b] = STNLABZ_MODULE_API_MAJOR
  /\ ApiMinor[b] <= STNLABZ_MODULE_API_MINOR

ValidReport(q) ==
  /\ q.executed >= STNLABZ_MODULE_MIN_TESTS
  /\ q.passed = q.executed
  /\ q.failed = 0
  /\ q.passed + q.failed = q.executed
  /\ q.negativeExecuted
  /\ q.negativePassed

-----------------------------------------------------------------------------
\* The registry functions.

CanDiscover(r) == r.state = "ABSENT"
Discovered(b) == [Absent EXCEPT !.state = "DISCOVERED", !.build = b]

CanVerify(r) == r.state = "DISCOVERED"
Verified(r) ==
  [r EXCEPT !.state = IF Compatible(r.build) THEN "UNVERIFIED" ELSE "FAILED"]

\* ok is the value qualify() returned and q the report it filled in.
CanQualify(r) == r.state = "UNVERIFIED"
\* Mutant: the report is not looked at.
QualifiedOnResult(r, ok, q) ==
  IF ok THEN [r EXCEPT !.state = "QUALIFIED", !.qualification = q]
  ELSE [r EXCEPT !.state = "FAILED", !.authorized = FALSE]

Qualified(r, ok, q) ==
  IF ok /\ ValidReport(q)
  THEN [r EXCEPT !.state = "QUALIFIED", !.qualification = q]
  ELSE [r EXCEPT !.state = "FAILED", !.qualification = q, !.authorized = FALSE]

\* Mutant: any record can be requalified.
CanRestoreAnywhere(r, q) == ValidReport(q)

CanRestoreQualification(r, q) == r.state = "UNVERIFIED" /\ ValidReport(q)
QualificationRestored(r, q) ==
  [r EXCEPT !.state = "QUALIFIED", !.qualification = q, !.authorized = FALSE]

\* Mutant: an unqualified record can be authorized.
CanAuthorizeEarly(r) == r.state \in {"UNVERIFIED", "QUALIFIED", "STOPPED"}

CanAuthorize(r) == r.state \in {"QUALIFIED", "STOPPED"}
Authorized(r) == [r EXCEPT !.authorized = TRUE]

CanActivate(r) == r.state \in {"QUALIFIED", "STOPPED"} /\ r.authorized
Activated(r) == [r EXCEPT !.state = "ACTIVE"]

CanStop(r) == r.state = "ACTIVE"
Stopped(r) == [r EXCEPT !.state = "STOPPED", !.authorized = FALSE]

CanUnregister(r) == r.state \in {"QUALIFIED", "STOPPED", "FAILED", "QUARANTINED"}

CanFail(r) == r.state # "ABSENT"
Failed(r) == [r EXCEPT !.state = "FAILED", !.authorized = FALSE]

CanQuarantine(r) == r.state # "ABSENT"
Quarantined(r) == [r EXCEPT !.state = "QUARANTINED", !.authorized = FALSE]

-----------------------------------------------------------------------------
\* discover, verify and qualify in turn, stopping at the first error.
Prepared(b, ok, q) ==
  LET verified == Verified(Discovered(b))
  IN  IF CanQualify(verified) THEN Qualified(verified, ok, q) ELSE verified

\* discover, verify and restore_qualification in turn.
Reinstated(b, q) ==
  LET verified == Verified(Discovered(b))
  IN  IF CanRestoreQualification(verified, q)
      THEN QualificationRestored(verified, q) ELSE verified

-----------------------------------------------------------------------------
\* What a record must satisfy whatever calls have been made: the evidence a
\* state claims is there, and authority is held only on top of it.
SoundRecord(r) ==
  /\ r.state \in {"QUALIFIED", "ACTIVE", "STOPPED"} => ValidReport(r.qualification)
  /\ r.state \in {"UNVERIFIED", "QUALIFIED", "ACTIVE", "STOPPED"} => Compatible(r.build)
  /\ r.authorized => r.state \in {"QUALIFIED", "ACTIVE", "STOPPED"}
  /\ r.state = "ACTIVE" => r.authorized
  /\ r.state # "ABSENT" => r.build \in Builds
=============================================================================
