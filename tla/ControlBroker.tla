--------------------------- MODULE ControlBroker ---------------------------
(***************************************************************************)
(* The governance-backed control gate: rictus.control.request              *)
(* (modules/compliance) and the Core's policy evaluation behind it.        *)
(*                                                                         *)
(* A request is for one operation on one target.  The governance file is   *)
(* read line by line until it ends or a line is refused; its lines are     *)
(* told apart only by what apply_record does with them.  Lines about other *)
(* operations, comments and blank lines change nothing and are no step.    *)
(* A call keeps its state on its own stack and shares only the log, so one *)
(* caller is modelled, asking again and again.                             *)
(***************************************************************************)
EXTENDS Naturals, Sequences

CONSTANT Faults  \* what may fail: "identity", "file", "log"

Kinds == {"mission", "policy", "directive", "instruction", "authority"}
Values == {"allow", "deny"}
Known == Values \cup {"unknown"}
\* A target the file accepts may still be one core_policy does not: "odd".
Targets == {"none", "good", "odd"}
Lines == [kind : Kinds, value : Values]
         \cup [kind : {"escalation"}, value : {"good", "odd"}]

VARIABLES stage,     \* where the call is
          via,       \* "control": the file decides; "compliance": a proving scenario
          record,    \* the lines about this request read from the file
          spoiled,   \* the file repeats such a line, holds one that is not a rule,
                     \* or cannot be read to its end
          facts,     \* governance_accum_t: what is known of each kind
          target,    \* escalation_target
          request,   \* the facts handed to stnlabz.policy.evaluate
          audit,     \* what the log says of this call
          answer     \* what the caller was answered

vars == <<stage, via, record, spoiled, facts, target, request, audit, answer>>

Stages == {"idle", "identity", "reading", "deciding", "reporting", "answering",
           "answered", "refused"}
GoverningFacts == {"mission", "policy", "instruction", "authority"}
Decisions == {"ALLOW", "DENY", "ESCALATE"}
AuditLines == [what : {"POLICY"}, says : Decisions]
              \cup [what : {"ESCALATION"},
                    says : {"pending_delivery", "recipient_unavailable"}]
NoAnswer == [decision |-> "NONE", executor |-> FALSE]
Nothing == [k \in Kinds |-> "unknown"]
NoRequest == [f \in GoverningFacts |-> "unknown"]

Refuse == stage' = "refused"
Fault(what) == what \in Faults

-----------------------------------------------------------------------------
(* stnlabz_core_policy_evaluate, for a verified context. *)

Grounds(f) ==
  IF f["mission"] = "deny" THEN "GO1"
  ELSE IF f["policy"] = "deny" \/ f["instruction"] = "deny" THEN "GO2"
  ELSE IF f["authority"] = "deny" THEN "GO3"
  ELSE IF \E k \in GoverningFacts : f[k] = "unknown" THEN "UNKNOWN"
  ELSE "GO1_GO2_GO3"

Decision(f, t) ==
  IF Grounds(f) = "GO1_GO2_GO3" THEN "ALLOW"
  ELSE IF Grounds(f) \in {"GO1", "GO2"} /\ t # "good" THEN "DENY"
  ELSE "ESCALATE"

Escalation(t) == IF t = "good" THEN "pending_delivery" ELSE "recipient_unavailable"

\* finish_result: a policy is complied with when policy and directive both allow.
Finish(f) ==
  [k \in GoverningFacts |->
     IF k # "policy" THEN f[k]
     ELSE IF "deny" \in {f["policy"], f["directive"]} THEN "deny"
     ELSE IF "unknown" \in {f["policy"], f["directive"]} THEN "unknown"
     ELSE "allow"]

-----------------------------------------------------------------------------
Request ==
  /\ stage \in {"idle", "answered", "refused"}
  /\ stage' = "identity"
  /\ via' = "control"
  /\ record' = {}
  /\ spoiled' = FALSE
  /\ facts' = Nothing
  /\ target' = "none"
  /\ request' = NoRequest
  /\ audit' = << >>
  /\ answer' = NoAnswer

\* /compliance states every fact itself and reads no file.
Scenario(f, t) ==
  /\ stage \in {"idle", "answered", "refused"}
  /\ stage' = "deciding"
  /\ via' = "compliance"
  /\ record' = {}
  /\ spoiled' = FALSE
  /\ facts' = Nothing
  /\ target' = t
  /\ request' = f
  /\ audit' = << >>
  /\ answer' = NoAnswer

Identity ==
  /\ stage = "identity"
  /\ \/ stage' = "reading"
     \/ Fault("identity") /\ Refuse
  /\ UNCHANGED <<via, record, spoiled, facts, target, request, audit, answer>>

ReadFactLastWins(k, v) ==
  /\ stage = "reading"
  /\ record' = record \cup {[kind |-> k, value |-> v]}
  /\ spoiled' = (spoiled \/ facts[k] # "unknown")
  /\ facts' = [facts EXCEPT ![k] = v]
  /\ UNCHANGED <<stage, via, target, request, audit, answer>>

\* A rule about this request; a second one of its kind refuses the file.
ReadFact(k, v) ==
  /\ stage = "reading"
  /\ record' = record \cup {[kind |-> k, value |-> v]}
  /\ IF facts[k] = "unknown"
       THEN facts' = [facts EXCEPT ![k] = v] /\ UNCHANGED <<stage, spoiled>>
       ELSE Refuse /\ spoiled' = TRUE /\ UNCHANGED facts
  /\ UNCHANGED <<via, target, request, audit, answer>>

ReadEscalation(t) ==
  /\ stage = "reading"
  /\ record' = record \cup {[kind |-> "escalation", value |-> t]}
  /\ IF target = "none"
       THEN target' = t /\ UNCHANGED <<stage, spoiled>>
       ELSE Refuse /\ spoiled' = TRUE /\ UNCHANGED target
  /\ UNCHANGED <<via, facts, request, audit, answer>>

\* An unknown kind, a wrong field count, an overlong line, a value that is
\* neither allow nor deny in a rule about this request.
ReadMalformed ==
  /\ stage = "reading"
  /\ Refuse
  /\ spoiled' = TRUE
  /\ UNCHANGED <<via, record, facts, target, request, audit, answer>>

\* The file exists and cannot be opened, or fails before its end.
ReadFails ==
  /\ stage = "reading" /\ Fault("file")
  /\ Refuse
  /\ spoiled' = TRUE
  /\ UNCHANGED <<via, record, facts, target, request, audit, answer>>

\* The end of the file; a file that does not exist has no line.
EndOfFile ==
  /\ stage = "reading"
  /\ stage' = "deciding"
  /\ request' = Finish(facts)
  /\ UNCHANGED <<via, record, spoiled, facts, target, audit, answer>>

DecisionLine == [what |-> "POLICY", says |-> Decision(request, target)]
ReportLine == [what |-> "ESCALATION", says |-> Escalation(target)]

AfterDecision ==
  stage' = IF Decision(request, target) = "ESCALATE" THEN "reporting" ELSE "answering"

LogDecision ==
  /\ stage = "deciding"
  /\ audit' = Append(audit, DecisionLine)
  /\ AfterDecision
  /\ UNCHANGED <<via, record, spoiled, facts, target, request, answer>>

LogReport ==
  /\ stage = "reporting"
  /\ audit' = Append(audit, ReportLine)
  /\ stage' = "answering"
  /\ UNCHANGED <<via, record, spoiled, facts, target, request, answer>>

LogFailsIgnored ==
  /\ stage \in {"deciding", "reporting"} /\ Fault("log")
  /\ UNCHANGED audit
  /\ stage' = "answering"
  /\ UNCHANGED <<via, record, spoiled, facts, target, request, answer>>

\* The line, or its sync, fails: the caller gets an error, whether or not
\* the line reached the file.
LogFails ==
  /\ stage \in {"deciding", "reporting"} /\ Fault("log")
  /\ \/ UNCHANGED audit
     \/ audit' = Append(audit, IF stage = "deciding" THEN DecisionLine ELSE ReportLine)
  /\ Refuse
  /\ UNCHANGED <<via, record, spoiled, facts, target, request, answer>>

AnswerUnlessDenied ==
  /\ stage = "answering"
  /\ stage' = "answered"
  /\ answer' = [decision |-> Decision(request, target),
                executor |-> via = "control" /\ Decision(request, target) # "DENY"]
  /\ UNCHANGED <<via, record, spoiled, facts, target, request, audit>>

\* Only a control request has an executor, and only ALLOW reaches it.
Answer ==
  /\ stage = "answering"
  /\ stage' = "answered"
  /\ answer' = [decision |-> Decision(request, target),
                executor |-> via = "control" /\ Decision(request, target) = "ALLOW"]
  /\ UNCHANGED <<via, record, spoiled, facts, target, request, audit>>

Init ==
  /\ stage = "idle" /\ via = "control"
  /\ record = {} /\ spoiled = FALSE
  /\ facts = Nothing /\ target = "none" /\ request = NoRequest
  /\ audit = << >> /\ answer = NoAnswer

Read ==
  \/ \E k \in Kinds, v \in Values : ReadFact(k, v)
  \/ \E t \in {"good", "odd"} : ReadEscalation(t)
  \/ ReadMalformed \/ ReadFails \/ EndOfFile

Next ==
  \/ Request
  \/ \E f \in [GoverningFacts -> Values], t \in Targets : Scenario(f, t)
  \/ Identity \/ Read
  \/ LogDecision \/ LogReport \/ LogFails \/ Answer

Spec == Init /\ [][Next]_vars

-----------------------------------------------------------------------------
(* What the file says, whatever the order of its lines. *)

Says(k, v) == [kind |-> k, value |-> v] \in record
FullyAllowed == \A k \in Kinds : Says(k, "allow") /\ ~ Says(k, "deny")
Prohibited == \E k \in Kinds \ {"authority"} : Says(k, "deny")
Judgement ==
  IF FullyAllowed THEN "ALLOW"
  ELSE IF Prohibited /\ ~ Says("escalation", "good") THEN "DENY"
  ELSE "ESCALATE"

(* The values of the call's state. *)
TypeOK ==
  /\ stage \in Stages /\ via \in {"control", "compliance"}
  /\ record \subseteq Lines /\ spoiled \in BOOLEAN
  /\ facts \in [Kinds -> Known] /\ target \in Targets
  /\ request \in [GoverningFacts -> Known]
  /\ audit \in Seq(AuditLines)
  /\ answer \in [decision : Decisions \cup {"NONE"}, executor : BOOLEAN]

(* A control request is answered only from a file without contradictions   *)
(* that has been read to its end, and then with what the set of its lines  *)
(* says: resolving it line by line and folding policy and directive        *)
(* together loses and invents nothing.                                     *)
AnswersTheRecord ==
  (stage = "answered" /\ via = "control") =>
     ~ spoiled /\ answer.decision = Judgement

(* The executor is reached only when all five rules allow, none denies, and *)
(* the ALLOW is in the log: unknown never implies permission, and neither  *)
(* does a proving scenario.                                                *)
ExecutorIsEarned ==
  answer.executor =>
     /\ via = "control" /\ ~ spoiled /\ FullyAllowed
     /\ audit = << [what |-> "POLICY", says |-> "ALLOW"] >>

(* No decision is handed out that the log does not hold, and an escalation *)
(* is reported in the log before the caller hears of it.                   *)
AnswersAreAudited ==
  stage = "answered" =>
     audit = IF answer.decision = "ESCALATE" THEN <<DecisionLine, ReportLine>>
             ELSE << [what |-> "POLICY", says |-> answer.decision] >>
=============================================================================
