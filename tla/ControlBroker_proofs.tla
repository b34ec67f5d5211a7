----------------------- MODULE ControlBroker_proofs ------------------------
(***************************************************************************)
(* The control gate for every file and every pattern of failures.          *)
(*                                                                         *)
(* The state read so far is exactly the set of lines read (Resolved) until *)
(* a line spoils the file, after which the call is refused (Sound); what   *)
(* is evaluated is the resolved state folded once (Handed), and the stages *)
(* after it carry the log lines written (Logged) and the answer (Told).    *)
(***************************************************************************)
EXTENDS ControlBroker, SequenceTheorems, TLAPS

Beyond == {"deciding", "reporting", "answering", "answered"}

Sound == spoiled => stage = "refused"
Resolved ==
  (via = "control" /\ ~ spoiled) =>
     /\ \A k \in Kinds : /\ Says(k, "allow") <=> facts[k] = "allow"
                         /\ Says(k, "deny") <=> facts[k] = "deny"
     /\ Says("escalation", "good") <=> target = "good"
Handed == (via = "control" /\ stage \in Beyond) => request = Finish(facts)
Logged ==
  /\ stage = "deciding" => audit = << >>
  /\ stage = "reporting" => /\ audit = <<DecisionLine>>
                            /\ Decision(request, target) = "ESCALATE"
  /\ stage \in {"answering", "answered"} =>
       audit = IF Decision(request, target) = "ESCALATE"
               THEN <<DecisionLine, ReportLine>> ELSE <<DecisionLine>>
  /\ stage \in {"identity", "reading", "idle"} => audit = << >>
Told ==
  /\ stage # "answered" => answer = NoAnswer
  /\ stage = "answered" =>
       answer = [decision |-> Decision(request, target),
                 executor |-> via = "control" /\ Decision(request, target) = "ALLOW"]

IInv == TypeOK /\ Sound /\ Resolved /\ Handed /\ Logged /\ Told

-----------------------------------------------------------------------------
(* The evaluation yields one of the three decisions. *)
LEMMA DecisionType ==
  ASSUME NEW f, NEW t
  PROVE  Decision(f, t) \in Decisions
BY DEF Decision, Decisions

(* The two lines of the log. *)
LEMMA LineTypes == DecisionLine \in AuditLines /\ ReportLine \in AuditLines
BY DecisionType DEF DecisionLine, ReportLine, AuditLines, Escalation

(* A second line goes behind the first. *)
LEMMA SecondLine ==
  ASSUME NEW a \in AuditLines, NEW b \in AuditLines
  PROVE  Append(<<a>>, b) = <<a, b>>
<1> DEFINE s == Append(<<a>>, b)
<1>1. <<a>> \in Seq(AuditLines) /\ <<a, b>> \in Seq(AuditLines)
  OBVIOUS
<1>2. s \in Seq(AuditLines) /\ Len(s) = 2 /\ s[1] = a /\ s[2] = b
  BY <1>1, AppendProperties
<1>3. Len(<<a, b>>) = 2 /\ <<a, b>>[1] = a /\ <<a, b>>[2] = b
  OBVIOUS
<1>4. \A i \in 1 .. 2 : s[i] = <<a, b>>[i]
  BY <1>2, <1>3
<1> QED
  BY <1>1, <1>2, <1>3, <1>4, SeqEqual

(* A call that has just begun has the types it should. *)
LEMMA Fresh == /\ << >> \in Seq(AuditLines)
               /\ Nothing \in [Kinds -> Known]
               /\ NoRequest \in [GoverningFacts -> Known]
               /\ NoAnswer \in [decision : Decisions \cup {"NONE"}, executor : BOOLEAN]
BY DEF Nothing, NoRequest, NoAnswer, Known

(* Folding policy and directive leaves every governing fact a known value. *)
LEMMA FinishType ==
  ASSUME NEW f \in [Kinds -> Known]
  PROVE  Finish(f) \in [GoverningFacts -> Known]
BY DEF Finish, Kinds, Known, Values, GoverningFacts

(* ALLOW is the answer exactly when every fact, the directive among them,  *)
(* is known to allow.                                                      *)
LEMMA AllowMeansAll ==
  ASSUME NEW f \in [Kinds -> Known], NEW t
  PROVE  Decision(Finish(f), t) = "ALLOW" <=> \A k \in Kinds : f[k] = "allow"
BY DEF Decision, Grounds, Finish, Kinds, Known, Values, GoverningFacts

(* DENY is the answer exactly when something other than the authority      *)
(* denies and nobody can be escalated to.                                  *)
LEMMA DenyMeansProhibited ==
  ASSUME NEW f \in [Kinds -> Known], NEW t
  PROVE  Decision(Finish(f), t) = "DENY" <=>
           t # "good" /\ \E k \in Kinds \ {"authority"} : f[k] = "deny"
BY DEF Decision, Grounds, Finish, Kinds, Known, Values, GoverningFacts

-----------------------------------------------------------------------------
(* The first state satisfies the invariant. *)
LEMMA InitIInv == Init => IInv
<1> SUFFICES ASSUME Init PROVE IInv
  OBVIOUS
<1> USE DEF Init
<1>1. TypeOK
  BY Fresh DEF TypeOK, Stages, Targets
<1>2. Sound /\ Handed /\ Logged /\ Told
  BY DEF Sound, Handed, Logged, Told, Beyond
<1>3. Resolved
  BY DEF Resolved, Says, Nothing, Kinds
<1> QED
  BY <1>1, <1>2, <1>3 DEF IInv

(* Every step keeps the invariant. *)
LEMMA NextIInv == IInv /\ [Next]_vars => IInv'
<1> SUFFICES ASSUME IInv, [Next]_vars PROVE IInv'
  OBVIOUS
<1> USE DEF IInv
<1>1. CASE Request
  <2> USE <1>1 DEF Request
  <2>1. TypeOK'
    BY Fresh DEF TypeOK, Stages, Targets
  <2>2. Sound' /\ Handed' /\ Logged' /\ Told'
    BY DEF Sound, Handed, Logged, Told, Beyond
  <2>3. Resolved'
    BY DEF Resolved, Says, Nothing, Kinds
  <2> QED
    BY <2>1, <2>2, <2>3
<1>2. ASSUME NEW f \in [GoverningFacts -> Values], NEW t \in Targets, Scenario(f, t)
      PROVE  IInv'
  <2> USE <1>2 DEF Scenario
  <2>1. TypeOK'
    <3>1. f \in [GoverningFacts -> Known]
      BY DEF Known
    <3> QED
      BY <3>1, Fresh DEF TypeOK, Stages
  <2>2. Sound' /\ Handed' /\ Resolved' /\ Logged' /\ Told'
    BY DEF Sound, Handed, Resolved, Logged, Told
  <2> QED
    BY <2>1, <2>2
<1>3. CASE Identity
  BY <1>3 DEF Identity, Refuse, TypeOK, Stages, Sound, Resolved, Says, Handed, Beyond,
              Logged, Told, DecisionLine, ReportLine
<1>4. ASSUME NEW k \in Kinds, NEW v \in Values, ReadFact(k, v)
      PROVE  IInv'
  <2> USE <1>4 DEF ReadFact
  <2>1. TypeOK'
    <3>1. [kind |-> k, value |-> v] \in Lines
      BY DEF Lines
    <3>2. facts' \in [Kinds -> Known] /\ stage' \in Stages /\ spoiled' \in BOOLEAN
      BY DEF TypeOK, Stages, Refuse, Known
    <3> QED
      BY <3>1, <3>2 DEF TypeOK
  <2>2. Sound' /\ Handed' /\ Logged' /\ Told'
    BY DEF Sound, Handed, Beyond, Logged, Told, Refuse
  <2>3. Resolved'
    <3> SUFFICES ASSUME via = "control", ~ spoiled'
                 PROVE  /\ \A j \in Kinds : /\ Says(j, "allow")' <=> facts'[j] = "allow"
                                            /\ Says(j, "deny")' <=> facts'[j] = "deny"
                        /\ Says("escalation", "good")' <=> target' = "good"
      BY DEF Resolved
    <3>1. facts[k] = "unknown" /\ facts' = [facts EXCEPT ![k] = v] /\ ~ spoiled
      BY DEF Refuse, Sound
    <3>2. facts \in [Kinds -> Known]
      BY DEF TypeOK
    <3>3. \A j \in Kinds : /\ Says(j, "allow") <=> facts[j] = "allow"
                           /\ Says(j, "deny") <=> facts[j] = "deny"
      BY <3>1 DEF Resolved
    <3>4. Says("escalation", "good") <=> target = "good"
      BY <3>1 DEF Resolved
    <3>5. \A j, w : Says(j, w)' <=> Says(j, w) \/ (j = k /\ w = v)
      BY DEF Says
    <3>6. "escalation" # k
      BY DEF Kinds
    <3>7. ASSUME NEW j \in Kinds
          PROVE  /\ Says(j, "allow")' <=> facts'[j] = "allow"
                 /\ Says(j, "deny")' <=> facts'[j] = "deny"
      <4> HIDE DEF ReadFact
      <4>1. CASE j = k
        BY <3>1, <3>2, <3>3, <3>5, <4>1 DEF Values
      <4>2. CASE j # k
        BY <3>1, <3>2, <3>3, <3>5, <4>2
      <4> QED
        BY <4>1, <4>2
    <3> QED
      BY <3>4, <3>5, <3>6, <3>7
  <2> QED
    BY <2>1, <2>2, <2>3
<1>5. ASSUME NEW t \in {"good", "odd"}, ReadEscalation(t)
      PROVE  IInv'
  <2> USE <1>5 DEF ReadEscalation
  <2>1. TypeOK'
    <3>1. [kind |-> "escalation", value |-> t] \in Lines
      BY DEF Lines
    <3>2. target' \in Targets /\ stage' \in Stages /\ spoiled' \in BOOLEAN
      BY DEF TypeOK, Stages, Refuse, Targets
    <3> QED
      BY <3>1, <3>2 DEF TypeOK
  <2>2. Sound' /\ Handed' /\ Logged' /\ Told'
    BY DEF Sound, Handed, Beyond, Logged, Told, Refuse
  <2>3. Resolved'
    <3> SUFFICES ASSUME via = "control", ~ spoiled'
                 PROVE  /\ \A j \in Kinds : /\ Says(j, "allow")' <=> facts'[j] = "allow"
                                            /\ Says(j, "deny")' <=> facts'[j] = "deny"
                        /\ Says("escalation", "good")' <=> target' = "good"
      BY DEF Resolved
    <3>1. target = "none" /\ target' = t /\ ~ spoiled
      BY DEF Refuse, Sound
    <3>2. \A j, w : Says(j, w)' <=> Says(j, w) \/ (j = "escalation" /\ w = t)
      BY DEF Says
    <3>3. "escalation" \notin Kinds
      BY DEF Kinds
    <3> QED
      BY <3>1, <3>2, <3>3 DEF Resolved
  <2> QED
    BY <2>1, <2>2, <2>3
<1>6. CASE ReadMalformed \/ ReadFails
  BY <1>6 DEF ReadMalformed, ReadFails, Refuse, TypeOK, Stages, Sound, Resolved, Says,
              Handed, Beyond, Logged, Told
<1>7. CASE EndOfFile
  <2> USE <1>7 DEF EndOfFile
  <2>1. TypeOK'
    BY FinishType DEF TypeOK, Stages
  <2>2. Sound' /\ Handed' /\ Logged' /\ Told'
    BY DEF Sound, Handed, Logged, Told
  <2>3. Resolved'
    BY DEF Resolved, Says
  <2> QED
    BY <2>1, <2>2, <2>3
<1>8. CASE LogDecision
  <2> USE <1>8 DEF LogDecision, AfterDecision
  <2>1. TypeOK'
    BY LineTypes DEF TypeOK, Stages
  <2>2. Sound' /\ Handed' /\ Told'
    BY DEF Sound, Handed, Beyond, Told
  <2>3. Resolved'
    BY DEF Resolved, Says
  <2>4. Logged'
    BY DEF Logged, DecisionLine, ReportLine
  <2> QED
    BY <2>1, <2>2, <2>3, <2>4
<1>9. CASE LogReport
  <2> USE <1>9 DEF LogReport
  <2>1. TypeOK'
    BY LineTypes DEF TypeOK, Stages
  <2>2. Sound' /\ Handed' /\ Told'
    BY DEF Sound, Handed, Beyond, Told
  <2>3. Resolved'
    BY DEF Resolved, Says
  <2>4. Logged'
    <3>1. audit = <<DecisionLine>> /\ Decision(request, target) = "ESCALATE"
      BY DEF Logged
    <3>2. audit' = <<DecisionLine, ReportLine>>
      BY <3>1, LineTypes, SecondLine
    <3>3. DecisionLine' = DecisionLine /\ ReportLine' = ReportLine
      BY DEF DecisionLine, ReportLine
    <3>4. Decision(request, target)' = "ESCALATE" /\ stage' = "answering"
      BY <3>1
    <3> QED
      BY <3>2, <3>3, <3>4 DEF Logged
  <2> QED
    BY <2>1, <2>2, <2>3, <2>4
<1>10. CASE LogFails
  <2> USE <1>10 DEF LogFails, Refuse
  <2>1. TypeOK'
    BY LineTypes DEF TypeOK, Stages
  <2>2. Sound' /\ Handed' /\ Logged' /\ Told'
    BY DEF Sound, Handed, Beyond, Logged, Told
  <2>3. Resolved'
    BY DEF Resolved, Says
  <2> QED
    BY <2>1, <2>2, <2>3
<1>11. CASE Answer
  <2> USE <1>11 DEF Answer
  <2>1. TypeOK'
    BY DecisionType DEF TypeOK, Stages
  <2>2. Sound' /\ Handed' /\ Told'
    BY DEF Sound, Handed, Beyond, Told
  <2>3. Resolved'
    BY DEF Resolved, Says
  <2>4. Logged'
    BY DEF Logged, DecisionLine, ReportLine
  <2> QED
    BY <2>1, <2>2, <2>3, <2>4
<1>12. CASE UNCHANGED vars
  BY <1>12 DEF vars, TypeOK, Sound, Resolved, Says, Handed, Beyond, Logged, Told,
               DecisionLine, ReportLine
<1> QED
  BY <1>1, <1>2, <1>3, <1>4, <1>5, <1>6, <1>7, <1>8, <1>9, <1>10, <1>11, <1>12
  DEF Next, Read

(* What the file says is what was decided, at the answer of a control      *)
(* request.                                                                *)
LEMMA JudgementDecided ==
  ASSUME IInv, stage = "answered", via = "control"
  PROVE  /\ ~ spoiled
         /\ Decision(request, target) = Judgement
         /\ Decision(request, target) = "ALLOW" => FullyAllowed
<1> USE DEF IInv
<1>1. ~ spoiled
  BY DEF Sound
<1>2. request = Finish(facts) /\ facts \in [Kinds -> Known]
  BY DEF Handed, Beyond, TypeOK
<1>3. \A k \in Kinds : /\ Says(k, "allow") <=> facts[k] = "allow"
                       /\ Says(k, "deny") <=> facts[k] = "deny"
  BY <1>1 DEF Resolved
<1>4. Says("escalation", "good") <=> target = "good"
  BY <1>1 DEF Resolved
<1>5. FullyAllowed <=> Decision(request, target) = "ALLOW"
  BY <1>2, <1>3, AllowMeansAll DEF FullyAllowed
<1>6. (Prohibited /\ ~ Says("escalation", "good")) <=> Decision(request, target) = "DENY"
  BY <1>2, <1>3, <1>4, DenyMeansProhibited DEF Prohibited
<1>7. Decision(request, target) \in Decisions
  BY DecisionType
<1> QED
  BY <1>1, <1>5, <1>6, <1>7 DEF Judgement, Decisions

-----------------------------------------------------------------------------
(* The invariant holds in every state of every run. *)
THEOREM BrokerInvariant == Spec => []IInv
BY InitIInv, NextIInv, PTL DEF Spec

(* A control request is answered only from a file without contradictions,  *)
(* and with the decision the set of its lines calls for, whatever their    *)
(* number and order.                                                       *)
THEOREM AnswersAlwaysTheRecord == Spec => []AnswersTheRecord
<1>1. IInv => AnswersTheRecord
  BY JudgementDecided DEF IInv, AnswersTheRecord, Told
<1> QED
  BY <1>1, BrokerInvariant, PTL

(* The executor is reached only on five allowing rules, no denying one and *)
(* a logged ALLOW.                                                         *)
THEOREM ExecutorAlwaysEarned == Spec => []ExecutorIsEarned
<1>1. IInv => ExecutorIsEarned
  <2> SUFFICES ASSUME IInv, answer.executor PROVE ExecutorIsEarned
    BY DEF ExecutorIsEarned
  <2>1. stage = "answered"
    BY DEF IInv, Told, NoAnswer
  <2>2. via = "control" /\ Decision(request, target) = "ALLOW"
    <3>1. answer = [decision |-> Decision(request, target),
                    executor |-> via = "control" /\ Decision(request, target) = "ALLOW"]
      BY <2>1 DEF IInv, Told
    <3>2. answer.executor = (via = "control" /\ Decision(request, target) = "ALLOW")
      BY <3>1
    <3> QED
      BY <3>2
  <2>3. audit = <<DecisionLine>>
    BY <2>1, <2>2 DEF IInv, Logged
  <2> QED
    BY <2>1, <2>2, <2>3, JudgementDecided DEF ExecutorIsEarned, DecisionLine
<1> QED
  BY <1>1, BrokerInvariant, PTL

(* No decision is handed out that the log does not hold, nor an escalation *)
(* whose report it does not hold.                                          *)
THEOREM AnswersAlwaysAudited == Spec => []AnswersAreAudited
<1>1. IInv => AnswersAreAudited
  BY DEF IInv, AnswersAreAudited, Logged, Told, DecisionLine
<1> QED
  BY <1>1, BrokerInvariant, PTL
=============================================================================
