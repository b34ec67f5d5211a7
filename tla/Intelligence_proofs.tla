------------------------ MODULE Intelligence_proofs ------------------------
(***************************************************************************)
(* Proofs about Intelligence, for any window, any faults and any bounds.   *)
(*                                                                         *)
(* PlaceInv says what the worker holds at each of its places: which        *)
(* records are in the evidence when the cursor is about to pass them, and  *)
(* how far the response had outgrown the window when it decided to reset.  *)
(* CopiesInv counts how often a record is in the evidence: one more than   *)
(* the failures and the refusals only once the worker, or the cursor file, *)
(* is past it.                                                             *)
(***************************************************************************)
EXTENDS Intelligence, FiniteSetTheorems, TLAPS

\* How far the worker has come: where its response is, or the cursor file.
Upto == IF at = "logging" THEN next - 1 ELSE IF at = "saving" THEN top ELSE saved

PlaceInv ==
  /\ TypeOK
  /\ cursor \in {0, saved}
  /\ at \in {"logging", "saving"} =>
       /\ cursor # 0 /\ cursor < top
       /\ \A j \in Due : saved < j /\ j <= Upto => j \in Recorded
  /\ at = "logging" => cursor < next /\ next <= top + 1
  /\ at \in {"logging", "saving", "resetting"} /\ top \in nameless => refusals < MaxRefusals
  /\ at = "resetting" => saved <= top /\ (cursor = 0 \/ saved + Window <= top)

\* How often a record is in the evidence.
Lines(i) == {k \in 1 .. Len(evidence) : evidence[k] = i}
Copies(i) == Cardinality(Lines(i))

CopiesInv == \A i \in Nat : Copies(i) <= faults + refusals + (IF i <= Upto THEN 1 ELSE 0)

-----------------------------------------------------------------------------
(* The evidence *)

\* A sequence is over any set that holds its elements.
LEMMA SeqOver ==
  ASSUME NEW S, NEW T, NEW s \in Seq(S), \A k \in 1 .. Len(s) : s[k] \in T
  PROVE  s \in Seq(T)
<1>1. Len(s) \in Nat /\ s \in [1 .. Len(s) -> S]
  OBVIOUS
<1>2. s \in [1 .. Len(s) -> T]
  BY <1>1
<1> QED
  BY <1>1, <1>2

\* A line adds its record to what is recorded, and to nothing else.
LEMMA LineRecords ==
  ASSUME NEW i \in Due, evidence \in Seq(Due), evidence' = Append(evidence, i)
  PROVE  /\ evidence' \in Seq(Due)
         /\ Recorded' = Recorded \cup {i}
<1>1. /\ evidence' \in Seq(Due) /\ Len(evidence') = Len(evidence) + 1
      /\ Len(evidence) \in Nat /\ evidence'[Len(evidence) + 1] = i
      /\ \A k \in 1 .. Len(evidence) : evidence'[k] = evidence[k]
  OBVIOUS
<1>2. \A j : j \in Recorded' <=> \E k \in 1 .. Len(evidence) + 1 : evidence'[k] = j
  BY <1>1 DEF Recorded
<1>3. \A j : j \in Recorded <=> \E k \in 1 .. Len(evidence) : evidence[k] = j
  BY DEF Recorded
<1>4. ASSUME NEW j PROVE j \in Recorded' <=> j \in Recorded \cup {i}
  <2>1. ASSUME j \in Recorded' PROVE j \in Recorded \cup {i}
    <3>1. PICK k \in 1 .. Len(evidence) + 1 : evidence'[k] = j
      BY <1>2, <2>1
    <3>2. CASE k = Len(evidence) + 1
      BY <1>1, <3>1, <3>2
    <3>3. CASE k # Len(evidence) + 1
      BY <1>1, <1>3, <3>1, <3>3
    <3> QED
      BY <3>2, <3>3
  <2>2. ASSUME j \in Recorded PROVE j \in Recorded'
    <3>1. PICK k \in 1 .. Len(evidence) : evidence[k] = j
      BY <1>3, <2>2
    <3>2. k \in 1 .. Len(evidence) + 1 /\ evidence'[k] = j
      BY <1>1, <3>1
    <3> QED
      BY <1>2, <3>2
  <2>3. i \in Recorded'
    <3>1. Len(evidence) + 1 \in 1 .. Len(evidence) + 1
      BY <1>1
    <3> QED
      BY <1>1, <1>2, <3>1
  <2> QED
    BY <2>1, <2>2, <2>3
<1> QED
  BY <1>1, <1>4

\* The lines of a record are finitely many.
LEMMA LinesFinite ==
  ASSUME evidence \in Seq(Due), NEW i
  PROVE  IsFiniteSet(Lines(i)) /\ Copies(i) \in Nat
<1>1. IsFiniteSet(1 .. Len(evidence))
  BY FS_Interval
<1>2. IsFiniteSet(Lines(i))
  BY <1>1, FS_Subset DEF Lines
<1> QED
  BY <1>2, FS_CardinalityType DEF Copies

\* A line counts once, for its record.
LEMMA LineCounts ==
  ASSUME NEW i \in Due, evidence \in Seq(Due), evidence' = Append(evidence, i),
         NEW j
  PROVE  Copies(j)' = IF j = i THEN Copies(j) + 1 ELSE Copies(j)
<1>1. /\ Len(evidence') = Len(evidence) + 1 /\ Len(evidence) \in Nat
      /\ evidence'[Len(evidence) + 1] = i
      /\ \A k \in 1 .. Len(evidence) : evidence'[k] = evidence[k]
  OBVIOUS
<1>2. Lines(j)' = {k \in 1 .. Len(evidence) + 1 : evidence'[k] = j}
  BY <1>1 DEF Lines
<1>3. CASE j = i
  <2>1. Lines(j)' = Lines(j) \cup {Len(evidence) + 1}
    BY <1>1, <1>2, <1>3 DEF Lines
  <2>2. Len(evidence) + 1 \notin Lines(j)
    BY <1>1 DEF Lines
  <2>3. Cardinality(Lines(j) \cup {Len(evidence) + 1}) = Cardinality(Lines(j)) + 1
    BY <2>2, LinesFinite, FS_AddElement
  <2> QED
    BY <1>3, <2>1, <2>3 DEF Copies
<1>4. CASE j # i
  <2>1. Lines(j)' = Lines(j)
    BY <1>1, <1>2, <1>4 DEF Lines
  <2> QED
    BY <1>4, <2>1 DEF Copies
<1> QED
  BY <1>3, <1>4

-----------------------------------------------------------------------------
(* What the worker holds *)

\* Nothing has been published and nothing runs.
LEMMA PlaceInvInit == Init => PlaceInv
<1> SUFFICES ASSUME Init PROVE PlaceInv
  OBVIOUS
<1>1. TypeOK
  <2>1. /\ MaxRecords \in Nat /\ MaxFaults \in Nat /\ MaxRefusals \in Nat
        /\ evidence \in Seq(Due)
    BY IntelligenceAssumption DEF Init
  <2>2. /\ newest \in 0 .. MaxRecords /\ saved \in 0 .. newest /\ cursor \in 0 .. newest
        /\ top \in 0 .. newest /\ next \in 0 .. newest + 1 /\ faults \in 0 .. MaxFaults
        /\ refusals \in 0 .. MaxRefusals
    BY <2>1 DEF Init
  <2>3. /\ relevant \subseteq 1 .. newest /\ malformed \subseteq 1 .. newest
        /\ unprintable \subseteq relevant /\ nameless \subseteq unprintable
        /\ skipped \subseteq 1 .. newest /\ at \in Places /\ stop \in BOOLEAN
    BY DEF Init, Places
  <2> QED
    BY <2>1, <2>2, <2>3 DEF TypeOK
<1> QED
  BY <1>1 DEF Init, PlaceInv

\* The feed's owner publishes: the worker's response is as it was.
LEMMA PublishKeepsPlace ==
  ASSUME PlaceInv, NEW class \in Classes, Publish(class)
  PROVE  PlaceInv'
<1>1. /\ UNCHANGED <<evidence, saved, cursor, at, top, next, stop, skipped, refusals, faults>>
      /\ newest \in Nat /\ newest' = newest + 1 /\ newest' \in 0 .. MaxRecords
      /\ newest + 1 \notin relevant /\ newest + 1 \notin nameless
      /\ top <= newest
  BY IntelligenceAssumption DEF Publish, PlaceInv, TypeOK
<1>2. /\ relevant' \in {relevant, relevant \cup {newest + 1}}
      /\ malformed' \in {malformed, malformed \cup {newest + 1}}
      /\ nameless' \in {nameless, nameless \cup {newest + 1}}
      /\ unprintable' \in {unprintable, unprintable \cup {newest + 1}}
      /\ unprintable' \subseteq relevant' /\ nameless' \subseteq unprintable'
  BY DEF Publish, PlaceInv, TypeOK
<1>3. Due' \in {Due, Due \cup {newest + 1}}
  BY <1>1, <1>2 DEF Due, PlaceInv, TypeOK
<1>4. evidence \in Seq(Due')
  <2>1. evidence \in Seq(Due) /\ \A k \in 1 .. Len(evidence) : evidence[k] \in Due'
    BY <1>3 DEF PlaceInv, TypeOK
  <2> QED
    BY <2>1, SeqOver
<1>5. TypeOK'
  <2>1. relevant' \subseteq 1 .. newest' /\ malformed' \subseteq 1 .. newest'
    BY <1>1, <1>2 DEF PlaceInv, TypeOK
  <2>2. evidence' \in Seq(Due')
    BY <1>1, <1>4
  <2> QED
    BY <1>1, <1>2, <2>1, <2>2 DEF PlaceInv, TypeOK
<1>6. top \in nameless' => top \in nameless
  BY <1>1, <1>2 DEF PlaceInv, TypeOK
<1>7. Recorded' = Recorded /\ Upto' = Upto
  BY <1>1 DEF Recorded, Upto
<1>8. at \in {"logging", "saving"} => Upto <= newest
  BY <1>1 DEF PlaceInv, TypeOK, Upto
<1>9. ASSUME at \in {"logging", "saving"}, NEW j \in Due', saved < j, j <= Upto
      PROVE  j \in Recorded'
  <2>1. j # newest + 1
    BY <1>1, <1>8, <1>9 DEF PlaceInv, TypeOK, Upto
  <2> QED
    BY <1>1, <1>7, <1>9, <1>3, <2>1 DEF PlaceInv
<1> QED
  BY <1>1, <1>5, <1>7, <1>9, <1>6 DEF PlaceInv

\* The starts and stops, the fetch, the end of a response and the moves of
\* the cursor, with their failures.
LEMMA PollKeepsPlace ==
  /\ PlaceInv
  /\ Start \/ RequestStop \/ Stopped \/ Fetch \/ EndOfBatch \/ Save \/ Reset \/ Refuse
       \/ SaveFails \/ Crash
  => PlaceInv'
<1> SUFFICES ASSUME PlaceInv,
                    Start \/ RequestStop \/ Stopped \/ Fetch \/ EndOfBatch \/ Save \/ Reset
                      \/ Refuse \/ SaveFails \/ Crash
             PROVE  PlaceInv'
  OBVIOUS
<1>1. /\ UNCHANGED <<newest, relevant, malformed, unprintable, nameless, evidence>>
      /\ Recorded' = Recorded /\ Due' = Due
  BY DEF Start, RequestStop, Stopped, Fetch, EndOfBatch, Save, Reset, Refuse, SaveFails, Crash,
         feed, Recorded, Due
<1>2. /\ newest \in Nat /\ saved \in 0 .. newest /\ cursor \in 0 .. newest
      /\ top \in 0 .. newest /\ next \in 0 .. newest + 1
      /\ Due \subseteq 1 .. newest /\ faults \in 0 .. MaxFaults /\ MaxFaults \in Nat
      /\ skipped \subseteq 1 .. newest
      /\ Window \in Nat /\ MaxRefusals \in Nat /\ refusals \in 0 .. MaxRefusals
  BY IntelligenceAssumption DEF PlaceInv, TypeOK, Due
<1>3. TypeOK' /\ cursor' \in {0, saved'}
  <2>1. faults' \in 0 .. MaxFaults
    BY <1>2 DEF Start, RequestStop, Stopped, Fetch, EndOfBatch, Save, Reset, Refuse, SaveFails, Crash,
                Fail, Works
  <2>2. saved' \in 0 .. newest /\ cursor' \in 0 .. newest /\ cursor' \in {0, saved'}
    BY <1>2 DEF Start, RequestStop, Stopped, Fetch, EndOfBatch, Save, Reset, Refuse, SaveFails, Crash,
                PlaceInv
  <2>3. top' \in 0 .. newest /\ next' \in 0 .. newest + 1
    BY <1>2 DEF Start, RequestStop, Stopped, Fetch, EndOfBatch, Save, Reset, Refuse, SaveFails, Crash
  <2>4. at' \in Places /\ stop' \in BOOLEAN
    BY DEF Start, RequestStop, Stopped, Fetch, EndOfBatch, Save, Reset, Refuse, SaveFails, Crash,
           PlaceInv, TypeOK, Places
  <2>5. skipped' \subseteq 1 .. newest
    <3>1. saved + 1 .. top \subseteq 1 .. newest
      BY <1>2
    <3> QED
      BY <1>2, <3>1 DEF Start, RequestStop, Stopped, Fetch, EndOfBatch, Save, Reset, Refuse, SaveFails,
                        Crash
  <2>6. refusals' \in 0 .. MaxRefusals
    BY <1>2 DEF Start, RequestStop, Stopped, Fetch, EndOfBatch, Save, Reset, Refuse, SaveFails,
                Crash, PlaceInv
  <2> QED
    BY <1>1, <2>1, <2>2, <2>3, <2>4, <2>5, <2>6 DEF PlaceInv, TypeOK
<1>4. CASE Fetch
  <2>1. Oldest = (IF newest > Window THEN newest - Window + 1 ELSE 1)
    BY DEF Oldest
  <2>2. /\ top' = newest /\ cursor' = cursor /\ saved' = saved /\ cursor < newest
        /\ top' \in nameless' => refusals' < MaxRefusals
    BY <1>1, <1>2, <1>4 DEF Fetch
  <2>3. CASE cursor # 0 /\ Oldest <= cursor
    <3>1. at' = "logging" /\ next' = cursor + 1 /\ Upto' = saved
      BY <1>2, <1>4, <2>2, <2>3 DEF Fetch, Upto, PlaceInv
    <3> QED
      BY <1>1, <1>2, <1>3, <2>2, <2>3, <3>1 DEF PlaceInv
  <2>4. CASE ~(cursor # 0 /\ Oldest <= cursor)
    <3>1. at' = "resetting" /\ saved <= newest
      BY <1>2, <1>4, <2>4 DEF Fetch
    <3>2. cursor = 0 \/ saved + Window <= newest
      BY <1>2, <2>1, <2>2, <2>4 DEF PlaceInv
    <3> QED
      BY <1>3, <2>2, <3>1, <3>2 DEF PlaceInv
  <2> QED
    BY <2>3, <2>4
<1>5. CASE EndOfBatch
  <2>1. /\ UNCHANGED <<saved, cursor, top, refusals>> /\ at = "logging" /\ at' = "saving"
        /\ next = top + 1
    BY <1>2, <1>5 DEF EndOfBatch, PlaceInv
  <2>2. Upto' = Upto
    BY <1>2, <2>1 DEF Upto
  <2> QED
    BY <1>1, <1>3, <2>1, <2>2 DEF PlaceInv
<1>6. CASE RequestStop
  BY <1>1, <1>3, <1>6 DEF RequestStop, PlaceInv, Upto
<1>7. CASE Start \/ Stopped \/ Save \/ Reset \/ Refuse \/ SaveFails \/ Crash
  BY <1>3, <1>7 DEF Start, Stopped, Save, Reset, Refuse, SaveFails, Crash, PlaceInv
<1> QED
  BY <1>4, <1>5, <1>6, <1>7

\* One round of the loop, with a line written, needed or not, or failing.
LEMMA LogKeepsPlace == PlaceInv /\ (Log \/ LogFails) => PlaceInv'
<1> SUFFICES ASSUME PlaceInv, Log \/ LogFails PROVE PlaceInv'
  OBVIOUS
<1>1. /\ UNCHANGED <<newest, relevant, malformed, unprintable, nameless, saved, cursor, top,
                      stop, skipped, refusals>>
      /\ at = "logging" /\ next <= top /\ Due' = Due
  BY DEF Log, LogFails, feed, Due
<1>2. /\ newest \in Nat /\ saved \in 0 .. newest /\ cursor \in 0 .. newest
      /\ top \in 0 .. newest /\ next \in 0 .. newest + 1 /\ cursor = saved
      /\ saved < next /\ next <= top
      /\ relevant \subseteq 1 .. newest /\ faults \in 0 .. MaxFaults /\ MaxFaults \in Nat
  BY <1>1, IntelligenceAssumption DEF PlaceInv, TypeOK
<1>3. /\ evidence' \in Seq(Due)
      /\ Recorded \subseteq Recorded'
      /\ Log /\ next \in Due => next \in Recorded'
  <2>1. evidence \in Seq(Due)
    BY DEF PlaceInv, TypeOK
  <2>2. CASE next \in Due /\ evidence' = Append(evidence, next)
    BY <2>1, <2>2, LineRecords
  <2>3. CASE evidence' = evidence /\ ~(Log /\ next \in Due)
    BY <2>1, <2>3 DEF Recorded
  <2> QED
    BY <2>2, <2>3 DEF Log, LogFails
<1>4. TypeOK'
  BY <1>1, <1>2, <1>3 DEF PlaceInv, TypeOK, Places, Log, LogFails, Fail
<1>5. CASE Log
  <2>1. at' = "logging" /\ next' = next + 1 /\ Upto' = next /\ Upto = next - 1
    BY <1>1, <1>2, <1>5 DEF Log, Upto
  <2>2. ASSUME NEW j \in Due, saved < j, j <= next
        PROVE  j \in Recorded'
    <3>1. CASE j = next
      BY <1>3, <1>5, <3>1
    <3>2. CASE j # next
      <4>1. j <= next - 1
        BY <1>2, <2>2, <3>2 DEF Due
      <4> QED
        BY <1>1, <1>3, <2>1, <2>2, <4>1 DEF PlaceInv
    <3> QED
      BY <3>1, <3>2
  <2> QED
    BY <1>1, <1>2, <1>4, <2>1, <2>2 DEF PlaceInv
<1>6. CASE LogFails
  BY <1>1, <1>4, <1>6 DEF LogFails, PlaceInv
<1> QED
  BY <1>5, <1>6

\* PlaceInv is inductive.
LEMMA PlaceInvStep == PlaceInv /\ [Next]_vars => PlaceInv'
<1>1. PlaceInv /\ UNCHANGED vars => PlaceInv'
  BY DEF PlaceInv, TypeOK, vars, Upto, Recorded, Due
<1> QED
  BY <1>1, PublishKeepsPlace, PollKeepsPlace, LogKeepsPlace DEF Next, Work

-----------------------------------------------------------------------------
(* How often a record is logged *)

\* Nothing has been logged.
LEMMA CopiesInvInit == Init => CopiesInv
<1> SUFFICES ASSUME Init PROVE CopiesInv
  OBVIOUS
<1>1. \A i \in Nat : Lines(i) = {}
  BY DEF Init, Lines
<1>2. \A i \in Nat : Copies(i) = 0
  BY <1>1, FS_EmptySet DEF Copies
<1> QED
  BY <1>2 DEF Init, CopiesInv

\* A record is only logged where the worker has not yet been past it, or has
\* been and failed since.
LEMMA CopiesInvStep == PlaceInv /\ CopiesInv /\ [Next]_vars => CopiesInv'
<1> SUFFICES ASSUME PlaceInv, CopiesInv, [Next]_vars, NEW i \in Nat
             PROVE  Copies(i)' <= faults' + refusals' + (IF i <= Upto' THEN 1 ELSE 0)
  BY DEF CopiesInv
<1>1. /\ newest \in Nat /\ saved \in 0 .. newest /\ cursor \in 0 .. newest
      /\ top \in 0 .. newest /\ next \in 0 .. newest + 1 /\ faults \in Nat /\ refusals \in Nat
      /\ evidence \in Seq(Due)
  BY DEF PlaceInv, TypeOK
<1>2. Copies(i) \in Nat /\ Copies(i) <= faults + refusals + (IF i <= Upto THEN 1 ELSE 0)
  BY <1>1, LinesFinite DEF CopiesInv
<1>3. Upto \in Nat
  BY <1>1 DEF Upto, PlaceInv
<1>4. ASSUME evidence' = evidence, UNCHANGED <<faults, refusals>>, Upto' \in Nat, Upto <= Upto'
      PROVE  Copies(i)' <= faults' + refusals' + (IF i <= Upto' THEN 1 ELSE 0)
  <2>1. Copies(i)' = Copies(i)
    BY <1>4 DEF Copies, Lines
  <2> QED
    BY <1>1, <1>2, <1>3, <1>4, <2>1
<1>5. ASSUME evidence' = evidence, faults' + refusals' = faults + refusals + 1
      PROVE  Copies(i)' <= faults' + refusals' + (IF i <= Upto' THEN 1 ELSE 0)
  <2>1. Copies(i)' = Copies(i)
    BY <1>5 DEF Copies, Lines
  <2> QED
    BY <1>1, <1>2, <1>5, <2>1
<1>6. CASE (\E class \in Classes : Publish(class)) \/ RequestStop \/ Stopped \/ UNCHANGED vars
  <2>1. UNCHANGED <<evidence, saved, faults, refusals, next, top>> /\ Upto' = Upto
    BY <1>6 DEF Publish, RequestStop, Stopped, vars, Upto
  <2> QED
    BY <1>1, <1>3, <1>4, <2>1
<1>7. CASE Start
  <2>1. /\ evidence' = evidence /\ Upto' = Upto /\ refusals' = refusals
        /\ faults' = faults \/ faults' = faults + 1
    BY <1>7 DEF Start, Works, Fail, Upto
  <2> QED
    BY <1>1, <1>3, <1>4, <1>5, <2>1
<1>8. CASE Fetch
  <2>1. /\ UNCHANGED <<evidence, faults, refusals, saved>> /\ at = "waiting"
        /\ at' = "resetting" \/ (at' = "logging" /\ next' = saved + 1)
    BY <1>8 DEF Fetch, PlaceInv
  <2>2. Upto = saved /\ Upto' = saved
    BY <1>1, <2>1 DEF Upto
  <2> QED
    BY <1>3, <1>4, <2>1, <2>2
<1>9. CASE EndOfBatch
  <2>1. /\ UNCHANGED <<evidence, faults, refusals, top>> /\ at = "logging" /\ at' = "saving"
        /\ next = top + 1
    BY <1>1, <1>9 DEF EndOfBatch, PlaceInv
  <2>2. Upto' = Upto
    BY <1>1, <2>1 DEF Upto
  <2> QED
    BY <1>3, <1>4, <2>1, <2>2
<1>10. CASE Save \/ Reset
  <2>1. /\ UNCHANGED <<evidence, faults, refusals>> /\ at' = "waiting" /\ saved' = top
        /\ at = "saving" \/ (at = "resetting" /\ saved <= top)
    BY <1>10 DEF Save, Reset, PlaceInv
  <2>2. Upto' = top /\ Upto <= top
    BY <1>1, <2>1 DEF Upto
  <2> QED
    BY <1>1, <1>4, <2>1, <2>2
<1>11. CASE SaveFails \/ Crash
  <2>1. evidence' = evidence /\ faults' = faults + 1 /\ refusals' = refusals
    BY <1>11 DEF SaveFails, Crash, Fail
  <2> QED
    BY <1>1, <1>5, <2>1
<1>13. CASE Refuse
  <2>1. evidence' = evidence /\ faults' = faults
    BY <1>13 DEF Refuse
  <2>2. CASE at = "saving"
    <3>1. refusals' = refusals + 1
      BY <1>13, <2>2 DEF Refuse
    <3> QED
      BY <1>1, <1>5, <2>1, <3>1
  <2>3. CASE at = "resetting"
    <3>1. refusals' = refusals /\ Upto' = Upto
      BY <1>13, <2>3 DEF Refuse, Upto
    <3> QED
      BY <1>1, <1>3, <1>4, <2>1, <3>1
  <2> QED
    BY <1>13, <2>2, <2>3 DEF Refuse
<1>12. CASE Log \/ LogFails
  <2>1. at = "logging" /\ Upto = next - 1 /\ refusals' = refusals
    BY <1>12 DEF Log, LogFails, Upto
  <2>2. CASE next \in Due /\ evidence' = Append(evidence, next)
    <3>1. Copies(i)' = IF i = next THEN Copies(i) + 1 ELSE Copies(i)
      BY <1>1, <2>2, LineCounts
    <3>2. CASE Log
      <4>1. faults' = faults /\ Upto' = next
        BY <1>1, <2>1, <3>2 DEF Log, Upto
      <4> QED
        BY <1>1, <1>2, <2>1, <3>1, <4>1
    <3>3. CASE LogFails
      <4>1. faults' = faults + 1
        BY <3>3 DEF LogFails, Fail
      <4> QED
        BY <1>1, <1>2, <2>1, <3>1, <4>1
    <3> QED
      BY <1>12, <3>2, <3>3
  <2>3. CASE evidence' = evidence
    <3>1. CASE Log
      <4>1. faults' = faults /\ Upto' = next
        BY <1>1, <2>1, <3>1 DEF Log, Upto
      <4> QED
        BY <1>1, <1>4, <2>1, <2>3, <4>1
    <3>2. CASE LogFails
      <4>1. faults' = faults + 1
        BY <3>2 DEF LogFails, Fail
      <4> QED
        BY <1>1, <1>5, <2>1, <2>3, <4>1
    <3> QED
      BY <1>12, <3>1, <3>2
  <2> QED
    BY <1>12, <2>2, <2>3 DEF Log, LogFails
<1> QED
  BY <1>6, <1>7, <1>8, <1>9, <1>10, <1>11, <1>12, <1>13 DEF Next, Work

-----------------------------------------------------------------------------
(* The theorems *)

\* Both invariants hold in every state: what the worker holds at each of its
\* places, and how often each record is in the evidence.
THEOREM WatchInvAlways == Spec => [](PlaceInv /\ CopiesInv)
<1>1. Init => PlaceInv /\ CopiesInv
  BY PlaceInvInit, CopiesInvInit
<1>2. (PlaceInv /\ CopiesInv) /\ [Next]_vars => (PlaceInv /\ CopiesInv)'
  BY PlaceInvStep, CopiesInvStep
<1> QED
  BY <1>1, <1>2, PTL DEF Spec

\* The state stays well-formed: the evidence holds relevant records only, and
\* only such as can be written, and no cursor is past the feed.
THEOREM WatchTypeCorrect == Spec => []TypeOK
<1>1. PlaceInv => TypeOK
  BY DEF PlaceInv
<1> QED
  BY <1>1, WatchInvAlways, PTL

\* A normal restart replays nothing: a record is in the evidence at most once
\* more than the watcher has crashed or failed, and has met a response whose
\* newest record has no usable id.
THEOREM AlwaysReplayedOnlyAfterFaults == Spec => []ReplayedOnlyAfterFaults
<1>1. PlaceInv /\ CopiesInv => ReplayedOnlyAfterFaults
  <2> SUFFICES ASSUME PlaceInv, CopiesInv, NEW i \in Due
               PROVE  Copies(i) <= 1 + faults + refusals
    BY DEF ReplayedOnlyAfterFaults, Copies, Lines
  <2>1. i \in Nat /\ faults \in Nat /\ refusals \in Nat /\ evidence \in Seq(Due)
    BY IntelligenceAssumption DEF PlaceInv, TypeOK, Due
  <2>2. Copies(i) \in Nat /\ Copies(i) <= faults + refusals + (IF i <= Upto THEN 1 ELSE 0)
    BY <2>1, LinesFinite DEF CopiesInv
  <2> QED
    BY <2>1, <2>2
<1> QED
  BY <1>1, WatchInvAlways, PTL

\* A relevant record is passed over only without a cursor, or when the
\* response had outgrown the window; no crash or failure does it.
THEOREM AlwaysPassedOverOnlyByOverrun == Spec => PassedOverOnlyByOverrun
<1> DEFINE Overrun == \A i \in (skipped' \ skipped) \cap relevant :
                        cursor = 0 \/ saved + Window <= top
<1>1. PlaceInv /\ [Next]_vars => [Overrun]_skipped
  <2> SUFFICES ASSUME PlaceInv, [Next]_vars PROVE [Overrun]_skipped
    OBVIOUS
  <2>1. CASE Reset
    <3>1. cursor = 0 \/ saved + Window <= top
      BY <2>1 DEF Reset, PlaceInv
    <3> QED
      BY <3>1
  <2>2. CASE ~Reset
    BY <2>2 DEF Next, Work, Publish, Start, RequestStop, Stopped, Fetch, Log, LogFails,
                EndOfBatch, Save, Refuse, SaveFails, Crash, vars
  <2> QED
    BY <2>1, <2>2
<1> HIDE DEF Overrun
<1>2. Spec => [][Overrun]_skipped
  BY <1>1, WatchInvAlways, PTL DEF Spec
<1> QED
  BY <1>2 DEF PassedOverOnlyByOverrun, Overrun

-----------------------------------------------------------------------------
(* The watcher implements Evidence *)

\* A line of the log records a record in the order of publication, or repeats
\* one that is there.
LEMMA LogRecords == PlaceInv /\ (Log \/ LogFails) => [Promise!Next]_(Promise!vars)
<1> SUFFICES ASSUME PlaceInv, Log \/ LogFails PROVE [Promise!Next]_(Promise!vars)
  OBVIOUS
<1>1. /\ UNCHANGED <<newest, relevant, unprintable, saved, skipped>>
      /\ evidence \in Seq(Due) /\ Promise!Due = Due
  BY DEF Log, LogFails, feed, PlaceInv, TypeOK, Due, Promise!Due
<1>2. CASE evidence' = evidence
  BY <1>1, <1>2 DEF Recorded, Promise!vars
<1>3. CASE next \in Due /\ evidence' = Append(evidence, next)
  <2>1. Recorded' = Recorded \cup {next}
    BY <1>1, <1>3, LineRecords
  <2>2. at = "logging" /\ Upto = next - 1 /\ saved < next
    BY DEF Log, LogFails, Upto, PlaceInv, TypeOK
  <2>3. ASSUME NEW j \in Due, saved < j, j < next
        PROVE  j \in Recorded
    <3>1. j \in Nat /\ next \in Nat
      BY DEF PlaceInv, TypeOK, Due
    <3>2. j <= Upto
      BY <2>2, <2>3, <3>1
    <3> QED
      BY <2>2, <2>3, <3>2 DEF PlaceInv
  <2>4. next > saved
    BY <2>2 DEF PlaceInv, TypeOK
  <2>5. Promise!Record(next)
    BY <1>1, <1>3, <2>1, <2>3, <2>4 DEF Promise!Record
  <2> QED
    BY <1>1, <1>3, <2>5 DEF Promise!Next
<1> QED
  BY <1>2, <1>3 DEF Log, LogFails

\* The cursor file is only moved past records that are in the evidence, or
\* given up by a reset.
LEMMA SaveAdvances == PlaceInv /\ (Save \/ Reset) => [Promise!Next]_(Promise!vars)
<1> SUFFICES ASSUME PlaceInv, Save \/ Reset PROVE [Promise!Next]_(Promise!vars)
  OBVIOUS
<1>1. /\ UNCHANGED <<newest, relevant, unprintable, evidence>> /\ saved' = top
      /\ newest \in Nat /\ top \in 0 .. newest /\ saved \in 0 .. newest
      /\ Recorded' = Recorded /\ Promise!Due = Due
  BY DEF Save, Reset, feed, PlaceInv, TypeOK, Recorded, Due, Promise!Due
<1>2. CASE Save
  <2>1. /\ saved < top /\ Upto = top /\ skipped' = skipped
        /\ \A j \in Due : saved < j /\ j <= top => j \in Recorded
    BY <1>2 DEF Save, PlaceInv, Upto
  <2>2. Promise!Advance(top)
    BY <1>1, <2>1 DEF Promise!Advance
  <2>3. top \in 1 .. newest
    BY <1>1, <2>1
  <2> QED
    BY <2>2, <2>3 DEF Promise!Next
<1>3. CASE Reset /\ saved < top
  <2>1. Promise!Jump(top)
    BY <1>1, <1>3 DEF Reset, Promise!Jump
  <2>2. top \in 1 .. newest
    BY <1>1, <1>3
  <2> QED
    BY <2>1, <2>2 DEF Promise!Next
<1>4. CASE Reset /\ ~(saved < top)
  <2>1. saved = top
    BY <1>1, <1>4 DEF Reset, PlaceInv
  <2>2. saved + 1 .. top = {}
    BY <1>1, <2>1
  <2>3. skipped' = skipped
    BY <1>4, <2>2 DEF Reset
  <2> QED
    BY <1>1, <2>1, <2>3 DEF Promise!vars
<1> QED
  BY <1>2, <1>3, <1>4

\* Every step of the watcher is a step of the promise or invisible to it.
LEMMA StepImplementsEvidence == PlaceInv /\ [Next]_vars => [Promise!Next]_(Promise!vars)
<1> SUFFICES ASSUME PlaceInv, [Next]_vars PROVE [Promise!Next]_(Promise!vars)
  OBVIOUS
<1>1. ASSUME NEW class \in Classes, Publish(class)
      PROVE  [Promise!Next]_(Promise!vars)
  <2>1. /\ newest' = newest + 1
        /\ relevant' \in {relevant, relevant \cup {newest + 1}}
        /\ unprintable' \in {unprintable, unprintable \cup {newest + 1}}
        /\ UNCHANGED <<saved, skipped, evidence>> /\ Recorded' = Recorded
    BY <1>1 DEF Publish, Recorded
  <2> QED
    BY <2>1 DEF Promise!Next, Promise!Publish
<1>2. CASE Start \/ RequestStop \/ Stopped \/ Fetch \/ EndOfBatch \/ Refuse \/ SaveFails
           \/ Crash \/ UNCHANGED vars
  <2>1. /\ UNCHANGED <<newest, relevant, unprintable, saved, skipped, evidence>>
        /\ Recorded' = Recorded
    BY <1>2 DEF Start, RequestStop, Stopped, Fetch, EndOfBatch, Refuse, SaveFails, Crash, vars, feed,
                Recorded
  <2> QED
    BY <2>1 DEF Promise!vars
<1> QED
  BY <1>1, <1>2, LogRecords, SaveAdvances DEF Next, Work

\* Whatever crashes or fails: records enter the evidence in the order of
\* publication, the cursor file never moves back, and it passes a relevant
\* record only when that is in the evidence, or cannot be written, or by a
\* reset.
THEOREM WatchImplementsEvidence == Spec => ImplementsEvidence
<1>1. Init => Promise!Init
  BY DEF Init, Promise!Init, Recorded
<1>2. PlaceInv /\ [Next]_vars => [Promise!Next]_(Promise!vars)
  BY StepImplementsEvidence
<1> QED
  BY <1>1, <1>2, WatchInvAlways, PTL DEF Spec, ImplementsEvidence, Promise!Spec
=============================================================================
