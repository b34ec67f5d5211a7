------------------------- MODULE Diagnostics_proofs -------------------------
(***************************************************************************)
(* Proofs about Diagnostics, for any workers, origins and persons and any  *)
(* sizes of the table.                                                     *)
(*                                                                         *)
(* TableInv is about the slots alone and always holds: they fill from the  *)
(* first on, no two are of one person or one number, and whoever has a     *)
(* younger trace than the request a worker routes has asked since that     *)
(* request began.  A slot that is taken from a request which is still      *)
(* routed has therefore been counted by Overtakes: as many persons have    *)
(* asked since as there are slots.                                         *)
(***************************************************************************)
EXTENDS Diagnostics, FiniteSetTheorems, WellFoundedInduction, TLAPS

Tables == [Slots -> Traces \cup {None}]

TypeInv ==
  /\ traces \in Tables
  /\ sequence_counter \in Nat
  /\ active_trace \in [Workers -> 0 .. RICTUS_DIAG_TRACE_MAX]
  /\ own \in [Workers -> Traces \cup {None}]
  /\ since \in [Workers -> SUBSET Persons]
  /\ overtaken \in BOOLEAN

\* Slots fill from the first on.
FilledInOrder == \A s, u \in Slots : s \in InUse /\ u < s => u \in InUse

NumberedApart ==
  /\ \A s \in InUse : traces[s].sequence <= sequence_counter
  /\ \A s, u \in InUse : s # u => traces[s].sequence # traces[u].sequence
  /\ \A w \in Workers : Routes(w) => own[w].sequence <= sequence_counter
  /\ \A v, w \in Workers :
       Routes(v) /\ Routes(w) /\ v # w => own[v].sequence # own[w].sequence

OnePersonOneSlot ==
  \A s, u \in InUse : s # u => Person[traces[s].origin] # Person[traces[u].origin]

YoungerAskedSince ==
  \A w \in Workers : Routes(w) =>
    /\ active_trace[w] \in InUse
    /\ IsFiniteSet(since[w])
    /\ \A s \in InUse :
         traces[s].sequence > own[w].sequence => Person[traces[s].origin] \in since[w]

TableInv ==
  TypeInv /\ FilledInOrder /\ NumberedApart /\ OnePersonOneSlot /\ YoungerAskedSince

\* What a trace keeps of the services a request invokes.
Kept(q) == [i \in {i \in 1 .. Len(q) : i <= RICTUS_DIAG_SERVICE_MAX} |-> q[i]]
AsNoted(trace) == [trace EXCEPT !.services = Kept(trace.services)]

\* The two halves of NotesAreItsOwn, of a slot and of a worker.
NotesOf(trace) ==
  /\ trace.command \in {NotReached, trace.sequence}
  /\ \A i \in 1 .. Len(trace.services) :
       trace.services[i] = [request |-> trace.sequence, call |-> i]
NotesInPlace(w) == traces[active_trace[w]] = AsNoted(own[w])
AllNoted ==
  /\ \A s \in InUse : NotesOf(traces[s])
  /\ \A w \in Workers : Routes(w) => NotesInPlace(w)

-----------------------------------------------------------------------------
(* Traces *)

\* Traces are equal when their five parts are.
LEMMA SameTrace ==
  ASSUME NEW t \in Traces, NEW u \in Traces,
         t.origin = u.origin, t.sequence = u.sequence, t.named = u.named,
         t.services = u.services, t.command = u.command
  PROVE  t = u
BY DEF Traces

\* Changing the notes of a trace leaves the rest.
LEMMA NotedTrace ==
  ASSUME NEW t \in Traces
  PROVE  /\ [t EXCEPT !.named = TRUE] \in Traces
         /\ [t EXCEPT !.named = TRUE].named = TRUE
         /\ [t EXCEPT !.named = TRUE].origin = t.origin
         /\ [t EXCEPT !.named = TRUE].sequence = t.sequence
         /\ [t EXCEPT !.named = TRUE].services = t.services
         /\ [t EXCEPT !.named = TRUE].command = t.command
         /\ \A q \in Seq(Notes) :
              LET u == [t EXCEPT !.services = q]
              IN  /\ u \in Traces /\ u.services = q
                  /\ u.origin = t.origin /\ u.sequence = t.sequence
                  /\ u.named = t.named /\ u.command = t.command
         /\ \A n \in Nat :
              LET u == [t EXCEPT !.named = TRUE, !.command = n]
              IN  /\ u \in Traces /\ u.command = n
                  /\ u.origin = t.origin /\ u.sequence = t.sequence
                  /\ u.services = t.services
BY DEF Traces

\* What is kept of a list of notes, and of one more.
LEMMA KeptNotes ==
  ASSUME NEW q \in Seq(Notes)
  PROVE  /\ Kept(q) \in Seq(Notes)
         /\ Len(Kept(q)) = IF Len(q) <= RICTUS_DIAG_SERVICE_MAX THEN Len(q)
                                                          ELSE RICTUS_DIAG_SERVICE_MAX
         /\ \A i \in 1 .. Len(Kept(q)) : Kept(q)[i] = q[i]
<1>1. RICTUS_DIAG_SERVICE_MAX \in Nat /\ Len(q) \in Nat
  BY DiagnosticsAssumption
<1>2. PICK n \in Nat : n = IF Len(q) <= RICTUS_DIAG_SERVICE_MAX THEN Len(q)
                                                          ELSE RICTUS_DIAG_SERVICE_MAX
  BY <1>1
<1>3. {i \in 1 .. Len(q) : i <= RICTUS_DIAG_SERVICE_MAX} = 1 .. n
  BY <1>1, <1>2
<1>4. Kept(q) = [i \in 1 .. n |-> q[i]]
  BY <1>3 DEF Kept
<1>5. \A i \in 1 .. n : q[i] \in Notes
  BY <1>1, <1>2
<1> QED
  BY <1>2, <1>4, <1>5

\* rictus_diag_service's note, in the trace and in what has happened.
LEMMA KeptOneMore ==
  ASSUME NEW q \in Seq(Notes), NEW n \in Notes
  PROVE  /\ Append(q, n) \in Seq(Notes)
         /\ Kept(Append(q, n)) = IF Len(Kept(q)) < RICTUS_DIAG_SERVICE_MAX
                                 THEN Append(Kept(q), n) ELSE Kept(q)
         /\ Len(Kept(q)) < RICTUS_DIAG_SERVICE_MAX => Len(Kept(q)) = Len(q)
<1>1. RICTUS_DIAG_SERVICE_MAX \in Nat /\ Len(q) \in Nat
  BY DiagnosticsAssumption
<1>2. /\ Kept(q) \in Seq(Notes)
      /\ Len(Kept(q)) = IF Len(q) <= RICTUS_DIAG_SERVICE_MAX THEN Len(q)
                                                       ELSE RICTUS_DIAG_SERVICE_MAX
      /\ \A i \in 1 .. Len(Kept(q)) : Kept(q)[i] = q[i]
  BY KeptNotes
<1>3. PICK r : r = Append(q, n)
  OBVIOUS
<1>4. /\ r \in Seq(Notes) /\ Len(r) = Len(q) + 1 /\ r[Len(q) + 1] = n
      /\ \A i \in 1 .. Len(q) : r[i] = q[i]
  BY <1>3
<1>5. /\ Kept(r) \in Seq(Notes)
      /\ Len(Kept(r)) = IF Len(r) <= RICTUS_DIAG_SERVICE_MAX THEN Len(r)
                                                       ELSE RICTUS_DIAG_SERVICE_MAX
      /\ \A i \in 1 .. Len(Kept(r)) : Kept(r)[i] = r[i]
  BY <1>4, KeptNotes
<1>6. PICK k : k = Kept(q)
  OBVIOUS
<1>7. PICK l : l = Kept(r)
  OBVIOUS
<1>8. CASE Len(q) < RICTUS_DIAG_SERVICE_MAX
  <2>1. PICK a : a = Append(k, n)
    OBVIOUS
  <2>2. /\ a \in Seq(Notes) /\ Len(a) = Len(q) + 1 /\ a[Len(q) + 1] = n
        /\ \A i \in 1 .. Len(q) : a[i] = q[i]
    BY <1>1, <1>2, <1>6, <1>8, <2>1
  <2>3. /\ l \in Seq(Notes) /\ Len(l) = Len(q) + 1 /\ l[Len(q) + 1] = n
        /\ \A i \in 1 .. Len(q) : l[i] = q[i]
    BY <1>1, <1>4, <1>5, <1>7, <1>8
  <2>4. l = a
    BY <2>2, <2>3
  <2> QED
    BY <1>1, <1>2, <1>3, <1>4, <1>6, <1>7, <1>8, <2>1, <2>4
<1>9. CASE ~(Len(q) < RICTUS_DIAG_SERVICE_MAX)
  <2>1. /\ k \in Seq(Notes) /\ Len(k) = RICTUS_DIAG_SERVICE_MAX
        /\ \A i \in 1 .. RICTUS_DIAG_SERVICE_MAX : k[i] = q[i]
    BY <1>1, <1>2, <1>6, <1>9
  <2>2. /\ l \in Seq(Notes) /\ Len(l) = RICTUS_DIAG_SERVICE_MAX
        /\ \A i \in 1 .. RICTUS_DIAG_SERVICE_MAX : l[i] = q[i]
    BY <1>1, <1>4, <1>5, <1>7, <1>9
  <2>3. l = k
    BY <2>1, <2>2
  <2> QED
    BY <1>1, <1>2, <1>3, <1>4, <1>6, <1>7, <1>9, <2>1, <2>3
<1> QED
  BY <1>8, <1>9

\* The property, in these terms.
LEMMA NotesTogether == NotesAreItsOwn <=> (~overtaken => AllNoted)
BY DEF NotesAreItsOwn, AllNoted, NotesOf, NotesInPlace, AsNoted, Kept

\* A request that begins has no notes.
LEMMA FreshTrace ==
  ASSUME NEW o \in Origins, NEW n \in Nat
  PROVE  /\ Fresh(o, n) \in Traces /\ AsNoted(Fresh(o, n)) = Fresh(o, n)
         /\ NotesOf(Fresh(o, n))
         /\ Fresh(o, n).origin = o /\ Fresh(o, n).sequence = n
<1>1. <<>> \in Seq(Notes) /\ Len(<<>>) = 0
  OBVIOUS
<1>2. /\ Fresh(o, n) \in Traces /\ Fresh(o, n).services = <<>>
      /\ Fresh(o, n).origin = o /\ Fresh(o, n).sequence = n
      /\ Fresh(o, n).command = NotReached
  BY <1>1 DEF Fresh, Traces
<1>3. Kept(<<>>) = <<>>
  BY <1>1 DEF Kept
<1>4. AsNoted(Fresh(o, n)) = Fresh(o, n)
  BY <1>2, <1>3 DEF AsNoted, Traces
<1> QED
  BY <1>1, <1>2, <1>4 DEF NotesOf

-----------------------------------------------------------------------------
(* The slot a request takes *)

\* A set of numbers that is not empty has a least one.
LEMMA LeastNumber ==
  ASSUME NEW T, T \subseteq Nat, T # {}
  PROVE  \E x \in T : \A y \in T : x <= y
<1> DEFINE less == OpToRel(<, Nat)
<1>1. \A x, y \in Nat : <<x, y>> \in less <=> x < y
  BY DEF OpToRel
<1>2. IsWellFoundedOn(less, Nat)
  BY NatLessThanWellFounded
<1> HIDE DEF less
<1>3. PICK x \in T : \A y \in T : ~(<<y, x>> \in less)
  BY <1>2, WFMin
<1>4. ASSUME NEW y \in T PROVE x <= y
  <2>1. ~(y < x)
    BY <1>1, <1>3, Zenon
  <2> QED
    BY <2>1
<1> QED
  BY <1>4

\* rictus_diag_begin's choice: the first slot that is free or the origin's,
\* else the one whose request began first.
LEMMA SlotTaken ==
  ASSUME TypeInv, NEW o \in Origins
  PROVE  /\ Slot(o) \in Slots
         /\ \/ Usable(Slot(o), o) /\ \A u \in Slots : u < Slot(o) => ~Usable(u, o)
            \/ /\ \A u \in Slots : ~Usable(u, o)
               /\ \A u \in Slots : traces[Slot(o)].sequence <= traces[u].sequence
<1>1. Slots \subseteq Nat /\ 1 \in Slots
  BY DiagnosticsAssumption DEF Slots
<1>2. CASE \E s \in Slots : Usable(s, o)
  <2> DEFINE T == {s \in Slots : Usable(s, o)}
  <2>1. T \subseteq Nat /\ T # {}
    BY <1>1, <1>2
  <2>2. PICK s \in T : \A u \in T : s <= u
    BY <2>1, LeastNumber
  <2>3. ASSUME NEW u \in 1 .. s - 1 PROVE ~Usable(u, o)
    <3>1. u \in Slots /\ ~(s <= u)
      <4>1. s \in Slots /\ RICTUS_DIAG_TRACE_MAX \in Nat
        BY DiagnosticsAssumption
      <4> QED
        BY <4>1 DEF Slots
    <3> QED
      BY <2>2, <3>1
  <2>4. /\ Slot(o) \in Slots /\ Usable(Slot(o), o)
        /\ \A u \in 1 .. Slot(o) - 1 : ~Usable(u, o)
    <3>1. \E x \in Slots : Usable(x, o) /\ \A u \in 1 .. x - 1 : ~Usable(u, o)
      BY <2>2, <2>3
    <3>2. Slot(o) = CHOOSE x \in Slots : Usable(x, o) /\ \A u \in 1 .. x - 1 : ~Usable(u, o)
      BY <1>2 DEF Slot
    <3> QED
      BY <3>1, <3>2, Zenon
  <2>5. \A u \in Slots : u < Slot(o) => u \in 1 .. Slot(o) - 1
    BY <2>4 DEF Slots
  <2> QED
    BY <2>4, <2>5
<1>3. CASE ~\E s \in Slots : Usable(s, o)
  <2> DEFINE T == {traces[s].sequence : s \in Slots}
  <2>1. \A s \in Slots : traces[s].sequence \in Nat
    BY <1>3 DEF Usable, TypeInv, Tables, Traces
  <2>2. T \subseteq Nat /\ T # {}
    BY <1>1, <2>1
  <2>3. PICK x \in T : \A y \in T : x <= y
    BY <2>2, LeastNumber
  <2>4. \E s \in Slots : \A u \in Slots : traces[s].sequence <= traces[u].sequence
    BY <2>3
  <2>5. Slot(o) = CHOOSE s \in Slots : \A u \in Slots : traces[s].sequence <= traces[u].sequence
    BY <1>3 DEF Slot
  <2>6. /\ Slot(o) \in Slots
        /\ \A u \in Slots : traces[Slot(o)].sequence <= traces[u].sequence
    BY <2>4, <2>5, Zenon
  <2> QED
    BY <1>3, <2>6
<1> QED
  BY <1>2, <1>3

\* A person's own slot, or a free one, is the only one it could have: no
\* other slot holds a trace of that person.
LEMMA OthersHaveOtherSlots ==
  ASSUME TableInv, NEW o \in Origins, NEW u \in InUse, u # Slot(o)
  PROVE  Person[traces[u].origin] # Person[o]
<1>1. u \in Slots /\ traces[u] # None /\ traces[u] \in Traces
  BY DEF InUse, TableInv, TypeInv, Tables
<1>2. traces[u].origin \in Origins
  BY <1>1 DEF Traces
<1>3. SUFFICES ASSUME Person[traces[u].origin] = Person[o] PROVE FALSE
  OBVIOUS
<1>4. Match(u, o) /\ Usable(u, o)
  BY <1>1, <1>2, <1>3, DiagnosticsAssumption DEF Match, Usable
<1>5. /\ Slot(o) \in Slots /\ Usable(Slot(o), o)
      /\ \A x \in Slots : x < Slot(o) => ~Usable(x, o)
  BY <1>1, <1>4, SlotTaken DEF TableInv
<1>6. Slot(o) < u
  BY <1>1, <1>4, <1>5 DEF Slots
<1>7. Slot(o) \in InUse
  <2>1. \A s, x \in Slots : s \in InUse /\ x < s => x \in InUse
    BY DEF TableInv, FilledInOrder
  <2>2. u \in Slots /\ u \in InUse
    BY <1>1
  <2> QED
    BY <1>5, <1>6, <2>1, <2>2, Zenon
<1>8. Match(Slot(o), o)
  BY <1>5, <1>7 DEF Usable, InUse
<1>9. Person[traces[Slot(o)].origin] = Person[o]
  <2>1. traces[Slot(o)].origin \in Origins
    BY <1>7 DEF InUse, TableInv, TypeInv, Tables, Traces
  <2> QED
    BY <1>8, <2>1, DiagnosticsAssumption DEF Match
<1> QED
  BY <1>3, <1>7, <1>9 DEF TableInv, OnePersonOneSlot

\* There are as many slots as the table is large.
LEMMA SlotsCounted == IsFiniteSet(Slots) /\ Cardinality(Slots) = RICTUS_DIAG_TRACE_MAX
<1>1. 1 \in Int /\ RICTUS_DIAG_TRACE_MAX \in Int /\ 1 <= RICTUS_DIAG_TRACE_MAX
  BY DiagnosticsAssumption
<1>2. /\ IsFiniteSet(1 .. RICTUS_DIAG_TRACE_MAX)
      /\ Cardinality(1 .. RICTUS_DIAG_TRACE_MAX) =
           IF 1 > RICTUS_DIAG_TRACE_MAX THEN 0 ELSE RICTUS_DIAG_TRACE_MAX - 1 + 1
  BY <1>1, FS_Interval
<1> QED
  BY <1>1, <1>2 DEF Slots

\* A request that loses its slot to another one has been overtaken.
LEMMA LosingTheSlot ==
  ASSUME TableInv, NEW o \in Origins, NEW w \in Workers, Routes(w),
         active_trace[w] = Slot(o),
         traces[Slot(o)].origin = own[w].origin,
         traces[Slot(o)].sequence = own[w].sequence
  PROVE  Overtakes(o)
<1> DEFINE a == Slot(o)
           asking == since[w] \cup {Person[o]}
<1>1. /\ a \in InUse /\ a \in Slots /\ IsFiniteSet(since[w])
      /\ traces[a] \in Traces /\ own[w] \in Traces
      /\ \A s \in InUse : traces[s].sequence > own[w].sequence =>
           Person[traces[s].origin] \in since[w]
  BY DEF TableInv, TypeInv, Tables, YoungerAskedSince, InUse, Routes
<1>2. CASE Usable(a, o)
  <2>1. Match(a, o) /\ own[w].origin \in Origins
    BY <1>1, <1>2 DEF Usable, InUse, Traces
  <2>2. Person[o] = Person[own[w].origin]
    BY <2>1, DiagnosticsAssumption DEF Match
  <2> QED
    BY <2>2 DEF Overtakes
<1>3. CASE ~Usable(a, o)
  <2>1. /\ \A u \in Slots : ~Usable(u, o)
        /\ \A u \in Slots : traces[a].sequence <= traces[u].sequence
    BY <1>3, SlotTaken DEF TableInv
  <2>2. \A u \in Slots : u \in InUse /\ traces[u] \in Traces
    BY <2>1 DEF Usable, InUse, TableInv, TypeInv, Tables
  <2>3. \A u \in Slots : u # a => Person[traces[u].origin] \in since[w]
    <3> SUFFICES ASSUME NEW u \in Slots, u # a PROVE Person[traces[u].origin] \in since[w]
      OBVIOUS
    <3>1. traces[u].sequence \in Nat /\ traces[a].sequence \in Nat
      BY <1>1, <2>2 DEF Traces
    <3>2. traces[u].sequence # traces[a].sequence
      BY <1>1, <2>2 DEF TableInv, NumberedApart
    <3>3. traces[u].sequence > own[w].sequence
      BY <2>1, <3>1, <3>2
    <3> QED
      BY <1>1, <2>2, <3>3
  <2> DEFINE f == [u \in Slots |-> IF u = a THEN Person[o] ELSE Person[traces[u].origin]]
  <2>4. f \in [Slots -> asking]
    BY <2>3
  <2>5. \A u, v \in Slots : f[u] = f[v] => u = v
    <3> SUFFICES ASSUME NEW u \in Slots, NEW v \in Slots, u # v PROVE f[u] # f[v]
      OBVIOUS
    <3>1. u # a => Person[traces[u].origin] # Person[o]
      BY <2>2, OthersHaveOtherSlots
    <3>2. v # a => Person[traces[v].origin] # Person[o]
      BY <2>2, OthersHaveOtherSlots
    <3>3. Person[traces[u].origin] # Person[traces[v].origin]
      BY <2>2 DEF TableInv, OnePersonOneSlot
    <3> QED
      BY <3>1, <3>2, <3>3
  <2> HIDE DEF f
  <2>6. f \in Injection(Slots, asking)
    BY <2>4, <2>5 DEF Injection, IsInjective
  <2>7. IsFiniteSet(asking)
    BY <1>1, FS_AddElement
  <2>8. Cardinality(Slots) <= Cardinality(asking)
    BY <2>6, <2>7, FS_Injection
  <2>9. Cardinality(Slots) = RICTUS_DIAG_TRACE_MAX
    BY SlotsCounted
  <2>10. Cardinality(asking) \in Nat
    BY <2>7, FS_CardinalityType
  <2>11. Cardinality(asking) >= RICTUS_DIAG_TRACE_MAX
    BY <2>8, <2>9, <2>10, DiagnosticsAssumption
  <2> QED
    BY <2>11 DEF Overtakes
<1> QED
  BY <1>2, <1>3

-----------------------------------------------------------------------------
(* A request begins *)

\* What rictus_diag_begin leaves: the other slots and workers as they were,
\* and a trace with the highest number.
LEMMA BeginResults ==
  ASSUME TableInv, NEW w \in Workers, NEW o \in Origins, Begin(w, o)
  PROVE  /\ ~Routes(w) /\ Slot(o) \in Slots
         /\ sequence_counter' = sequence_counter + 1 /\ sequence_counter \in Nat
         /\ traces'[Slot(o)] = Fresh(o, sequence_counter + 1)
         /\ own'[w] = Fresh(o, sequence_counter + 1)
         /\ active_trace'[w] = Slot(o)
         /\ Fresh(o, sequence_counter + 1) \in Traces
         /\ \A s \in Slots : s # Slot(o) => traces'[s] = traces[s]
         /\ \A v \in Workers : v # w =>
              own'[v] = own[v] /\ active_trace'[v] = active_trace[v]
         /\ \A v \in Workers :
              since'[v] = IF Routes(v) THEN since[v] \cup {Person[o]} ELSE {}
<1>1. /\ ~Routes(w) /\ sequence_counter' = sequence_counter + 1
      /\ traces' = [traces EXCEPT ![Slot(o)] = Fresh(o, sequence_counter + 1)]
      /\ active_trace' = [active_trace EXCEPT ![w] = Slot(o)]
      /\ own' = [own EXCEPT ![w] = Fresh(o, sequence_counter + 1)]
      /\ since' = [u \in Workers |-> IF Routes(u) THEN since[u] \cup {Person[o]} ELSE {}]
  BY DEF Begin
<1>2. /\ sequence_counter \in Nat /\ sequence_counter + 1 \in Nat
      /\ traces \in Tables /\ own \in [Workers -> Traces \cup {None}]
      /\ active_trace \in [Workers -> 0 .. RICTUS_DIAG_TRACE_MAX]
      /\ Slot(o) \in Slots
  BY SlotTaken DEF TableInv, TypeInv
<1>3. Fresh(o, sequence_counter + 1) \in Traces
  BY <1>2, FreshTrace
<1> QED
  BY <1>1, <1>2, <1>3 DEF Tables

\* Beginning a request keeps the slots filled in order and of different
\* persons, and counts who has asked.
LEMMA BeginKeepsTable ==
  ASSUME TableInv, NEW w \in Workers, NEW o \in Origins, Begin(w, o)
  PROVE  TableInv'
<1> DEFINE a == Slot(o)
           n == sequence_counter + 1
<1>1. /\ ~Routes(w) /\ a \in Slots /\ sequence_counter \in Nat
      /\ sequence_counter' = n /\ n \in Nat
      /\ traces'[a] = Fresh(o, n) /\ own'[w] = Fresh(o, n) /\ active_trace'[w] = a
      /\ Fresh(o, n) \in Traces /\ Fresh(o, n) # None
      /\ Fresh(o, n).origin = o /\ Fresh(o, n).sequence = n
  BY BeginResults, FreshTrace, NoTraceAssumption DEF TableInv, TypeInv
<1>2. /\ \A s \in Slots : s # a => traces'[s] = traces[s]
      /\ \A v \in Workers : v # w => own'[v] = own[v] /\ active_trace'[v] = active_trace[v]
      /\ \A v \in Workers : since'[v] = IF Routes(v) THEN since[v] \cup {Person[o]} ELSE {}
  BY BeginResults
<1>3. PICK A : A = a
  OBVIOUS
<1>4. PICK N : N = n
  OBVIOUS
<1>5. \A s : s \in InUse' <=> s \in Slots /\ (s = A \/ s \in InUse)
  BY <1>1, <1>2, <1>3 DEF InUse
<1>6. /\ \A s \in InUse : s \in Slots /\ traces[s] \in Traces
      /\ \A s \in InUse : traces[s].sequence \in Nat /\ traces[s].sequence < N
      /\ \A v \in Workers : Routes(v) =>
           own[v] \in Traces /\ own[v].sequence \in Nat /\ own[v].sequence < N
  <2>1. \A s \in InUse : s \in Slots /\ traces[s] \in Traces /\ traces[s].sequence \in Nat
    BY DEF InUse, TableInv, TypeInv, Tables, Traces
  <2>2. \A v \in Workers : Routes(v) => own[v] \in Traces /\ own[v].sequence \in Nat
    BY DEF Routes, TableInv, TypeInv, Traces
  <2> QED
    BY <1>1, <1>4, <2>1, <2>2 DEF TableInv, NumberedApart
<1> HIDE DEF a, n
<1>7. TypeInv'
  <2>1. traces' \in Tables /\ own' \in [Workers -> Traces \cup {None}]
    BY <1>1 DEF Begin, TableInv, TypeInv, Tables, n
  <2>2. active_trace' \in [Workers -> 0 .. RICTUS_DIAG_TRACE_MAX]
    <3>1. a \in 0 .. RICTUS_DIAG_TRACE_MAX
      BY <1>1, DiagnosticsAssumption DEF Slots
    <3> QED
      BY <3>1 DEF Begin, TableInv, TypeInv, a
  <2>3. since' \in [Workers -> SUBSET Persons]
    <3>1. since' = [u \in Workers |-> IF Routes(u) THEN since[u] \cup {Person[o]} ELSE {}]
      BY DEF Begin
    <3>2. Person[o] \in Persons /\ \A u \in Workers : since[u] \subseteq Persons
      BY DEF TableInv, TypeInv, Persons
    <3> QED
      BY <3>1, <3>2
  <2>4. overtaken' \in BOOLEAN
    <3>1. overtaken' = (overtaken \/ Overtakes(o))
      BY DEF Begin
    <3> QED
      BY <3>1
  <2> QED
    BY <1>1, <2>1, <2>2, <2>3, <2>4 DEF TypeInv
<1>8. FilledInOrder'
  <2> SUFFICES ASSUME NEW s \in Slots, NEW u \in Slots, s \in InUse', u < s
               PROVE  u \in InUse'
    BY DEF FilledInOrder
  <2>1. CASE s \in InUse
    BY <1>5, <2>1 DEF TableInv, FilledInOrder
  <2>2. CASE s = A
    <3>1. \/ ~Usable(u, o)
          \/ \A x \in Slots : ~Usable(x, o)
      BY <1>3, <2>2, SlotTaken DEF TableInv, a
    <3>2. u \in InUse
      BY <3>1 DEF Usable, InUse
    <3> QED
      BY <1>5, <3>2
  <2> QED
    BY <1>5, <2>1, <2>2
<1>9. OnePersonOneSlot'
  <2> SUFFICES ASSUME NEW s \in InUse', NEW u \in InUse', s # u
               PROVE  Person[traces'[s].origin] # Person[traces'[u].origin]
    BY DEF OnePersonOneSlot
  <2>1. \A x \in InUse : x # A => Person[traces'[x].origin] # Person[o]
    BY <1>2, <1>3, <1>6, OthersHaveOtherSlots DEF a
  <2>2. CASE s = A
    BY <1>1, <1>3, <1>5, <2>1, <2>2
  <2>3. CASE u = A
    BY <1>1, <1>3, <1>5, <2>1, <2>3
  <2>4. CASE s # A /\ u # A
    BY <1>2, <1>3, <1>5, <2>4 DEF TableInv, OnePersonOneSlot
  <2> QED
    BY <2>2, <2>3, <2>4
<1>10. NumberedApart'
  <2>1. \A s \in InUse' : traces'[s].sequence = IF s = A THEN N ELSE traces[s].sequence
    BY <1>1, <1>2, <1>3, <1>4, <1>5
  <2>2. \A v \in Workers : Routes(v)' =>
          (v = w \/ Routes(v)) /\ own'[v].sequence = IF v = w THEN N ELSE own[v].sequence
    BY <1>1, <1>2, <1>4 DEF Routes
  <2>3. N \in Nat /\ sequence_counter' = N
    BY <1>1, <1>4
  <2>4. \A s \in InUse' : traces'[s].sequence <= sequence_counter'
    BY <1>5, <1>6, <2>1, <2>3
  <2>5. \A s, u \in InUse' : s # u => traces'[s].sequence # traces'[u].sequence
    <3> SUFFICES ASSUME NEW s \in InUse', NEW u \in InUse', s # u
                 PROVE  traces'[s].sequence # traces'[u].sequence
      OBVIOUS
    <3>1. (s = A \/ s \in InUse) /\ (u = A \/ u \in InUse)
      BY <1>5
    <3>2. CASE s = A
      BY <1>6, <2>1, <2>3, <3>1, <3>2
    <3>3. CASE u = A
      BY <1>6, <2>1, <2>3, <3>1, <3>3
    <3>4. CASE s # A /\ u # A
      BY <2>1, <3>1, <3>4 DEF TableInv, NumberedApart
    <3> QED
      BY <3>2, <3>3, <3>4
  <2>6. \A v \in Workers : Routes(v)' => own'[v].sequence <= sequence_counter'
    BY <1>6, <2>2, <2>3
  <2>7. \A v, x \in Workers : Routes(v)' /\ Routes(x)' /\ v # x =>
                                own'[v].sequence # own'[x].sequence
    <3> SUFFICES ASSUME NEW v \in Workers, NEW x \in Workers, Routes(v)', Routes(x)', v # x
                 PROVE  own'[v].sequence # own'[x].sequence
      OBVIOUS
    <3>1. CASE v = w
      BY <1>6, <2>2, <2>3, <3>1
    <3>2. CASE x = w
      BY <1>6, <2>2, <2>3, <3>2
    <3>3. CASE v # w /\ x # w
      BY <2>2, <3>3 DEF TableInv, NumberedApart
    <3> QED
      BY <3>1, <3>2, <3>3
  <2> QED
    BY <2>4, <2>5, <2>6, <2>7 DEF NumberedApart
<1>11. YoungerAskedSince'
  <2> SUFFICES ASSUME NEW v \in Workers, Routes(v)'
               PROVE  /\ active_trace'[v] \in InUse'
                      /\ IsFiniteSet(since'[v])
                      /\ \A s \in InUse' : traces'[s].sequence > own'[v].sequence =>
                           Person[traces'[s].origin] \in since'[v]
    BY DEF YoungerAskedSince
  <2>1. CASE v = w
    <3>1. since'[v] = {} /\ active_trace'[v] = A /\ own'[v].sequence = N
      BY <1>1, <1>2, <1>3, <1>4, <2>1
    <3>2. \A s \in InUse' : ~(traces'[s].sequence > N)
      <4> TAKE s \in InUse'
      <4>1. CASE s = A
        BY <1>1, <1>3, <1>4, <4>1
      <4>2. CASE s # A
        <5>1. s \in InUse /\ traces'[s] = traces[s]
          BY <1>2, <1>3, <1>5, <4>2
        <5> QED
          BY <1>1, <1>4, <1>6, <5>1
      <4> QED
        BY <4>1, <4>2
    <3> QED
      BY <1>1, <1>3, <1>5, <3>1, <3>2, FS_EmptySet
  <2>2. CASE v # w
    <3>1. /\ Routes(v) /\ own'[v] = own[v] /\ active_trace'[v] = active_trace[v]
          /\ since'[v] = since[v] \cup {Person[o]}
      BY <1>2, <2>2 DEF Routes
    <3>2. /\ active_trace[v] \in InUse /\ IsFiniteSet(since[v])
          /\ \A s \in InUse :
               traces[s].sequence > own[v].sequence => Person[traces[s].origin] \in since[v]
      BY <3>1 DEF TableInv, YoungerAskedSince
    <3>3. IsFiniteSet(since'[v])
      BY <3>1, <3>2, FS_AddElement
    <3>4. ASSUME NEW s \in InUse', traces'[s].sequence > own'[v].sequence
          PROVE  Person[traces'[s].origin] \in since'[v]
      <4>1. CASE s = A
        BY <1>1, <1>3, <3>1, <4>1
      <4>2. CASE s # A
        BY <1>2, <1>3, <1>5, <3>1, <3>2, <3>4, <4>2
      <4> QED
        BY <4>1, <4>2
    <3>5. active_trace'[v] \in InUse'
      BY <1>5, <1>6, <3>1, <3>2
    <3> QED
      BY <3>3, <3>4, <3>5
  <2> QED
    BY <2>1, <2>2
<1> QED
  BY <1>7, <1>8, <1>9, <1>10, <1>11 DEF TableInv

\* Unless it overtakes one, a request that begins takes no other request's
\* slot, and its own starts without notes.
LEMMA BeginningTakesNoNotes ==
  ASSUME NEW w \in Workers, NEW o \in Origins, TableInv, AllNoted, Begin(w, o),
         ~Overtakes(o)
  PROVE  AllNoted'
<1> DEFINE a == Slot(o)
           n == sequence_counter + 1
<1>1. /\ \A s \in InUse : NotesOf(traces[s])
      /\ \A v \in Workers : Routes(v) => NotesInPlace(v)
  BY DEF AllNoted
<1>2. /\ a \in Slots /\ n \in Nat
      /\ traces'[a] = Fresh(o, n) /\ own'[w] = Fresh(o, n) /\ active_trace'[w] = a
      /\ \A s \in Slots : s # a => traces'[s] = traces[s]
      /\ \A v \in Workers : v # w => own'[v] = own[v] /\ active_trace'[v] = active_trace[v]
  BY BeginResults
<1>3. NotesOf(Fresh(o, n)) /\ AsNoted(Fresh(o, n)) = Fresh(o, n)
  BY <1>2, FreshTrace
<1> HIDE DEF a, n
<1>4. \A s \in InUse' : NotesOf(traces'[s])
  BY <1>1, <1>2, <1>3 DEF InUse
<1>5. \A v \in Workers : own'[v] # None => traces'[active_trace'[v]] = AsNoted(own'[v])
  <2> SUFFICES ASSUME NEW v \in Workers, own'[v] # None
               PROVE  traces'[active_trace'[v]] = AsNoted(own'[v])
    OBVIOUS
  <2>1. CASE v = w
    BY <1>2, <1>3, <2>1
  <2>2. CASE v # w
    <3>1. Routes(v) /\ own'[v] = own[v] /\ active_trace'[v] = active_trace[v]
      BY <1>2, <2>2 DEF Routes
    <3>2. traces[active_trace[v]] = AsNoted(own[v]) /\ active_trace[v] \in Slots
      BY <1>1, <3>1 DEF NotesInPlace, TableInv, YoungerAskedSince, InUse
    <3>3. /\ AsNoted(own[v]).origin = own[v].origin
          /\ AsNoted(own[v]).sequence = own[v].sequence
      <4>1. own[v] \in Traces
        BY <3>1 DEF Routes, TableInv, TypeInv
      <4>2. own[v].services \in Seq(Notes)
        BY <4>1 DEF Traces
      <4>3. Kept(own[v].services) \in Seq(Notes)
        BY <4>2, KeptNotes
      <4> QED
        BY <4>1, <4>3, NotedTrace DEF AsNoted
    <3>4. active_trace[v] # a
      BY <3>1, <3>2, <3>3, LosingTheSlot DEF a
    <3> QED
      BY <1>2, <3>1, <3>2, <3>4
  <2> QED
    BY <2>1, <2>2
<1>6. \A v \in Workers : Routes(v)' => NotesInPlace(v)'
  BY <1>5 DEF NotesInPlace, Routes
<1>7. \A s \in InUse' : NotesOf(traces[s])'
  BY <1>4
<1> QED
  BY <1>6, <1>7 DEF AllNoted

-----------------------------------------------------------------------------
(* A request is routed *)

\* The trace a worker notes in is in use, whoever's it is by now.
LEMMA RoutedTraces ==
  ASSUME TableInv, NEW w \in Workers, Routes(w)
  PROVE  /\ active_trace[w] \in Slots /\ active_trace[w] \in InUse
         /\ traces[active_trace[w]] \in Traces /\ own[w] \in Traces
BY DEF TableInv, TypeInv, Tables, YoungerAskedSince, InUse, Routes

\* Notes change neither whose a slot is nor its number, and a worker that is
\* done drops out.
LEMMA RoutedStepKeepsTable ==
  ASSUME TableInv, TypeInv', sequence_counter' = sequence_counter,
         \A s \in Slots : s \in InUse' <=> s \in InUse,
         \A s \in InUse : /\ traces'[s].origin = traces[s].origin
                          /\ traces'[s].sequence = traces[s].sequence,
         \A v \in Workers : Routes(v)' =>
           /\ Routes(v) /\ own'[v].sequence = own[v].sequence
           /\ active_trace'[v] = active_trace[v] /\ since'[v] = since[v]
  PROVE  TableInv'
<1>1. \A s : s \in InUse' <=> s \in InUse
  BY DEF InUse
<1>2. FilledInOrder'
  BY <1>1 DEF TableInv, FilledInOrder
<1>3. NumberedApart'
  BY <1>1 DEF TableInv, NumberedApart
<1>4. OnePersonOneSlot'
  BY <1>1 DEF TableInv, OnePersonOneSlot
<1>5. YoungerAskedSince'
  BY <1>1 DEF TableInv, YoungerAskedSince
<1> QED
  BY <1>2, <1>3, <1>4, <1>5 DEF TableInv

\* While no request has been overtaken no two workers note in one slot, and
\* the worker's own trace goes on as what has happened does.
LEMMA RoutedStepKeepsNotes ==
  ASSUME TableInv, AllNoted, NEW w \in Workers, Routes(w), NEW t \in Traces,
         traces' = [traces EXCEPT ![active_trace[w]] = t], NotesOf(t),
         \A v \in Workers : v # w =>
           own'[v] = own[v] /\ active_trace'[v] = active_trace[v],
         \/ own'[w] = None
         \/ active_trace'[w] = active_trace[w] /\ t = AsNoted(own'[w])
  PROVE  AllNoted'
<1>1. PICK a : a = active_trace[w]
  OBVIOUS
<1>2. a \in Slots /\ traces'[a] = t /\ \A s \in Slots : s # a => traces'[s] = traces[s]
  BY <1>1, RoutedTraces DEF TableInv, TypeInv, Tables
<1>3. ASSUME NEW v \in Workers, Routes(v)
      PROVE  /\ active_trace[v] \in Slots
             /\ traces[active_trace[v]] = AsNoted(own[v])
             /\ traces[active_trace[v]].sequence = own[v].sequence
  <2>1. own[v] \in Traces /\ active_trace[v] \in Slots
    BY <1>3, RoutedTraces
  <2>2. own[v].services \in Seq(Notes)
    BY <2>1 DEF Traces
  <2>3. Kept(own[v].services) \in Seq(Notes)
    BY <2>2, KeptNotes
  <2>4. AsNoted(own[v]).sequence = own[v].sequence
    BY <2>1, <2>3, NotedTrace DEF AsNoted
  <2> QED
    BY <1>3, <2>1, <2>4 DEF AllNoted, NotesInPlace
<1>4. \A s \in InUse' : NotesOf(traces'[s])
  BY <1>2 DEF AllNoted, InUse
<1>5. \A v \in Workers : own'[v] # None => traces'[active_trace'[v]] = AsNoted(own'[v])
  <2> SUFFICES ASSUME NEW v \in Workers, own'[v] # None
               PROVE  traces'[active_trace'[v]] = AsNoted(own'[v])
    OBVIOUS
  <2>1. CASE v = w
    BY <1>1, <1>2, <2>1
  <2>2. CASE v # w
    <3>1. Routes(v) /\ own'[v] = own[v] /\ active_trace'[v] = active_trace[v]
      BY <2>2 DEF Routes
    <3>2. own[v].sequence # own[w].sequence
      BY <2>2, <3>1 DEF TableInv, NumberedApart
    <3>3. active_trace[v] # a
      BY <1>1, <1>3, <3>1, <3>2
    <3> QED
      BY <1>2, <1>3, <3>1, <3>3
  <2> QED
    BY <2>1, <2>2
<1>6. \A v \in Workers : Routes(v)' => NotesInPlace(v)'
  BY <1>5 DEF NotesInPlace, Routes
<1>7. \A s \in InUse' : NotesOf(traces[s])'
  BY <1>4
<1> QED
  BY <1>6, <1>7 DEF AllNoted

\* A note by a worker that goes on, or is done.
LEMMA NoteKeepsTable ==
  ASSUME TableInv, NEW w \in Workers, Routes(w),
         NEW t \in Traces, t.origin = traces[active_trace[w]].origin,
         t.sequence = traces[active_trace[w]].sequence, Note(w, t),
         \/ Ends(w)
         \/ \E u \in Traces : u.sequence = own[w].sequence /\ Continues(w, u)
  PROVE  TableInv'
<1>1. PICK a : a = active_trace[w]
  OBVIOUS
<1>2. a \in Slots /\ a \in InUse /\ t # None
  BY <1>1, RoutedTraces, NoTraceAssumption
<1>3. /\ traces' = [traces EXCEPT ![a] = t] /\ traces'[a] = t
      /\ \A s \in Slots : s # a => traces'[s] = traces[s]
      /\ sequence_counter' = sequence_counter /\ overtaken' = overtaken
  BY <1>1, <1>2 DEF Note, TableInv, TypeInv, Tables
<1>4. TypeInv'
  <2>1. traces' \in Tables
    BY <1>3 DEF TableInv, TypeInv, Tables
  <2>2. 0 \in 0 .. RICTUS_DIAG_TRACE_MAX
    BY DiagnosticsAssumption
  <2>3. /\ active_trace' \in [Workers -> 0 .. RICTUS_DIAG_TRACE_MAX]
        /\ own' \in [Workers -> Traces \cup {None}]
        /\ since' \in [Workers -> SUBSET Persons]
    BY <2>2 DEF Ends, Continues, TableInv, TypeInv
  <2> QED
    BY <1>3, <2>1, <2>3 DEF TableInv, TypeInv
<1>5. \A s \in Slots : s \in InUse' <=> s \in InUse
  BY <1>2, <1>3 DEF InUse
<1>6. \A s \in InUse : traces'[s].origin = traces[s].origin
                       /\ traces'[s].sequence = traces[s].sequence
  BY <1>1, <1>3 DEF InUse
<1>7. \A v \in Workers : Routes(v)' =>
        /\ Routes(v) /\ own'[v].sequence = own[v].sequence
        /\ active_trace'[v] = active_trace[v] /\ since'[v] = since[v]
  BY DEF Ends, Continues, Routes, TableInv, TypeInv
<1> QED
  BY <1>3, <1>4, <1>5, <1>6, <1>7, RoutedStepKeepsTable

\* The trace of a worker whose request has not been overtaken.
LEMMA OwnTrace ==
  ASSUME TableInv, AllNoted, NEW w \in Workers, Routes(w)
  PROVE  /\ traces[active_trace[w]] = AsNoted(own[w])
         /\ NotesOf(AsNoted(own[w]))
         /\ own[w] \in Traces /\ AsNoted(own[w]) \in Traces
         /\ own[w].services \in Seq(Notes) /\ own[w].sequence \in Nat
         /\ AsNoted(own[w]).services = Kept(own[w].services)
         /\ AsNoted(own[w]).origin = own[w].origin
         /\ AsNoted(own[w]).sequence = own[w].sequence
         /\ AsNoted(own[w]).named = own[w].named
         /\ AsNoted(own[w]).command = own[w].command
<1>1. own[w] \in Traces /\ active_trace[w] \in InUse
  BY RoutedTraces
<1>2. own[w].services \in Seq(Notes) /\ own[w].sequence \in Nat
  BY <1>1 DEF Traces
<1>3. Kept(own[w].services) \in Seq(Notes)
  BY <1>2, KeptNotes
<1>4. traces[active_trace[w]] = AsNoted(own[w]) /\ NotesOf(AsNoted(own[w]))
  BY <1>1 DEF AllNoted, NotesInPlace
<1> QED
  BY <1>1, <1>2, <1>3, <1>4, NotedTrace DEF AsNoted

\* The router has made out the command's name.
LEMMA NoteRouteKeeps ==
  ASSUME TableInv, NEW w \in Workers, NoteRoute(w)
  PROVE  TableInv' /\ (AllNoted => AllNoted')
<1> DEFINE t == [traces[active_trace[w]] EXCEPT !.named = TRUE]
           u == [own[w] EXCEPT !.named = TRUE]
<1>1. Routes(w) /\ Note(w, t) /\ Continues(w, u)
  BY DEF NoteRoute
<1>2. traces[active_trace[w]] \in Traces /\ own[w] \in Traces
  BY <1>1, RoutedTraces
<1>3. /\ t \in Traces /\ t.named = TRUE /\ t.origin = traces[active_trace[w]].origin
      /\ t.sequence = traces[active_trace[w]].sequence
      /\ t.services = traces[active_trace[w]].services
      /\ t.command = traces[active_trace[w]].command
      /\ u \in Traces /\ u.named = TRUE /\ u.origin = own[w].origin
      /\ u.sequence = own[w].sequence /\ u.services = own[w].services
      /\ u.command = own[w].command
  BY <1>2, NotedTrace
<1> HIDE DEF t, u
<1>4. TableInv'
  BY <1>1, <1>3, NoteKeepsTable
<1>5. ASSUME AllNoted PROVE AllNoted'
  <2>1. Kept(u.services) \in Seq(Notes)
    BY <1>1, <1>3, <1>5, OwnTrace, KeptNotes
  <2>2. t = AsNoted(u)
    <3>1. /\ AsNoted(u) \in Traces /\ AsNoted(u).services = Kept(u.services)
          /\ AsNoted(u).origin = u.origin /\ AsNoted(u).sequence = u.sequence
          /\ AsNoted(u).named = u.named /\ AsNoted(u).command = u.command
      BY <1>3, <2>1, NotedTrace DEF AsNoted
    <3>2. /\ t.services = Kept(own[w].services) /\ t.origin = own[w].origin
          /\ t.sequence = own[w].sequence /\ t.command = own[w].command
      BY <1>1, <1>3, <1>5, OwnTrace
    <3> QED
      BY <1>3, <3>1, <3>2, SameTrace
  <2>3. NotesOf(t)
    BY <1>1, <1>3, <1>5, OwnTrace DEF NotesOf
  <2>4. traces' = [traces EXCEPT ![active_trace[w]] = t]
    BY <1>1 DEF Note
  <2>5. /\ \A v \in Workers : v # w => own'[v] = own[v] /\ active_trace'[v] = active_trace[v]
        /\ own'[w] = u /\ active_trace'[w] = active_trace[w]
    BY <1>1 DEF Continues, TableInv, TypeInv
  <2> QED
    BY <1>1, <1>3, <1>5, <2>2, <2>3, <2>4, <2>5, RoutedStepKeepsNotes
<1> QED
  BY <1>4, <1>5


\* A service has returned: the note is the next of this request's, or the
\* trace is full.
LEMMA NoteServiceKeeps ==
  ASSUME TableInv, NEW w \in Workers, NoteService(w)
  PROVE  TableInv' /\ (AllNoted => AllNoted')
<1>1. PICK a : a = active_trace[w]
  OBVIOUS
<1>2. PICK old : old = traces[a]
  OBVIOUS
<1>3. PICK q : q = own[w].services
  OBVIOUS
<1>4. PICK note : note = [request |-> own[w].sequence, call |-> Len(q) + 1]
  OBVIOUS
<1>5. PICK r : r = IF Len(old.services) < RICTUS_DIAG_SERVICE_MAX
                   THEN Append(old.services, note) ELSE old.services
  OBVIOUS
<1> DEFINE t == [old EXCEPT !.services = r]
           u == [own[w] EXCEPT !.services = Append(q, note)]
<1>6. Routes(w) /\ Note(w, t) /\ Continues(w, u)
  BY <1>1, <1>2, <1>3, <1>4, <1>5 DEF NoteService
<1>7. old \in Traces /\ own[w] \in Traces
  BY <1>1, <1>2, <1>6, RoutedTraces
<1>8. /\ old.services \in Seq(Notes) /\ q \in Seq(Notes)
      /\ old.sequence \in Nat /\ own[w].sequence \in Nat
  BY <1>3, <1>7 DEF Traces
<1>9. note \in Notes /\ note.request = own[w].sequence /\ note.call = Len(q) + 1
  BY <1>4, <1>8 DEF Notes
<1>10. r \in Seq(Notes) /\ Append(q, note) \in Seq(Notes)
  BY <1>5, <1>8, <1>9
<1>11. /\ t \in Traces /\ t.services = r /\ t.origin = old.origin
       /\ t.sequence = old.sequence /\ t.named = old.named /\ t.command = old.command
       /\ u \in Traces /\ u.services = Append(q, note) /\ u.origin = own[w].origin
       /\ u.sequence = own[w].sequence /\ u.named = own[w].named
       /\ u.command = own[w].command
  BY <1>7, <1>10, NotedTrace
<1> HIDE DEF t, u
<1>12. TableInv'
  BY <1>1, <1>2, <1>6, <1>11, NoteKeepsTable
<1>13. ASSUME AllNoted PROVE AllNoted'
  <2>1. /\ old.services = Kept(q) /\ old.origin = own[w].origin
        /\ old.sequence = own[w].sequence /\ old.named = own[w].named
        /\ old.command = own[w].command /\ NotesOf(old)
    BY <1>1, <1>2, <1>3, <1>6, <1>13, OwnTrace
  <2>2. r = Kept(Append(q, note))
    BY <1>5, <1>8, <1>9, <2>1, KeptOneMore
  <2>3. t = AsNoted(u)
    <3>1. /\ AsNoted(u) \in Traces /\ AsNoted(u).services = r
          /\ AsNoted(u).origin = u.origin /\ AsNoted(u).sequence = u.sequence
          /\ AsNoted(u).named = u.named /\ AsNoted(u).command = u.command
      <4>1. AsNoted(u) = [u EXCEPT !.services = r]
        BY <1>11, <2>2 DEF AsNoted
      <4>2. PICK m : m = [u EXCEPT !.services = r]
        OBVIOUS
      <4>3. /\ m \in Traces /\ m.services = r /\ m.origin = u.origin
            /\ m.sequence = u.sequence /\ m.named = u.named /\ m.command = u.command
        BY <1>10, <1>11, <4>2, NotedTrace
      <4> QED
        BY <4>1, <4>2, <4>3
    <3> QED
      BY <1>11, <2>1, <3>1, SameTrace
  <2>4. \A i \in 1 .. Len(r) : r[i] = [request |-> old.sequence, call |-> i]
    <3>1. PICK k : k = old.services
      OBVIOUS
    <3>2. /\ k \in Seq(Notes) /\ Len(k) \in Nat
          /\ \A i \in 1 .. Len(k) : k[i] = [request |-> old.sequence, call |-> i]
      BY <1>8, <2>1, <3>1 DEF NotesOf
    <3>3. CASE Len(k) < RICTUS_DIAG_SERVICE_MAX
      <4>1. Len(k) = Len(q)
        BY <1>8, <1>9, <2>1, <3>1, <3>3, KeptOneMore
      <4>2. r = Append(k, note) /\ note = [request |-> old.sequence, call |-> Len(k) + 1]
        BY <1>4, <1>5, <2>1, <3>1, <3>3, <4>1
      <4>3. /\ Len(r) = Len(k) + 1 /\ r[Len(k) + 1] = note
            /\ \A i \in 1 .. Len(k) : r[i] = k[i]
        BY <1>9, <3>2, <4>2
      <4> QED
        BY <3>2, <4>2, <4>3
    <3>4. CASE ~(Len(k) < RICTUS_DIAG_SERVICE_MAX)
      BY <1>5, <3>1, <3>2, <3>4
    <3> QED
      BY <3>3, <3>4
  <2>5. NotesOf(t)
    BY <1>11, <2>1, <2>4 DEF NotesOf
  <2>6. traces' = [traces EXCEPT ![active_trace[w]] = t]
    BY <1>6 DEF Note
  <2>7. /\ \A v \in Workers : v # w => own'[v] = own[v] /\ active_trace'[v] = active_trace[v]
        /\ own'[w] = u /\ active_trace'[w] = active_trace[w]
    BY <1>6 DEF Continues, TableInv, TypeInv
  <2> QED
    BY <1>6, <1>11, <1>13, <2>3, <2>5, <2>6, <2>7, RoutedStepKeepsNotes
<1> QED
  BY <1>12, <1>13

\* The command has returned, and the request is done.
LEMMA NoteCommandKeeps ==
  ASSUME TableInv, NEW w \in Workers, NoteCommand(w)
  PROVE  TableInv' /\ (AllNoted => AllNoted')
<1> DEFINE old == traces[active_trace[w]]
           t == [old EXCEPT !.named = TRUE, !.command = own[w].sequence]
<1>1. Routes(w) /\ Note(w, t) /\ Ends(w)
  BY DEF NoteCommand
<1>2. old \in Traces /\ own[w] \in Traces
  BY <1>1, RoutedTraces
<1>3. own[w].sequence \in Nat
  BY <1>2 DEF Traces
<1>4. /\ t \in Traces /\ t.origin = old.origin /\ t.sequence = old.sequence
      /\ t.services = old.services /\ t.command = own[w].sequence
  BY <1>2, <1>3, NotedTrace
<1> HIDE DEF t
<1>5. TableInv'
  BY <1>1, <1>4, NoteKeepsTable
<1>6. ASSUME AllNoted PROVE AllNoted'
  <2>1. old.sequence = own[w].sequence /\ NotesOf(old)
    BY <1>1, <1>6, OwnTrace
  <2>2. NotesOf(t)
    BY <1>4, <2>1 DEF NotesOf
  <2>3. traces' = [traces EXCEPT ![active_trace[w]] = t]
    BY <1>1 DEF Note
  <2>4. /\ \A v \in Workers : v # w => own'[v] = own[v] /\ active_trace'[v] = active_trace[v]
        /\ own'[w] = None
    BY <1>1 DEF Ends, TableInv, TypeInv
  <2> QED
    BY <1>1, <1>4, <1>6, <2>2, <2>3, <2>4, RoutedStepKeepsNotes
<1> QED
  BY <1>5, <1>6


\* The router has refused the request: its trace stays as it is.
LEMMA RefuseKeeps ==
  ASSUME TableInv, NEW w \in Workers, Refuse(w)
  PROVE  TableInv' /\ (AllNoted => AllNoted')
<1>1. /\ UNCHANGED <<traces, sequence_counter, overtaken>>
      /\ active_trace' \in [Workers -> 0 .. RICTUS_DIAG_TRACE_MAX]
      /\ own' \in [Workers -> Traces \cup {None}]
      /\ since' \in [Workers -> SUBSET Persons]
      /\ own'[w] = None
      /\ \A v \in Workers : v # w =>
           /\ own'[v] = own[v] /\ active_trace'[v] = active_trace[v]
           /\ since'[v] = since[v]
  <2>1. 0 \in 0 .. RICTUS_DIAG_TRACE_MAX
    BY DiagnosticsAssumption
  <2> QED
    BY <2>1 DEF Refuse, Ends, TableInv, TypeInv
<1>2. TypeInv'
  BY <1>1 DEF TableInv, TypeInv
<1>3. \A s : s \in InUse' <=> s \in InUse
  BY <1>1 DEF InUse
<1>4. TableInv'
  BY <1>1, <1>2, <1>3, RoutedStepKeepsTable DEF Routes
<1>5. ASSUME AllNoted PROVE AllNoted'
  <2>1. \A s \in InUse' : NotesOf(traces[s])'
    BY <1>1, <1>3, <1>5 DEF AllNoted, NotesOf
  <2>2. \A v \in Workers : own'[v] # None => traces'[active_trace'[v]] = AsNoted(own'[v])
    BY <1>1, <1>5 DEF AllNoted, NotesInPlace, Routes
  <2>3. \A v \in Workers : Routes(v)' => NotesInPlace(v)'
    BY <2>2 DEF NotesInPlace, Routes
  <2> QED
    BY <2>1, <2>3 DEF AllNoted
<1> QED
  BY <1>4, <1>5

-----------------------------------------------------------------------------
(* The theorems *)

DiagInv == TableInv /\ (~overtaken => AllNoted)

\* Nothing is in use and nobody routes anything.
LEMMA InitialTable ==
  ASSUME Init
  PROVE  DiagInv
<1>1. InUse = {} /\ \A w \in Workers : ~Routes(w)
  BY DEF Init, InUse, Routes
<1>2. 0 \in 0 .. RICTUS_DIAG_TRACE_MAX /\ 0 \in Nat
  BY DiagnosticsAssumption
<1>3. TypeInv
  BY <1>2 DEF Init, TypeInv, Tables
<1>4. TableInv
  BY <1>1, <1>3 DEF TableInv, FilledInOrder, NumberedApart, OnePersonOneSlot, YoungerAskedSince
<1>5. AllNoted
  BY <1>1 DEF AllNoted
<1> QED
  BY <1>4, <1>5 DEF DiagInv

\* What Diagnostics does keeps the table, and as long as no request is
\* overtaken the notes.
LEMMA StepKeepsDiagInv ==
  ASSUME DiagInv, [Next]_vars
  PROVE  DiagInv'
<1>1. TableInv
  BY DEF DiagInv
<1>2. CASE UNCHANGED vars
  <2>1. /\ traces' = traces /\ sequence_counter' = sequence_counter
        /\ active_trace' = active_trace /\ own' = own /\ since' = since
        /\ overtaken' = overtaken
    BY <1>2 DEF vars, routing
  <2>2. TypeInv'
    BY <1>1, <2>1 DEF TableInv, TypeInv
  <2>3. \A s : s \in InUse' <=> s \in InUse
    BY <2>1 DEF InUse
  <2>4. TableInv'
    BY <1>1, <2>1, <2>2, <2>3, RoutedStepKeepsTable DEF Routes
  <2>5. AllNoted => AllNoted'
    BY <2>1, <2>3 DEF AllNoted, NotesOf, NotesInPlace, Routes, AsNoted, Kept
  <2> QED
    BY <2>1, <2>4, <2>5 DEF DiagInv
<1>3. ASSUME NEW w \in Workers, NEW o \in Origins, Begin(w, o) PROVE DiagInv'
  <2>1. TableInv'
    BY <1>1, <1>3, BeginKeepsTable
  <2>2. overtaken' = (overtaken \/ Overtakes(o))
    BY <1>3 DEF Begin
  <2>3. ~overtaken /\ ~Overtakes(o) => AllNoted'
    BY <1>1, <1>3, BeginningTakesNoNotes DEF DiagInv
  <2> QED
    BY <2>1, <2>2, <2>3, Zenon DEF DiagInv
<1>4. ASSUME NEW w \in Workers, NoteRoute(w) \/ NoteService(w) \/ NoteCommand(w) \/ Refuse(w)
      PROVE  DiagInv'
  <2>1. TableInv' /\ (AllNoted => AllNoted')
    BY <1>1, <1>4, NoteRouteKeeps, NoteServiceKeeps, NoteCommandKeeps, RefuseKeeps
  <2>2. overtaken' = overtaken
    BY <1>4 DEF NoteRoute, NoteService, NoteCommand, Refuse, Note
  <2> QED
    BY <2>1, <2>2 DEF DiagInv
<1> QED
  BY <1>2, <1>3, <1>4 DEF Next

\* However the workers interleave, the slots fill in order, are of different
\* persons and numbers, and whoever has a younger trace than a request that
\* is routed has asked since it began.
THEOREM DiagInvAlways == Spec => []DiagInv
<1>1. Init => DiagInv
  BY InitialTable
<1>2. DiagInv /\ [Next]_vars => DiagInv'
  BY StepKeepsDiagInv
<1> QED
  BY <1>1, <1>2, PTL DEF Spec

\* "The trace follows the actual runtime path": for any sizes of the table
\* and any workers, as long as no request has been overtaken every note is
\* about its trace's own request, and none is missing of those routed.
THEOREM NotesAreAlwaysItsOwn == Spec => []NotesAreItsOwn
<1>1. DiagInv => NotesAreItsOwn
  BY NotesTogether DEF DiagInv
<1> QED
  BY <1>1, DiagInvAlways, PTL


-----------------------------------------------------------------------------
(* What is shown *)

\* Each person is shown the request of its slot, and 0 without one.
ShownFromSlots ==
  /\ LastShown \in [Persons -> Nat]
  /\ \A p \in Persons : \A s \in InUse :
       Person[traces[s].origin] = p => LastShown[p] = traces[s].sequence
  /\ \A p \in Persons :
       (\A s \in InUse : Person[traces[s].origin] # p) => LastShown[p] = 0

\* Rendering finds a person's slot under each of its origins.
LEMMA OriginsShowTheirSlot ==
  ASSUME TableInv, NEW o \in Origins
  PROVE  /\ \A s \in InUse :
              Person[traces[s].origin] = Person[o] => Shown(o) = traces[s].sequence
         /\ (\A s \in InUse : Person[traces[s].origin] # Person[o]) => Shown(o) = 0
<1>1. /\ InUse \subseteq Slots
      /\ \A s \in InUse : traces[s] # None /\ traces[s].origin \in Origins
  BY DEF InUse, TableInv, TypeInv, Tables, Traces
<1>2. \A s \in Slots : Match(s, o) <=> s \in InUse /\ Person[traces[s].origin] = Person[o]
  BY <1>1, DiagnosticsAssumption DEF Match, InUse
<1>3. ASSUME NEW s \in InUse, Person[traces[s].origin] = Person[o]
      PROVE  Shown(o) = traces[s].sequence
  <2>1. s \in Slots /\ Match(s, o)
    BY <1>1, <1>2, <1>3
  <2>2. \A u \in Slots : Match(u, o) => u = s
    BY <1>2, <1>3 DEF TableInv, OnePersonOneSlot
  <2>3. ASSUME NEW u \in 1 .. s - 1 PROVE ~Match(u, o)
    <3>1. u \in Slots /\ u # s
      BY <2>1, DiagnosticsAssumption DEF Slots
    <3> QED
      BY <2>2, <3>1
  <2>4. s = CHOOSE x \in Slots : Match(x, o) /\ \A u \in 1 .. x - 1 : ~Match(u, o)
    BY <2>1, <2>2, <2>3
  <2> QED
    BY <2>1, <2>4 DEF Shown
<1>4. ASSUME \A s \in InUse : Person[traces[s].origin] # Person[o]
      PROVE  Shown(o) = 0
  BY <1>2, <1>4 DEF Shown
<1> QED
  BY <1>3, <1>4

\* A person's origins all show the same, so what it is shown is well defined.
LEMMA PersonsAreShownTheirSlot == TableInv => ShownFromSlots
<1> SUFFICES ASSUME TableInv PROVE ShownFromSlots
  OBVIOUS
<1>1. ASSUME NEW p \in Persons, NEW v \in Nat,
             \A o \in Origins : Person[o] = p => Shown(o) = v
      PROVE  LastShown[p] = v
  <2>1. PICK shown : shown = {Shown(o) : o \in {o \in Origins : Person[o] = p}}
    OBVIOUS
  <2>2. PICK o \in Origins : Person[o] = p
    BY DEF Persons
  <2>3. shown = {v}
    BY <1>1, <2>1, <2>2
  <2>4. LastShown[p] = CHOOSE r \in shown : \A q \in shown : r <= q
    BY <2>1 DEF LastShown
  <2>5. v \in shown /\ \A q \in shown : v <= q
    BY <2>3
  <2>6. (CHOOSE r \in shown : \A q \in shown : r <= q) \in shown
    BY <2>5
  <2> QED
    BY <2>3, <2>4, <2>6
<1>2. ASSUME NEW p \in Persons, NEW s \in InUse, Person[traces[s].origin] = p
      PROVE  LastShown[p] = traces[s].sequence /\ LastShown[p] \in Nat
  <2>1. traces[s].sequence \in Nat
    BY DEF InUse, TableInv, TypeInv, Tables, Traces
  <2>2. \A o \in Origins : Person[o] = p => Shown(o) = traces[s].sequence
    BY <1>2, OriginsShowTheirSlot
  <2> QED
    BY <1>1, <2>1, <2>2
<1>3. ASSUME NEW p \in Persons, \A s \in InUse : Person[traces[s].origin] # p
      PROVE  LastShown[p] = 0
  <2>1. \A o \in Origins : Person[o] = p => Shown(o) = 0
    BY <1>3, OriginsShowTheirSlot
  <2> QED
    BY <1>1, <2>1
<1>4. LastShown = [p \in Persons |-> LastShown[p]]
  BY DEF LastShown
<1>5. \A p \in Persons : LastShown[p] \in Nat
  BY <1>2, <1>3
<1>6. LastShown \in [Persons -> Nat]
  BY <1>4, <1>5
<1> QED
  BY <1>2, <1>3, <1>6 DEF ShownFromSlots

\* The same of the state a step leads to.
LEMMA PersonsAreShownTheirNextSlot == TableInv' => ShownFromSlots'
BY PersonsAreShownTheirSlot, PTL


\* What a request that begins does to what is shown: its person is shown it,
\* whoever has another slot is shown what it was, the others nothing.
LEMMA BeginShows ==
  ASSUME TableInv, NEW w \in Workers, NEW o \in Origins, Begin(w, o)
  PROVE  /\ LastShown' \in [Persons -> Nat]
         /\ LastShown'[Person[o]] = sequence_counter + 1
         /\ \A q \in Persons \ {Person[o]}, s \in InUse :
              Person[traces[s].origin] = q =>
                LastShown'[q] = IF s = Slot(o) THEN 0 ELSE traces[s].sequence
         /\ \A q \in Persons \ {Person[o]} :
              (\A s \in InUse : Person[traces[s].origin] # q) => LastShown'[q] = 0
<1>1. PICK a : a = Slot(o)
  OBVIOUS
<1>2. PICK next : next = LastShown'
  OBVIOUS
<1>3. TableInv'
  BY BeginKeepsTable
<1>4. ShownFromSlots'
  BY <1>3, PersonsAreShownTheirNextSlot
<1>5. /\ next \in [Persons -> Nat]
      /\ \A p \in Persons : \A s \in InUse' :
           Person[traces'[s].origin] = p => next[p] = traces'[s].sequence
      /\ \A p \in Persons :
           (\A s \in InUse' : Person[traces'[s].origin] # p) => next[p] = 0
  BY <1>2, <1>4 DEF ShownFromSlots
<1>6. /\ a \in Slots /\ traces'[a] # None /\ traces'[a].origin = o
      /\ traces'[a].sequence = sequence_counter + 1
      /\ \A s \in Slots : s # a => traces'[s] = traces[s]
  BY <1>1, BeginResults, FreshTrace, NoTraceAssumption DEF TableInv, TypeInv
<1>7. /\ \A s : s \in InUse' <=> s \in Slots /\ (s = a \/ s \in InUse)
      /\ InUse \subseteq Slots
  BY <1>6 DEF InUse
<1>8. next[Person[o]] = sequence_counter + 1
  <2>1. Person[o] \in Persons
    BY DEF Persons
  <2> QED
    BY <1>5, <1>6, <1>7, <2>1
<1>9. ASSUME NEW q \in Persons \ {Person[o]}, \A s \in InUse : s # a => Person[traces[s].origin] # q
      PROVE  next[q] = 0
  <2>1. \A s \in InUse' : Person[traces'[s].origin] # q
    BY <1>6, <1>7, <1>9
  <2> QED
    BY <1>5, <2>1
<1>10. ASSUME NEW q \in Persons \ {Person[o]}, NEW s \in InUse, Person[traces[s].origin] = q
       PROVE  next[q] = IF s = a THEN 0 ELSE traces[s].sequence
  <2>1. CASE s = a
    <3>1. \A u \in InUse : u # a => Person[traces[u].origin] # q
      BY <1>10, <2>1 DEF TableInv, OnePersonOneSlot
    <3> QED
      BY <1>9, <2>1, <3>1
  <2>2. CASE s # a
    <3>1. s \in InUse' /\ traces'[s] = traces[s]
      BY <1>6, <1>7, <2>2
    <3> QED
      BY <1>5, <1>10, <2>2, <3>1
  <2> QED
    BY <2>1, <2>2
<1>11. ASSUME NEW q \in Persons \ {Person[o]}, \A s \in InUse : Person[traces[s].origin] # q
       PROVE  next[q] = 0
  BY <1>9, <1>11
<1> QED
  BY <1>1, <1>2, <1>5, <1>8, <1>10, <1>11

\* A person that keeps its slot has been followed by fewer than there are
\* slots: each of those who have asked since has another one.
LEMMA KeptIsRecent ==
  ASSUME TableInv, NEW o \in Origins, NEW s \in InUse, s # Slot(o)
  PROVE  Cardinality(Requests!AskedAfter(Person[traces[s].origin], Person[o]))
           < RICTUS_DIAG_TRACE_MAX
<1>1. PICK a : a = Slot(o)
  OBVIOUS
<1>2. PICK q : q = Person[traces[s].origin]
  OBVIOUS
<1>3. PICK after : after = Requests!AskedAfter(q, Person[o])
  OBVIOUS
<1>4. /\ InUse \subseteq Slots /\ a \in Slots
      /\ \A u \in InUse : /\ traces[u].sequence \in Nat /\ traces[u].origin \in Origins
                          /\ Person[traces[u].origin] \in Persons
      /\ \A u, v \in InUse : u # v => traces[u].sequence # traces[v].sequence
  BY <1>1, SlotTaken DEF TableInv, TypeInv, Tables, Traces, InUse, Persons, NumberedApart
<1>5. /\ LastShown \in [Persons -> Nat]
      /\ \A u \in InUse : LastShown[Person[traces[u].origin]] = traces[u].sequence
      /\ \A p \in Persons :
           (\A u \in InUse : Person[traces[u].origin] # p) => LastShown[p] = 0
  BY <1>4, PersonsAreShownTheirSlot DEF ShownFromSlots
<1>6. after = {Person[o]} \cup {r \in Persons : LastShown[r] > traces[s].sequence}
  BY <1>2, <1>3, <1>5 DEF Requests!AskedAfter
<1>7. \A u \in InUse :
        traces[u].sequence > traces[s].sequence /\ Person[traces[u].origin] # Person[o] =>
          u # a /\ u # s
  <2> SUFFICES ASSUME NEW u \in InUse, traces[u].sequence > traces[s].sequence,
                      Person[traces[u].origin] # Person[o]
               PROVE  u # a /\ u # s
    OBVIOUS
  <2>1. u # s
    BY <1>4
  <2>2. CASE Usable(a, o) /\ u = a
    <3>1. Match(a, o) /\ traces[a].origin \in Origins
      BY <1>4, <2>2 DEF Usable, InUse
    <3>2. Person[traces[a].origin] = Person[o]
      BY <3>1, DiagnosticsAssumption DEF Match
    <3> QED
      BY <2>2, <3>2
  <2>3. CASE ~Usable(a, o) /\ u = a
    <3>1. traces[a].sequence <= traces[s].sequence
      BY <1>1, <1>4, <2>3, SlotTaken DEF TableInv
    <3> QED
      BY <1>4, <2>3, <3>1
  <2> QED
    BY <2>1, <2>2, <2>3
<1> DEFINE f == [r \in after |->
                   IF r = Person[o] THEN a
                   ELSE CHOOSE u \in InUse : Person[traces[u].origin] = r]
<1>8. ASSUME NEW r \in after, r # Person[o]
      PROVE  /\ f[r] \in InUse /\ Person[traces[f[r]].origin] = r
             /\ f[r] # a /\ f[r] # s
  <2>1. r \in Persons /\ LastShown[r] > traces[s].sequence /\ LastShown[r] \in Nat
    BY <1>5, <1>6, <1>8
  <2>2. \E u \in InUse : Person[traces[u].origin] = r
    BY <1>4, <1>5, <2>1
  <2>3. f[r] = CHOOSE u \in InUse : Person[traces[u].origin] = r
    BY <1>8
  <2>4. PICK u : u = f[r]
    OBVIOUS
  <2>5. u \in InUse /\ Person[traces[u].origin] = r
    BY <2>2, <2>3, <2>4, Zenon
  <2>6. u # a /\ u # s
    BY <1>5, <1>7, <1>8, <2>1, <2>5
  <2> QED
    BY <2>4, <2>5, <2>6
<1>9. Person[o] \in after /\ f[Person[o]] = a
  BY <1>6
<1>10. f \in [after -> Slots \ {s}]
  <2>1. \A r \in after : f[r] \in Slots \ {s}
    BY <1>1, <1>4, <1>8, <1>9
  <2> QED
    BY <2>1
<1> HIDE DEF f
<1>11. \A r, t \in after : f[r] = f[t] => r = t
  BY <1>8, <1>9
<1>12. f \in Injection(after, Slots \ {s})
  BY <1>10, <1>11 DEF Injection, IsInjective
<1>13. /\ IsFiniteSet(Slots \ {s})
       /\ Cardinality(Slots \ {s}) = RICTUS_DIAG_TRACE_MAX - 1
  BY <1>4, SlotsCounted, FS_RemoveElement
<1>14. IsFiniteSet(after) /\ Cardinality(after) <= Cardinality(Slots \ {s})
  BY <1>12, <1>13, FS_Injection
<1>15. Cardinality(after) \in Nat
  BY <1>14, FS_CardinalityType
<1>16. Cardinality(after) < RICTUS_DIAG_TRACE_MAX
  BY <1>13, <1>14, <1>15, DiagnosticsAssumption
<1> QED
  BY <1>2, <1>3, <1>16

\* A person that loses its slot to another has been followed by as many as
\* there are slots.
LEMMA LostIsOld ==
  ASSUME TableInv, NEW o \in Origins, Slot(o) \in InUse,
         Person[traces[Slot(o)].origin] # Person[o]
  PROVE  ~(Cardinality(Requests!AskedAfter(Person[traces[Slot(o)].origin], Person[o]))
             < RICTUS_DIAG_TRACE_MAX)
<1>1. PICK a : a = Slot(o)
  OBVIOUS
<1>2. PICK q : q = Person[traces[a].origin]
  OBVIOUS
<1>3. PICK after : after = Requests!AskedAfter(q, Person[o])
  OBVIOUS
<1>4. /\ InUse \subseteq Slots /\ a \in InUse
      /\ \A u \in InUse : /\ traces[u].sequence \in Nat /\ traces[u].origin \in Origins
                          /\ Person[traces[u].origin] \in Persons
      /\ \A u, v \in InUse : u # v => traces[u].sequence # traces[v].sequence
      /\ \A u, v \in InUse : u # v => Person[traces[u].origin] # Person[traces[v].origin]
  BY <1>1 DEF TableInv, TypeInv, Tables, Traces, InUse, Persons, NumberedApart, OnePersonOneSlot
<1>5. /\ LastShown \in [Persons -> Nat]
      /\ \A u \in InUse : LastShown[Person[traces[u].origin]] = traces[u].sequence
  BY <1>4, PersonsAreShownTheirSlot DEF ShownFromSlots
<1>6. after = {Person[o]} \cup {r \in Persons : LastShown[r] > traces[a].sequence}
  BY <1>2, <1>3, <1>4, <1>5 DEF Requests!AskedAfter
<1>7. ~Usable(a, o)
  <2>1. traces[a] # None /\ traces[a].origin \in Origins
    BY <1>4 DEF InUse
  <2> QED
    BY <1>1, <2>1, DiagnosticsAssumption DEF Usable, Match
<1>8. /\ \A u \in Slots : u \in InUse
      /\ \A u \in Slots : traces[a].sequence <= traces[u].sequence
  BY <1>1, <1>7, SlotTaken DEF TableInv, Usable, InUse
<1>9. \A u \in Slots : u # a => Person[traces[u].origin] # Person[o]
  BY <1>1, <1>8, OthersHaveOtherSlots
<1> DEFINE f == [u \in Slots |-> IF u = a THEN Person[o] ELSE Person[traces[u].origin]]
<1>10. f \in [Slots -> after]
  <2>1. ASSUME NEW u \in Slots, u # a PROVE Person[traces[u].origin] \in after
    <3>1. traces[u].sequence > traces[a].sequence
      BY <1>4, <1>8, <2>1
    <3> QED
      BY <1>4, <1>5, <1>6, <1>8, <3>1
  <2>2. Person[o] \in after
    BY <1>6
  <2> QED
    BY <2>1, <2>2
<1>11. \A u, v \in Slots : f[u] = f[v] => u = v
  BY <1>4, <1>8, <1>9
<1>12. \A r \in after : \E u \in Slots : f[u] = r
  <2> SUFFICES ASSUME NEW r \in after, r # Person[o] PROVE \E u \in Slots : f[u] = r
    BY <1>4
  <2>1. r \in Persons /\ LastShown[r] > traces[a].sequence
    BY <1>6
  <2>2. PICK u \in InUse : Person[traces[u].origin] = r
    BY <1>4, <2>1, PersonsAreShownTheirSlot DEF ShownFromSlots
  <2>3. u # a
    BY <1>4, <1>5, <2>1, <2>2
  <2> QED
    BY <1>4, <2>2, <2>3
<1> HIDE DEF f
<1>13. IsFiniteSet(after)
  <2>1. f \in Surjection(Slots, after)
    BY <1>10, <1>12 DEF Surjection
  <2> QED
    BY <2>1, SlotsCounted, FS_Surjection
<1>14. f \in Injection(Slots, after)
  BY <1>10, <1>11 DEF Injection, IsInjective
<1>15. RICTUS_DIAG_TRACE_MAX <= Cardinality(after)
  BY <1>13, <1>14, SlotsCounted, FS_Injection
<1>16. Cardinality(after) \in Nat
  BY <1>13, FS_CardinalityType
<1> QED
  BY <1>1, <1>2, <1>3, <1>15, <1>16, DiagnosticsAssumption


\* RecentRequests counts as Diagnostics does.
LEMMA CountedAlike == \A S : Requests!Cardinality(S) = Cardinality(S)
BY Zenon DEF Requests!Cardinality, Cardinality

\* A request that begins is what its person asks.
LEMMA BeginIsAsked ==
  ASSUME TableInv, NEW w \in Workers, NEW o \in Origins, Begin(w, o)
  PROVE  Requests!Ask(Person[o])
<1>1. PICK next : next = LastShown'
  OBVIOUS
<1>2. /\ next \in [Persons -> Nat] /\ next[Person[o]] = sequence_counter + 1
      /\ \A q \in Persons \ {Person[o]}, s \in InUse :
           Person[traces[s].origin] = q =>
             next[q] = IF s = Slot(o) THEN 0 ELSE traces[s].sequence
      /\ \A q \in Persons \ {Person[o]} :
           (\A s \in InUse : Person[traces[s].origin] # q) => next[q] = 0
  BY <1>1, BeginShows
<1>3. sequence_counter' = sequence_counter + 1
  BY DEF Begin
<1>4. ASSUME NEW q \in Persons, q # Person[o]
      PROVE  next[q] = IF Cardinality(Requests!AskedAfter(q, Person[o])) < RICTUS_DIAG_TRACE_MAX
                       THEN LastShown[q] ELSE 0
  <2>1. CASE \A s \in InUse : Person[traces[s].origin] # q
    <3>1. LastShown[q] = 0
      BY <2>1, PersonsAreShownTheirSlot DEF ShownFromSlots
    <3>2. next[q] = 0
      BY <1>2, <1>4, <2>1
    <3> QED
      BY <3>1, <3>2
  <2>2. ASSUME NEW s \in InUse, Person[traces[s].origin] = q, s # Slot(o)
        PROVE  /\ Cardinality(Requests!AskedAfter(q, Person[o])) < RICTUS_DIAG_TRACE_MAX
               /\ next[q] = LastShown[q]
    <3>1. Cardinality(Requests!AskedAfter(q, Person[o])) < RICTUS_DIAG_TRACE_MAX
      BY <2>2, KeptIsRecent
    <3>2. LastShown[q] = traces[s].sequence
      BY <2>2, PersonsAreShownTheirSlot DEF ShownFromSlots
    <3>3. next[q] = traces[s].sequence
      BY <1>2, <1>4, <2>2
    <3> QED
      BY <3>1, <3>2, <3>3
  <2>3. ASSUME NEW s \in InUse, Person[traces[s].origin] = q, s = Slot(o)
        PROVE  /\ ~(Cardinality(Requests!AskedAfter(q, Person[o])) < RICTUS_DIAG_TRACE_MAX)
               /\ next[q] = 0
    BY <1>2, <1>4, <2>3, LostIsOld
  <2> QED
    BY <2>1, <2>2, <2>3
<1>5. next = [q \in Persons |->
        IF q = Person[o] THEN sequence_counter'
        ELSE IF Cardinality(Requests!AskedAfter(q, Person[o])) < RICTUS_DIAG_TRACE_MAX
             THEN LastShown[q] ELSE 0]
  BY <1>2, <1>3, <1>4
<1> QED
  BY <1>1, <1>3, <1>5, CountedAlike DEF Requests!Ask

\* Steps that leave whose the slots are leave what is shown.
LEMMA NotesShowNothing ==
  ASSUME TableInv, TableInv',
         \A s : s \in InUse' <=> s \in InUse,
         \A s \in InUse : /\ traces'[s].origin = traces[s].origin
                          /\ traces'[s].sequence = traces[s].sequence
  PROVE  LastShown' = LastShown
<1>1. ShownFromSlots /\ ShownFromSlots'
  BY PersonsAreShownTheirSlot, PersonsAreShownTheirNextSlot
<1>2. PICK next : next = LastShown'
  OBVIOUS
<1>3. /\ next \in [Persons -> Nat]
      /\ \A p \in Persons : \A s \in InUse :
           Person[traces[s].origin] = p => next[p] = traces[s].sequence
      /\ \A p \in Persons :
           (\A s \in InUse : Person[traces[s].origin] # p) => next[p] = 0
  BY <1>1, <1>2 DEF ShownFromSlots
<1>4. \A p \in Persons : next[p] = LastShown[p]
  BY <1>1, <1>3 DEF ShownFromSlots
<1>5. next = LastShown
  BY <1>1, <1>3, <1>4 DEF ShownFromSlots
<1> QED
  BY <1>2, <1>5

\* A worker that notes, or is done, asks nothing.
LEMMA RoutingAsksNothing ==
  ASSUME TableInv, TableInv', NEW w \in Workers,
         NoteRoute(w) \/ NoteService(w) \/ NoteCommand(w) \/ Refuse(w)
  PROVE  sequence_counter' = sequence_counter /\ LastShown' = LastShown
<1>1. sequence_counter' = sequence_counter
  BY DEF NoteRoute, NoteService, NoteCommand, Refuse, Note
<1>2. CASE Refuse(w)
  <2>1. traces' = traces
    BY <1>2 DEF Refuse
  <2>2. \A s : s \in InUse' <=> s \in InUse
    BY <2>1 DEF InUse
  <2> QED
    BY <1>1, <2>1, <2>2, NotesShowNothing
<1>3. ASSUME NEW t \in Traces, t.origin = traces[active_trace[w]].origin,
             t.sequence = traces[active_trace[w]].sequence, Routes(w), Note(w, t)
      PROVE  LastShown' = LastShown
  <2>1. PICK a : a = active_trace[w]
    OBVIOUS
  <2>2. a \in Slots /\ a \in InUse /\ t # None
    BY <1>3, <2>1, RoutedTraces, NoTraceAssumption
  <2>3. traces'[a] = t /\ \A s \in Slots : s # a => traces'[s] = traces[s]
    BY <1>3, <2>1, <2>2 DEF Note, TableInv, TypeInv, Tables
  <2>4. \A s : s \in InUse' <=> s \in InUse
    BY <2>2, <2>3 DEF InUse
  <2>5. \A s \in InUse : /\ traces'[s].origin = traces[s].origin
                         /\ traces'[s].sequence = traces[s].sequence
    BY <1>3, <2>1, <2>3 DEF InUse
  <2> QED
    BY <2>4, <2>5, NotesShowNothing
<1>4. CASE NoteRoute(w) \/ NoteService(w) \/ NoteCommand(w)
  <2>1. Routes(w)
    BY <1>4 DEF NoteRoute, NoteService, NoteCommand
  <2>2. /\ traces[active_trace[w]] \in Traces /\ own[w] \in Traces
    BY <2>1, RoutedTraces
  <2>3. PICK old \in Traces : old = traces[active_trace[w]]
    BY <2>2
  <2>4. own[w].sequence \in Nat /\ own[w].services \in Seq(Notes) /\ old.services \in Seq(Notes)
    BY <2>2, <2>3 DEF Traces
  <2>5. CASE NoteRoute(w)
    <3>1. PICK t : t = [old EXCEPT !.named = TRUE]
      OBVIOUS
    <3>2. t \in Traces /\ t.origin = old.origin /\ t.sequence = old.sequence
      BY <3>1, NotedTrace
    <3>3. Note(w, t)
      BY <2>3, <2>5, <3>1 DEF NoteRoute
    <3> QED
      BY <1>1, <1>3, <2>1, <2>3, <3>2, <3>3
  <2>6. CASE NoteService(w)
    <3>1. PICK note : note = [request |-> own[w].sequence, call |-> Len(own[w].services) + 1]
      OBVIOUS
    <3>2. PICK r : r = IF Len(old.services) < RICTUS_DIAG_SERVICE_MAX
                       THEN Append(old.services, note) ELSE old.services
      OBVIOUS
    <3>3. PICK t : t = [old EXCEPT !.services = r]
      OBVIOUS
    <3>4. r \in Seq(Notes)
      <4>1. note \in Notes
        BY <2>4, <3>1 DEF Notes
      <4> QED
        BY <2>4, <3>2, <4>1
    <3>5. t \in Traces /\ t.origin = old.origin /\ t.sequence = old.sequence
      BY <3>3, <3>4, NotedTrace
    <3>6. Note(w, t)
      BY <2>3, <2>6, <3>1, <3>2, <3>3 DEF NoteService
    <3> QED
      BY <1>1, <1>3, <2>1, <2>3, <3>5, <3>6
  <2>7. CASE NoteCommand(w)
    <3>1. PICK t : t = [old EXCEPT !.named = TRUE, !.command = own[w].sequence]
      OBVIOUS
    <3>2. t \in Traces /\ t.origin = old.origin /\ t.sequence = old.sequence
      BY <2>4, <3>1, NotedTrace
    <3>3. Note(w, t)
      BY <2>3, <2>7, <3>1 DEF NoteCommand
    <3> QED
      BY <1>1, <1>3, <2>1, <2>3, <3>2, <3>3
  <2> QED
    BY <1>4, <2>5, <2>6, <2>7
<1> QED
  BY <1>1, <1>2, <1>4

\* "Rictus Core retains a bounded in-memory last-request diagnostic trace per
\* sender": the table of slots is a memory of the last request of those who
\* asked most recently, for any table size, any persons and origins.
THEOREM DiagnosticsImplementsRecentRequests == Spec => ImplementsRecentRequests
<1> DEFINE shown == <<sequence_counter, LastShown>>
<1>1. Init => Requests!Init
  <2> SUFFICES ASSUME Init PROVE Requests!Init
    OBVIOUS
  <2>1. ShownFromSlots /\ InUse = {}
    BY InitialTable, PersonsAreShownTheirSlot DEF DiagInv, Init, InUse
  <2>2. LastShown = [p \in Persons |-> 0]
    BY <2>1 DEF ShownFromSlots
  <2> QED
    BY <2>2 DEF Init, Requests!Init
<1>2. DiagInv /\ DiagInv' /\ [Next]_vars => [Requests!Next]_shown
  <2> SUFFICES ASSUME DiagInv, DiagInv', [Next]_vars
               PROVE  Requests!Next \/ (sequence_counter' = sequence_counter /\ LastShown' = LastShown)
    OBVIOUS
  <2>1. TableInv /\ TableInv'
    BY DEF DiagInv
  <2>2. CASE UNCHANGED vars
    <3>1. traces' = traces /\ sequence_counter' = sequence_counter
      BY <2>2 DEF vars
    <3>2. \A s : s \in InUse' <=> s \in InUse
      BY <3>1 DEF InUse
    <3> QED
      BY <2>1, <3>1, <3>2, NotesShowNothing
  <2>3. ASSUME NEW w \in Workers, NEW o \in Origins, Begin(w, o) PROVE Requests!Next
    <3>1. Requests!Ask(Person[o]) /\ Person[o] \in Persons
      BY <2>1, <2>3, BeginIsAsked DEF Persons
    <3> QED
      BY <3>1 DEF Requests!Next
  <2>4. ASSUME NEW w \in Workers, NoteRoute(w) \/ NoteService(w) \/ NoteCommand(w) \/ Refuse(w)
        PROVE  sequence_counter' = sequence_counter /\ LastShown' = LastShown
    BY <2>1, <2>4, RoutingAsksNothing
  <2> QED
    BY <2>2, <2>3, <2>4 DEF Next
<1> QED
  BY <1>1, <1>2, DiagInvAlways, PTL
     DEF Spec, ImplementsRecentRequests, Requests!Spec, Requests!vars
=============================================================================
