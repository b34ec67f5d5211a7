-------------------------- MODULE ModuleHost_proofs --------------------------
(***************************************************************************)
(* Proofs about ModuleHost, for any threads, modules, names and sizes of   *)
(* the tables, and any nesting of the handlers.                            *)
(*                                                                         *)
(* The inductive invariant HostInv adds to the four properties that a free *)
(* slot is clean (EntriesSound), that an entry being withdrawn has one     *)
(* thread waiting on it (DrainsApart), and that only finitely many calls   *)
(* are inside a slot, without which in_flight could count nothing.         *)
(***************************************************************************)
EXTENDS ModuleHost, FiniteSetTheorems, SequenceTheorems, WellFoundedInduction, TLAPS

\* A free slot has no name, no call in flight and no withdrawal going on; an
\* entry has the name of its table.
EntriesSound ==
  \A s \in Slots :
    /\ entries[s].handler = None =>
         entries[s].name = None /\ entries[s].in_flight = 0 /\ ~entries[s].withdrawing
    /\ entries[s].handler # None => entries[s].name \in AllNames

\* A thread in the drain loop waits on an entry it has marked, alone.
DrainsApart ==
  \A t \in Threads : ~Running(t) =>
    /\ entries[draining[t]].handler # None
    /\ entries[draining[t]].withdrawing
    /\ \A u \in Threads : draining[u] = draining[t] => u = t

CallsFinite == \A s \in Slots : IsFiniteSet(CallsInside(s))

HostInv ==
  /\ TypeOK
  /\ EntriesSound
  /\ DrainsApart
  /\ CallsFinite
  /\ InFlightExact
  /\ CallsKeepTheirEntry
  /\ NoCallIntoUnloadedCode
  /\ ClaimsMatchTables

-----------------------------------------------------------------------------
(* A set of slots of one table that is not empty has a first slot.         *)
LEMMA FirstSlot ==
  ASSUME NEW kind \in Kinds, NEW S, S \subseteq Table(kind), S # {}
  PROVE  \E s \in S : \A u \in S : s[2] <= u[2]
  <1> DEFINE T == {s[2] : s \in S}
             less == OpToRel(<, Nat)
  <1>1. \A s \in S : s[2] \in Nat
    BY HostAssumption DEF Table, Kinds
  <1>2. T \subseteq Nat /\ T # {}
    BY <1>1
  <1>3. \A x, y \in Nat : <<x, y>> \in less <=> x < y
    BY DEF OpToRel
  <1>4. IsWellFoundedOn(less, Nat)
    BY NatLessThanWellFounded
  <1> HIDE DEF T, less
  <1>5. PICK x \in T : \A y \in T : ~(<<y, x>> \in less)
    BY <1>2, <1>4, WFMin
  <1>6. x \in Nat /\ \A y \in T : y \in Nat
    BY <1>2
  <1>7. ASSUME NEW y \in T PROVE x <= y
    <2>1. ~(<<y, x>> \in less)
      BY <1>5
    <2>2. ~(y < x)
      BY <2>1, <1>3, <1>6, Zenon
    <2>3. QED
      BY <2>2, <1>6
  <1>8. QED
    BY <1>7 DEF T

(* Where there is a free slot, FirstFree is one.                           *)
LEMMA FirstFreeIsFree ==
  ASSUME NEW kind \in Kinds, FreeSlots(kind) # {}
  PROVE  FirstFree(kind) \in FreeSlots(kind)
  <1>1. FreeSlots(kind) \subseteq Table(kind)
    BY DEF FreeSlots
  <1>2. \E s \in FreeSlots(kind) : \A u \in FreeSlots(kind) : s[2] <= u[2]
    BY <1>1, FirstSlot
  <1>3. QED
    BY <1>2 DEF FirstFree

(* The two tables have no slot in common.                                  *)
LEMMA TablesApart ==
  /\ \A s \in Slots : s[1] \in Kinds
  /\ \A kind \in Kinds : \A s : s \in Table(kind) <=> s \in Slots /\ s[1] = kind
  BY DEF Slots, Table, Kinds

(* What Charged leaves of a stack: the same handlers, in the same slots.   *)
LEMMA ChargedKeepsFrames ==
  ASSUME TypeOK, NEW t \in Threads, Proceeding(t)
  PROVE  /\ Charged(t) \in Seq(Frames)
         /\ Len(Charged(t)) = Len(stack[t])
         /\ \A i \in 1 .. Len(stack[t]) :
              /\ Charged(t)[i].slot = stack[t][i].slot
              /\ Charged(t)[i].name = stack[t][i].name
              /\ Charged(t)[i].handler = stack[t][i].handler
  <1> DEFINE q == stack[t]
             n == Len(q)
  <1>1. q \in Seq(Frames)
    BY DEF TypeOK
  <1>2. CASE Idle(t)
    BY <1>2, EmptySeq DEF Idle, Charged
  <1>3. CASE ~Idle(t)
    <2>1. n \in 1 .. Len(q) /\ q # <<>>
      BY <1>1, <1>3, EmptySeq, LenProperties DEF Idle
    <2>2. q[n] \in Frames /\ q[n].calls > 0
      BY <1>1, <1>3, <2>1, ElementOfSeq DEF Proceeding, Top
    <2> DEFINE f == [q[n] EXCEPT !.calls = @ - 1]
    <2>3. /\ f \in Frames /\ f.slot = q[n].slot
          /\ f.name = q[n].name /\ f.handler = q[n].handler
      BY <2>2 DEF Frames
    <2>4. Charged(t) = [q EXCEPT ![n] = f]
      BY <1>3 DEF Charged
    <2> HIDE DEF f
    <2>5. QED
      BY <1>1, <2>1, <2>3, <2>4, ExceptSeq
  <1>4. QED
    BY <1>2, <1>3

(* A thread whose stack keeps its slots changes no set of calls.           *)
LEMMA SameSlotsSameCalls ==
  ASSUME TypeOK, NEW t \in Threads, NEW q, stack' = [stack EXCEPT ![t] = q],
         Len(q) = Len(stack[t]),
         \A i \in 1 .. Len(stack[t]) : q[i].slot = stack[t][i].slot
  PROVE  \A s : CallsInside(s)' = CallsInside(s)
  BY DEF TypeOK, CallsInside

(* The calls inside a slot, by thread and depth.                           *)
LEMMA CallsInsideMembers ==
  ASSUME NEW s, NEW c
  PROVE  c \in CallsInside(s) <=>
           \E t \in Threads : \E i \in 1 .. Len(stack[t]) :
             c = <<t, i>> /\ stack[t][i].slot = s
  BY DEF CallsInside

(* What a frame on a stack is.                                             *)
LEMMA FrameType ==
  ASSUME TypeOK, NEW t \in Threads, NEW i \in 1 .. Len(stack[t])
  PROVE  /\ stack[t][i] \in Frames /\ stack[t][i].slot \in Slots
         /\ stack[t][i].handler \in Modules /\ stack[t][i].handler # None
  <1>1. stack[t] \in Seq(Frames)
    BY DEF TypeOK
  <1>2. stack[t][i] \in Frames
    BY <1>1, ElementOfSeq
  <1>3. QED
    BY <1>2, HostAssumption DEF Frames

(* A step that only charges a handler leaves every frame in its place.     *)
LEMMA ChargedStack ==
  ASSUME TypeOK, NEW t \in Threads, Proceeding(t),
         stack' = [stack EXCEPT ![t] = Charged(t)]
  PROVE  /\ stack' \in [Threads -> Seq(Frames)]
         /\ \A s : CallsInside(s)' = CallsInside(s)
         /\ \A u \in Threads :
              /\ Len(stack'[u]) = Len(stack[u])
              /\ \A i \in 1 .. Len(stack[u]) :
                   /\ stack'[u][i].slot = stack[u][i].slot
                   /\ stack'[u][i].name = stack[u][i].name
                   /\ stack'[u][i].handler = stack[u][i].handler
  <1> DEFINE q == Charged(t)
  <1>1. /\ q \in Seq(Frames) /\ Len(q) = Len(stack[t])
        /\ \A i \in 1 .. Len(stack[t]) : /\ q[i].slot = stack[t][i].slot
                                       /\ q[i].name = stack[t][i].name
                                       /\ q[i].handler = stack[t][i].handler
    BY ChargedKeepsFrames
  <1>2. stack \in [Threads -> Seq(Frames)]
    BY DEF TypeOK
  <1>3. stack' = [stack EXCEPT ![t] = q]
    OBVIOUS
  <1> HIDE DEF q
  <1>4. \A s : CallsInside(s)' = CallsInside(s)
    BY <1>1, <1>3, SameSlotsSameCalls
  <1>5. QED
    BY <1>1, <1>2, <1>3, <1>4

(* Claims and tables keep agreeing while no name or handler changes.       *)
LEMMA SameNamesSameClaims ==
  ASSUME TypeOK, ClaimsMatchTables, claims' = claims,
         \A s \in Slots : /\ entries'[s].handler = entries[s].handler
                        /\ entries'[s].name = entries[s].name
  PROVE  ClaimsMatchTables'
  <1>1. \A s \in Slots : entries'[s].handler # None =>
          <<s[1], entries'[s].name>> \in claims'[entries'[s].handler]
    BY DEF ClaimsMatchTables
  <1>2. ASSUME NEW m \in Modules, NEW c \in claims[m]
        PROVE  \E s \in Table(c[1]) :
                 /\ entries'[s].name = c[2] /\ entries'[s].handler = m
                 /\ \A u \in Table(c[1]) : entries'[u].name = c[2] => u = s
    <2>1. c[1] \in Kinds
      BY DEF TypeOK
    <2>2. \A u \in Table(c[1]) : u \in Slots
      BY <2>1, TablesApart
    <2>3. PICK s \in Table(c[1]) :
            /\ entries[s].name = c[2] /\ entries[s].handler = m
            /\ \A u \in Table(c[1]) : entries[u].name = c[2] => u = s
      BY DEF ClaimsMatchTables
    <2>4. QED
      BY <2>2, <2>3
  <1>3. QED
    BY <1>1, <1>2 DEF ClaimsMatchTables

-----------------------------------------------------------------------------
(* Core's own steps leave the tables and the stacks alone; what they unmap *)
(* no entry and no frame is using.                                         *)
LEMMA CoreStepKeepsHostInv ==
  ASSUME HostInv, UNCHANGED <<entries, stack, draining, claims>>,
         registering' \in Modules \cup {None}, loaded' \subseteq Modules,
         \A s \in Slots : entries[s].handler # None => entries[s].handler \in loaded'
  PROVE  HostInv'
  <1>1. TypeOK'
    BY DEF HostInv, TypeOK
  <1>2. \A s : CallsInside(s)' = CallsInside(s)
    BY DEF CallsInside
  <1>3. EntriesSound' /\ CallsFinite' /\ InFlightExact'
    BY <1>2 DEF HostInv, EntriesSound, CallsFinite, InFlightExact
  <1>4. DrainsApart' /\ CallsKeepTheirEntry' /\ ClaimsMatchTables'
    BY DEF HostInv, DrainsApart, Running, CallsKeepTheirEntry, ClaimsMatchTables
  <1>5. NoCallIntoUnloadedCode'
    <2>1. ASSUME NEW t \in Threads, NEW i \in 1 .. Len(stack[t])
          PROVE  stack[t][i].handler \in loaded'
      <3>1. stack[t] \in Seq(Frames)
        BY DEF HostInv, TypeOK
      <3>2. stack[t][i] \in Frames
        BY <3>1, ElementOfSeq
      <3>3. stack[t][i].slot \in Slots /\ stack[t][i].handler # None
        BY <3>2, HostAssumption DEF Frames
      <3>4. entries[stack[t][i].slot].handler = stack[t][i].handler
        BY DEF HostInv, CallsKeepTheirEntry
      <3>5. QED
        BY <3>3, <3>4
    <2>2. QED
      BY <2>1 DEF NoCallIntoUnloadedCode
  <1>6. QED
    BY <1>1, <1>3, <1>4, <1>5 DEF HostInv

(* Loading, the end of start() and unloading keep the invariant: a module  *)
(* without claims has no entry.                                            *)
LEMMA ModularityStep ==
  ASSUME HostInv, Modularity
  PROVE  HostInv'
  <1>1. ASSUME NEW m \in Modules, BeginRegistration(m) PROVE HostInv'
    <2>1. loaded' \subseteq Modules /\ registering' \in Modules \cup {None}
      BY <1>1 DEF HostInv, TypeOK, BeginRegistration
    <2>2. \A s \in Slots : entries[s].handler # None => entries[s].handler \in loaded'
      BY <1>1 DEF HostInv, NoCallIntoUnloadedCode, BeginRegistration
    <2>3. QED
      BY <1>1, <2>1, <2>2, CoreStepKeepsHostInv DEF BeginRegistration
  <1>2. ASSUME EndRegistration PROVE HostInv'
    <2>1. loaded' \subseteq Modules /\ registering' \in Modules \cup {None}
      BY <1>2 DEF HostInv, TypeOK, EndRegistration
    <2>2. \A s \in Slots : entries[s].handler # None => entries[s].handler \in loaded'
      BY <1>2 DEF HostInv, NoCallIntoUnloadedCode, EndRegistration
    <2>3. QED
      BY <1>2, <2>1, <2>2, CoreStepKeepsHostInv DEF EndRegistration
  <1>3. ASSUME NEW m \in Modules, Unload(m) PROVE HostInv'
    <2>1. loaded' \subseteq Modules /\ registering' \in Modules \cup {None}
      BY <1>3 DEF HostInv, TypeOK, Unload
    <2>2. ASSUME NEW s \in Slots, entries[s].handler # None
          PROVE  entries[s].handler \in loaded'
      <3>1. entries[s].handler # m
        BY <1>3, <2>2 DEF HostInv, ClaimsMatchTables, Unload
      <3>2. QED
        BY <1>3, <2>2, <3>1 DEF HostInv, NoCallIntoUnloadedCode, Unload
    <2>3. QED
      BY <1>3, <2>1, <2>2, CoreStepKeepsHostInv DEF Unload
  <1>4. QED
    BY <1>1, <1>2, <1>3 DEF Modularity

(* A call enters an open entry and is counted by it, and by no other.      *)
LEMMA CallStep ==
  ASSUME HostInv, NEW t \in Threads, NEW kind \in Kinds, NEW n \in AllNames,
         NEW s \in Table(kind), Call(t, kind, n, s)
  PROVE  HostInv'
  <1> DEFINE f == [slot |-> s, name |-> n, handler |-> entries[s].handler, calls |-> MaxCalls]
             q == Append(Charged(t), f)
             depth == Len(stack[t])
  <1>1. s \in Slots
    BY TablesApart
  <1>2. /\ Proceeding(t) /\ entries[s].handler # None
        /\ ~entries[s].withdrawing /\ entries[s].name = n
        /\ entries' = [entries EXCEPT ![s].in_flight = @ + 1]
        /\ stack' = [stack EXCEPT ![t] = q]
        /\ UNCHANGED <<draining, registering, loaded, claims>>
    BY DEF Call, Open
  <1>3. /\ entries[s] \in Entries /\ stack[t] \in Seq(Frames)
        /\ stack \in [Threads -> Seq(Frames)] /\ entries \in [Slots -> Entries]
    BY <1>1 DEF HostInv, TypeOK
  <1>4. depth \in Nat
    BY <1>3, LenProperties
  <1>5. f \in Frames /\ f.slot = s /\ f.name = n /\ f.handler = entries[s].handler
    BY <1>1, <1>2, <1>3, HostAssumption DEF Frames, Entries
  <1>6. /\ Charged(t) \in Seq(Frames) /\ Len(Charged(t)) = depth
        /\ \A i \in 1 .. depth : /\ Charged(t)[i].slot = stack[t][i].slot
                                /\ Charged(t)[i].name = stack[t][i].name
                                /\ Charged(t)[i].handler = stack[t][i].handler
    BY <1>2, ChargedKeepsFrames DEF HostInv
  <1> HIDE DEF f
  <1>7. /\ q \in Seq(Frames) /\ Len(q) = depth + 1 /\ q[depth + 1] = f
        /\ \A i \in 1 .. depth : /\ q[i].slot = stack[t][i].slot
                                /\ q[i].name = stack[t][i].name
                                /\ q[i].handler = stack[t][i].handler
    BY <1>5, <1>6, AppendProperties
  <1> HIDE DEF q
  <1>8. /\ stack'[t] = q /\ Len(stack'[t]) = depth + 1
        /\ \A u \in Threads : u # t => stack'[u] = stack[u]
    BY <1>2, <1>3, <1>7
  <1>9. /\ entries'[s] = [entries[s] EXCEPT !.in_flight = @ + 1]
        /\ \A u \in Slots : u # s => entries'[u] = entries[u]
        /\ \A u \in Slots : /\ entries'[u].handler = entries[u].handler
                           /\ entries'[u].name = entries[u].name
                           /\ entries'[u].withdrawing = entries[u].withdrawing
        /\ entries'[s].in_flight = entries[s].in_flight + 1
    BY <1>1, <1>2, <1>3 DEF Entries
  <1>10. TypeOK'
    <2> DEFINE e == [entries[s] EXCEPT !.in_flight = @ + 1]
    <2>0. e \in Entries
      <3>1. entries[s].in_flight + 1 \in Nat
        BY <1>3 DEF Entries
      <3>2. \A k \in Nat : [entries[s] EXCEPT !.in_flight = k] \in Entries
        BY <1>3, Zenon DEF Entries
      <3>3. QED
        BY <3>1, <3>2
    <2>1. entries' \in [Slots -> Entries]
      BY <1>2, <1>3, <2>0, Zenon
    <2>2. stack' \in [Threads -> Seq(Frames)]
      BY <1>2, <1>3, <1>7
    <2>3. QED
      BY <1>2, <2>1, <2>2 DEF HostInv, TypeOK
  <1> HIDE DEF depth
  <1>11. \A i : i \in 1 .. depth + 1 <=> i \in 1 .. depth \/ i = depth + 1
    BY <1>4
  <1>12. depth + 1 \notin 1 .. depth /\ depth + 1 \in 1 .. depth + 1
    BY <1>4
  <1>13. \A u : CallsInside(u)' =
           IF u = s THEN CallsInside(u) \cup {<<t, depth + 1>>} ELSE CallsInside(u)
    <2>1. ASSUME NEW u, NEW c
          PROVE  c \in CallsInside(u)' <=>
                   c \in CallsInside(u) \/ (u = s /\ c = <<t, depth + 1>>)
      <3>1. c \in CallsInside(u)' <=>
              \E v \in Threads : \E i \in 1 .. Len(stack'[v]) :
                c = <<v, i>> /\ stack'[v][i].slot = u
        BY DEF CallsInside
      <3>2. c \in CallsInside(u) <=>
              \E v \in Threads : \E i \in 1 .. Len(stack[v]) :
                c = <<v, i>> /\ stack[v][i].slot = u
        BY DEF CallsInside
      <3>3. \A i \in 1 .. depth : stack'[t][i].slot = stack[t][i].slot
        BY <1>7, <1>8
      <3>4. stack'[t][depth + 1].slot = s
        BY <1>5, <1>7, <1>8
      <3>5. (\E i \in 1 .. Len(stack'[t]) : c = <<t, i>> /\ stack'[t][i].slot = u)
            <=> \/ \E i \in 1 .. Len(stack[t]) : c = <<t, i>> /\ stack[t][i].slot = u
                \/ u = s /\ c = <<t, depth + 1>>
        BY <1>8, <1>11, <3>3, <3>4, Zenon DEF depth
      <3>6. QED
        BY <1>8, <3>1, <3>2, <3>5, Zenon
    <2>2. QED
      BY <2>1
  <1>14. <<t, depth + 1>> \notin CallsInside(s)
    <2>1. \A i : <<t, depth + 1>> = <<t, i>> => i = depth + 1
      BY Zenon
    <2>2. \A v, i : <<t, depth + 1>> = <<v, i>> => v = t
      BY Zenon
    <2>3. \A i \in 1 .. Len(stack[t]) : i # depth + 1
      BY <1>12, Zenon DEF depth
    <2>4. QED
      BY <2>1, <2>2, <2>3, CallsInsideMembers, Zenon
  <1>15. CallsFinite' /\ InFlightExact'
    <2>1. ASSUME NEW u \in Slots
          PROVE  /\ IsFiniteSet(CallsInside(u)')
                 /\ entries'[u].in_flight = Cardinality(CallsInside(u)')
      <3>1. IsFiniteSet(CallsInside(u)) /\ entries[u].in_flight = Cardinality(CallsInside(u))
        BY DEF HostInv, CallsFinite, InFlightExact
      <3>2. CASE u = s
        <4> DEFINE C == CallsInside(s)
                   x == <<t, depth + 1>>
        <4>1. CallsInside(s)' = C \cup {x} /\ x \notin C
          BY <1>13, <1>14
        <4>2. IsFiniteSet(C) /\ entries[s].in_flight = Cardinality(C)
          BY <3>1, <3>2
        <4> HIDE DEF C, x
        <4>3. IsFiniteSet(C \cup {x}) /\ Cardinality(C \cup {x}) = Cardinality(C) + 1
          BY <4>1, <4>2, FS_AddElement
        <4>4. QED
          BY <1>9, <3>2, <4>1, <4>2, <4>3
      <3>3. CASE u # s
        BY <1>9, <1>13, <3>1, <3>3
      <3>4. QED
        BY <3>2, <3>3
    <2>2. QED
      BY <2>1 DEF CallsFinite, InFlightExact
  <1>16. EntriesSound' /\ DrainsApart'
    BY <1>1, <1>2, <1>9 DEF HostInv, TypeOK, EntriesSound, DrainsApart, Running
  <1>17. ASSUME NEW u \in Threads, NEW i \in 1 .. Len(stack'[u])
         PROVE  /\ entries'[stack'[u][i].slot].handler = stack'[u][i].handler
                /\ entries'[stack'[u][i].slot].name = stack'[u][i].name
                /\ stack'[u][i].handler \in loaded
    <2>1. CASE u = t /\ i = depth + 1
      BY <1>1, <1>2, <1>5, <1>7, <1>8, <1>9, <2>1 DEF HostInv, NoCallIntoUnloadedCode
    <2>2. CASE ~(u = t /\ i = depth + 1)
      <3>1. i \in 1 .. Len(stack[u])
        BY <1>8, <1>11, <1>17, <2>2, Zenon DEF depth
      <3>2. /\ stack'[u][i].slot = stack[u][i].slot
            /\ stack'[u][i].name = stack[u][i].name
            /\ stack'[u][i].handler = stack[u][i].handler
        BY <1>7, <1>8, <3>1, Zenon DEF depth
      <3>3. stack[u] \in Seq(Frames)
        BY <1>3
      <3>4. stack[u][i] \in Frames
        BY <3>1, <3>3, ElementOfSeq
      <3>5. stack[u][i].slot \in Slots
        BY <3>4 DEF Frames
      <3>6. /\ entries[stack[u][i].slot].handler = stack[u][i].handler
            /\ entries[stack[u][i].slot].name = stack[u][i].name
            /\ stack[u][i].handler \in loaded
        BY <3>1 DEF HostInv, CallsKeepTheirEntry, NoCallIntoUnloadedCode
      <3>7. QED
        BY <1>9, <3>2, <3>5, <3>6
    <2>3. QED
      BY <2>1, <2>2
  <1>18. CallsKeepTheirEntry' /\ NoCallIntoUnloadedCode'
    BY <1>2, <1>9, <1>17 DEF HostInv, CallsKeepTheirEntry, NoCallIntoUnloadedCode
  <1>19. ClaimsMatchTables'
    BY <1>2, <1>9, SameNamesSameClaims DEF HostInv
  <1>20. QED
    BY <1>10, <1>15, <1>16, <1>18, <1>19 DEF HostInv

(* A return leaves the entry that was entered, which counts one call less. *)
LEMMA ReturnStep ==
  ASSUME HostInv, NEW t \in Threads, Return(t)
  PROVE  HostInv'
  <1>0. PICK s : s = Top(t).slot
    OBVIOUS
  <1> DEFINE depth == Len(stack[t])
             q == SubSeq(stack[t], 1, depth - 1)
             e == [entries[s] EXCEPT !.in_flight = @ - 1]
  <1>1. /\ stack[t] # <<>> /\ entries' = [entries EXCEPT ![s] = e]
        /\ stack' = [stack EXCEPT ![t] = q]
        /\ UNCHANGED <<draining, registering, loaded, claims>>
    BY <1>0 DEF Return, Idle
  <1>2. /\ stack[t] \in Seq(Frames) /\ stack \in [Threads -> Seq(Frames)]
        /\ entries \in [Slots -> Entries]
    BY DEF HostInv, TypeOK
  <1>3. depth \in Nat \ {0}
    BY <1>1, <1>2, EmptySeq
  <1>4. depth \in 1 .. depth /\ depth - 1 \in Int /\ 1 \in Int
    BY <1>3
  <1>5. s \in Slots
    BY <1>0, <1>4, FrameType DEF HostInv, Top
  <1>6. \A i \in 1 .. depth - 1 : i \in 1 .. depth /\ 1 + i - 1 = i
    BY <1>3
  <1>7. \A i \in 1 .. depth - 1 : stack[t][i] \in Frames
    BY <1>2, <1>6, ElementOfSeq
  <1>8. /\ q \in Seq(Frames) /\ Len(q) = depth - 1
        /\ \A i \in 1 .. depth - 1 : q[i] = stack[t][i]
    <2> DEFINE k == depth - 1
    <2>1. k \in Nat /\ k \in Int /\ \A i \in 1 .. k : stack[t][i] \in Frames
      BY <1>3, <1>7
    <2> HIDE DEF k
    <2>2. /\ SubSeq(stack[t], 1, k) \in Seq(Frames)
          /\ Len(SubSeq(stack[t], 1, k)) = IF 1 <= k THEN k - 1 + 1 ELSE 0
          /\ \A i \in 1 .. k - 1 + 1 : SubSeq(stack[t], 1, k)[i] = stack[t][1 + i - 1]
      BY <2>1, <1>4, SubSeqProperties
    <2>3. k - 1 + 1 = k /\ (~(1 <= k) => k = 0)
      BY <2>1
    <2>4. SubSeq(stack[t], 1, k) = q
      BY DEF k
    <2>5. QED
      BY <1>6, <2>2, <2>3, <2>4 DEF k
  <1> HIDE DEF q
  <1>9. /\ stack'[t] = q /\ Len(stack'[t]) = depth - 1
        /\ \A u \in Threads : u # t => stack'[u] = stack[u]
    BY <1>1, <1>2, <1>8
  <1>10. \A i : i \in 1 .. depth <=> i \in 1 .. depth - 1 \/ i = depth
    BY <1>3
  <1>11. depth \notin 1 .. depth - 1
    BY <1>3
  <1>12. stack[t][depth].slot = s
    BY <1>0 DEF Top
  <1> HIDE DEF depth
  <1>13. \A u : CallsInside(u)' =
           IF u = s THEN CallsInside(u) \ {<<t, depth>>} ELSE CallsInside(u)
    <2>1. ASSUME NEW u, NEW c
          PROVE  c \in CallsInside(u)' <=>
                   c \in CallsInside(u) /\ ~(u = s /\ c = <<t, depth>>)
      <3>1. c \in CallsInside(u)' <=>
              \E v \in Threads : \E i \in 1 .. Len(stack'[v]) :
                c = <<v, i>> /\ stack'[v][i].slot = u
        BY DEF CallsInside
      <3>2. c \in CallsInside(u) <=>
              \E v \in Threads : \E i \in 1 .. Len(stack[v]) :
                c = <<v, i>> /\ stack[v][i].slot = u
        BY CallsInsideMembers
      <3>3. \A i \in 1 .. depth - 1 : stack'[t][i] = stack[t][i]
        BY <1>8, <1>9
      <3>4. /\ \A i, j : <<t, i>> = <<t, j>> => i = j
            /\ \A v, i, j : <<v, i>> = <<t, j>> => v = t
        BY Zenon
      <3>5. (\E i \in 1 .. Len(stack'[t]) : c = <<t, i>> /\ stack'[t][i].slot = u)
            <=> /\ \E i \in 1 .. Len(stack[t]) : c = <<t, i>> /\ stack[t][i].slot = u
                /\ c # <<t, depth>>
        BY <1>9, <1>10, <1>11, <3>3, <3>4, Zenon DEF depth
      <3>6. \A v \in Threads : v # t =>
              ((\E i \in 1 .. Len(stack'[v]) : c = <<v, i>> /\ stack'[v][i].slot = u)
               <=> (\E i \in 1 .. Len(stack[v]) : c = <<v, i>> /\ stack[v][i].slot = u))
        BY <1>9, Zenon
      <3>7. c = <<t, depth>> => (c \in CallsInside(u) => u = s)
        BY <1>12, <3>2, <3>4, Zenon
      <3>8. c = <<t, depth>> => \A v \in Threads : v # t =>
              ~ \E i \in 1 .. Len(stack[v]) : c = <<v, i>>
        BY <3>4, Zenon
      <3>9. CASE c = <<t, depth>>
        <4>1. c \notin CallsInside(u)'
          BY <3>1, <3>5, <3>6, <3>8, <3>9, Zenon
        <4>2. QED
          BY <3>7, <3>9, <4>1
      <3>10. CASE c # <<t, depth>>
        BY <3>1, <3>2, <3>5, <3>6, <3>10, Zenon
      <3>11. QED
        BY <3>9, <3>10
    <2>2. QED
      BY <2>1
  <1>14. <<t, depth>> \in CallsInside(s)
    BY <1>4, <1>12, CallsInsideMembers, Zenon DEF depth
  <1> DEFINE C == CallsInside(s)
             x == <<t, depth>>
  <1>15. IsFiniteSet(C) /\ entries[s].in_flight = Cardinality(C) /\ x \in C
    BY <1>5, <1>14 DEF HostInv, CallsFinite, InFlightExact
  <1>16. CallsInside(s)' = C \ {x}
    BY <1>13
  <1> HIDE DEF C, x
  <1>17. /\ IsFiniteSet(C \ {x}) /\ Cardinality(C \ {x}) = Cardinality(C) - 1
         /\ Cardinality(C \ {x}) \in Nat
    BY <1>15, FS_RemoveElement, FS_CardinalityType
  <1>18. e \in Entries /\ e.in_flight = Cardinality(C \ {x})
         /\ e.handler = entries[s].handler /\ e.name = entries[s].name
         /\ e.withdrawing = entries[s].withdrawing
    <2>1. entries[s] \in Entries
      BY <1>2, <1>5
    <2>2. entries[s].in_flight - 1 \in Nat
      BY <1>15, <1>17
    <2>3. \A k \in Nat : [entries[s] EXCEPT !.in_flight = k] \in Entries
      BY <2>1, Zenon DEF Entries
    <2>4. e \in Entries
      BY <2>2, <2>3
    <2>5. QED
      BY <1>15, <1>17, <2>1, <2>4 DEF Entries
  <1> HIDE DEF e
  <1>19. /\ entries'[s] = e
         /\ \A u \in Slots : u # s => entries'[u] = entries[u]
         /\ \A u \in Slots : /\ entries'[u].handler = entries[u].handler
                            /\ entries'[u].name = entries[u].name
                            /\ entries'[u].withdrawing = entries[u].withdrawing
    BY <1>1, <1>2, <1>5, <1>18
  <1>20. TypeOK'
    BY <1>1, <1>2, <1>8, <1>18 DEF HostInv, TypeOK
  <1>21. CallsFinite' /\ InFlightExact'
    <2>1. ASSUME NEW u \in Slots
          PROVE  /\ IsFiniteSet(CallsInside(u)')
                 /\ entries'[u].in_flight = Cardinality(CallsInside(u)')
      <3>1. CASE u = s
        BY <1>16, <1>17, <1>18, <1>19, <3>1
      <3>2. CASE u # s
        BY <1>13, <1>19, <3>2 DEF HostInv, CallsFinite, InFlightExact
      <3>3. QED
        BY <3>1, <3>2
    <2>2. QED
      BY <2>1 DEF CallsFinite, InFlightExact
  <1>22. entries[s].handler # None
    BY <1>4, <1>12, FrameType DEF HostInv, CallsKeepTheirEntry, depth
  <1>23. EntriesSound' /\ DrainsApart'
    BY <1>1, <1>5, <1>19, <1>22
       DEF HostInv, TypeOK, EntriesSound, DrainsApart, Running
  <1>24. ASSUME NEW u \in Threads, NEW i \in 1 .. Len(stack'[u])
         PROVE  /\ entries'[stack'[u][i].slot].handler = stack'[u][i].handler
                /\ entries'[stack'[u][i].slot].name = stack'[u][i].name
                /\ stack'[u][i].handler \in loaded
    <2>1. i \in 1 .. Len(stack[u]) /\ stack'[u][i] = stack[u][i]
      BY <1>6, <1>8, <1>9, <1>24, Zenon DEF depth
    <2>2. stack[u][i].slot \in Slots
      BY <2>1, FrameType DEF HostInv
    <2>3. /\ entries[stack[u][i].slot].handler = stack[u][i].handler
          /\ entries[stack[u][i].slot].name = stack[u][i].name
          /\ stack[u][i].handler \in loaded
      BY <2>1 DEF HostInv, CallsKeepTheirEntry, NoCallIntoUnloadedCode
    <2>4. QED
      BY <1>19, <2>1, <2>2, <2>3
  <1>25. CallsKeepTheirEntry' /\ NoCallIntoUnloadedCode'
    BY <1>1, <1>19, <1>24 DEF HostInv, CallsKeepTheirEntry, NoCallIntoUnloadedCode
  <1>26. ClaimsMatchTables'
    BY <1>1, <1>19, SameNamesSameClaims DEF HostInv
  <1>27. QED
    BY <1>20, <1>21, <1>23, <1>25, <1>26 DEF HostInv

(* A step that charges at most one handler and keeps the counts keeps them *)
(* exact.                                                                  *)
LEMMA SameCallsSameCounts ==
  ASSUME HostInv, \A s : CallsInside(s)' = CallsInside(s),
         \A s \in Slots : entries'[s].in_flight = entries[s].in_flight
  PROVE  CallsFinite' /\ InFlightExact'
  BY DEF HostInv, CallsFinite, InFlightExact

(* Frames that keep their places stay inside loaded code, through entries  *)
(* that stay what they were.                                               *)
LEMMA SameFramesSameEntries ==
  ASSUME HostInv, loaded' = loaded,
         \A t \in Threads :
           /\ Len(stack'[t]) = Len(stack[t])
           /\ \A i \in 1 .. Len(stack[t]) :
                /\ stack'[t][i].slot = stack[t][i].slot
                /\ stack'[t][i].name = stack[t][i].name
                /\ stack'[t][i].handler = stack[t][i].handler
                /\ entries'[stack[t][i].slot].handler = entries[stack[t][i].slot].handler
                /\ entries'[stack[t][i].slot].name = entries[stack[t][i].slot].name,
         \A s \in Slots : entries'[s].handler # None => entries'[s].handler \in loaded
  PROVE  CallsKeepTheirEntry' /\ NoCallIntoUnloadedCode'
  <1>1. CallsKeepTheirEntry'
    BY DEF HostInv, CallsKeepTheirEntry
  <1>2. NoCallIntoUnloadedCode'
    BY DEF HostInv, NoCallIntoUnloadedCode
  <1>3. QED
    BY <1>1, <1>2

(* A withdrawal marks an open entry and is the only one waiting on it.     *)
LEMMA WithdrawStep ==
  ASSUME HostInv, NEW t \in Threads, NEW kind \in Kinds, NEW n \in AllNames,
         NEW m \in Modules, NEW s \in Table(kind), Withdraw(t, kind, n, m, s)
  PROVE  HostInv'
  <1> DEFINE e == [entries[s] EXCEPT !.withdrawing = TRUE]
  <1>1. s \in Slots
    BY TablesApart
  <1>2. /\ Proceeding(t) /\ Running(t) /\ entries[s].handler # None
        /\ ~entries[s].withdrawing
        /\ entries' = [entries EXCEPT ![s] = e]
        /\ stack' = [stack EXCEPT ![t] = Charged(t)]
        /\ draining' = [draining EXCEPT ![t] = s]
        /\ UNCHANGED <<registering, loaded, claims>>
    BY DEF Withdraw, Open, Proceeding
  <1>3. entries \in [Slots -> Entries] /\ draining \in [Threads -> Slots \cup {NoSlot}]
    BY DEF HostInv, TypeOK
  <1>4. /\ e \in Entries /\ e.withdrawing /\ e.handler = entries[s].handler
        /\ e.name = entries[s].name /\ e.in_flight = entries[s].in_flight
    <2>1. entries[s] \in Entries
      BY <1>1, <1>3
    <2>2. QED
      BY <2>1, Zenon DEF Entries
  <1> HIDE DEF e
  <1>5. /\ entries'[s] = e
        /\ \A u \in Slots : u # s => entries'[u] = entries[u]
        /\ \A u \in Slots : /\ entries'[u].handler = entries[u].handler
                           /\ entries'[u].name = entries[u].name
                           /\ entries'[u].in_flight = entries[u].in_flight
    BY <1>1, <1>2, <1>3, <1>4
  <1>6. /\ stack' \in [Threads -> Seq(Frames)]
        /\ \A u : CallsInside(u)' = CallsInside(u)
        /\ \A u \in Threads :
             /\ Len(stack'[u]) = Len(stack[u])
             /\ \A i \in 1 .. Len(stack[u]) :
                  /\ stack'[u][i].slot = stack[u][i].slot
                  /\ stack'[u][i].name = stack[u][i].name
                  /\ stack'[u][i].handler = stack[u][i].handler
    BY <1>2, ChargedStack DEF HostInv
  <1>7. TypeOK'
    BY <1>1, <1>2, <1>3, <1>4, <1>6 DEF HostInv, TypeOK
  <1>8. EntriesSound'
    BY <1>1, <1>2, <1>4, <1>5 DEF HostInv, EntriesSound
  <1>9. DrainsApart'
    <2>1. \A u \in Threads : draining[u] # s
      BY <1>1, <1>2, NoSlotAssumption DEF HostInv, DrainsApart, Running
    <2>2. draining'[t] = s /\ \A u \in Threads : u # t => draining'[u] = draining[u]
      BY <1>2, <1>3
    <2>3. \A u \in Threads : draining[u] # NoSlot => draining[u] \in Slots
      BY <1>3
    <2>4. ASSUME NEW v \in Threads, draining'[v] # NoSlot
          PROVE  /\ entries'[draining'[v]].handler # None
                 /\ entries'[draining'[v]].withdrawing
                 /\ \A u \in Threads : draining'[u] = draining'[v] => u = v
      <3>1. CASE v = t
        BY <1>2, <1>4, <1>5, <2>1, <2>2, <3>1
      <3>2. CASE v # t
        <4>1. draining'[v] = draining[v] /\ draining[v] \in Slots /\ draining[v] # s
          BY <2>1, <2>2, <2>3, <2>4, <3>2
        <4>2. /\ entries[draining[v]].handler # None /\ entries[draining[v]].withdrawing
              /\ \A u \in Threads : draining[u] = draining[v] => u = v
          BY <2>4, <4>1 DEF HostInv, DrainsApart, Running
        <4>3. QED
          BY <1>5, <2>2, <4>1, <4>2
      <3>3. QED
        BY <3>1, <3>2
    <2>5. QED
      BY <2>4 DEF DrainsApart, Running
  <1>10. CallsFinite' /\ InFlightExact'
    BY <1>5, <1>6, SameCallsSameCounts
  <1>11. CallsKeepTheirEntry' /\ NoCallIntoUnloadedCode'
    <2>1. \A u \in Threads : \A i \in 1 .. Len(stack[u]) : stack[u][i].slot \in Slots
      BY FrameType DEF HostInv
    <2>2. \A u \in Slots : entries'[u].handler # None => entries'[u].handler \in loaded
      BY <1>5 DEF HostInv, NoCallIntoUnloadedCode
    <2>3. QED
      BY <1>2, <1>5, <1>6, <2>1, <2>2, SameFramesSameEntries
  <1>12. ClaimsMatchTables'
    BY <1>2, <1>5, SameNamesSameClaims DEF HostInv
  <1>13. QED
    BY <1>7, <1>8, <1>9, <1>10, <1>11, <1>12 DEF HostInv

(* The entry that is cleared has no call inside, and no other entry has    *)
(* its name: the claim goes with it.                                       *)
LEMMA FinishWithdrawStep ==
  ASSUME HostInv, NEW t \in Threads, FinishWithdraw(t)
  PROVE  HostInv'
  <1>0. PICK s : s = draining[t]
    OBVIOUS
  <1>1. PICK m : m = entries[s].handler
    OBVIOUS
  <1> DEFINE claim == <<s[1], entries[s].name>>
  <1>2. /\ draining[t] # NoSlot /\ entries[s].in_flight = 0
        /\ entries' = [entries EXCEPT ![s] = Free]
        /\ claims' = [claims EXCEPT ![m] = claims[m] \ {claim}]
        /\ draining' = [draining EXCEPT ![t] = NoSlot]
        /\ UNCHANGED <<stack, registering, loaded>>
    BY <1>0, <1>1 DEF FinishWithdraw, Running
  <1>3. /\ entries \in [Slots -> Entries] /\ claims \in [Modules -> SUBSET (Kinds \X AllNames)]
        /\ draining \in [Threads -> Slots \cup {NoSlot}]
    BY DEF HostInv, TypeOK
  <1>4. s \in Slots /\ m # None /\ entries[s].withdrawing
        /\ \A u \in Threads : draining[u] = s => u = t
    BY <1>0, <1>1, <1>2, <1>3 DEF HostInv, DrainsApart, Running
  <1>5. m \in Modules /\ entries[s].name \in AllNames
    BY <1>1, <1>3, <1>4 DEF HostInv, EntriesSound, Entries
  <1>6. Free \in Entries /\ Free.handler = None /\ Free.name = None
        /\ Free.in_flight = 0 /\ ~Free.withdrawing
    BY DEF Free, Entries
  <1>7. entries'[s] = Free /\ \A u \in Slots : u # s => entries'[u] = entries[u]
    BY <1>2, <1>3, <1>4, <1>6
  <1>8. \A u \in Threads : \A i \in 1 .. Len(stack[u]) :
          stack[u][i].slot # s /\ stack[u][i].slot \in Slots
    <2>1. CallsInside(s) = {}
      BY <1>2, <1>4, FS_EmptySet DEF HostInv, CallsFinite, InFlightExact
    <2>2. ASSUME NEW u \in Threads, NEW i \in 1 .. Len(stack[u]) PROVE stack[u][i].slot # s
      BY <2>1, CallsInsideMembers, Zenon
    <2>3. QED
      BY <2>2, FrameType DEF HostInv
  <1>9. TypeOK'
    BY <1>2, <1>3, <1>6 DEF HostInv, TypeOK
  <1>10. EntriesSound'
    BY <1>6, <1>7 DEF HostInv, EntriesSound
  <1>11. DrainsApart'
    <2>1. draining'[t] = NoSlot /\ \A u \in Threads : u # t => draining'[u] = draining[u]
      BY <1>2, <1>3
    <2>2. ASSUME NEW v \in Threads, draining'[v] # NoSlot
          PROVE  /\ entries'[draining'[v]].handler # None
                 /\ entries'[draining'[v]].withdrawing
                 /\ \A u \in Threads : draining'[u] = draining'[v] => u = v
      <3>1. /\ v # t /\ draining'[v] = draining[v]
            /\ draining[v] \in Slots /\ draining[v] # s
        BY <1>3, <1>4, <2>1, <2>2
      <3>2. /\ entries[draining[v]].handler # None /\ entries[draining[v]].withdrawing
            /\ \A u \in Threads : draining[u] = draining[v] => u = v
        BY <2>2, <3>1 DEF HostInv, DrainsApart, Running
      <3>3. QED
        BY <1>7, <2>1, <2>2, <3>1, <3>2
    <2>3. QED
      BY <2>2 DEF DrainsApart, Running
  <1>12. CallsFinite' /\ InFlightExact'
    <2>1. \A u : CallsInside(u)' = CallsInside(u)
      BY <1>2 DEF CallsInside
    <2>2. \A u \in Slots : entries'[u].in_flight = entries[u].in_flight
      BY <1>2, <1>6, <1>7
    <2>3. QED
      BY <2>1, <2>2, SameCallsSameCounts
  <1>13. CallsKeepTheirEntry' /\ NoCallIntoUnloadedCode'
    <2>1. \A u \in Slots : entries'[u].handler # None => entries'[u].handler \in loaded
      BY <1>6, <1>7 DEF HostInv, NoCallIntoUnloadedCode
    <2>2. QED
      BY <1>2, <1>7, <1>8, <2>1, SameFramesSameEntries
  <1>14. ClaimsMatchTables'
    <2>1. s \in Table(s[1]) /\ s[1] \in Kinds
      BY <1>4, TablesApart
    <2>2. \A x \in Modules : claims'[x] = IF x = m THEN claims[m] \ {claim} ELSE claims[x]
      BY <1>2, <1>3, <1>5
    <2>3. claim[1] = s[1] /\ claim[2] = entries[s].name
      OBVIOUS
    <2> HIDE DEF claim
    <2>4. ASSUME NEW u \in Slots, entries'[u].handler # None
          PROVE  <<u[1], entries'[u].name>> \in claims'[entries'[u].handler]
      <3>1. u # s /\ entries'[u] = entries[u]
        BY <1>6, <1>7, <2>4
      <3>2. <<u[1], entries[u].name>> \in claims[entries[u].handler]
        BY <2>4, <3>1 DEF HostInv, ClaimsMatchTables
      <3>3. entries[u].handler \in Modules
        BY <1>3, <2>4, <3>1 DEF Entries
      <3>4. ASSUME entries[u].handler = m, <<u[1], entries[u].name>> = claim PROVE FALSE
        <4>1. u[1] = s[1] /\ entries[u].name = entries[s].name
          BY <2>3, <3>4
        <4>2. u \in Table(s[1])
          BY <2>1, <4>1, TablesApart
        <4>3. claim \in claims[m]
          BY <3>2, <3>4
        <4>4. PICK v \in Table(claim[1]) :
                \A w \in Table(claim[1]) : entries[w].name = claim[2] => w = v
          BY <1>5, <4>3 DEF HostInv, ClaimsMatchTables
        <4>5. u = v /\ s = v
          BY <2>1, <2>3, <4>1, <4>2, <4>4
        <4>6. QED
          BY <3>1, <4>5
      <3>5. QED
        BY <2>2, <3>1, <3>2, <3>3, <3>4
    <2>5. ASSUME NEW x \in Modules, NEW c \in claims'[x]
          PROVE  \E u \in Table(c[1]) :
                   /\ entries'[u].name = c[2] /\ entries'[u].handler = x
                   /\ \A w \in Table(c[1]) : entries'[w].name = c[2] => w = u
      <3>1. c \in claims[x] /\ (x = m => c # claim)
        BY <2>2, <2>5
      <3>2. c \in Kinds \X AllNames
        BY <1>3, <3>1
      <3>3. c = <<c[1], c[2]>> /\ c[1] \in Kinds /\ c[2] \in AllNames /\ c[2] # None
        BY <3>2, HostAssumption DEF AllNames
      <3>4. PICK u \in Table(c[1]) :
              /\ entries[u].name = c[2] /\ entries[u].handler = x
              /\ \A w \in Table(c[1]) : entries[w].name = c[2] => w = u
        BY <3>1 DEF HostInv, ClaimsMatchTables
      <3>5. \A w \in Table(c[1]) : w \in Slots /\ w[1] = c[1]
        BY <3>3, TablesApart
      <3>6. u # s
        BY <1>1, <3>1, <3>3, <3>4, <3>5 DEF claim
      <3>7. entries'[u] = entries[u] /\ \A w \in Table(c[1]) : entries'[w].name = c[2] => w = u
        BY <1>6, <1>7, <3>3, <3>4, <3>5, <3>6
      <3>8. QED
        BY <3>4, <3>7
    <2>6. QED
      BY <2>4, <2>5 DEF ClaimsMatchTables
  <1>15. QED
    BY <1>9, <1>10, <1>11, <1>12, <1>13, <1>14 DEF HostInv

(* A registration fills a free slot with a name no entry has.              *)
LEMMA RegisterStep ==
  ASSUME HostInv, NEW t \in Threads, NEW kind \in Kinds, NEW n \in AllNames,
         NEW m \in Modules, Register(t, kind, n, m)
  PROVE  HostInv'
  <1>0. PICK s : s = FirstFree(kind)
    OBVIOUS
  <1>1. PICK o : o = IF t = Core /\ registering # None THEN registering
                                                      ELSE entries[s].owner
    OBVIOUS
  <1> DEFINE e == [entries[s] EXCEPT !.name = n, !.owner = o, !.handler = m]
             claim == <<kind, n>>
  <1>2. /\ Proceeding(t) /\ Executes(t, m) /\ ~Taken(kind, n) /\ FreeSlots(kind) # {}
        /\ entries' = [entries EXCEPT ![s] = e]
        /\ claims' = [claims EXCEPT ![m] = claims[m] \cup {claim}]
        /\ stack' = [stack EXCEPT ![t] = Charged(t)]
        /\ UNCHANGED <<draining, registering, loaded>>
    BY <1>0, <1>1 DEF Register
  <1>3. /\ entries \in [Slots -> Entries] /\ claims \in [Modules -> SUBSET (Kinds \X AllNames)]
        /\ registering \in Modules \cup {None}
    BY DEF HostInv, TypeOK
  <1>4. s \in Table(kind) /\ s \in Slots /\ s[1] = kind /\ entries[s].handler = None
    BY <1>0, <1>2, FirstFreeIsFree, TablesApart DEF FreeSlots
  <1>5. entries[s].name = None /\ entries[s].in_flight = 0 /\ ~entries[s].withdrawing
    BY <1>4 DEF HostInv, EntriesSound
  <1>6. o \in Modules \cup {None}
    BY <1>1, <1>3, <1>4 DEF Entries
  <1>7. /\ e \in Entries /\ e.handler = m /\ e.name = n
        /\ e.in_flight = entries[s].in_flight /\ e.withdrawing = entries[s].withdrawing
    <2>1. entries[s] \in Entries
      BY <1>3, <1>4
    <2>2. QED
      BY <1>6, <2>1, Zenon DEF Entries
  <1>8. m # None /\ n # None
    BY HostAssumption DEF AllNames
  <1>9. claim \in Kinds \X AllNames /\ claim[1] = kind /\ claim[2] = n
    OBVIOUS
  <1> HIDE DEF e, claim
  <1>10. entries'[s] = e /\ \A u \in Slots : u # s => entries'[u] = entries[u]
    BY <1>2, <1>3, <1>4, <1>7
  <1>11. /\ stack' \in [Threads -> Seq(Frames)]
         /\ \A u : CallsInside(u)' = CallsInside(u)
         /\ \A u \in Threads :
              /\ Len(stack'[u]) = Len(stack[u])
              /\ \A i \in 1 .. Len(stack[u]) :
                   /\ stack'[u][i].slot = stack[u][i].slot
                   /\ stack'[u][i].name = stack[u][i].name
                   /\ stack'[u][i].handler = stack[u][i].handler
    BY <1>2, ChargedStack DEF HostInv
  <1>12. TypeOK'
    BY <1>2, <1>3, <1>7, <1>9, <1>11 DEF HostInv, TypeOK
  <1>13. EntriesSound'
    BY <1>7, <1>8, <1>10 DEF HostInv, EntriesSound
  <1>14. DrainsApart'
    BY <1>2, <1>4, <1>10 DEF HostInv, TypeOK, DrainsApart, Running
  <1>15. CallsFinite' /\ InFlightExact'
    <2>1. \A u \in Slots : entries'[u].in_flight = entries[u].in_flight
      BY <1>7, <1>10
    <2>2. QED
      BY <1>11, <2>1, SameCallsSameCounts
  <1>16. m \in loaded
    <2>1. CASE Idle(t)
      BY <1>2, <2>1 DEF Executes
    <2>2. CASE ~Idle(t)
      <3>1. stack[t] \in Seq(Frames) /\ stack[t] # <<>>
        BY <2>2 DEF HostInv, TypeOK, Idle
      <3>2. Len(stack[t]) \in 1 .. Len(stack[t])
        BY <3>1, EmptySeq
      <3>3. QED
        BY <1>2, <2>2, <3>2 DEF Executes, Top, HostInv, NoCallIntoUnloadedCode
    <2>3. QED
      BY <2>1, <2>2
  <1>17. CallsKeepTheirEntry' /\ NoCallIntoUnloadedCode'
    <2>1. \A u \in Slots : entries'[u].handler # None => entries'[u].handler \in loaded
      BY <1>7, <1>10, <1>16 DEF HostInv, NoCallIntoUnloadedCode
    <2>2. \A u \in Threads : \A i \in 1 .. Len(stack[u]) :
            stack[u][i].slot # s /\ stack[u][i].slot \in Slots
      BY <1>4, FrameType DEF HostInv, CallsKeepTheirEntry
    <2>3. QED
      BY <1>2, <1>10, <1>11, <2>1, <2>2, SameFramesSameEntries
  <1>18. ClaimsMatchTables'
    <2>1. \A x \in Modules : claims'[x] = IF x = m THEN claims[m] \cup {claim} ELSE claims[x]
      BY <1>2, <1>3
    <2>2. ASSUME NEW u \in Slots, entries'[u].handler # None
          PROVE  <<u[1], entries'[u].name>> \in claims'[entries'[u].handler]
      <3>1. CASE u = s
        BY <1>4, <1>7, <1>10, <2>1, <3>1 DEF claim
      <3>2. CASE u # s
        <4>1. entries'[u] = entries[u] /\ entries[u].handler \in Modules
          BY <1>3, <1>10, <2>2, <3>2 DEF Entries
        <4>2. <<u[1], entries[u].name>> \in claims[entries[u].handler]
          BY <2>2, <4>1 DEF HostInv, ClaimsMatchTables
        <4>3. QED
          BY <2>1, <4>1, <4>2
      <3>3. QED
        BY <3>1, <3>2
    <2>3. \A u \in Table(kind) : u # s => entries'[u].name # n
      <3>1. ASSUME NEW u \in Table(kind), u # s, entries'[u].name = n PROVE FALSE
        <4>1. u \in Slots /\ entries[u].name = n
          BY <1>10, <3>1, TablesApart
        <4>2. entries[u].handler # None
          BY <1>8, <4>1 DEF HostInv, EntriesSound
        <4>3. QED
          BY <1>2, <4>1, <4>2 DEF Taken
      <3>2. QED
        BY <3>1
    <2>4. ASSUME NEW x \in Modules, NEW c \in claims'[x]
          PROVE  \E u \in Table(c[1]) :
                   /\ entries'[u].name = c[2] /\ entries'[u].handler = x
                   /\ \A w \in Table(c[1]) : entries'[w].name = c[2] => w = u
      <3>1. CASE x = m /\ c = claim
        BY <1>4, <1>7, <1>9, <1>10, <2>3, <3>1
      <3>2. CASE ~(x = m /\ c = claim)
        <4>1. c \in claims[x]
          BY <2>1, <2>4, <3>2
        <4>2. c[1] \in Kinds
          BY <1>3, <4>1
        <4>3. PICK u \in Table(c[1]) :
                /\ entries[u].name = c[2] /\ entries[u].handler = x
                /\ \A w \in Table(c[1]) : entries[w].name = c[2] => w = u
          BY <4>1 DEF HostInv, ClaimsMatchTables
        <4>4. \A w \in Table(c[1]) : w \in Slots /\ w[1] = c[1]
          BY <4>2, TablesApart
        <4>5. u # s /\ x # None
          BY <1>4, <4>3, HostAssumption
        <4>6. entries'[u] = entries[u]
          BY <1>10, <4>4, <4>5
        <4>7. ASSUME NEW w \in Table(c[1]), entries'[w].name = c[2] PROVE w = u
          <5>1. CASE w = s
            <6>1. c[1] = kind /\ c[2] = n
              BY <1>4, <1>7, <1>10, <4>4, <4>7, <5>1
            <6>2. QED
              BY <1>2, <4>3, <4>5, <6>1 DEF Taken
          <5>2. CASE w # s
            BY <1>10, <4>3, <4>4, <4>7, <5>2
          <5>3. QED
            BY <5>1, <5>2
        <4>8. QED
          BY <4>3, <4>6, <4>7
      <3>3. QED
        BY <3>1, <3>2
    <2>5. QED
      BY <2>2, <2>4 DEF ClaimsMatchTables
  <1>19. QED
    BY <1>12, <1>13, <1>14, <1>15, <1>17, <1>18 DEF HostInv

-----------------------------------------------------------------------------
(* Empty tables and empty stacks.                                          *)
LEMMA HostInvInit ==
  ASSUME Init
  PROVE  HostInv
  <1>1. TypeOK
    BY EmptySeq, HostAssumption DEF Init, TypeOK, Free, Entries
  <1>2. /\ \A s \in Slots : entries[s] = Free
        /\ \A t \in Threads : Len(stack[t]) = 0 /\ draining[t] = NoSlot
        /\ \A m \in Modules : claims[m] = {}
    BY DEF Init
  <1>3. \A i : i \notin 1 .. 0
    OBVIOUS
  <1>4. \A s : CallsInside(s) = {}
    <2>1. ASSUME NEW s, NEW c \in CallsInside(s) PROVE FALSE
      <3>1. PICK t \in Threads : \E i \in 1 .. Len(stack[t]) : TRUE
        BY <2>1, CallsInsideMembers
      <3>2. QED
        BY <1>2, <1>3, <3>1
    <2>2. QED
      BY <2>1
  <1>5. CallsFinite /\ InFlightExact
    <2>1. \A s : IsFiniteSet(CallsInside(s)) /\ Cardinality(CallsInside(s)) = 0
      BY <1>4, FS_EmptySet
    <2>2. \A s \in Slots : entries[s].in_flight = 0
      BY <1>2 DEF Free
    <2>3. QED
      BY <2>1, <2>2 DEF CallsFinite, InFlightExact
  <1>6. EntriesSound /\ DrainsApart
    BY <1>2 DEF EntriesSound, DrainsApart, Running, Free
  <1>7. CallsKeepTheirEntry /\ NoCallIntoUnloadedCode
    BY <1>2, <1>3 DEF CallsKeepTheirEntry, NoCallIntoUnloadedCode, Free
  <1>8. ClaimsMatchTables
    BY <1>2 DEF ClaimsMatchTables, Free
  <1>9. QED
    BY <1>1, <1>5, <1>6, <1>7, <1>8 DEF HostInv

(* Every step of any thread keeps the invariant.                           *)
LEMMA HostInvStep ==
  ASSUME HostInv, [Next]_vars
  PROVE  HostInv'
  <1>1. /\ \A n \in ServiceNames : n \in AllNames
        /\ \A n \in CommandNames : n \in AllNames
        /\ "service" \in Kinds /\ "command" \in Kinds
    BY DEF AllNames, Kinds
  <1>2. ASSUME NEW t \in Threads, Tables(t) PROVE HostInv'
    <2>1. ASSUME NEW m \in Modules, NEW n \in ServiceNames, RegisterService(t, n, m)
          PROVE  HostInv'
      BY <1>1, <2>1, RegisterStep DEF RegisterService
    <2>2. ASSUME NEW m \in Modules, NEW n \in CommandNames, RegisterCommand(t, n, m)
          PROVE  HostInv'
      BY <1>1, <2>2, RegisterStep DEF RegisterCommand
    <2>3. ASSUME NEW m \in Modules, NEW n \in ServiceNames, WithdrawService(t, n, m)
          PROVE  HostInv'
      BY <1>1, <2>3, WithdrawStep DEF WithdrawService
    <2>4. ASSUME NEW m \in Modules, NEW n \in CommandNames, WithdrawCommand(t, n, m)
          PROVE  HostInv'
      BY <1>1, <2>4, WithdrawStep DEF WithdrawCommand
    <2>5. CASE FinishWithdraw(t)
      BY <2>5, FinishWithdrawStep
    <2>6. QED
      BY <1>2, <2>1, <2>2, <2>3, <2>4, <2>5 DEF Tables
  <1>3. ASSUME NEW t \in Threads, Calls(t) PROVE HostInv'
    <2>1. ASSUME NEW n \in ServiceNames, InvokeService(t, n) PROVE HostInv'
      BY <1>1, <2>1, CallStep DEF InvokeService
    <2>2. ASSUME NEW n \in CommandNames, DispatchCommand(t, n) PROVE HostInv'
      BY <1>1, <2>2, CallStep DEF DispatchCommand
    <2>3. CASE Return(t)
      BY <2>3, ReturnStep
    <2>4. QED
      BY <1>3, <2>1, <2>2, <2>3 DEF Calls
  <1>4. CASE Modularity
    BY <1>4, ModularityStep
  <1>5. CASE UNCHANGED vars
    <2>1. /\ UNCHANGED <<entries, stack, draining, claims>>
          /\ registering' = registering /\ loaded' = loaded
      BY <1>5 DEF vars
    <2>2. registering \in Modules \cup {None} /\ loaded \subseteq Modules
      BY DEF HostInv, TypeOK
    <2>3. QED
      BY <2>1, <2>2, CoreStepKeepsHostInv DEF HostInv, NoCallIntoUnloadedCode
  <1>6. QED
    BY <1>2, <1>3, <1>4, <1>5 DEF Next

-----------------------------------------------------------------------------
(* The inductive invariant holds whatever the threads do to the tables.    *)
THEOREM HostInvAlways == Spec => []HostInv
  <1>1. Init => HostInv
    BY HostInvInit
  <1>2. HostInv /\ [Next]_vars => HostInv'
    BY HostInvStep
  <1>3. QED
    BY <1>1, <1>2, PTL DEF Spec

(* Every variable keeps its type; in_flight, a counter that only goes down *)
(* in Return, is never negative.                                           *)
THEOREM HostTypeCorrect == Spec => []TypeOK
  <1>1. HostInv => TypeOK
    BY DEF HostInv
  <1>2. QED
    BY <1>1, HostInvAlways, PTL

(* However calls nest and interleave, in_flight of a slot is the number of *)
(* calls inside its handler.                                               *)
THEOREM InFlightAlwaysExact == Spec => []InFlightExact
  <1>1. HostInv => InFlightExact
    BY DEF HostInv
  <1>2. QED
    BY <1>1, HostInvAlways, PTL

(* No slot is recycled under a call: the owner invoke_service reads after  *)
(* the handler returns is the one of the entry it called.                  *)
THEOREM CallsAlwaysKeepTheirEntry == Spec => []CallsKeepTheirEntry
  <1>1. HostInv => CallsKeepTheirEntry
    BY DEF HostInv
  <1>2. QED
    BY <1>1, HostInvAlways, PTL

(* A module unloaded once its withdrawals have returned 1 has no call      *)
(* inside it and no entry pointing into it.                                *)
THEOREM NeverCallsUnloadedCode == Spec => []NoCallIntoUnloadedCode
  <1>1. HostInv => NoCallIntoUnloadedCode
    BY DEF HostInv
  <1>2. QED
    BY <1>1, HostInvAlways, PTL

(* The modules' flags and the tables agree, and no name has two entries.   *)
THEOREM ClaimsAlwaysMatchTables == Spec => []ClaimsMatchTables
  <1>1. HostInv => ClaimsMatchTables
    BY DEF HostInv
  <1>2. QED
    BY <1>1, HostInvAlways, PTL
=============================================================================
