----------------------------- MODULE ModuleHost -----------------------------
(***************************************************************************)
(* The service and command tables of src/module_host.c, used concurrently  *)
(* by the Core thread, which starts, stops and unloads modules, and by the *)
(* modules' worker threads, which call one another's handlers through it.  *)
(*                                                                         *)
(* Every critical section under service_lock or command_lock is one step.  *)
(* A handler runs between two steps, with neither lock held: it is a frame *)
(* on its thread's stack, from the increment of in_flight to the decrement *)
(* (service and command frames are separate lists in the code, told apart  *)
(* here by the kind in the slot).  A lookup that finds nothing, a refused  *)
(* registration and a refused withdrawal change nothing and are stuttering *)
(* steps.  Handlers end: each makes at most MaxCalls calls of the host.    *)
(* The start() and stop() functions of the repository's modules call no    *)
(* handler, so the Core thread is not among the callers.                   *)
(*                                                                         *)
(* A module's code is loaded while Core holds its shared object.  "claims" *)
(* is the modules' own memory of what they registered (service_active,     *)
(* command_active and the like): the names for which register returned 1   *)
(* and unregister has not returned 1 yet.                                  *)
(***************************************************************************)
EXTENDS Naturals, Sequences, FiniteSets

CONSTANTS Threads,
          Core,          \* the thread that runs start(), stop() and dlclose
          Callers,       \* threads that call handlers: the modules' workers
          Modules,       \* modules, each the code of its handlers
          None,          \* no module: the empty owner, the null handler
          ServiceNames, CommandNames,
          RICTUS_HOST_SERVICE_MAX, RICTUS_HOST_COMMAND_MAX,
          NoSlot,        \* a thread that is not in the drain loop waits on none
          Withdrawers,   \* threads that call unregister
          MaxDepth,      \* bound on the nesting of handlers
          MaxCalls       \* bound on the calls of the host one handler makes

ASSUME HostAssumption ==
  /\ None \notin Modules
  /\ None \notin ServiceNames \cup CommandNames
  /\ Core \in Threads
  /\ Callers \subseteq Threads \ {Core}
  /\ Withdrawers \subseteq Threads
  /\ RICTUS_HOST_SERVICE_MAX \in Nat
  /\ RICTUS_HOST_COMMAND_MAX \in Nat
  /\ MaxDepth \in Nat
  /\ MaxCalls \in Nat

Kinds == {"service", "command"}
Names(kind) == IF kind = "service" THEN ServiceNames ELSE CommandNames
AllNames == ServiceNames \cup CommandNames

\* The two tables as one set of slots.
Table(kind) ==
  {kind} \X (1 .. (IF kind = "service" THEN RICTUS_HOST_SERVICE_MAX
                                       ELSE RICTUS_HOST_COMMAND_MAX))
Slots == Table("service") \cup Table("command")
ASSUME NoSlotAssumption == NoSlot \notin Slots

Entries == [name : AllNames \cup {None}, handler : Modules \cup {None},
            owner : Modules \cup {None}, in_flight : Nat, withdrawing : BOOLEAN]

\* A zeroed entry: no handler, hence a free slot.
Free == [name |-> None, handler |-> None, owner |-> None,
         in_flight |-> 0, withdrawing |-> FALSE]

Frames == [slot : Slots, name : AllNames, handler : Modules, calls : Nat]

VARIABLES entries,      \* the tables
          stack,        \* the handlers each thread is inside, outermost first
          draining,     \* the slot each thread waits on in unregister
          registering,  \* registering_module of the Core thread
          loaded,       \* modules whose code is mapped
          claims        \* what each module has registered and not withdrawn

vars == <<entries, stack, draining, registering, loaded, claims>>

-----------------------------------------------------------------------------
FreeSlots(kind) == {s \in Table(kind) : entries[s].handler = None}
FirstFree(kind) ==
  CHOOSE s \in FreeSlots(kind) : \A u \in FreeSlots(kind) : s[2] <= u[2]

Taken(kind, n) ==
  \E s \in Table(kind) : entries[s].handler # None /\ entries[s].name = n

\* The entry a lookup by name finds: registered and not being withdrawn.
Open(s, n) ==
  /\ entries[s].handler # None
  /\ ~entries[s].withdrawing
  /\ entries[s].name = n

Top(t) == stack[t][Len(stack[t])]
Idle(t) == stack[t] = <<>>
Running(t) == draining[t] = NoSlot

\* Code of module m is what thread t executes: m's handler is the innermost
\* frame, or t is the Core thread inside m's start() or stop().
Executes(t, m) ==
  IF Idle(t) THEN t = Core /\ m \in loaded
             ELSE Top(t).handler = m

\* A thread that is not waiting, in a handler that has not used up its calls
\* of the host or in no handler.
Proceeding(t) == Running(t) /\ (~Idle(t) => Top(t).calls > 0)

\* The handler's frame has one call less to make.
Charged(t) ==
  IF Idle(t) THEN <<>>
  ELSE [stack[t] EXCEPT ![Len(stack[t])].calls = @ - 1]

OnStack(t, s) == \E i \in 1 .. Len(stack[t]) : stack[t][i].slot = s

-----------------------------------------------------------------------------
\* register_service and register_command: refused if the name is taken,
\* a withdrawing entry included, or the table is full.  The owner is written
\* only while registering_module is set.
Register(t, kind, n, m) ==
  /\ Proceeding(t) /\ Executes(t, m)
  /\ Idle(t) => registering = m
  /\ ~Taken(kind, n)
  /\ FreeSlots(kind) # {}
  /\ LET s == FirstFree(kind)
         owner == IF t = Core /\ registering # None THEN registering
                                                    ELSE entries[s].owner
     IN  entries' = [entries EXCEPT ![s] =
           [@ EXCEPT !.name = n, !.owner = owner, !.handler = m]]
  /\ claims' = [claims EXCEPT ![m] = @ \cup {<<kind, n>>}]
  /\ stack' = [stack EXCEPT ![t] = Charged(t)]
  /\ UNCHANGED <<draining, registering, loaded>>

RegisterService(t, n, m) == Register(t, "service", n, m)
RegisterCommand(t, n, m) == Register(t, "command", n, m)

\* Mutant: success is reported before the calls in flight have drained.
WithdrawReportsEarly(t, kind, n, m, s) ==
  /\ t \in Withdrawers
  /\ Proceeding(t) /\ Executes(t, m)
  /\ <<kind, n>> \in claims[m]
  /\ Open(s, n)
  /\ ~OnStack(t, s)
  /\ entries' = [entries EXCEPT ![s].withdrawing = TRUE]
  /\ draining' = [draining EXCEPT ![t] = s]
  /\ claims' = [claims EXCEPT ![m] = @ \ {<<kind, n>>}]
  /\ stack' = [stack EXCEPT ![t] = Charged(t)]
  /\ UNCHANGED <<registering, loaded>>

\* unregister_service and unregister_command, first critical section: find
\* the open entry, refuse from inside its own handler, mark it withdrawing.
Withdraw(t, kind, n, m, s) ==
  /\ t \in Withdrawers
  /\ Proceeding(t) /\ Executes(t, m)
  /\ <<kind, n>> \in claims[m]
  /\ Open(s, n)
  /\ ~OnStack(t, s)
  /\ entries' = [entries EXCEPT ![s].withdrawing = TRUE]
  /\ draining' = [draining EXCEPT ![t] = s]
  /\ stack' = [stack EXCEPT ![t] = Charged(t)]
  /\ UNCHANGED <<registering, loaded, claims>>

WithdrawService(t, n, m) ==
  \E s \in Table("service") : Withdraw(t, "service", n, m, s)
WithdrawCommand(t, n, m) ==
  \E s \in Table("command") : Withdraw(t, "command", n, m, s)

\* Mutant: the entry is cleared without waiting for the calls in flight.
FinishAtOnce(t) ==
  LET s == draining[t]
      m == entries[s].handler
  IN  /\ ~Running(t)
      /\ entries' = [entries EXCEPT ![s] = Free]
      /\ claims' = [claims EXCEPT ![m] = @ \ {<<s[1], entries[s].name>>}]
      /\ draining' = [draining EXCEPT ![t] = NoSlot]
      /\ UNCHANGED <<stack, registering, loaded>>

\* The drain loop: clear the entry once no call is in flight and return 1.
FinishWithdraw(t) ==
  LET s == draining[t]
      m == entries[s].handler
  IN  /\ ~Running(t)
      /\ entries[s].in_flight = 0
      /\ entries' = [entries EXCEPT ![s] = Free]
      /\ claims' = [claims EXCEPT ![m] = @ \ {<<s[1], entries[s].name>>}]
      /\ draining' = [draining EXCEPT ![t] = NoSlot]
      /\ UNCHANGED <<stack, registering, loaded>>

\* Mutant: the lookup finds entries under withdrawal too.
CallWithdrawing(t, kind, n, s) ==
  /\ t \in Callers
  /\ Proceeding(t)
  /\ Len(stack[t]) < MaxDepth
  /\ entries[s].handler # None /\ entries[s].name = n
  /\ entries' = [entries EXCEPT ![s].in_flight = @ + 1]
  /\ stack' = [stack EXCEPT ![t] = Append(Charged(t),
       [slot |-> s, name |-> n, handler |-> entries[s].handler, calls |-> MaxCalls])]
  /\ UNCHANGED <<draining, registering, loaded, claims>>

\* invoke_service and dispatch_command, first critical section: take the
\* open entry of that name and enter its handler.
Call(t, kind, n, s) ==
  /\ t \in Callers
  /\ Proceeding(t)
  /\ Len(stack[t]) < MaxDepth
  /\ Open(s, n)
  /\ entries' = [entries EXCEPT ![s].in_flight = @ + 1]
  /\ stack' = [stack EXCEPT ![t] = Append(Charged(t),
       [slot |-> s, name |-> n, handler |-> entries[s].handler, calls |-> MaxCalls])]
  /\ UNCHANGED <<draining, registering, loaded, claims>>

InvokeService(t, n) == \E s \in Table("service") : Call(t, "service", n, s)
DispatchCommand(t, n) == \E s \in Table("command") : Call(t, "command", n, s)

\* Mutant: the count is not released.
ReturnKeepsCount(t) ==
  /\ Running(t) /\ ~Idle(t)
  /\ stack' = [stack EXCEPT ![t] = SubSeq(@, 1, Len(@) - 1)]
  /\ UNCHANGED <<entries, draining, registering, loaded, claims>>

\* ... and second critical section: the handler has returned.
Return(t) ==
  /\ Running(t) /\ ~Idle(t)
  /\ entries' = [entries EXCEPT ![Top(t).slot].in_flight = @ - 1]
  /\ stack' = [stack EXCEPT ![t] = SubSeq(@, 1, Len(@) - 1)]
  /\ UNCHANGED <<draining, registering, loaded, claims>>

\* Core loads a module and enters its start(): begin_registration.
BeginRegistration(m) ==
  /\ Idle(Core) /\ Running(Core)
  /\ registering = None
  /\ m \notin loaded
  /\ loaded' = loaded \cup {m}
  /\ registering' = m
  /\ UNCHANGED <<entries, stack, draining, claims>>

\* start() has returned: end_registration.
EndRegistration ==
  /\ Idle(Core) /\ Running(Core)
  /\ registering # None
  /\ registering' = None
  /\ UNCHANGED <<entries, stack, draining, loaded, claims>>

\* Mutant: a module is unloaded with registrations left.
UnloadUnchecked(m) ==
  /\ Idle(Core) /\ Running(Core)
  /\ registering = None
  /\ m \in loaded
  /\ loaded' = loaded \ {m}
  /\ UNCHANGED <<entries, stack, draining, registering, claims>>

\* Core unloads a module whose stop() withdrew everything it had registered.
Unload(m) ==
  /\ Idle(Core) /\ Running(Core)
  /\ registering = None
  /\ m \in loaded
  /\ claims[m] = {}
  /\ loaded' = loaded \ {m}
  /\ UNCHANGED <<entries, stack, draining, registering, claims>>

-----------------------------------------------------------------------------
Init ==
  /\ entries = [s \in Slots |-> Free]
  /\ stack = [t \in Threads |-> <<>>]
  /\ draining = [t \in Threads |-> NoSlot]
  /\ registering = None
  /\ loaded = {}
  /\ claims = [m \in Modules |-> {}]

Tables(t) ==
  \/ \E m \in Modules :
       \/ \E n \in ServiceNames : RegisterService(t, n, m) \/ WithdrawService(t, n, m)
       \/ \E n \in CommandNames : RegisterCommand(t, n, m) \/ WithdrawCommand(t, n, m)
  \/ FinishWithdraw(t)

Calls(t) ==
  \/ \E n \in ServiceNames : InvokeService(t, n)
  \/ \E n \in CommandNames : DispatchCommand(t, n)
  \/ Return(t)

Modularity ==
  \/ \E m \in Modules : BeginRegistration(m) \/ Unload(m)
  \/ EndRegistration

Next == (\E t \in Threads : Tables(t) \/ Calls(t)) \/ Modularity

\* Handlers return, and the drain loop is retried until it succeeds.
Fairness ==
  \A t \in Threads : WF_vars(Return(t)) /\ WF_vars(FinishWithdraw(t))

Spec == Init /\ [][Next]_vars
FairSpec == Spec /\ Fairness

-----------------------------------------------------------------------------
TypeOK ==
  /\ entries \in [Slots -> Entries]
  /\ stack \in [Threads -> Seq(Frames)]
  /\ draining \in [Threads -> Slots \cup {NoSlot}]
  /\ registering \in Modules \cup {None}
  /\ loaded \subseteq Modules
  /\ claims \in [Modules -> SUBSET (Kinds \X AllNames)]

\* The positions on all stacks of the calls inside slot s.
CallsInside(s) ==
  {c \in UNION {{t} \X (1 .. Len(stack[t])) : t \in Threads} :
     stack[c[1]][c[2]].slot = s}

(* in_flight counts exactly the calls that are inside the handler, nested  *)
(* and recursive ones included, across all threads (module_host.c:269,     *)
(* 298, 457, 477).                                                         *)
InFlightExact ==
  \A s \in Slots : entries[s].in_flight = Cardinality(CallsInside(s))

(* A slot is not recycled under a call: while a thread is inside a handler *)
(* the entry it came through is still that registration, so the owner read *)
(* after the handler returns is this call's (module_host.c:293-299).       *)
CallsKeepTheirEntry ==
  \A t \in Threads : \A i \in 1 .. Len(stack[t]) :
    LET f == stack[t][i]
    IN  entries[f.slot].handler = f.handler /\ entries[f.slot].name = f.name

(* No thread is inside code that has been unmapped, and no entry points at *)
(* any: a module whose withdrawals all returned 1 can be unloaded.         *)
NoCallIntoUnloadedCode ==
  /\ \A t \in Threads : \A i \in 1 .. Len(stack[t]) : stack[t][i].handler \in loaded
  /\ \A s \in Slots : entries[s].handler # None => entries[s].handler \in loaded

(* A module's memory of its registrations and the tables agree, so a       *)
(* stop() that follows it withdraws everything and never fails; and a name *)
(* has one entry at most, entries being withdrawn included, so a lookup    *)
(* never has two candidates.                                               *)
ClaimsMatchTables ==
  /\ \A s \in Slots : entries[s].handler # None =>
       <<s[1], entries[s].name>> \in claims[entries[s].handler]
  /\ \A m \in Modules : \A c \in claims[m] :
       \E s \in Table(c[1]) :
         /\ entries[s].name = c[2] /\ entries[s].handler = m
         /\ \A u \in Table(c[1]) : entries[u].name = c[2] => u = s

(* A withdrawal ends, however often other threads call meanwhile: the      *)
(* drain loop of unregister is left, provided handlers return and no two   *)
(* handlers withdraw the entries of one another.                           *)
WithdrawalEnds == \A t \in Threads : ~Running(t) ~> Running(t)
=============================================================================
