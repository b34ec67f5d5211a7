----------------------- MODULE ModuleServices_proofs -----------------------
(***************************************************************************)
(* Proofs about ModuleServices: whatever the four modules, their handlers  *)
(* and the Core thread do, they do to the host only what ModuleHost lets   *)
(* them (ImplementsHost), so what is proved of ModuleHost holds of them;   *)
(* and what that says of the tables gives the properties of the handlers.  *)
(*                                                                         *)
(* The step that has to be argued is UnloadModule, which does not look at  *)
(* the tables: the module's flags are empty by then, and flags and claims  *)
(* are the same (FlagsAreClaims).  That in turn needs that the entry Core  *)
(* waits on is the stopping module's (CoreAlone).                          *)
(***************************************************************************)
EXTENDS ModuleServices, ModuleHost_proofs

Stages == {"idle", "starting", "failing", "stopping", "unload"}
Codes == {"none", "OK", "ERROR", "NOT_FOUND", "SKIPPED"}

\* What a module registers if it starts.
Registered(m) == Everything(Registrations(m))

ServicesTypeInv ==
  /\ core \in [at : Stages, module : Modules \cup {None}]
  /\ active \subseteq Modules
  /\ ready \subseteq Modules
  /\ flags \in [Modules -> SUBSET (Kinds \X AllNames)]
  /\ request \in [Callers -> [about : BOOLEAN, steady : BOOLEAN]]
  /\ result \in [Callers -> Codes]

\* Where the Core thread is: the module it starts or stops is loaded and not
\* active, and registering names it while start() runs.
CorePlace ==
  /\ CoreAt("idle") <=> core.module = None
  /\ ~CoreAt("idle") => core.module \in loaded \ active
  /\ registering = IF CoreAt("starting") \/ CoreAt("failing") THEN core.module ELSE None
  /\ CoreAt("unload") => flags[core.module] = {}

\* The Core thread alone withdraws, what the module it is in has registered.
CoreAlone ==
  /\ Idle(Core)
  /\ \A t \in Threads \ {Core} : Running(t)
  /\ ~Running(Core) => Ending /\ entries[draining[Core]].handler = core.module
  /\ \A s \in Slots : entries[s].withdrawing => draining[Core] = s

FlagsAreClaims ==
  /\ flags = claims
  /\ \A m \in Modules : flags[m] \subseteq Registered(m)
  /\ \A m \in active : flags[m] = Registered(m)

ReadyStands ==
  /\ \A m \in Modules : flags[m] # {} /\ m # "ollama" => m \in ready
  /\ active \subseteq ready \cap loaded
  /\ CoreAt("starting") /\ core.module # "ollama" => core.module \in ready

WorkerPlace ==
  /\ worker \notin {"none", "done"} => "web" \in ready
  /\ worker # "none" => "web" \in loaded
  /\ core.module = "web" /\ (CoreAt("failing") \/ CoreAt("unload")) => worker = "none"

LifeInv ==
  /\ HostInv
  /\ ServicesTypeInv
  /\ CorePlace
  /\ CoreAlone
  /\ FlagsAreClaims
  /\ ReadyStands
  /\ WorkerPlace

Requests ==
  \A t \in Callers :
    /\ Idle(t) => result[t] = "none"
    /\ request[t].steady => {"ollama", "identity"} \subseteq active

\* The web worker is at its call while it is inside handlers.
WebCalls == stack[Web] # <<>> => worker = "called"

\* The two properties, of a thread.
FramesSee(t) ==
  \A i \in 1 .. Len(stack[t]) :
    \/ stack[t][i].handler \in ready
    \/ /\ stack[t][i].name = "chat" /\ i = Len(stack[t])
       /\ result[t] \in {"none", "SKIPPED"}
ChatAnswered(t) ==
  Inside(t, "chat") /\ request[t].about /\ request[t].steady =>
    result[t] \notin {"NOT_FOUND", "SKIPPED"}

WorkInv == Requests /\ WebCalls /\ \A t \in Callers : FramesSee(t) /\ ChatAnswered(t)

ServicesInv == LifeInv /\ WorkInv

-----------------------------------------------------------------------------
(* What the modules register *)

\* The modules and names there are.
LEMMA Constants ==
  /\ \A m \in Modules : m \in {"ollama", "identity", "compliance", "web"} /\ m # None
  /\ Core \in Threads /\ Web \in Callers
  /\ \A t \in Callers : t \in Threads /\ t # Core
  /\ \A t \in Callers : \A n \in Asks[t] : n \in CommandNames
  /\ \A n \in ServiceNames \cup CommandNames : n \in AllNames
  /\ "service" \in Kinds /\ "command" \in Kinds
  /\ \A t : t \in Withdrawers <=> t = Core
BY HostAssumption, ServicesAssumption DEF AllNames, Kinds

\* The registrations of each module's start(), as a set.
LEMMA RegisteredBy ==
  /\ Registered("ollama") = {<<"service", "llm.generate">>, <<"command", "chat">>}
  /\ Registered("identity") = {<<"command", "identity">>, <<"service", "identity.answer">>}
  /\ Registered("compliance") =
       {<<"service", "control.request">>, <<"service", "policy.evidence">>,
        <<"command", "compliance">>, <<"command", "control">>,
        <<"command", "policy-evidence">>}
  /\ Registered("web") = {}
<1>1. \A a, b : Everything(<<a, b>>) = {a, b}
  BY DEF Everything
<1>2. \A a, b, c, d, e : Everything(<<a, b, c, d, e>>) = {a, b, c, d, e}
  BY DEF Everything
<1>3. Everything(<<>>) = {}
  BY DEF Everything
<1>4. /\ Registrations("ollama") = <<<<"service", "llm.generate">>, <<"command", "chat">>>>
      /\ Registrations("identity") = <<<<"command", "identity">>, <<"service", "identity.answer">>>>
      /\ Registrations("compliance") =
           <<<<"service", "control.request">>, <<"service", "policy.evidence">>,
             <<"command", "compliance">>, <<"command", "control">>,
             <<"command", "policy-evidence">>>>
      /\ Registrations("web") = <<>>
  BY DEF Registrations
<1> QED
  BY <1>1, <1>2, <1>3, <1>4 DEF Registered

\* What stop() takes back is what start() registered.
LEMMA WithdrawnBy == \A m \in Modules : Everything(Withdrawals(m)) = Registered(m)
<1>1. \A a, b : Everything(<<b, a>>) = {a, b}
  BY DEF Everything
<1>2. Everything(<<>>) = {}
  BY DEF Everything
<1>3. /\ Withdrawals("ollama") = <<<<"command", "chat">>, <<"service", "llm.generate">>>>
      /\ Withdrawals("identity") = <<<<"service", "identity.answer">>, <<"command", "identity">>>>
      /\ Withdrawals("compliance") =
           <<<<"command", "policy-evidence">>, <<"service", "policy.evidence">>,
             <<"command", "control">>, <<"command", "compliance">>,
             <<"service", "control.request">>>>
      /\ Withdrawals("web") = <<>>
  BY DEF Withdrawals
<1>4. Everything(Withdrawals("ollama")) = Registered("ollama")
  <2>1. Everything(<<<<"command", "chat">>, <<"service", "llm.generate">>>>)
          = {<<"service", "llm.generate">>, <<"command", "chat">>}
    BY <1>1, Zenon
  <2> QED
    BY <1>3, <2>1, RegisteredBy, Zenon
<1>5. Everything(Withdrawals("identity")) = Registered("identity")
  <2>1. Everything(<<<<"service", "identity.answer">>, <<"command", "identity">>>>)
          = {<<"command", "identity">>, <<"service", "identity.answer">>}
    BY <1>1, Zenon
  <2> QED
    BY <1>3, <2>1, RegisteredBy, Zenon
<1>6. Everything(Withdrawals("compliance")) = Registered("compliance")
  <2>1. PICK a, b, c, d, e :
          /\ a = <<"service", "control.request">> /\ b = <<"service", "policy.evidence">>
          /\ c = <<"command", "compliance">> /\ d = <<"command", "control">>
          /\ e = <<"command", "policy-evidence">>
    OBVIOUS
  <2>2. Withdrawals("compliance") = <<e, b, d, c, a>>
    BY <1>3, <2>1, Zenon
  <2>3. Registered("compliance") = {a, b, c, d, e}
    BY <2>1, RegisteredBy, Zenon
  <2>4. Everything(<<e, b, d, c, a>>) = {a, b, c, d, e}
    BY SMT DEF Everything
  <2> QED
    BY <2>2, <2>3, <2>4, Zenon
<1>7. Everything(Withdrawals("web")) = Registered("web")
  BY <1>2, <1>3, RegisteredBy
<1> QED
  BY <1>4, <1>5, <1>6, <1>7, Constants

\* Registrations are of names of the host's two kinds.
LEMMA RegisteredNames ==
  \A m \in Modules : \A r \in Registered(m) :
    /\ r = <<r[1], r[2]>> /\ r \in Kinds \X AllNames
    /\ \/ r[1] = "service" /\ r[2] \in ServiceNames
       \/ r[1] = "command" /\ r[2] \in CommandNames
<1> DEFINE P == ({"service"} \X ServiceNames) \cup ({"command"} \X CommandNames)
<1>1. \A m \in {"ollama", "identity", "compliance", "web"} : Registered(m) \subseteq P
  <2>1. /\ <<"service", "llm.generate">> \in P /\ <<"service", "identity.answer">> \in P
        /\ <<"service", "control.request">> \in P /\ <<"service", "policy.evidence">> \in P
        /\ <<"command", "chat">> \in P /\ <<"command", "identity">> \in P
        /\ <<"command", "compliance">> \in P /\ <<"command", "control">> \in P
        /\ <<"command", "policy-evidence">> \in P
    BY ServicesAssumption
  <2> HIDE DEF P
  <2> QED
    BY <2>1, RegisteredBy
<1> SUFFICES ASSUME NEW m \in Modules, NEW r \in Registered(m)
             PROVE  /\ r = <<r[1], r[2]>> /\ r \in Kinds \X AllNames
                    /\ \/ r[1] = "service" /\ r[2] \in ServiceNames
                       \/ r[1] = "command" /\ r[2] \in CommandNames
  OBVIOUS
<1>2. r \in P
  BY <1>1, Constants
<1> QED
  BY <1>2 DEF Kinds, AllNames

\* The lists of start() and stop() are sequences.
LEMMA ListsAreSequences ==
  \A m \in Modules : /\ Registrations(m) \in Seq(Kinds \X AllNames)
                     /\ Withdrawals(m) \in Seq(Kinds \X AllNames)
<1>1. /\ {"service", "command"} \subseteq Kinds
      /\ {"llm.generate", "identity.answer", "control.request", "policy.evidence"} \subseteq AllNames
      /\ {"chat", "identity", "compliance", "control", "policy-evidence"} \subseteq AllNames
  BY ServicesAssumption DEF Kinds, AllNames
<1> DEFINE P == Kinds \X AllNames
<1>2. /\ <<"service", "llm.generate">> \in P /\ <<"service", "identity.answer">> \in P
      /\ <<"service", "control.request">> \in P /\ <<"service", "policy.evidence">> \in P
      /\ <<"command", "chat">> \in P /\ <<"command", "identity">> \in P
      /\ <<"command", "compliance">> \in P /\ <<"command", "control">> \in P
      /\ <<"command", "policy-evidence">> \in P
  BY <1>1
<1> HIDE DEF P
<1>3. /\ <<>> \in Seq(P)
      /\ \A a, b \in P : <<a, b>> \in Seq(P)
      /\ \A a, b, c, d, e \in P : <<a, b, c, d, e>> \in Seq(P)
  OBVIOUS
<1>4. \A m \in {"ollama", "identity", "compliance", "web"} :
        Registrations(m) \in Seq(P) /\ Withdrawals(m) \in Seq(P)
  BY <1>2, <1>3 DEF Registrations, Withdrawals
<1> QED
  BY <1>4, Constants DEF P

\* Where something of a list is not in a set, FirstOutside finds it.
LEMMA FoundOutside ==
  ASSUME NEW P, NEW list \in Seq(P), NEW set, Everything(list) \ set # {}
  PROVE  /\ list[FirstOutside(list, set)] \in Everything(list)
         /\ list[FirstOutside(list, set)] \notin set
<1> DEFINE T == {i \in 1 .. Len(list) : list[i] \notin set}
           less == OpToRel(<, Nat)
<1>1. Len(list) \in Nat
  OBVIOUS
<1>2. T \subseteq Nat /\ T # {}
  BY <1>1 DEF Everything
<1>3. \A x, y \in Nat : <<x, y>> \in less <=> x < y
  BY DEF OpToRel
<1>4. IsWellFoundedOn(less, Nat)
  BY NatLessThanWellFounded
<1> HIDE DEF less
<1>5. PICK i \in T : \A j \in T : ~(<<j, i>> \in less)
  BY <1>2, <1>4, WFMin
<1>6. \A j \in T : ~(j < i)
  BY <1>2, <1>3, <1>5, Zenon
<1>7. i \in 1 .. Len(list) /\ list[i] \notin set
  OBVIOUS
<1>8. \A j \in 1 .. i - 1 : list[j] \in set
  BY <1>1, <1>6, <1>7
<1>9. /\ FirstOutside(list, set) \in 1 .. Len(list)
      /\ list[FirstOutside(list, set)] \notin set
  BY <1>7, <1>8, Zenon DEF FirstOutside
<1> QED
  BY <1>9 DEF Everything

-----------------------------------------------------------------------------
(* Every step is one of the host's, or none *)

\* What the Core thread is in.
LEMMA CoreModule ==
  ASSUME LifeInv, ~CoreAt("idle")
  PROVE  /\ core.module \in Modules /\ core.module # None /\ core.module \in loaded
         /\ core.module \notin active
         /\ flags[core.module] \subseteq Registered(core.module)
BY Constants DEF LifeInv, CorePlace, FlagsAreClaims, HostInv, TypeOK

\* Where Core's part of an action leads.
LEMMA CoreMoves ==
  ASSUME LifeInv
  PROVE  /\ core.at \in Stages /\ core.module \in Modules \cup {None}
         /\ \A at \in Stages : [core EXCEPT !.at = at] = [at |-> at, module |-> core.module]
BY DEF LifeInv, ServicesTypeInv

\* RegisterNext registers one of the module's names.
LEMMA RegistersItsOwn ==
  ASSUME LifeInv, RegisterNext
  PROVE  \E r \in Registered(core.module) :
           /\ r \notin flags[core.module]
           /\ \/ core' = [core EXCEPT !.at = "failing"] /\ UNCHANGED <<vars, flags>>
              \/ /\ Register(Core, r[1], r[2], core.module)
                 /\ flags' = [flags EXCEPT ![core.module] = @ \cup {r}]
                 /\ UNCHANGED core
<1>1. PICK m : m = core.module
  OBVIOUS
<1>2. PICK list : list = Registrations(m)
  OBVIOUS
<1>3. m \in Modules
  BY <1>1, CoreModule DEF RegisterNext, CoreAt
<1>4. PICK r : r = list[FirstOutside(list, flags[m])]
  OBVIOUS
<1>5. Everything(list) \ flags[m] # {}
  BY <1>1, <1>2 DEF RegisterNext
<1>6. r \in Registered(m) /\ r \notin flags[m]
  <2>1. list \in Seq(Kinds \X AllNames)
    BY <1>2, <1>3, ListsAreSequences
  <2>2. list[FirstOutside(list, flags[m])] \in Everything(list)
        /\ list[FirstOutside(list, flags[m])] \notin flags[m]
    BY <1>5, <2>1, FoundOutside
  <2> QED
    BY <1>2, <1>4, <2>2 DEF Registered
<1>7. \/ core' = [core EXCEPT !.at = "failing"] /\ UNCHANGED <<vars, flags>>
      \/ /\ Register(Core, r[1], r[2], m)
         /\ flags' = [flags EXCEPT ![m] = @ \cup {r}]
         /\ UNCHANGED core
  BY <1>1, <1>2, <1>4, Zenon DEF RegisterNext
<1> QED
  BY <1>1, <1>6, <1>7

\* WithdrawNext withdraws one of the names the module's flags hold.
LEMMA WithdrawsItsOwn ==
  ASSUME LifeInv, WithdrawNext
  PROVE  \E w \in flags[core.module] : \E s \in Table(w[1]) :
           Withdraw(Core, w[1], w[2], core.module, s)
<1>1. PICK m : m = core.module
  OBVIOUS
<1>2. PICK list : list = Withdrawals(m)
  OBVIOUS
<1>3. m \in Modules /\ flags[m] \subseteq Registered(m)
  BY <1>1, CoreModule DEF WithdrawNext, Ending, CoreAt
<1>4. PICK set : set = Everything(list) \ flags[m]
  OBVIOUS
<1>5. PICK w : w = list[FirstOutside(list, set)]
  OBVIOUS
<1>6. list \in Seq(Kinds \X AllNames) /\ Everything(list) = Registered(m)
  BY <1>2, <1>3, ListsAreSequences, WithdrawnBy
<1>7. flags[m] # {}
  BY <1>1 DEF WithdrawNext
<1>8. Everything(list) \ set # {}
  BY <1>3, <1>4, <1>6, <1>7
<1>9. list[FirstOutside(list, set)] \in Everything(list)
      /\ list[FirstOutside(list, set)] \notin set
  BY <1>6, <1>8, FoundOutside
<1>10. w \in flags[m]
  BY <1>4, <1>5, <1>9
<1>11. \E s \in Table(w[1]) : Withdraw(Core, w[1], w[2], m, s)
  BY <1>1, <1>2, <1>4, <1>5, Zenon DEF WithdrawNext
<1> QED
  BY <1>1, <1>10, <1>11

\* Registering and withdrawing are steps of the host's tables.
LEMMA TableSteps ==
  ASSUME LifeInv, RegisterNext \/ WithdrawNext
  PROVE  [Next]_vars
<1>1. PICK m : m = core.module
  OBVIOUS
<1>2. m \in Modules /\ flags[m] \subseteq Registered(m)
  BY <1>1, CoreModule DEF RegisterNext, WithdrawNext, Ending, CoreAt
<1>3. ASSUME NEW r \in Registered(m), Register(Core, r[1], r[2], m)
      PROVE  Next
  <2>1. \/ r[1] = "service" /\ r[2] \in ServiceNames
        \/ r[1] = "command" /\ r[2] \in CommandNames
    BY <1>2, RegisteredNames
  <2>2. Tables(Core)
    BY <1>2, <1>3, <2>1, Zenon DEF Tables, RegisterService, RegisterCommand
  <2> QED
    BY <2>2, Constants DEF Next
<1>4. ASSUME NEW w \in flags[m], NEW s \in Table(w[1]), Withdraw(Core, w[1], w[2], m, s)
      PROVE  Next
  <2>1. \/ w[1] = "service" /\ w[2] \in ServiceNames
        \/ w[1] = "command" /\ w[2] \in CommandNames
    BY <1>2, RegisteredNames
  <2>2. Tables(Core)
    BY <1>2, <1>4, <2>1, Zenon DEF Tables, WithdrawService, WithdrawCommand
  <2> QED
    BY <2>2, Constants DEF Next
<1>5. CASE RegisterNext
  BY <1>1, <1>3, <1>5, RegistersItsOwn, Zenon
<1>6. CASE WithdrawNext
  BY <1>1, <1>4, <1>6, WithdrawsItsOwn, Zenon
<1> QED
  BY <1>5, <1>6

\* A module is unloaded when its flags, and so its claims, are empty.
LEMMA UnloadStep ==
  ASSUME LifeInv, UnloadModule
  PROVE  Next
<1>1. PICK m : m = core.module
  OBVIOUS
<1>2. CoreAt("unload") /\ ~CoreAt("idle") /\ ~Ending
  BY DEF UnloadModule, CoreAt, Ending
<1>3. m \in Modules /\ m \in loaded
  BY <1>1, <1>2, CoreModule
<1>4. Idle(Core) /\ Running(Core)
  BY <1>2 DEF LifeInv, CoreAlone
<1>5. registering = None
  BY <1>2 DEF LifeInv, CorePlace, CoreAt
<1>6. claims[m] = {}
  BY <1>1, <1>2 DEF LifeInv, CorePlace, FlagsAreClaims
<1>7. Unload(m)
  BY <1>1, <1>3, <1>4, <1>5, <1>6 DEF UnloadModule, Unload
<1> QED
  BY <1>3, <1>7 DEF Next, Modularity

\* The handlers' calls are calls of the host.
LEMMA CallerSteps ==
  ASSUME NEW t \in Callers
  PROVE  /\ \A n \in CommandNames, about \in BOOLEAN : Dispatch(t, n, about) => Next
         /\ Invoke(t) => [Next]_vars
         /\ NoHost(t) => UNCHANGED vars
         /\ \A rc : Finish(t, rc) => Next
<1>1. t \in Threads
  BY Constants
<1>2. ASSUME NEW n \in CommandNames, NEW about \in BOOLEAN, Dispatch(t, n, about)
      PROVE  Next
  <2>1. Calls(t)
    BY <1>2 DEF Dispatch, Calls
  <2> QED
    BY <1>1, <2>1 DEF Next
<1>3. ASSUME Invoke(t) PROVE [Next]_vars
  <2>1. PICK n \in DOMAIN Needs :
          \/ InvokeService(t, Needs[n])
          \/ UNCHANGED vars
    BY <1>3 DEF Invoke
  <2>2. Needs[n] \in ServiceNames
    BY ServicesAssumption DEF Needs
  <2>3. CASE InvokeService(t, Needs[n])
    BY <1>1, <2>2, <2>3 DEF Next, Calls
  <2> QED
    BY <2>1, <2>3
<1>4. ASSUME NEW rc, Finish(t, rc) PROVE Next
  BY <1>1, <1>4 DEF Finish, Calls, Next
<1>5. NoHost(t) => UNCHANGED vars
  BY DEF NoHost
<1> QED
  BY <1>2, <1>3, <1>4, <1>5

\* Whatever happens in the modules, the host takes one of its steps or none.
LEMMA ServicesTakeHostSteps ==
  ASSUME LifeInv, [ServicesNext]_servicesVars
  PROVE  [Next]_vars
<1>1. CASE UNCHANGED servicesVars
  BY <1>1 DEF servicesVars
<1>2. CASE Lifecycle
  <2>1. CASE RegisterNext \/ WithdrawNext
    BY <2>1, TableSteps
  <2>2. CASE SetOwner \/ StopReturns \/ \E created \in BOOLEAN : CreateWorker(created)
    BY <2>2 DEF SetOwner, StopReturns, CreateWorker
  <2>3. CASE StartReturns \/ StartFails
    BY <2>3 DEF StartReturns, StartFails, Next, Modularity
  <2>4. CASE WithdrawReturns
    BY <2>4, Constants DEF WithdrawReturns, Next, Tables
  <2>5. CASE UnloadModule
    BY <2>5, UnloadStep
  <2> QED
    BY <1>2, <2>1, <2>2, <2>3, <2>4, <2>5 DEF Lifecycle
<1>3. CASE Manage
  BY <1>3 DEF Manage, Stop, Load, Next, Modularity
<1>4. ASSUME NEW t \in Callers, Handle(t) PROVE [Next]_vars
  BY <1>4, CallerSteps DEF Handle
<1>5. ASSUME NEW t \in Callers, Ask(t) PROVE [Next]_vars
  BY <1>5, CallerSteps DEF Ask
<1>6. CASE WebWorker
  BY <1>5, <1>6, Constants DEF WebWorker, WebLeaves, WebPost, WebUnrouted, WebMoves
<1>7. CASE WebPoll
  BY <1>7 DEF WebPoll, WebMoves
<1> QED
  BY <1>1, <1>2, <1>3, <1>4, <1>5, <1>6, <1>7 DEF ServicesNext

-----------------------------------------------------------------------------
(* The Core thread's steps keep LifeInv *)

\* The parts of LifeInv but the host's own.
CoreInv ==
  /\ ServicesTypeInv
  /\ CorePlace
  /\ CoreAlone
  /\ FlagsAreClaims
  /\ ReadyStands
  /\ WorkerPlace

\* Nothing changes in the tables, and where Core waits it goes on waiting.
LEMMA CoreStaysAlone ==
  ASSUME CoreAlone, UNCHANGED <<entries, stack, draining>>,
         Running(Core) \/ (Ending' /\ core'.module = core.module)
  PROVE  CoreAlone'
BY DEF CoreAlone, Idle, Running

\* A module is loaded and start() entered.
LEMMA LoadKeeps ==
  ASSUME LifeInv, NEW m \in Modules, NEW able \in BOOLEAN, Load(m, able)
  PROVE  CoreInv'
<1>1. /\ CoreAt("idle") /\ m \notin loaded /\ m \notin active
      /\ loaded' = loaded \cup {m} /\ registering' = m
      /\ UNCHANGED <<entries, stack, draining, claims, active, flags, work>>
      /\ Running(Core) /\ m # None
  BY Constants DEF Load, BeginRegistration, LifeInv, ReadyStands
<1>2. \/ /\ core' = [at |-> "starting", module |-> m]
         /\ ready' = ready \cup ({m} \ {"ollama"})
      \/ core' = [at |-> "failing", module |-> m] /\ ready' = ready
  BY DEF Load
<1>3. ServicesTypeInv'
  BY <1>1, <1>2 DEF LifeInv, ServicesTypeInv, work, Stages
<1>4. CorePlace'
  BY <1>1, <1>2 DEF LifeInv, CorePlace, CoreAt
<1>5. CoreAlone'
  BY <1>1, CoreStaysAlone DEF LifeInv
<1>6. FlagsAreClaims'
  BY <1>1 DEF LifeInv, FlagsAreClaims
<1>7. ReadyStands'
  BY <1>1, <1>2 DEF LifeInv, ReadyStands, CoreAt
<1>8. WorkerPlace'
  BY <1>1, <1>2 DEF LifeInv, WorkerPlace, CoreAt, work
<1> QED
  BY <1>3, <1>4, <1>5, <1>6, <1>7, <1>8 DEF CoreInv

\* ollama sets its owner, web creates its worker, or cannot.
LEMMA StartGoesOn ==
  ASSUME LifeInv, SetOwner \/ \E created \in BOOLEAN : CreateWorker(created)
  PROVE  CoreInv'
<1>1. PICK m : m = core.module
  OBVIOUS
<1>2. /\ CoreAt("starting") /\ core.at = "starting" /\ m \in Modules /\ m \in loaded
      /\ core = [at |-> "starting", module |-> m]
      /\ UNCHANGED <<vars, active, flags, request, result>>
      /\ \/ m = "ollama" /\ ready' = ready \cup {m} /\ UNCHANGED <<core, worker>>
         \/ /\ m = "web" /\ worker = "none" /\ ready' = ready
            /\ \/ UNCHANGED core
               \/ core' = [at |-> "failing", module |-> m] /\ worker' = "none"
  <2>1. CoreAt("starting") /\ core.at = "starting"
    BY DEF SetOwner, CreateWorker, CoreAt
  <2>2. core = [at |-> "starting", module |-> m]
    BY <1>1, <2>1 DEF LifeInv, ServicesTypeInv
  <2>3. m \in Modules /\ m \in loaded
    BY <1>1, <2>1, CoreModule DEF CoreAt
  <2> QED
    BY <1>1, <2>1, <2>2, <2>3 DEF SetOwner, CreateWorker, work
<1>3. ServicesTypeInv'
  BY <1>2 DEF LifeInv, ServicesTypeInv, Stages
<1>4. UNCHANGED <<entries, stack, draining, claims, registering, loaded>>
  BY <1>2 DEF vars
<1>5. CorePlace'
  <2>1. m # None /\ m \notin active /\ registering = m
    BY <1>1, <1>2, CoreModule DEF LifeInv, CorePlace, CoreAt
  <2> QED
    BY <1>2, <1>4, <2>1 DEF CorePlace, CoreAt
<1>6. CoreAlone'
  <2>1. Running(Core)
    BY <1>2 DEF LifeInv, CoreAlone, Ending, CoreAt
  <2> QED
    BY <1>4, <2>1, CoreStaysAlone DEF LifeInv
<1>7. FlagsAreClaims'
  BY <1>2, <1>4 DEF LifeInv, FlagsAreClaims
<1>8. ReadyStands'
  BY <1>2, <1>4 DEF LifeInv, ReadyStands, CoreAt
<1>9. WorkerPlace'
  BY <1>2, <1>4 DEF LifeInv, WorkerPlace, ReadyStands, CoreAt
<1> QED
  BY <1>3, <1>5, <1>6, <1>7, <1>8, <1>9 DEF CoreInv

\* start() returns: everything the module registers is registered.
LEMMA StartReturnsKeeps ==
  ASSUME LifeInv, StartReturns
  PROVE  CoreInv'
<1>1. PICK m : m = core.module
  OBVIOUS
<1>2. /\ CoreAt("starting") /\ m \in Modules /\ m \in loaded /\ m \in ready
      /\ flags[m] = Registered(m) /\ active' = active \cup {m}
      /\ core' = [at |-> "idle", module |-> None] /\ registering' = None
      /\ UNCHANGED <<entries, stack, draining, claims, loaded, flags, ready, work>>
      /\ Running(Core)
  BY <1>1, CoreModule DEF StartReturns, EndRegistration, CoreAt, CoreIdle, Registered
<1>3. ServicesTypeInv'
  BY <1>2 DEF LifeInv, ServicesTypeInv, work, Stages
<1>4. CorePlace'
  BY <1>2 DEF CorePlace, CoreAt
<1>5. CoreAlone'
  BY <1>2, CoreStaysAlone DEF LifeInv
<1>6. FlagsAreClaims'
  BY <1>2 DEF LifeInv, FlagsAreClaims
<1>7. ReadyStands'
  BY <1>2 DEF LifeInv, ReadyStands, CoreAt
<1>8. WorkerPlace'
  BY <1>2, Constants DEF LifeInv, WorkerPlace, CoreAt, work
<1> QED
  BY <1>3, <1>4, <1>5, <1>6, <1>7, <1>8 DEF CoreInv

\* stop() is entered.
LEMMA StopKeeps ==
  ASSUME LifeInv, NEW m \in Modules, Stop(m)
  PROVE  CoreInv'
<1>1. /\ CoreAt("idle") /\ m \in active /\ m \in loaded /\ active' = active \ {m}
      /\ core' = [at |-> "stopping", module |-> m] /\ m # None
      /\ request' = Unsettled(m)
      /\ UNCHANGED <<vars, flags, ready, result, worker>>
  BY Constants DEF Stop, LifeInv, ReadyStands
<1>2. UNCHANGED <<entries, stack, draining, claims, registering, loaded>>
  BY <1>1 DEF vars
<1>3. registering = None /\ Running(Core)
  BY <1>1 DEF LifeInv, CorePlace, CoreAlone, CoreAt, Ending
<1>4. ServicesTypeInv'
  <2>1. request' \in [Callers -> [about : BOOLEAN, steady : BOOLEAN]]
    BY <1>1 DEF LifeInv, ServicesTypeInv, Unsettled
  <2> QED
    BY <1>1, <2>1 DEF LifeInv, ServicesTypeInv, Stages
<1>5. CorePlace'
  BY <1>1, <1>2, <1>3 DEF CorePlace, CoreAt
<1>6. CoreAlone'
  BY <1>2, <1>3, CoreStaysAlone DEF LifeInv
<1>7. FlagsAreClaims'
  BY <1>1, <1>2 DEF LifeInv, FlagsAreClaims
<1>8. ReadyStands'
  BY <1>1, <1>2 DEF LifeInv, ReadyStands, CoreAt
<1>9. WorkerPlace'
  BY <1>1, <1>2 DEF LifeInv, WorkerPlace, CoreAt
<1> QED
  BY <1>4, <1>5, <1>6, <1>7, <1>8, <1>9 DEF CoreInv


\* A registration of start() is made or refused.
LEMMA RegisterKeeps ==
  ASSUME LifeInv, RegisterNext
  PROVE  CoreInv'
<1>1. PICK m : m = core.module
  OBVIOUS
<1>2. /\ CoreAt("starting") /\ core = [at |-> "starting", module |-> m]
      /\ m \in Modules /\ m \in loaded /\ m # None /\ m \notin active /\ registering = m
      /\ Running(Core) /\ Idle(Core)
      /\ UNCHANGED <<active, ready, work>>
  <2>1. CoreAt("starting")
    BY DEF RegisterNext
  <2>2. core = [at |-> "starting", module |-> m]
    BY <1>1, <2>1 DEF LifeInv, ServicesTypeInv, CoreAt
  <2>3. Running(Core) /\ Idle(Core)
    BY <2>1 DEF LifeInv, CoreAlone, Ending, CoreAt
  <2>4. registering = m
    BY <1>1, <2>1 DEF LifeInv, CorePlace
  <2> QED
    BY <1>1, <2>1, <2>2, <2>3, <2>4, CoreModule DEF RegisterNext, CoreAt
<1>3. PICK r \in Registered(m) :
        /\ r \notin flags[m]
        /\ \/ core' = [core EXCEPT !.at = "failing"] /\ UNCHANGED <<vars, flags>>
           \/ /\ Register(Core, r[1], r[2], m)
              /\ flags' = [flags EXCEPT ![m] = @ \cup {r}]
              /\ UNCHANGED core
  BY <1>1, RegistersItsOwn
<1>4. m # "web"
  BY <1>3, RegisteredBy
<1>5. CASE core' = [core EXCEPT !.at = "failing"] /\ UNCHANGED <<vars, flags>>
  <2>1. /\ core' = [at |-> "failing", module |-> m]
        /\ UNCHANGED <<entries, stack, draining, claims, registering, loaded, flags>>
    BY <1>2, <1>5 DEF vars
  <2>2. ServicesTypeInv'
    BY <1>2, <2>1 DEF LifeInv, ServicesTypeInv, work, Stages
  <2>3. CorePlace' /\ CoreAlone'
    BY <1>2, <2>1, CoreStaysAlone DEF LifeInv, CorePlace, CoreAt
  <2>4. FlagsAreClaims' /\ ReadyStands'
    BY <1>2, <2>1 DEF LifeInv, FlagsAreClaims, ReadyStands, CoreAt
  <2>5. WorkerPlace'
    BY <1>2, <1>4, <2>1 DEF LifeInv, WorkerPlace, CoreAt, work
  <2> QED
    BY <2>2, <2>3, <2>4, <2>5 DEF CoreInv
<1>6. CASE /\ Register(Core, r[1], r[2], m)
           /\ flags' = [flags EXCEPT ![m] = @ \cup {r}]
           /\ UNCHANGED core
  <2>1. r = <<r[1], r[2]>> /\ r \in Kinds \X AllNames /\ r[1] \in Kinds
    BY <1>2, RegisteredNames
  <2>2. PICK s : s = FirstFree(r[1])
    OBVIOUS
  <2>3. s \in Slots /\ entries[s].handler = None
    BY <1>6, <2>1, <2>2, FirstFreeIsFree, TablesApart DEF Register, FreeSlots
  <2>4. PICK owner :
          entries' = [entries EXCEPT ![s] =
            [entries[s] EXCEPT !.name = r[2], !.owner = owner, !.handler = m]]
    BY <1>6, <2>2 DEF Register
  <2>5. /\ claims' = [claims EXCEPT ![m] = claims[m] \cup {r}]
        /\ flags' = [flags EXCEPT ![m] = flags[m] \cup {r}]
        /\ stack' = [stack EXCEPT ![Core] = Charged(Core)]
        /\ UNCHANGED <<draining, registering, loaded, core>>
    BY <1>6, <2>1 DEF Register
  <2>6. flags = claims /\ flags \in [Modules -> SUBSET (Kinds \X AllNames)]
    BY DEF LifeInv, FlagsAreClaims, ServicesTypeInv
  <2>7. ServicesTypeInv'
    BY <1>2, <2>1, <2>5, <2>6 DEF LifeInv, ServicesTypeInv, work
  <2>8. CorePlace'
    BY <1>2, <2>5 DEF LifeInv, CorePlace, CoreAt
  <2>9. CoreAlone'
    <3>1. entries \in [Slots -> Entries] /\ stack \in [Threads -> Seq(Frames)]
      BY DEF LifeInv, HostInv, TypeOK
    <3>2. \A u \in Slots : entries'[u].withdrawing = entries[u].withdrawing
      <4>1. entries[s] \in Entries
        BY <2>3, <3>1
      <4>2. [entries[s] EXCEPT !.name = r[2], !.owner = owner, !.handler = m].withdrawing
              = entries[s].withdrawing
        BY <4>1 DEF Entries
      <4> QED
        BY <2>3, <2>4, <3>1, <4>2
    <3>3. stack'[Core] = <<>>
      BY <1>2, <2>5, <3>1, Constants DEF Charged
    <3> QED
      BY <1>2, <2>5, <3>2, <3>3 DEF LifeInv, CoreAlone, Idle, Running
  <2>10. FlagsAreClaims'
    BY <1>2, <1>3, <2>5, <2>6 DEF LifeInv, FlagsAreClaims
  <2>11. ReadyStands'
    <3>1. m # "ollama" => m \in ready
      BY <1>1, <1>2 DEF LifeInv, ReadyStands
    <3> QED
      BY <1>2, <2>5, <2>6, <3>1 DEF LifeInv, ReadyStands, CoreAt
  <2>12. WorkerPlace'
    BY <1>2, <2>5 DEF LifeInv, WorkerPlace, CoreAt, work
  <2> QED
    BY <2>7, <2>8, <2>9, <2>10, <2>11, <2>12 DEF CoreInv
<1> QED
  BY <1>3, <1>5, <1>6


\* Core marks the entry of a name of the module it is in, and waits on it.
LEMMA WithdrawKeeps ==
  ASSUME LifeInv, WithdrawNext
  PROVE  CoreInv'
<1>1. PICK m : m = core.module
  OBVIOUS
<1>2. /\ Ending /\ ~CoreAt("idle") /\ ~CoreAt("unload") /\ ~CoreAt("starting")
      /\ m \in Modules /\ Idle(Core)
      /\ UNCHANGED <<core, active, flags, ready, work>>
  BY <1>1, CoreModule DEF WithdrawNext, Ending, CoreAt, lifecycle, LifeInv, CoreAlone
<1>3. PICK w \in flags[m] : \E s \in Table(w[1]) : Withdraw(Core, w[1], w[2], m, s)
  BY <1>1, WithdrawsItsOwn
<1>4. PICK s \in Table(w[1]) : Withdraw(Core, w[1], w[2], m, s)
  BY <1>3
<1>5. w \in claims[m] /\ w[1] \in Kinds
  BY <1>2, <1>3 DEF LifeInv, FlagsAreClaims, ServicesTypeInv
<1>6. /\ s \in Slots /\ entries[s].name = w[2]
      /\ entries' = [entries EXCEPT ![s].withdrawing = TRUE]
      /\ draining' = [draining EXCEPT ![Core] = s]
      /\ stack' = [stack EXCEPT ![Core] = Charged(Core)]
      /\ UNCHANGED <<registering, loaded, claims>> /\ Running(Core)
  BY <1>4, <1>5, TablesApart DEF Withdraw, Open, Proceeding
<1>7. entries[s].handler = m
  <2>1. PICK u \in Table(w[1]) :
          /\ entries[u].handler = m
          /\ \A x \in Table(w[1]) : entries[x].name = w[2] => x = u
    BY <1>2, <1>5 DEF LifeInv, HostInv, ClaimsMatchTables
  <2> QED
    BY <1>6, <2>1
<1>8. /\ entries \in [Slots -> Entries] /\ stack \in [Threads -> Seq(Frames)]
      /\ draining \in [Threads -> Slots \cup {NoSlot}]
  BY DEF LifeInv, HostInv, TypeOK
<1>9. ServicesTypeInv'
  BY <1>2 DEF LifeInv, ServicesTypeInv, work
<1>10. CorePlace'
  BY <1>2, <1>6 DEF LifeInv, CorePlace, CoreAt
<1>11. CoreAlone'
  <2>1. /\ stack'[Core] = <<>> /\ draining'[Core] = s
        /\ \A t \in Threads : t # Core => draining'[t] = draining[t]
    BY <1>2, <1>6, <1>8, Constants DEF Charged
  <2>2. /\ \A u \in Slots : u # s => entries'[u] = entries[u]
        /\ entries'[s].handler = m
    <3>1. entries[s] \in Entries
      BY <1>6, <1>8
    <3>2. [entries[s] EXCEPT !.withdrawing = TRUE].handler = m
      BY <1>7, <3>1 DEF Entries
    <3> QED
      BY <1>6, <1>8, <3>2
  <2>3. \A u \in Slots : ~entries[u].withdrawing
    BY <1>6, NoSlotAssumption DEF LifeInv, CoreAlone, Running
  <2> QED
    BY <1>1, <1>2, <2>1, <2>2, <2>3 DEF LifeInv, CoreAlone, Idle, Running, Ending, CoreAt
<1>12. FlagsAreClaims' /\ ReadyStands' /\ WorkerPlace'
  BY <1>2, <1>6 DEF LifeInv, FlagsAreClaims, ReadyStands, WorkerPlace, CoreAt, work
<1> QED
  BY <1>9, <1>10, <1>11, <1>12 DEF CoreInv

\* The name is forgotten by the host and by the module at once.
LEMMA WithdrawReturnsKeeps ==
  ASSUME LifeInv, WithdrawReturns
  PROVE  CoreInv'
<1>1. PICK m : m = core.module
  OBVIOUS
<1>2. PICK s : s = draining[Core]
  OBVIOUS
<1>3. PICK c : c = <<s[1], entries[s].name>>
  OBVIOUS
<1>4. /\ Ending /\ ~CoreAt("idle") /\ ~CoreAt("unload") /\ ~CoreAt("starting")
      /\ m \in Modules /\ ~Running(Core) /\ entries[s].handler = m
      /\ flags' = [flags EXCEPT ![m] = flags[m] \ {c}]
      /\ UNCHANGED <<core, active, ready, work>>
  <2>1. Ending /\ ~Running(Core)
    BY DEF WithdrawReturns, FinishWithdraw
  <2>2. entries[s].handler = m
    BY <1>1, <1>2, <2>1 DEF LifeInv, CoreAlone
  <2>3. flags' = [flags EXCEPT ![m] = flags[m] \ {c}]
    BY <1>1, <1>2, <1>3 DEF WithdrawReturns
  <2> QED
    BY <1>1, <2>1, <2>2, <2>3, CoreModule DEF WithdrawReturns, Ending, CoreAt
<1>5. /\ entries' = [entries EXCEPT ![s] = Free]
      /\ claims' = [claims EXCEPT ![m] = claims[m] \ {c}]
      /\ draining' = [draining EXCEPT ![Core] = NoSlot]
      /\ UNCHANGED <<stack, registering, loaded>>
  BY <1>2, <1>3, <1>4 DEF WithdrawReturns, FinishWithdraw
<1>6. /\ entries \in [Slots -> Entries] /\ draining \in [Threads -> Slots \cup {NoSlot}]
      /\ flags = claims /\ flags \in [Modules -> SUBSET (Kinds \X AllNames)]
  BY DEF LifeInv, HostInv, TypeOK, FlagsAreClaims, ServicesTypeInv
<1>7. ServicesTypeInv'
  BY <1>4, <1>6 DEF LifeInv, ServicesTypeInv, work
<1>8. CorePlace'
  BY <1>4, <1>5 DEF LifeInv, CorePlace, CoreAt
<1>9. CoreAlone'
  <2>1. /\ \A u \in Slots : u # s => entries'[u] = entries[u]
        /\ \A u \in Slots : ~entries'[u].withdrawing
    <3>1. \A u \in Slots : entries[u].withdrawing => u = s
      BY <1>2 DEF LifeInv, CoreAlone
    <3> QED
      BY <1>5, <1>6, <3>1 DEF Free
  <2>2. \A t \in Threads : draining'[t] = NoSlot
    BY <1>5, <1>6 DEF LifeInv, CoreAlone, Running
  <2> QED
    BY <1>5, <2>1, <2>2, Constants DEF LifeInv, CoreAlone, Idle, Running
<1>10. FlagsAreClaims'
  <2>1. m \notin active
    BY <1>1, <1>4, CoreModule
  <2> QED
    BY <1>4, <1>5, <1>6, <2>1 DEF LifeInv, FlagsAreClaims
<1>11. ReadyStands' /\ WorkerPlace'
  BY <1>4, <1>5, <1>6 DEF LifeInv, ReadyStands, WorkerPlace, CoreAt, work
<1> QED
  BY <1>7, <1>8, <1>9, <1>10, <1>11 DEF CoreInv

\* start() has failed, or stop() returns: nothing is registered any more.
LEMMA ModuleEndsKeeps ==
  ASSUME LifeInv, StartFails \/ StopReturns
  PROVE  CoreInv'
<1>1. PICK m : m = core.module
  OBVIOUS
<1>2. /\ Ending /\ ~CoreAt("idle") /\ m \in Modules /\ m \in loaded /\ m \notin active
      /\ m # None /\ flags[m] = {} /\ Running(Core)
      /\ ready' = ready \ {m} /\ core' = [at |-> "unload", module |-> m]
      /\ UNCHANGED <<entries, stack, draining, claims, loaded, active, flags, request, result>>
      /\ registering' = None
      /\ worker' \in {"none", worker} /\ (m = "web" => worker' = "none")
  <2>1. Ending /\ ~CoreAt("idle")
    BY DEF StartFails, StopReturns, Ending, CoreAt
  <2>2. m \in Modules /\ m \in loaded /\ m \notin active /\ m # None
    BY <1>1, <2>1, CoreModule
  <2>3. core' = [at |-> "unload", module |-> m]
    <3>1. core' = [core EXCEPT !.at = "unload"]
      BY DEF StartFails, StopReturns
    <3> QED
      BY <1>1, <3>1 DEF LifeInv, ServicesTypeInv
  <2>4. CASE StartFails
    BY <1>1, <2>1, <2>2, <2>3, <2>4 DEF StartFails, EndRegistration, work, LifeInv, WorkerPlace
  <2>5. CASE StopReturns
    <3>1. registering = None
      BY <2>5 DEF StopReturns, LifeInv, CorePlace, CoreAt
    <3> QED
      BY <1>1, <2>1, <2>2, <2>3, <2>5, <3>1 DEF StopReturns, vars
  <2> QED
    BY <2>4, <2>5
<1>3. ServicesTypeInv'
  BY <1>2 DEF LifeInv, ServicesTypeInv, Stages
<1>4. CorePlace'
  BY <1>2 DEF CorePlace, CoreAt
<1>5. CoreAlone'
  BY <1>2, CoreStaysAlone DEF LifeInv
<1>6. FlagsAreClaims'
  BY <1>2 DEF LifeInv, FlagsAreClaims
<1>7. ReadyStands'
  BY <1>2 DEF LifeInv, ReadyStands, CoreAt
<1>8. WorkerPlace'
  BY <1>2 DEF LifeInv, WorkerPlace, CoreAt
<1> QED
  BY <1>3, <1>4, <1>5, <1>6, <1>7, <1>8 DEF CoreInv

\* The shared object is closed.
LEMMA UnloadKeeps ==
  ASSUME LifeInv, UnloadModule
  PROVE  CoreInv'
<1>1. PICK m : m = core.module
  OBVIOUS
<1>2. /\ CoreAt("unload") /\ ~CoreAt("idle") /\ ~Ending /\ ~CoreAt("starting")
      /\ m \in Modules /\ m \notin active
      /\ loaded' = loaded \ {m} /\ core' = [at |-> "idle", module |-> None]
      /\ UNCHANGED <<entries, stack, draining, registering, claims>>
      /\ UNCHANGED <<active, flags, ready, work>>
  BY <1>1, CoreModule DEF UnloadModule, CoreAt, Ending, CoreIdle
<1>3. Running(Core) /\ registering = None
  BY <1>2 DEF LifeInv, CoreAlone, CorePlace, CoreAt, Ending
<1>4. ServicesTypeInv'
  BY <1>2 DEF LifeInv, ServicesTypeInv, work, Stages
<1>5. CorePlace' /\ CoreAlone'
  BY <1>2, <1>3, CoreStaysAlone DEF LifeInv, CorePlace, CoreAt
<1>6. FlagsAreClaims' /\ ReadyStands'
  BY <1>2 DEF LifeInv, FlagsAreClaims, ReadyStands, CoreAt
<1>7. WorkerPlace'
  BY <1>1, <1>2, Constants DEF LifeInv, WorkerPlace, CoreAt, work
<1> QED
  BY <1>4, <1>5, <1>6, <1>7 DEF CoreInv


-----------------------------------------------------------------------------
(* The handlers' steps keep LifeInv *)

\* What a handler does leaves Core where it is, and the names in the tables.
LEMMA HandlersLeaveCore ==
  ASSUME LifeInv, UNCHANGED <<lifecycle, draining, registering, loaded, claims>>,
         stack'[Core] = stack[Core],
         \A s \in Slots : /\ entries'[s].handler = entries[s].handler
                          /\ entries'[s].withdrawing = entries[s].withdrawing,
         request' \in [Callers -> [about : BOOLEAN, steady : BOOLEAN]],
         result' \in [Callers -> Codes],
         worker' = worker \/ (worker \notin {"none", "done"} /\ worker' # "none")
  PROVE  CoreInv'
<1>1. UNCHANGED <<core, active, flags, ready>>
  BY DEF lifecycle
<1>2. ServicesTypeInv'
  BY <1>1 DEF LifeInv, ServicesTypeInv
<1>3. CorePlace'
  BY <1>1 DEF LifeInv, CorePlace, CoreAt
<1>4. CoreAlone'
  <2>1. \A t \in Threads : draining[t] # NoSlot => draining[t] \in Slots
    BY DEF LifeInv, HostInv, TypeOK
  <2> QED
    BY <1>1, <2>1, Constants DEF LifeInv, CoreAlone, Idle, Running, Ending, CoreAt
<1>5. FlagsAreClaims'
  BY <1>1 DEF LifeInv, FlagsAreClaims
<1>6. ReadyStands' /\ WorkerPlace'
  BY <1>1 DEF LifeInv, ReadyStands, WorkerPlace, CoreAt
<1> QED
  BY <1>2, <1>3, <1>4, <1>5, <1>6 DEF CoreInv

\* A call puts one frame on the thread's stack, of an open entry.
LEMMA CallResults ==
  ASSUME HostInv, NEW t \in Callers, NEW kind \in Kinds, NEW n \in AllNames,
         NEW s \in Table(kind), Call(t, kind, n, s)
  PROVE  /\ s \in Slots /\ s[1] = kind /\ Open(s, n) /\ Running(t)
         /\ stack[t] \in Seq(Frames) /\ Len(stack[t]) \in Nat
         /\ Len(stack'[t]) = Len(stack[t]) + 1
         /\ stack'[t][Len(stack[t]) + 1].name = n
         /\ stack'[t][Len(stack[t]) + 1].handler = entries[s].handler
         /\ \A i \in 1 .. Len(stack[t]) : /\ stack'[t][i].handler = stack[t][i].handler
                                          /\ stack'[t][i].name = stack[t][i].name
         /\ \A u \in Threads : u # t => stack'[u] = stack[u]
         /\ \A u \in Slots : /\ entries'[u].handler = entries[u].handler
                             /\ entries'[u].withdrawing = entries[u].withdrawing
         /\ UNCHANGED <<draining, registering, loaded, claims>>
<1> DEFINE f == [slot |-> s, name |-> n, handler |-> entries[s].handler, calls |-> MaxCalls]
           q == Append(Charged(t), f)
<1>1. s \in Slots /\ s[1] = kind /\ t \in Threads
  BY TablesApart, Constants
<1>2. /\ Proceeding(t) /\ Open(s, n) /\ Running(t)
      /\ entries' = [entries EXCEPT ![s].in_flight = @ + 1]
      /\ stack' = [stack EXCEPT ![t] = q]
      /\ UNCHANGED <<draining, registering, loaded, claims>>
  BY DEF Call, Proceeding
<1>3. /\ entries[s] \in Entries /\ stack[t] \in Seq(Frames)
      /\ stack \in [Threads -> Seq(Frames)] /\ entries \in [Slots -> Entries]
      /\ Len(stack[t]) \in Nat
  BY <1>1, LenProperties DEF HostInv, TypeOK
<1>4. f \in Frames /\ f.name = n /\ f.handler = entries[s].handler
  BY <1>1, <1>2, <1>3, HostAssumption DEF Frames, Entries, Open
<1>5. /\ Charged(t) \in Seq(Frames) /\ Len(Charged(t)) = Len(stack[t])
      /\ \A i \in 1 .. Len(stack[t]) : /\ Charged(t)[i].name = stack[t][i].name
                                       /\ Charged(t)[i].handler = stack[t][i].handler
  BY <1>1, <1>2, ChargedKeepsFrames DEF HostInv
<1> HIDE DEF f
<1>6. /\ Len(q) = Len(stack[t]) + 1 /\ q[Len(stack[t]) + 1] = f
      /\ \A i \in 1 .. Len(stack[t]) : /\ q[i].name = stack[t][i].name
                                       /\ q[i].handler = stack[t][i].handler
  BY <1>4, <1>5, AppendProperties
<1> HIDE DEF q
<1>7. stack'[t] = q /\ \A u \in Threads : u # t => stack'[u] = stack[u]
  BY <1>1, <1>2, <1>3
<1>8. \A u \in Slots : /\ entries'[u].handler = entries[u].handler
                       /\ entries'[u].withdrawing = entries[u].withdrawing
  BY <1>2, <1>3 DEF Entries
<1> QED
  BY <1>1, <1>2, <1>3, <1>4, <1>6, <1>7, <1>8

\* A return takes the innermost frame off the thread's stack.
LEMMA ReturnResults ==
  ASSUME HostInv, NEW t \in Callers, Return(t)
  PROVE  /\ Running(t) /\ stack[t] \in Seq(Frames) /\ Len(stack[t]) \in Nat \ {0}
         /\ Len(stack'[t]) = Len(stack[t]) - 1
         /\ \A i \in 1 .. Len(stack[t]) - 1 : stack'[t][i] = stack[t][i]
         /\ Len(stack[t]) = 1 => stack'[t] = <<>>
         /\ \A u \in Threads : u # t => stack'[u] = stack[u]
         /\ \A u \in Slots : /\ entries'[u].handler = entries[u].handler
                             /\ entries'[u].withdrawing = entries[u].withdrawing
         /\ UNCHANGED <<draining, registering, loaded, claims>>
<1>1. PICK q : q = stack[t]
  OBVIOUS
<1>2. /\ t \in Threads /\ Running(t) /\ q # <<>>
      /\ entries' = [entries EXCEPT ![Top(t).slot].in_flight = @ - 1]
      /\ stack' = [stack EXCEPT ![t] = SubSeq(q, 1, Len(q) - 1)]
      /\ UNCHANGED <<draining, registering, loaded, claims>>
  BY <1>1, Constants DEF Return, Idle
<1>3. /\ stack \in [Threads -> Seq(Frames)] /\ entries \in [Slots -> Entries]
      /\ q \in Seq(Frames)
  BY <1>1, <1>2 DEF HostInv, TypeOK
<1>4. Len(q) \in Nat \ {0}
  BY <1>2, <1>3, EmptySeq
<1>5. /\ SubSeq(q, 1, Len(q) - 1) \in Seq(Frames)
      /\ Len(SubSeq(q, 1, Len(q) - 1)) = Len(q) - 1
      /\ \A i \in 1 .. Len(q) - 1 : SubSeq(q, 1, Len(q) - 1)[i] = q[i]
  <2>1. PICK k \in Nat : k = Len(q) - 1
    BY <1>4
  <2>2. \A i \in 1 .. k : q[i] \in Frames
    BY <1>3, <1>4, <2>1, ElementOfSeq
  <2>3. /\ SubSeq(q, 1, k) \in Seq(Frames)
        /\ Len(SubSeq(q, 1, k)) = IF 1 <= k THEN k - 1 + 1 ELSE 0
        /\ \A i \in 1 .. k - 1 + 1 : SubSeq(q, 1, k)[i] = q[1 + i - 1]
    BY <2>1, <2>2, <1>4, SubSeqProperties
  <2>4. k - 1 + 1 = k /\ (~(1 <= k) => k = 0) /\ \A i \in 1 .. k : 1 + i - 1 = i
    BY <2>1
  <2> QED
    BY <2>1, <2>3, <2>4
<1>6. Len(q) = 1 => SubSeq(q, 1, Len(q) - 1) = <<>>
  BY <1>4, <1>5
<1>7. /\ stack'[t] = SubSeq(q, 1, Len(q) - 1)
      /\ \A u \in Threads : u # t => stack'[u] = stack[u]
  BY <1>2, <1>3
<1>8. \A u \in Slots : /\ entries'[u].handler = entries[u].handler
                       /\ entries'[u].withdrawing = entries[u].withdrawing
  BY <1>2, <1>3 DEF Entries
<1> QED
  BY <1>1, <1>2, <1>3, <1>4, <1>5, <1>6, <1>7, <1>8


-----------------------------------------------------------------------------
(* The handlers *)

\* Which modules have which names.
LEMMA NamesApart ==
  \A m \in Modules : \A kind, n : <<kind, n>> \in Registered(m) =>
    /\ n = "chat" => m = "ollama"
    /\ n \in {"identity.answer", "control.request", "policy.evidence"} => m # "ollama"
<1>1. \A m \in {"ollama", "identity", "compliance", "web"} :
        \A kind, n : <<kind, n>> \in Registered(m) =>
          \/ m = "ollama" /\ n \in {"llm.generate", "chat"}
          \/ m = "identity" /\ n \in {"identity", "identity.answer"}
          \/ /\ m = "compliance"
             /\ n \in {"control.request", "policy.evidence", "compliance", "control",
                       "policy-evidence"}
  BY RegisteredBy
<1> QED
  BY <1>1, Constants

\* An entry is its module's, and the module has its state, ollama excepted.
LEMMA EntryOwner ==
  ASSUME LifeInv, NEW s \in Slots, entries[s].handler # None
  PROVE  /\ entries[s].handler \in Modules
         /\ <<s[1], entries[s].name>> \in flags[entries[s].handler]
         /\ flags[entries[s].handler] # {}
         /\ entries[s].handler # "ollama" => entries[s].handler \in ready
         /\ entries[s].name = "chat" => entries[s].handler = "ollama"
         /\ entries[s].name \in {"identity.answer", "control.request", "policy.evidence"} =>
              entries[s].handler # "ollama"
<1>1. PICK m : m = entries[s].handler
  OBVIOUS
<1>2. entries[s] \in Entries
  BY DEF LifeInv, HostInv, TypeOK
<1>3. m \in Modules
  BY <1>1, <1>2 DEF Entries
<1>4. <<s[1], entries[s].name>> \in flags[m]
  BY <1>1 DEF LifeInv, HostInv, ClaimsMatchTables, FlagsAreClaims
<1>5. <<s[1], entries[s].name>> \in Registered(m)
  BY <1>3, <1>4 DEF LifeInv, FlagsAreClaims
<1>6. m # "ollama" => m \in ready
  BY <1>3, <1>4 DEF LifeInv, ReadyStands
<1> QED
  BY <1>1, <1>3, <1>4, <1>5, <1>6, NamesApart

\* A handler that runs is one its module still has registered.
LEMMA FrameOwner ==
  ASSUME LifeInv, NEW t \in Callers, NEW i \in 1 .. Len(stack[t])
  PROVE  /\ flags[stack[t][i].handler] # {} /\ stack[t][i].handler \in Modules
         /\ stack[t][i].name = "chat" => stack[t][i].handler = "ollama"
<1>1. t \in Threads
  BY Constants
<1>2. /\ stack[t][i].slot \in Slots /\ stack[t][i].handler # None
  BY <1>1, FrameType DEF LifeInv, HostInv
<1>3. /\ entries[stack[t][i].slot].handler = stack[t][i].handler
      /\ entries[stack[t][i].slot].name = stack[t][i].name
  BY <1>1 DEF LifeInv, HostInv, CallsKeepTheirEntry
<1> QED
  BY <1>2, <1>3, EntryOwner

\* An active module's names are all open.
LEMMA ActiveNamesOpen ==
  ASSUME LifeInv, "identity" \in active
  PROVE  HasOpen("identity.answer")
<1>1. "identity" \in Modules /\ "identity" # None
  BY Constants DEF LifeInv, ServicesTypeInv
<1>2. <<"service", "identity.answer">> \in claims["identity"]
  BY <1>1, RegisteredBy DEF LifeInv, FlagsAreClaims
<1>3. PICK s \in Table("service") :
        entries[s].name = "identity.answer" /\ entries[s].handler = "identity"
  BY <1>1, <1>2 DEF LifeInv, HostInv, ClaimsMatchTables
<1>4. s \in Slots
  BY <1>3, TablesApart, Constants
<1>5. ~entries[s].withdrawing
  <2> SUFFICES ASSUME entries[s].withdrawing PROVE FALSE
    OBVIOUS
  <2>1. draining[Core] = s /\ ~Running(Core)
    BY <1>4, NoSlotAssumption DEF LifeInv, CoreAlone, Running
  <2>2. Ending /\ core.module = "identity"
    BY <1>3, <2>1 DEF LifeInv, CoreAlone
  <2> QED
    BY <2>2, CoreModule DEF Ending, CoreAt
<1> QED
  BY <1>1, <1>3, <1>5 DEF HasOpen, Open

\* What a thread's own part of WorkInv depends on.
LEMMA SameThread ==
  ASSUME NEW t, stack'[t] = stack[t], result'[t] = result[t], request'[t] = request[t],
         \A i \in 1 .. Len(stack[t]) :
           stack[t][i].handler \in ready => stack[t][i].handler \in ready'
  PROVE  /\ FramesSee(t) => FramesSee(t)'
         /\ ChatAnswered(t) => ChatAnswered(t)'
BY DEF FramesSee, ChatAnswered, Inside, Idle, Top

\* The Core thread resets the state only of modules that have nothing
\* registered, and settled questions only when it stops a module.
LEMMA CoreKeepsWork ==
  ASSUME LifeInv, WorkInv, result' = result, worker = "called" => worker' = "called",
         \A t \in Callers : stack'[t] = stack[t],
         \A m \in Modules : m \in ready /\ flags[m] # {} => m \in ready',
         \A t \in Callers :
           /\ request'[t].about = request[t].about
           /\ request'[t].steady =>
                request[t].steady /\ {"ollama", "identity"} \subseteq active'
  PROVE  WorkInv'
<1>1. Requests'
  BY DEF WorkInv, Requests, Idle
<1>2. ASSUME NEW t \in Callers PROVE FramesSee(t)' /\ ChatAnswered(t)'
  <2>1. \A i \in 1 .. Len(stack[t]) :
          stack[t][i].handler \in ready => stack[t][i].handler \in ready'
    BY FrameOwner
  <2>2. FramesSee(t)'
    BY <2>1 DEF WorkInv, FramesSee
  <2>3. ChatAnswered(t)'
    BY DEF WorkInv, ChatAnswered, Inside, Idle, Top
  <2> QED
    BY <2>2, <2>3
<1>3. WebCalls'
  BY Constants DEF WorkInv, WebCalls
<1> QED
  BY <1>1, <1>2, <1>3 DEF WorkInv


\* What one handler does concerns its own thread.
LEMMA OneThreadWorks ==
  ASSUME WorkInv, UNCHANGED lifecycle, NEW t \in Callers,
         \A u \in Callers : u # t =>
           /\ stack'[u] = stack[u] /\ result'[u] = result[u] /\ request'[u] = request[u],
         FramesSee(t)', ChatAnswered(t)',
         stack'[t] = <<>> => result'[t] = "none",
         stack'[Web] # <<>> => worker' = "called",
         request'[t].steady => {"ollama", "identity"} \subseteq active
  PROVE  WorkInv'
<1>1. active' = active /\ ready' = ready
  BY DEF lifecycle
<1>2. Requests'
  BY <1>1 DEF WorkInv, Requests, Idle
<1>3. \A u \in Callers : FramesSee(u)' /\ ChatAnswered(u)'
  <2> SUFFICES ASSUME NEW u \in Callers, u # t PROVE FramesSee(u)' /\ ChatAnswered(u)'
    OBVIOUS
  <2>1. \A i \in 1 .. Len(stack[u]) :
          stack[u][i].handler \in ready => stack[u][i].handler \in ready'
    BY <1>1
  <2> QED
    BY <2>1, SameThread DEF WorkInv
<1>4. WebCalls'
  BY DEF WebCalls
<1> QED
  BY <1>2, <1>3, <1>4 DEF WorkInv

\* A command's handler begins: chat's may not have its owner yet.
LEMMA DispatchKeeps ==
  ASSUME LifeInv, WorkInv, NEW t \in Callers, NEW n \in CommandNames, NEW about \in BOOLEAN,
         Dispatch(t, n, about)
  PROVE  CoreInv' /\ WorkInv'
<1>1. PICK s \in Table("command") : Call(t, "command", n, s)
  BY DEF Dispatch, DispatchCommand
<1>2. PICK r : r = [about |-> about, steady |-> {"ollama", "identity"} \subseteq active]
  OBVIOUS
<1>3. /\ stack[t] = <<>> /\ UNCHANGED <<lifecycle, result>>
      /\ request' = [request EXCEPT ![t] = r]
      /\ \/ t # Web /\ worker' = worker
         \/ t = Web /\ worker = "job" /\ worker' = "called"
  BY <1>2 DEF Dispatch, Idle
<1>4. /\ t \in Threads /\ t # Core /\ "command" \in Kinds /\ n \in AllNames
  BY Constants
<1>5. /\ s \in Slots /\ s[1] = "command" /\ Open(s, n)
      /\ stack[t] \in Seq(Frames) /\ Len(stack[t]) \in Nat
      /\ Len(stack'[t]) = Len(stack[t]) + 1
      /\ stack'[t][Len(stack[t]) + 1].name = n
      /\ stack'[t][Len(stack[t]) + 1].handler = entries[s].handler
      /\ \A u \in Threads : u # t => stack'[u] = stack[u]
      /\ \A u \in Slots : /\ entries'[u].handler = entries[u].handler
                          /\ entries'[u].withdrawing = entries[u].withdrawing
      /\ UNCHANGED <<draining, registering, loaded, claims>>
  BY <1>1, <1>4, CallResults DEF LifeInv
<1>6. Len(stack'[t]) = 1 /\ stack'[t][1].name = n /\ stack'[t][1].handler = entries[s].handler
  BY <1>3, <1>5
<1>7. /\ request' \in [Callers -> [about : BOOLEAN, steady : BOOLEAN]]
      /\ request'[t] = r /\ \A u \in Callers : u # t => request'[u] = request[u]
  BY <1>2, <1>3 DEF LifeInv, ServicesTypeInv
<1>8. CoreInv'
  BY <1>3, <1>4, <1>5, <1>7, Constants, HandlersLeaveCore DEF LifeInv, ServicesTypeInv
<1>9. result[t] = "none"
  BY <1>3 DEF WorkInv, Requests, Idle
<1>10. entries[s].handler \in ready \/ n = "chat"
  <2>1. entries[s].handler # None /\ entries[s].name = n
    BY <1>5 DEF Open
  <2>2. \A m \in Modules : <<"command", n>> \in Registered(m) /\ m = "ollama" => n = "chat"
    BY RegisteredBy
  <2>3. <<s[1], n>> \in flags[entries[s].handler] /\ entries[s].handler \in Modules
    BY <1>5, <2>1, EntryOwner
  <2>4. <<"command", n>> \in Registered(entries[s].handler)
    BY <1>5, <2>3 DEF LifeInv, FlagsAreClaims
  <2> QED
    BY <1>5, <2>1, <2>2, <2>3, <2>4, EntryOwner
<1>11. FramesSee(t)'
  <2>1. ready' = ready
    BY <1>3 DEF lifecycle
  <2> QED
    BY <1>3, <1>6, <1>9, <1>10, <2>1 DEF FramesSee
<1>12. ChatAnswered(t)'
  BY <1>3, <1>9 DEF ChatAnswered
<1>13. stack'[t] # <<>> /\ (stack'[Web] # <<>> => worker' = "called")
  BY <1>3, <1>5, <1>6, Constants DEF WorkInv, WebCalls
<1> QED
  BY <1>2, <1>3, <1>4, <1>5, <1>7, <1>8, <1>11, <1>12, <1>13, Constants, OneThreadWorks

\* A handler calls the service it needs, or learns that there is none.
LEMMA InvokeKeeps ==
  ASSUME LifeInv, WorkInv, NEW t \in Callers, Invoke(t)
  PROVE  CoreInv' /\ WorkInv'
<1>1. PICK n \in DOMAIN Needs :
        /\ Inside(t, n) /\ Top(t).handler \in ready
        /\ \/ InvokeService(t, Needs[n]) /\ UNCHANGED result
           \/ /\ ~HasOpen(Needs[n]) /\ UNCHANGED vars
              /\ result' = [result EXCEPT ![t] = "NOT_FOUND"]
  BY DEF Invoke
<1>2. /\ t \in Threads /\ t # Core /\ "service" \in Kinds
      /\ Needs[n] \in {"identity.answer", "control.request", "policy.evidence"}
      /\ Needs[n] \in AllNames
      /\ n = "chat" => Needs[n] = "identity.answer"
  <2>1. /\ Needs[n] \in {"identity.answer", "control.request", "policy.evidence"}
        /\ n = "chat" => Needs[n] = "identity.answer"
    BY DEF Needs
  <2> QED
    BY <2>1, Constants, ServicesAssumption
<1>3. /\ result[t] = "none" /\ UNCHANGED <<lifecycle, request, worker>>
      /\ result \in [Callers -> Codes] /\ ready' = ready
      /\ request \in [Callers -> [about : BOOLEAN, steady : BOOLEAN]]
  BY DEF Invoke, lifecycle, LifeInv, ServicesTypeInv
<1>4. /\ stack[t] \in Seq(Frames) /\ Len(stack[t]) \in Nat /\ Len(stack[t]) # 0
      /\ stack[t][Len(stack[t])].handler \in ready /\ stack[t][Len(stack[t])].name = n
      /\ \A i \in 1 .. Len(stack[t]) : stack[t][i].handler \in ready
  <2>1. stack[t] \in Seq(Frames) /\ stack[t] # <<>>
    BY <1>1, <1>2 DEF LifeInv, HostInv, TypeOK, Inside, Idle
  <2>2. stack[t][Len(stack[t])].handler \in ready /\ stack[t][Len(stack[t])].name = n
    BY <1>1 DEF Inside, Top
  <2> QED
    BY <2>1, <2>2 DEF WorkInv, FramesSee
<1>5. request'[t].steady => {"ollama", "identity"} \subseteq active
  BY <1>3 DEF WorkInv, Requests
<1>6. CASE InvokeService(t, Needs[n]) /\ UNCHANGED result
  <2>1. PICK s \in Table("service") : Call(t, "service", Needs[n], s)
    BY <1>6 DEF InvokeService
  <2>2. /\ s \in Slots /\ Open(s, Needs[n])
        /\ Len(stack'[t]) = Len(stack[t]) + 1
        /\ stack'[t][Len(stack[t]) + 1].name = Needs[n]
        /\ stack'[t][Len(stack[t]) + 1].handler = entries[s].handler
        /\ \A i \in 1 .. Len(stack[t]) : stack'[t][i].handler = stack[t][i].handler
        /\ \A u \in Threads : u # t => stack'[u] = stack[u]
        /\ \A u \in Slots : /\ entries'[u].handler = entries[u].handler
                            /\ entries'[u].withdrawing = entries[u].withdrawing
        /\ UNCHANGED <<draining, registering, loaded, claims>>
    BY <1>2, <2>1, CallResults DEF LifeInv
  <2>3. CoreInv'
    BY <1>2, <1>3, <1>6, <2>2, Constants, HandlersLeaveCore
  <2>4. entries[s].handler \in ready
    BY <1>2, <2>2, EntryOwner DEF Open
  <2>5. FramesSee(t)'
    BY <1>3, <1>4, <2>2, <2>4 DEF FramesSee
  <2>6. ChatAnswered(t)' /\ stack'[t] # <<>>
    BY <1>3, <1>4, <1>6, <2>2 DEF ChatAnswered
  <2>7. stack'[Web] # <<>> => worker' = "called"
    BY <1>3, <1>4, <2>2, Constants DEF WorkInv, WebCalls
  <2> QED
    BY <1>2, <1>3, <1>5, <1>6, <2>2, <2>3, <2>5, <2>6, <2>7, Constants, OneThreadWorks
<1>7. CASE /\ ~HasOpen(Needs[n]) /\ UNCHANGED vars
           /\ result' = [result EXCEPT ![t] = "NOT_FOUND"]
  <2>1. /\ UNCHANGED <<entries, stack, draining, registering, loaded, claims>>
        /\ result' \in [Callers -> Codes]
        /\ \A u \in Callers : u # t => result'[u] = result[u]
    BY <1>3, <1>7 DEF vars, Codes
  <2>2. CoreInv'
    BY <1>3, <2>1, HandlersLeaveCore
  <2>3. FramesSee(t)'
    BY <1>3, <1>4, <2>1 DEF FramesSee
  <2>4. ~(Inside(t, "chat") /\ request[t].steady)
    <3> SUFFICES ASSUME Inside(t, "chat"), request[t].steady PROVE FALSE
      OBVIOUS
    <3>1. n = "chat" /\ "identity" \in active
      BY <1>1, <1>3, <1>5 DEF Inside
    <3> QED
      BY <1>2, <1>7, <3>1, ActiveNamesOpen
  <2>5. ChatAnswered(t)' /\ stack'[t] # <<>>
    BY <1>3, <1>4, <2>1, <2>4 DEF ChatAnswered, Inside, Idle, Top
  <2>6. stack'[Web] # <<>> => worker' = "called"
    BY <1>3, <2>1 DEF WorkInv, WebCalls
  <2> QED
    BY <1>3, <1>5, <2>1, <2>2, <2>3, <2>5, <2>6, OneThreadWorks
<1> QED
  BY <1>1, <1>6, <1>7


\* chat goes on without the host while ollama has no owner.
LEMMA NoHostKeeps ==
  ASSUME LifeInv, WorkInv, NEW t \in Callers, NoHost(t)
  PROVE  CoreInv' /\ WorkInv'
<1>1. /\ UNCHANGED <<entries, stack, draining, registering, loaded, claims>>
      /\ UNCHANGED <<lifecycle, request, worker>> /\ ready' = ready
      /\ result \in [Callers -> Codes] /\ result' = [result EXCEPT ![t] = "SKIPPED"]
      /\ request \in [Callers -> [about : BOOLEAN, steady : BOOLEAN]]
      /\ stack[t] # <<>> /\ stack[t][Len(stack[t])].name = "chat"
      /\ stack[t][Len(stack[t])].handler \notin ready
  BY DEF NoHost, vars, lifecycle, LifeInv, ServicesTypeInv, Inside, Idle, Top
<1>2. /\ result'[t] = "SKIPPED" /\ result' \in [Callers -> Codes]
      /\ \A u \in Callers : u # t => result'[u] = result[u]
  BY <1>1 DEF Codes
<1>3. CoreInv'
  BY <1>1, <1>2, HandlersLeaveCore
<1>4. FramesSee(t)'
  BY <1>1, <1>2 DEF FramesSee, WorkInv
<1>5. request'[t].steady => {"ollama", "identity"} \subseteq active
  BY <1>1 DEF WorkInv, Requests
<1>6. Len(stack[t]) \in 1 .. Len(stack[t])
  BY <1>1, Constants DEF LifeInv, HostInv, TypeOK
<1>7. "ollama" \notin ready
  BY <1>1, <1>6, FrameOwner
<1>8. ChatAnswered(t)'
  BY <1>1, <1>5, <1>7 DEF ChatAnswered, LifeInv, ReadyStands
<1>9. stack'[Web] # <<>> => worker' = "called"
  BY <1>1 DEF WorkInv, WebCalls
<1> QED
  BY <1>1, <1>2, <1>3, <1>4, <1>5, <1>8, <1>9, OneThreadWorks

\* A handler returns to the one that invoked it, whose state is set, with
\* "NOT_FOUND" only for questions that are not about identity.
LEMMA FinishKeeps ==
  ASSUME LifeInv, WorkInv, NEW t \in Callers, NEW rc \in Returns(t), Finish(t, rc)
  PROVE  CoreInv' /\ WorkInv'
<1>1. PICK n : n = Len(stack[t])
  OBVIOUS
<1>2. Return(t) /\ UNCHANGED lifecycle /\ ready' = ready
  BY DEF Finish, lifecycle
<1>3. /\ stack[t] \in Seq(Frames) /\ n \in Nat \ {0}
      /\ Len(stack'[t]) = n - 1
      /\ \A i \in 1 .. n - 1 : stack'[t][i] = stack[t][i]
      /\ n = 1 => stack'[t] = <<>>
      /\ \A u \in Threads : u # t => stack'[u] = stack[u]
      /\ \A u \in Slots : /\ entries'[u].handler = entries[u].handler
                          /\ entries'[u].withdrawing = entries[u].withdrawing
      /\ UNCHANGED <<draining, registering, loaded, claims>>
  BY <1>1, <1>2, ReturnResults DEF LifeInv
<1>4. /\ result \in [Callers -> Codes]
      /\ request \in [Callers -> [about : BOOLEAN, steady : BOOLEAN]]
  BY DEF LifeInv, ServicesTypeInv
<1>5. /\ rc \in Codes
      /\ rc = "NOT_FOUND" => ~request[t].about
      /\ rc # "SKIPPED"
  BY DEF Returns, Known, Codes
<1>6. stack'[Core] = stack[Core] /\ \A u \in Callers : u # t => stack'[u] = stack[u]
  BY <1>3, Constants
<1>7. \A i \in 1 .. n - 1 : stack'[t][i].handler \in ready
  BY <1>1, <1>3 DEF WorkInv, FramesSee
<1>8. FramesSee(t)'
  BY <1>2, <1>3, <1>7 DEF FramesSee
<1>9. CASE n = 1
  <2>1. /\ result' = [result EXCEPT ![t] = "none"]
        /\ request' = [request EXCEPT ![t] = NoRequest]
        /\ \/ t # Web /\ worker' = worker
           \/ t = Web /\ worker' = "post"
    BY <1>1, <1>9 DEF Finish
  <2>2. /\ result'[t] = "none" /\ result' \in [Callers -> Codes]
        /\ \A u \in Callers : u # t => result'[u] = result[u]
    BY <1>4, <2>1 DEF Codes
  <2>3. /\ ~request'[t].about /\ ~request'[t].steady
        /\ request' \in [Callers -> [about : BOOLEAN, steady : BOOLEAN]]
        /\ \A u \in Callers : u # t => request'[u] = request[u]
    BY <1>4, <2>1 DEF NoRequest
  <2>4. t = Web => worker = "called"
    BY <1>1, <1>3 DEF WorkInv, WebCalls
  <2>5. CoreInv'
    BY <1>2, <1>3, <1>6, <2>1, <2>2, <2>3, <2>4, HandlersLeaveCore
  <2>6. ChatAnswered(t)'
    BY <2>3 DEF ChatAnswered
  <2>7. stack'[Web] # <<>> => worker' = "called"
    BY <1>3, <1>6, <1>9, <2>1, Constants DEF WorkInv, WebCalls
  <2> QED
    BY <1>2, <1>6, <1>8, <2>2, <2>3, <2>5, <2>6, <2>7, OneThreadWorks
<1>10. CASE n # 1
  <2>1. result' = [result EXCEPT ![t] = rc] /\ UNCHANGED <<request, worker>>
    BY <1>1, <1>10 DEF Finish
  <2>2. /\ result'[t] = rc /\ result' \in [Callers -> Codes]
        /\ \A u \in Callers : u # t => result'[u] = result[u]
    BY <1>4, <1>5, <2>1
  <2>3. CoreInv'
    BY <1>2, <1>3, <1>4, <1>6, <2>1, <2>2, HandlersLeaveCore
  <2>4. ChatAnswered(t)'
    BY <1>5, <2>1, <2>2 DEF ChatAnswered
  <2>5. stack'[t] # <<>>
    BY <1>3, <1>10
  <2>6. request'[t].steady => {"ollama", "identity"} \subseteq active
    BY <2>1 DEF WorkInv, Requests
  <2>7. stack'[Web] # <<>> => worker' = "called"
    BY <1>1, <1>3, <1>6, <2>1, Constants DEF WorkInv, WebCalls
  <2> QED
    BY <1>2, <1>6, <1>8, <2>1, <2>2, <2>3, <2>4, <2>5, <2>6, <2>7, OneThreadWorks
<1> QED
  BY <1>9, <1>10


\* The web worker goes round its loop, outside any handler.
LEMMA WebMovesKeep ==
  ASSUME LifeInv, WorkInv, WebPoll \/ WebLeaves \/ WebPost \/ WebUnrouted
  PROVE  CoreInv' /\ WorkInv'
<1>1. /\ UNCHANGED <<vars, lifecycle, request, result>>
      /\ worker \in {"loop", "job", "post"} /\ worker' # "none"
  BY DEF WebPoll, WebLeaves, WebPost, WebUnrouted, WebMoves
<1>2. UNCHANGED <<entries, stack, draining, registering, loaded, claims, active, ready>>
  BY <1>1 DEF vars, lifecycle
<1>3. /\ request \in [Callers -> [about : BOOLEAN, steady : BOOLEAN]]
      /\ result \in [Callers -> Codes]
  BY DEF LifeInv, ServicesTypeInv
<1>4. CoreInv'
  BY <1>1, <1>2, <1>3, HandlersLeaveCore
<1>5. WorkInv'
  BY <1>1, <1>2, CoreKeepsWork DEF WorkInv, Requests
<1> QED
  BY <1>4, <1>5

\* What start(), stop() and the loading of modules leave to the handlers.
LEMMA LifecycleKeepsWork ==
  ASSUME LifeInv, WorkInv, Lifecycle \/ Manage
  PROVE  WorkInv'
<1>1. ASSUME result' = result, request' = request, worker = "called" => worker' = "called",
             \A t \in Callers : stack'[t] = stack[t], active \subseteq active',
             \A m \in Modules : m \in ready /\ flags[m] # {} => m \in ready'
      PROVE  WorkInv'
  BY <1>1, CoreKeepsWork DEF WorkInv, Requests
<1>2. ASSUME UNCHANGED stack, UNCHANGED work, ready \subseteq ready', active \subseteq active'
      PROVE  WorkInv'
  BY <1>1, <1>2 DEF work
<1>3. \A q : stack' = [stack EXCEPT ![Core] = q] =>
        \A t \in Callers : stack'[t] = stack[t]
  BY Constants DEF LifeInv, HostInv, TypeOK
<1>4. ASSUME NEW m \in Modules, NEW able \in BOOLEAN, Load(m, able) PROVE WorkInv'
  <2>1. /\ UNCHANGED stack /\ UNCHANGED work /\ active' = active /\ ready \subseteq ready'
    BY <1>4 DEF Load, BeginRegistration
  <2> QED
    BY <1>2, <2>1
<1>5. ASSUME NEW m \in Modules, Stop(m) PROVE WorkInv'
  <2>1. /\ UNCHANGED <<vars, ready, result, worker>> /\ active' = active \ {m}
        /\ request' = Unsettled(m)
    BY <1>5 DEF Stop
  <2>2. stack' = stack
    BY <2>1 DEF vars
  <2>3. \A t \in Callers :
          /\ request'[t].about = request[t].about
          /\ request'[t].steady <=> request[t].steady /\ m \notin {"ollama", "identity"}
    BY <2>1 DEF Unsettled, LifeInv, ServicesTypeInv
  <2>4. \A t \in Callers : request[t].steady => {"ollama", "identity"} \subseteq active
    BY DEF WorkInv, Requests
  <2> QED
    BY <2>1, <2>2, <2>3, <2>4, CoreKeepsWork
<1>6. CASE RegisterNext
  <2>1. UNCHANGED <<active, ready, work>>
    BY <1>6 DEF RegisterNext
  <2>2. stack' = stack \/ stack' = [stack EXCEPT ![Core] = Charged(Core)]
    BY <1>6, RegistersItsOwn DEF vars, Register
  <2> QED
    BY <1>1, <1>3, <2>1, <2>2 DEF work
<1>7. CASE WithdrawNext
  <2>1. UNCHANGED <<active, ready, work>>
    BY <1>7 DEF WithdrawNext, lifecycle
  <2>2. stack' = [stack EXCEPT ![Core] = Charged(Core)]
    BY <1>7, WithdrawsItsOwn DEF Withdraw
  <2> QED
    BY <1>1, <1>3, <2>1, <2>2 DEF work
<1>8. CASE SetOwner
  <2>1. /\ UNCHANGED stack /\ UNCHANGED work /\ active' = active /\ ready \subseteq ready'
    BY <1>8 DEF SetOwner, vars
  <2> QED
    BY <1>2, <2>1
<1>9. ASSUME NEW created \in BOOLEAN, CreateWorker(created) PROVE WorkInv'
  <2>1. /\ UNCHANGED <<vars, active, ready, request, result>> /\ worker = "none"
    BY <1>9 DEF CreateWorker
  <2> QED
    BY <1>1, <2>1 DEF vars
<1>10. CASE StartReturns \/ WithdrawReturns \/ UnloadModule
  <2>1. /\ UNCHANGED stack /\ UNCHANGED work /\ active \subseteq active' /\ ready' = ready
    BY <1>10 DEF StartReturns, EndRegistration, WithdrawReturns, FinishWithdraw, UnloadModule
  <2> QED
    BY <1>2, <2>1
<1>11. CASE StartFails \/ StopReturns
  <2>1. PICK m : m = core.module
    OBVIOUS
  <2>2. /\ UNCHANGED stack /\ UNCHANGED <<request, result, active>>
        /\ worker = "called" => worker' = "called"
        /\ ready' = ready \ {m} /\ flags[m] = {}
    BY <1>11, <2>1 DEF StartFails, StopReturns, EndRegistration, vars, work
  <2> QED
    BY <1>1, <2>2
<1> QED
  BY <1>4, <1>5, <1>6, <1>7, <1>8, <1>9, <1>10, <1>11 DEF Lifecycle, Manage

-----------------------------------------------------------------------------
(* The theorems *)

\* No module is loaded and nobody has been asked anything.
LEMMA ServicesInvInit ==
  ASSUME ServicesInit
  PROVE  ServicesInv
<1>1. /\ HostInv /\ core = [at |-> "idle", module |-> None]
      /\ active = {} /\ ready = {} /\ loaded = {} /\ registering = None
      /\ flags = [m \in Modules |-> {}] /\ claims = flags /\ worker = "none"
      /\ request = [t \in Callers |-> NoRequest]
      /\ result = [t \in Callers |-> "none"]
      /\ entries = [s \in Slots |-> Free] /\ stack = [t \in Threads |-> <<>>]
      /\ draining = [t \in Threads |-> NoSlot]
  BY HostInvInit DEF ServicesInit, Init, CoreIdle
<1>2. ServicesTypeInv
  BY <1>1 DEF ServicesTypeInv, Stages, Codes, NoRequest
<1>3. CorePlace
  BY <1>1 DEF CorePlace, CoreAt
<1>4. CoreAlone
  BY <1>1, Constants DEF CoreAlone, Idle, Running, Free
<1>5. FlagsAreClaims /\ ReadyStands /\ WorkerPlace
  BY <1>1 DEF FlagsAreClaims, ReadyStands, WorkerPlace, CoreAt
<1>6. \A t \in Callers : stack[t] = <<>> /\ ~request[t].about /\ ~request[t].steady
                         /\ result[t] = "none"
  BY <1>1, Constants DEF NoRequest
<1>7. WorkInv
  BY <1>6, Constants DEF WorkInv, Requests, WebCalls, FramesSee, ChatAnswered
<1> QED
  BY <1>1, <1>2, <1>3, <1>4, <1>5, <1>7 DEF ServicesInv, LifeInv

\* Every step of the modules, of their handlers and of Core keeps it.
LEMMA ServicesInvStep ==
  ASSUME ServicesInv, [ServicesNext]_servicesVars
  PROVE  ServicesInv'
<1>1. LifeInv /\ WorkInv
  BY DEF ServicesInv
<1>2. HostInv'
  BY <1>1, ServicesTakeHostSteps, HostInvStep DEF LifeInv
<1>3. CoreInv' /\ WorkInv' => ServicesInv'
  BY <1>2 DEF ServicesInv, LifeInv, CoreInv
<1>4. CASE Lifecycle
  <2>1. CoreInv'
    BY <1>1, <1>4, RegisterKeeps, StartGoesOn, StartReturnsKeeps, ModuleEndsKeeps,
       WithdrawKeeps, WithdrawReturnsKeeps, UnloadKeeps DEF Lifecycle
  <2> QED
    BY <1>1, <1>3, <1>4, <2>1, LifecycleKeepsWork
<1>5. CASE Manage
  <2>1. CoreInv'
    BY <1>1, <1>5, LoadKeeps, StopKeeps DEF Manage
  <2> QED
    BY <1>1, <1>3, <1>5, <2>1, LifecycleKeepsWork
<1>6. ASSUME NEW t \in Callers, Handle(t) PROVE ServicesInv'
  BY <1>1, <1>3, <1>6, InvokeKeeps, NoHostKeeps, FinishKeeps DEF Handle
<1>7. ASSUME NEW t \in Callers, Ask(t) PROVE ServicesInv'
  BY <1>1, <1>3, <1>7, DispatchKeeps DEF Ask
<1>8. CASE WebWorker \/ WebPoll
  BY <1>1, <1>3, <1>7, <1>8, WebMovesKeep, Constants DEF WebWorker
<1>9. CASE UNCHANGED servicesVars
  <2>1. /\ UNCHANGED <<vars, lifecycle, work>>
        /\ UNCHANGED <<entries, stack, draining, registering, loaded, claims, active, ready>>
        /\ UNCHANGED <<request, result, worker>>
    BY <1>9 DEF servicesVars, vars, lifecycle, work
  <2>2. /\ request \in [Callers -> [about : BOOLEAN, steady : BOOLEAN]]
        /\ result \in [Callers -> Codes]
    BY <1>1 DEF LifeInv, ServicesTypeInv
  <2>3. CoreInv'
    BY <1>1, <2>1, <2>2, HandlersLeaveCore
  <2>4. WorkInv'
    BY <1>1, <2>1, CoreKeepsWork DEF WorkInv, Requests
  <2> QED
    BY <1>3, <2>3, <2>4
<1> QED
  BY <1>4, <1>5, <1>6, <1>7, <1>8, <1>9 DEF ServicesNext

\* Whatever is loaded, started, stopped and asked, in any interleaving, the
\* modules' flags are the host's claims, Core waits for its own module's
\* entries only, and the handlers see their state.
THEOREM ServicesInvAlways == ServicesSpec => []ServicesInv
<1>1. ServicesInit => ServicesInv
  BY ServicesInvInit
<1>2. ServicesInv /\ [ServicesNext]_servicesVars => ServicesInv'
  BY ServicesInvStep
<1> QED
  BY <1>1, <1>2, PTL DEF ServicesSpec

\* The modules implement the host: every step of theirs is one of the host's
\* or leaves the tables alone, though nothing checks that a module that is
\* unloaded has taken back what it registered.
THEOREM ModulesImplementHost == ServicesSpec => ImplementsHost
<1>1. ServicesInit => Init
  BY DEF ServicesInit
<1>2. ServicesInv /\ [ServicesNext]_servicesVars => [Next]_vars
  BY ServicesTakeHostSteps DEF ServicesInv
<1> QED
  BY <1>1, <1>2, ServicesInvAlways, PTL DEF ServicesSpec, ImplementsHost, Spec

\* owner and the identity record are reset only when no call is left inside
\* their handlers, and the web worker's host only after it has been joined.
THEOREM HandlersAlwaysSeeTheirState == ServicesSpec => []HandlersSeeTheirState
<1>1. ServicesInv => HandlersSeeTheirState
  BY DEF ServicesInv, LifeInv, WorkerPlace, WorkInv, FramesSee, HandlersSeeTheirState
<1> QED
  BY <1>1, ServicesInvAlways, PTL

\* "Matching identity/mission questions never reach Ollama generation" while
\* both modules stay ACTIVE.
THEOREM IdentityAlwaysAnswersItsOwn == ServicesSpec => []IdentityAnswersItsOwn
<1>1. ServicesInv => IdentityAnswersItsOwn
  BY DEF ServicesInv, WorkInv, ChatAnswered, IdentityAnswersItsOwn
<1> QED
  BY <1>1, ServicesInvAlways, PTL

\* What is proved of the host for any clients holds with these modules: no
\* call is ever inside a module that has been unloaded.
THEOREM ModulesNeverCallUnloadedCode == ServicesSpec => []NoCallIntoUnloadedCode
<1>1. ServicesInv => NoCallIntoUnloadedCode
  BY DEF ServicesInv, LifeInv, HostInv
<1> QED
  BY <1>1, ServicesInvAlways, PTL
=============================================================================
