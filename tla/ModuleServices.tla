--------------------------- MODULE ModuleServices ---------------------------
(***************************************************************************)
(* The ollama, identity, compliance and web modules at work with the       *)
(* module host: their start() and stop(), run by the Core thread, and      *)
(* their handlers, run by the workers of the transports, which call one    *)
(* another's services.                                                     *)
(*                                                                         *)
(* Every access to the host's tables is an action of ModuleHost; what the  *)
(* handlers are asked and what they make of the answers is added here.     *)
(* "ready" stands for the static state a module's handlers read: the       *)
(* pointer to the host (owner, module_host) and identity's record.  The    *)
(* web worker is one caller; the others stand for the workers of the       *)
(* other transports and may ask at any time.  HTTP calls are bounded by    *)
(* their timeouts and return.  Sizes of arguments and texts are left out.  *)
(***************************************************************************)
EXTENDS ModuleHost

CONSTANTS Web,       \* the thread web's start() creates
          Asks,      \* the commands each caller's users ask for
          MaxLoads   \* bound on the modules loaded

ASSUME ServicesAssumption ==
  /\ Modules \subseteq {"ollama", "identity", "compliance", "web"}
  /\ ServiceNames = {"llm.generate", "identity.answer", "control.request", "policy.evidence"}
  /\ CommandNames = {"chat", "identity", "compliance", "control", "policy-evidence"}
  /\ Web \in Callers
  /\ Asks \in [Callers -> SUBSET CommandNames]
  /\ Withdrawers = {Core}
  /\ MaxLoads \in Nat

VARIABLES core,      \* the start() or stop() the Core thread is in
          active,    \* modules whose start() has succeeded
          flags,     \* service_registered, command_active and the like
          ready,     \* modules whose static state is set
          loads,     \* modules loaded so far
          request,   \* what each caller has been asked
          result,    \* what the host call of the innermost handler returned
          worker,    \* where the web worker is
          stop_requested

lifecycle == <<core, active, flags, ready, loads, stop_requested>>
work == <<request, result, worker>>
servicesVars == <<vars, lifecycle, work>>

\* The registrations of start(), in order.
Registrations(m) ==
  CASE m = "ollama" -> <<<<"service", "llm.generate">>, <<"command", "chat">>>>
    [] m = "identity" -> <<<<"command", "identity">>, <<"service", "identity.answer">>>>
    [] m = "compliance" ->
         <<<<"service", "control.request">>, <<"service", "policy.evidence">>,
           <<"command", "compliance">>, <<"command", "control">>,
           <<"command", "policy-evidence">>>>
    [] m = "web" -> <<>>

\* The withdrawals of stop(), and of a start() that fails, in order.
Withdrawals(m) ==
  CASE m = "ollama" -> <<<<"command", "chat">>, <<"service", "llm.generate">>>>
    [] m = "identity" -> <<<<"service", "identity.answer">>, <<"command", "identity">>>>
    [] m = "compliance" ->
         <<<<"command", "policy-evidence">>, <<"service", "policy.evidence">>,
           <<"command", "control">>, <<"command", "compliance">>,
           <<"service", "control.request">>>>
    [] m = "web" -> <<>>

\* The handler of the key invokes the service of the value.  What chat sends to
\* a channel goes to the transport, which none of the four provides.
Needs == [n \in {"chat", "control.request", "control", "policy-evidence"} |->
            CASE n \in {"chat", "control.request"} -> "identity.answer"
              [] n = "control" -> "control.request"
              [] n = "policy-evidence" -> "policy.evidence"]

NoRequest == [about |-> FALSE, steady |-> FALSE]
CoreIdle == [at |-> "idle", module |-> None]
CoreAt(at) == core.at = at

\* The first entry of a list that is not in a set, if there is one.
FirstOutside(list, set) ==
  CHOOSE i \in 1 .. Len(list) :
    list[i] \notin set /\ \A j \in 1 .. i - 1 : list[j] \in set
Everything(list) == {list[i] : i \in 1 .. Len(list)}

-----------------------------------------------------------------------------
\* Core loads a module and enters start(), which fails at once if identity's
\* record cannot be loaded or libcurl cannot be initialised; identity and
\* compliance set owner, web module_host, ollama not yet.
Load(m, able) ==
  /\ CoreAt("idle")
  /\ loads < MaxLoads
  /\ BeginRegistration(m)
  /\ loads' = loads + 1
  /\ IF able \/ m = "compliance"
     THEN /\ core' = [at |-> "starting", module |-> m]
          /\ ready' = ready \cup ({m} \ {"ollama"})
          /\ stop_requested' = (stop_requested /\ m # "web")
     ELSE /\ core' = [at |-> "failing", module |-> m]
          /\ UNCHANGED <<ready, stop_requested>>
  /\ UNCHANGED <<active, flags, work>>

\* The next registration of start() ...
RegisterNext ==
  /\ CoreAt("starting")
  /\ LET m == core.module
         list == Registrations(m)
     IN  /\ Everything(list) \ flags[m] # {}
         /\ LET r == list[FirstOutside(list, flags[m])]
            IN  IF Taken(r[1], r[2]) \/ FreeSlots(r[1]) = {}
                THEN core' = [core EXCEPT !.at = "failing"] /\ UNCHANGED <<vars, flags>>
                ELSE /\ Register(Core, r[1], r[2], m)
                     /\ flags' = [flags EXCEPT ![m] = @ \cup {r}]
                     /\ UNCHANGED core
  /\ UNCHANGED <<active, ready, loads, stop_requested, work>>

\* ... and after the last: ollama sets owner, web creates its worker.
SetOwner ==
  /\ CoreAt("starting") /\ core.module = "ollama"
  /\ flags["ollama"] = Everything(Registrations("ollama"))
  /\ ready' = ready \cup {"ollama"}
  /\ UNCHANGED <<vars, core, active, flags, loads, stop_requested, work>>

CreateWorker(created) ==
  /\ CoreAt("starting") /\ core.module = "web"
  /\ worker = "none"
  /\ IF created THEN worker' = "loop" /\ UNCHANGED core
                ELSE core' = [core EXCEPT !.at = "failing"] /\ UNCHANGED worker
  /\ UNCHANGED <<vars, active, flags, ready, loads, stop_requested, request, result>>

\* Mutant: a registration that is refused or missing does not fail start().
StartReturnsAnyway ==
  /\ CoreAt("starting")
  /\ core.module \in ready
  /\ core.module = "web" => worker # "none"
  /\ active' = active \cup {core.module}
  /\ EndRegistration
  /\ core' = CoreIdle
  /\ UNCHANGED <<flags, ready, loads, stop_requested, work>>

\* start() returns OK once everything is registered: the module is ACTIVE.
StartReturns ==
  /\ CoreAt("starting")
  /\ LET m == core.module
     IN  /\ flags[m] = Everything(Registrations(m))
         /\ m \in ready
         /\ m = "web" => worker # "none"
         /\ active' = active \cup {m}
  /\ EndRegistration
  /\ core' = CoreIdle
  /\ UNCHANGED <<flags, ready, loads, stop_requested, work>>

\* A chat in progress when either module begins to stop may miss identity.
Unsettled(m) ==
  [t \in Callers |->
     [request[t] EXCEPT !.steady = @ /\ m \notin {"ollama", "identity"}]]

\* Mutant: the static state is reset before the registrations are withdrawn.
StopResetsFirst(m) ==
  /\ CoreAt("idle")
  /\ m \in active
  /\ core' = [at |-> "stopping", module |-> m]
  /\ active' = active \ {m}
  /\ ready' = ready \ {m}
  /\ stop_requested' = (stop_requested \/ m = "web")
  /\ request' = Unsettled(m)
  /\ UNCHANGED <<vars, flags, loads, result, worker>>

\* Mutant: web's stop() joins its worker without asking it to end.
StopAsksNobody(m) ==
  /\ CoreAt("idle")
  /\ m \in active
  /\ core' = [at |-> "stopping", module |-> m]
  /\ active' = active \ {m}
  /\ request' = Unsettled(m)
  /\ UNCHANGED <<vars, flags, ready, loads, stop_requested, result, worker>>

\* Core enters stop(): web's asks its worker to end.
Stop(m) ==
  /\ CoreAt("idle")
  /\ m \in active
  /\ core' = [at |-> "stopping", module |-> m]
  /\ active' = active \ {m}
  /\ stop_requested' = (stop_requested \/ m = "web")
  /\ request' = Unsettled(m)
  /\ UNCHANGED <<vars, flags, ready, loads, result, worker>>

Ending == CoreAt("stopping") \/ CoreAt("failing")

\* The next withdrawal of what the flags say is registered ...
WithdrawNext ==
  /\ Ending
  /\ LET m == core.module
         list == Withdrawals(m)
     IN  /\ flags[m] # {}
         /\ LET w == list[FirstOutside(list, Everything(list) \ flags[m])]
            IN  \E s \in Table(w[1]) : Withdraw(Core, w[1], w[2], m, s)
  /\ UNCHANGED <<lifecycle, work>>

\* ... returns when the calls in flight have drained.
WithdrawReturns ==
  /\ Ending
  /\ LET s == draining[Core]
     IN  /\ FinishWithdraw(Core)
         /\ flags' = [flags EXCEPT ![core.module] = @ \ {<<s[1], entries[s].name>>}]
  /\ UNCHANGED <<core, active, ready, loads, stop_requested, work>>

\* start() has failed and taken back what it had registered.
StartFails ==
  /\ CoreAt("failing")
  /\ Running(Core)
  /\ flags[core.module] = {}
  /\ EndRegistration
  /\ ready' = ready \ {core.module}
  /\ core' = [core EXCEPT !.at = "unload"]
  /\ UNCHANGED <<active, flags, loads, stop_requested, work>>

\* Mutant: stop() returns after the first withdrawal.
StopReturnsEarly ==
  /\ CoreAt("stopping")
  /\ Running(Core)
  /\ Cardinality(flags[core.module]) <= 1
  /\ core.module = "web" => worker = "done"
  /\ ready' = ready \ {core.module}
  /\ worker' = IF core.module = "web" THEN "none" ELSE worker
  /\ core' = [core EXCEPT !.at = "unload"]
  /\ UNCHANGED <<vars, active, flags, loads, stop_requested, request, result>>

\* stop() has withdrawn everything, and web's has joined its worker.
StopReturns ==
  /\ CoreAt("stopping")
  /\ Running(Core)
  /\ flags[core.module] = {}
  /\ core.module = "web" => worker = "done"
  /\ ready' = ready \ {core.module}
  /\ worker' = IF core.module = "web" THEN "none" ELSE worker
  /\ core' = [core EXCEPT !.at = "unload"]
  /\ UNCHANGED <<vars, active, flags, loads, stop_requested, request, result>>

\* The module's shared object is closed, whatever is left of it.
UnloadModule ==
  /\ CoreAt("unload")
  /\ loaded' = loaded \ {core.module}
  /\ core' = CoreIdle
  /\ UNCHANGED <<entries, stack, draining, registering, claims>>
  /\ UNCHANGED <<active, flags, ready, loads, stop_requested, work>>

-----------------------------------------------------------------------------
\* A text arrives at a transport: the router looks the command up.
Dispatch(t, n, about) ==
  /\ Idle(t)
  /\ n \in Asks[t]
  /\ t = Web => worker = "job"
  /\ DispatchCommand(t, n)
  /\ request' = [request EXCEPT ![t] =
       [about |-> about, steady |-> {"ollama", "identity"} \subseteq active]]
  /\ worker' = IF t = Web THEN "called" ELSE worker
  /\ UNCHANGED <<lifecycle, result>>

\* Innermost handler of thread t.
Inside(t, n) == ~Idle(t) /\ Top(t).name = n
HasOpen(n) == \E s \in Table("service") : Open(s, n)

\* A handler calls the service it needs through the host ...
Invoke(t) ==
  /\ result[t] = "none"
  /\ \E n \in DOMAIN Needs :
       /\ Inside(t, n)
       /\ Top(t).handler \in ready
       /\ IF HasOpen(Needs[n])
          THEN InvokeService(t, Needs[n]) /\ UNCHANGED result
          ELSE result' = [result EXCEPT ![t] = "NOT_FOUND"] /\ UNCHANGED vars
  /\ UNCHANGED <<lifecycle, request, worker>>

\* ... chat does if it has an owner, and goes on without otherwise.
NoHost(t) ==
  /\ Inside(t, "chat")
  /\ result[t] = "none"
  /\ Top(t).handler \notin ready
  /\ result' = [result EXCEPT ![t] = "SKIPPED"]
  /\ UNCHANGED <<vars, lifecycle, request, worker>>

\* The questions identity knows: the mission question the control service
\* asks, and those of the users that are about identity.
Known(t) ==
  request[t].about \/ \E i \in 1 .. Len(stack[t]) : stack[t][i].name = "control.request"

\* What the innermost handler may return, "none" before it has invoked what
\* it needs.  Chat generates the reply itself after "NOT_FOUND" or "SKIPPED",
\* the others end when what they need is not there; arguments that cannot be
\* parsed are answered with the usage, requests out of form refused.
Returns(t) ==
  CASE Inside(t, "identity.answer") -> IF Known(t) THEN {"OK", "ERROR"} ELSE {"NOT_FOUND"}
    [] Inside(t, "chat") ->
         IF result[t] \in {"none", "ERROR"} THEN {"ERROR"} ELSE {"OK", "ERROR"}
    [] Inside(t, "control.request") ->
         IF result[t] = "OK" THEN {"OK", "ERROR"} ELSE {"ERROR"}
    [] Inside(t, "control") \/ Inside(t, "policy-evidence") ->
         IF result[t] \in {"none", "OK"} THEN {"OK", "ERROR"} ELSE {"ERROR"}
    [] OTHER -> {"OK", "ERROR"}

\* A handler returns to the one that invoked it, or the reply to the router.
Finish(t, rc) ==
  /\ ~Idle(t)
  /\ rc \in Returns(t)
  /\ Return(t)
  /\ IF Len(stack[t]) = 1
     THEN /\ result' = [result EXCEPT ![t] = "none"]
          /\ request' = [request EXCEPT ![t] = NoRequest]
          /\ worker' = IF t = Web THEN "post" ELSE worker
     ELSE result' = [result EXCEPT ![t] = rc] /\ UNCHANGED <<request, worker>>
  /\ UNCHANGED lifecycle

-----------------------------------------------------------------------------
WebMoves(from, to) ==
  /\ worker = from
  /\ worker' = to
  /\ UNCHANGED <<vars, lifecycle, request, result>>

\* A poll returns a job unless stop() has been called by then.
WebPoll == ~stop_requested /\ WebMoves("loop", "job")
WebLeaves == stop_requested /\ WebMoves("loop", "done")
\* No such command: the reply says so.
WebUnrouted ==
  /\ \E n \in Asks[Web] : \A s \in Table("command") : ~Open(s, n)
  /\ WebMoves("job", "post")
\* The reply is posted, or cannot be encoded or delivered and is dropped.
WebPost == WebMoves("post", "loop")

-----------------------------------------------------------------------------
ServicesInit ==
  /\ Init
  /\ core = CoreIdle
  /\ active = {}
  /\ flags = [m \in Modules |-> {}]
  /\ ready = {}
  /\ loads = 0
  /\ stop_requested = FALSE
  /\ request = [t \in Callers |-> NoRequest]
  /\ result = [t \in Callers |-> "none"]
  /\ worker = "none"

Lifecycle ==
  \/ RegisterNext \/ SetOwner \/ StartReturns \/ StartFails
  \/ \E created \in BOOLEAN : CreateWorker(created)
  \/ WithdrawNext \/ WithdrawReturns \/ StopReturns \/ UnloadModule

Manage ==
  \E m \in Modules : Stop(m) \/ \E able \in BOOLEAN : Load(m, able)

Handle(t) == Invoke(t) \/ NoHost(t) \/ \E rc \in Returns(t) : Finish(t, rc)

Ask(t) ==
  \E n \in CommandNames, about \in BOOLEAN :
    (about => n = "chat") /\ Dispatch(t, n, about)

WebWorker == WebLeaves \/ WebPost \/ WebUnrouted \/ Ask(Web)

ServicesNext ==
  \/ Lifecycle \/ Manage
  \/ \E t \in Callers : Handle(t) \/ Ask(t)
  \/ WebWorker \/ WebPoll

\* A start() or stop() that has been entered goes on, handlers return, and
\* the web worker's loop goes round.
ServicesFairness ==
  /\ WF_servicesVars(Lifecycle)
  /\ \A t \in Callers : WF_servicesVars(Handle(t))
  /\ WF_servicesVars(WebWorker)

ServicesSpec == ServicesInit /\ [][ServicesNext]_servicesVars /\ ServicesFairness

-----------------------------------------------------------------------------
(* The modules are what the host takes them to be: they register from      *)
(* their own start(), withdraw what they registered, and nothing is left   *)
(* in the tables of a module that is unloaded, though neither Core nor     *)
(* ollama's stop() looks (ollama_module.c:221, core_hotload.c:311).        *)
ImplementsHost == Spec

(* A handler that runs sees the static state it was registered with: stop()*)
(* and a failing start() reset owner and the identity record only when no  *)
(* call is left inside, and a chat that has found its owner keeps it until *)
(* it has sent its reply.  The same for the web worker and its host.       *)
HandlersSeeTheirState ==
  /\ \A t \in Callers : \A i \in 1 .. Len(stack[t]) :
       LET f == stack[t][i]
       IN  \/ f.handler \in ready
           \/ f.name = "chat" /\ i = Len(stack[t]) /\ result[t] \in {"none", "SKIPPED"}
  /\ worker \notin {"none", "done"} => "web" \in ready
  /\ worker # "none" => "web" \in loaded

(* "Matching identity/mission questions never reach Ollama generation"     *)
(* (modules/identity/README.md:10), as far as it is true: while both       *)
(* modules stay ACTIVE.  A question asked before ollama has set owner, or  *)
(* while identity is absent or being replaced, does reach it.              *)
IdentityAnswersItsOwn ==
  \A t \in Callers :
    Inside(t, "chat") /\ request[t].about /\ request[t].steady =>
      result[t] \notin {"NOT_FOUND", "SKIPPED"}

(* Every start() and stop() returns, though the withdrawals wait for       *)
(* handlers that call other modules and web's stop() joins a worker that   *)
(* may be inside them.                                                     *)
LifecycleEnds == ~CoreAt("idle") ~> CoreAt("idle")
=============================================================================
