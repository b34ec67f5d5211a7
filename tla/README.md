# Rictus in TLA+

A verification development of the Rictus Core (`src/`, C): TLA+ models of its
module lifecycle, service host, hot loader, main loop and shutdown, request
traces, control gate and of the modules that talk to one another; TLC runs on
small instances; and theorems checked by TLAPS. Paths below are relative to the
repository; "the Core thread" is the thread of `main`.

## 1. The system

Rictus is one process. Its Core owns a registry of modules (shared objects
under `modules/<id>/<id>.so`), admits, replaces and stops them, and routes the
calls modules make of one another. Modules may start worker threads.

| component | state | operations | talks to |
|---|---|---|---|
| registry (`src/stnlabz_abi/module_registry.c`) | one record per id: state, report, flags | discover, verify, qualify, restore, authorize, activate, stop, unregister, fail, quarantine | module callbacks |
| ABI helpers (`src/stnlabz_abi/abi.c`) | none | prepare, authorize and activate, stop, unregister, prepare replacement | registry |
| loader (`src/stnlabz_abi/loader_linux.c`) | open handles | load, unload, take over | dlopen |
| module host (`src/module_host.c`) | service and command tables under two locks, in-flight counts, per-thread call frames | register, unregister (waits for calls to drain), invoke, dispatch | every module, every thread |
| watch (`src/core_hotload.c`) | observed hashes and versions, a candidate loader | scan, admit new, replace active | registry, both loaders, disk, log |
| activation, discovery, start and shutdown (`core_activation.c`, `core_discovery.c`, `rictus.c`, `runtime.c`) | the order of the process's life | poll, stop all, cleanup | all of the above |
| policy and governance (`core_policy.c`, `modules/compliance`) | a file of rules | control request, policy evaluation | log, other modules as executors |
| intelligence (`modules/intelligence`) | cursor file, evidence log, worker | poll, record, save, restart | an HTTP feed |
| ollama, identity, web (`modules/ollama`, `modules/identity`, `modules/web`) | registration flags, pointer to the host, identity record; web's worker | start, stop, chat, identity answers, the web poll | host, router, HTTP |
| request traces (`core_diagnostics.c`) | a table of traces under a lock, the index of its trace in each thread | begin, route, service, command, render | router, host, every transport's worker |
| IRC (`modules/irc`) | worker, session, ring of outbound messages, unlocked flags | start, stop, send, negotiate | server, host |
| static discovery, policy evidence index, legacy manager | see section 8 | | |

What is hard here: files that change between the calls of one poll; calls that
fail after half the work is done; withdrawal of a handler that other threads are
inside of; a worker and `stop()` that share flags without a lock; crashes
between the evidence and the cursor; a signal in the middle of anything; a
start() or stop() of several registrations, some of which are in use before the
last; a `stop()` that joins a thread which is inside another module; a trace
slot that changes hands under the thread that writes it; a decision that must be
logged before it is handed out. `PROJECT.json` lists each of these hazards at
its line.

What makes the parts correct, in a sentence each:

* registry: nothing runs that has not passed its tests against this Core, and
  a record says ACTIVE only of code that runs;
* host: a handler that is being called is neither recycled nor unmapped, and a
  withdrawal ends;
* watch: registry, loader and observed hashes agree between polls, an incumbent
  is disturbed only for a proven newer candidate, running code stays mapped,
  and the newest passing candidate gets to run;
* main loop and shutdown: a caught signal ends the loop, the shutdown ends,
  starts nothing and unloads only what was stopped;
* ollama, identity, compliance, web: they withdraw what they registered, their
  handlers never see a reset module, start() and stop() return, and identity
  questions are answered by identity;
* request traces: a person is shown their own last request, and its trace holds
  its own notes;
* control gate: the answer is a function of the file as a set of rules, only a
  full ALLOW reaches an executor, and every answer is in the log;
* intelligence: nothing that can be written is missing behind the cursor, and a
  repeat needs a fault or a response whose newest record has no usable id;
* IRC: messages keep their order and their run, a stopped module has no thread
  left inside it, and start and stop return.

## 2. Modules

```
ModuleRegistry  (records, guards and transitions; no state of its own)
   |-- ModuleAbi  ------ implements -> ModuleLifecycle
   '-- Hotload  (INSTANCEs ModuleAbi for every registry step)
          '-- RictusCore  (the process: first poll, loop, shutdown)
Runtime  (main loop, signals)  --'
ModuleHost      (tables, calls, withdrawal, unloading)
   '-- ModuleServices  (four modules on top of it) -- implements -> ModuleHost
Diagnostics     ------ implements -> RecentRequests
IrcTransport    ------ implements -> OutboundQueue
Intelligence    ------ implements -> Evidence
ControlBroker
```

The theorems about a module `M` are in `M_proofs`, which EXTENDS it.
`ModuleServices_proofs` builds on `ModuleHost_proofs`; the theorems about
`Hotload` are in `RictusCore_proofs`, because `RictusCore` takes its steps.

`MC*` modules give the constants their values; where a `.cfg` can do that by
itself (`Intelligence`, `ControlBroker`) there is none. A `.cfg` never replaces
a definition of the project. Definitions whose comment starts with "Mutant:"
are variants of the definition below them with a plausible bug; no
specification uses them. `PROJECT.json` pairs each property with the mutant
that breaks it, as evidence that the property says something about the code.

### ModuleRegistry, ModuleAbi, ModuleLifecycle

`ModuleRegistry` translates the records and, for each registry function, its
guard (`CanX`) and the record it leaves behind (`Verified`, `Qualified`,
`Stopped`, ...). Builds stand for module files: API version from the
descriptor, report from the tests. `ModuleAbi` has one action per registry
function and per ABI helper; callbacks succeed or fail by choice. `executing`
records which builds `start()` put into execution and `stop()` has not ended;
the code has no such variable, it is what the properties are about. TESTING is
not a reachable resting state because `qualify` enters and leaves it in one
call on one thread. Each step maps to one step, or none, of `ModuleLifecycle`,
which knows five phases of an id and no data.

### ModuleHost

One action per critical section of `module_host.c`. `stack[t]` holds the
handlers thread t is inside of, `draining[t]` the slot it waits on in
`unregister`. The two tables differ only in their size and are one set of
slots with a kind. A call is `Call` (lookup and increment of `in_flight` under
the lock), the handler's own activity, and `Return` (decrement). `Withdraw`
marks an entry; `FinishWithdraw` is the round of the drain loop that finds it
idle. Withdrawing a handler from inside itself is refused (`OnStack`).
`Unload` is `dlclose` of a module with no claims. `claims` is what the modules
remember of their registrations (`service_active` and the like).

### ModuleServices

The actions of `ModuleHost`, taken by four modules as their code takes them.
Core's `start()` and `stop()` are one step per registration, withdrawal,
drained withdrawal and assignment of static state, in the order of each
module's source (`Registrations`, `Withdrawals`, `SetOwner`); a registration
that is refused takes back the earlier ones. The handlers ask the services
their source asks (`Needs`: chat asks identity, control asks
`control.request`, which asks identity, and so on) and return what their source
makes of the answer (`Returns`). The web worker polls, routes a job, posts the
reply and looks at `stop_requested`, while `stop()` sets it and joins. `ready`
is the static state: `owner`, `module_host`, the identity record. `Unload` is
taken without looking whether anything is left, as Core and ollama's `stop()`
do; that the host's precondition holds all the same is `ImplementsHost`.

### Diagnostics and RecentRequests

One action per critical section of `core_diagnostics.c`: `Begin` with the choice
of the slot (`Slot`), the notes of the route, of a service and of the command.
`active_trace[w]` is the thread-local index, which is not looked at again.
`Shown(o)` is what rendering finds for an origin. `own[w]` is the trace of w's
request as it should be, `since` and `overtaken` say when a request has lost
its slot; the code has none of the three. `RecentRequests` is a memory of the
last request of the persons who asked most recently, without slots: a person is
forgotten when as many others have asked since as the memory holds.

### Hotload

The poll as one step per call: digest and compare (`Detect`), snapshot, load,
then either `admit_new` (prepare, activate, take over, rollback) or
`replace_active` (preflight in an isolated registry, stop, exchange, reinstate,
activate, withdraw and remove). Between any two steps the installer may write,
replace or remove a file (`Write`). `faults[m]`, chosen once per behaviour out
of `FaultMaps`, says which calls may fail in the work on module m. A build
stands for the bytes and for their SHA-256.

### Runtime and RictusCore

`Runtime` is `stnlabz_runtime_run`: the handlers are installed, the flag is
cleared, the loop tests, sleeps and polls, and the dispositions are restored. A
`Signal` may come between any two steps; without the handler it kills.
`RictusCore` puts it together with `Hotload`: the first poll, the loop's polls
(`Visit` takes each entry of the directory once, in any order), `stop_all` on
the normal path or on the `log_failure` path, the exit that retains handles,
and the cleanup that discards records and unloads. What may fail in the main
thread is chosen once per behaviour (`ending`). `result` is what `main` would
return.

### Intelligence and Evidence

Records are numbered as published; a response shows the last `Window`. The
worker compares (`Fetch`), writes one line at a time (`Log`), then saves the
cursor by rename (`Save`), or jumps to the newest record (`Reset`: BASELINE and
CURSOR_GAP). Crash, failing log (before or after the write), failing save and
an unreadable cursor file happen at any step, at most `MaxFaults` times.

The feed's records come in classes. One that is `malformed` fails every response
that shows it. The parser accepts an empty field and one that holds a DEL, but
`bounded_text` does not: a relevant record with such an id, type or severity is
`unprintable`, and the loop passes over it without a line, so that what is `Due`
in the evidence is the rest. When it is the id, the record is `nameless`:
`save_cursor` refuses it, and a response that begins with it is processed again
at the next poll, its lines included (`Refuse`). `refusals` counts those
responses. A record of low relevance with an unusable id is treated alike.

### IrcTransport and OutboundQueue

`irc_start` and `irc_stop` in the steps at which they read or write shared
state, the worker from connect to close, and other threads that send. The
flags `online`, `stop_requested` and `active_socket` are read and written
without the lock, so each access is a step of its own; the ring is accessed
under its lock. A server line is what `handle_line` makes of it. The two
transport services are registered, refused and withdrawn together and stand
for one. `shutdown()` of a descriptor the worker has closed has no effect.

### ControlBroker

One control request: identity check, the governance file line by line, the
fold of policy and directive into one fact (`Finish`), the evaluation and its
two log lines, the answer. The `/compliance` scenarios, which state every fact
and read no file, take the same evaluation. A call keeps its state on its own
stack, so one caller is enough. The file's lines are told apart only by what
`apply_record` does with them. `core_policy.c` rejects an unverified context
before it looks at anything; its only callers, in the compliance module, pass a
verified one, having returned before when the identity check failed
(`Identity`).

## 3. Runs

| run | instance | what it shows |
|---|---|---|
| `abi_lifecycle` | 2 ids, 4 builds on both sides of each API check, 5 reports, one per clause of the acceptance rule | records stay truthful, ACTIVE means executing, no start without proof, the abstract lifecycle is implemented |
| `host_tables` | 3 threads (Core, two workers), 2 modules, 2 services in 1 slot, 2 commands in 1 slot, nesting 2, 1 call per handler | counts are exact, no call is inside a recycled slot or unmapped code, modules' memory and tables agree, a withdrawal that has begun ends, nothing deadlocks |
| `module_services` | ollama, identity, compliance and web; 4 slots of each kind for 4 services and 5 commands; the web worker, which asks chat, and a transport that asks everything; nesting 3; 5 loads | modules use the host as it assumes, handlers see their state, identity answers its own, start() and stop() return |
| `diagnostics` | 2 slots, 1 noted service of 2, 2 workers, 3 persons with 5 origins, 4 requests | the table is a least-recently-asked memory with one trace a person; a trace holds its own notes until its request is overtaken |
| `hotload` | 2 modules, 5 builds, 2 writes; on one module snapshot, qualify(), start(), stop() and registry fail, or start(), loader table and observation table; on the other nothing | registry, loader and hashes agree; running code is mapped; one revision runs; only a proven candidate disturbs an incumbent; the watch settles; the newest passing candidate of the other module becomes ACTIVE |
| `hotload_log` (violation) | 1 module, failing log | running code is unmapped, see section 7 |
| `core_shutdown` | 2 modules, 3 builds (two passing, one failing), 2 writes; snapshot and start() fail in the watch; signals at any moment; log and system calls fail, or stop() and system calls | a caught signal is heard, nothing starts once stopping has begun or in preservation, the shutdown ends, exits clean or retains the handles, and a process that gives up leaves executing only what failed to stop |
| `core_unload_failed` (violation) | the same builds, 1 write, stop() fails during a replacement | executing code is unloaded, see section 7 |
| `intelligence` | window 3, 5 records of four classes, 2 faults of any kind, 1 response logged without a usable cursor | completeness and order (`Evidence` implemented), bounded repetition, what may be passed over, handled in the end |
| `irc_transport` | ring of 2, 3 messages, 2 runs, a calling thread beside the module's own replies | queue order, run of a message, flags, quiet after stop, liveness, `OutboundQueue` implemented |
| `irc_silent_peer` (violation) | ring of 2, 2 messages, a peer that may stay silent | stop may wait for ever, see section 7 |
| `control_broker` | all facts, rules in any order, all faults | answers follow the file's set of rules and are logged |

Why the bounds are enough to matter. Two ids, modules or threads suffice for
every interaction the code has between two of them; the host has a third
thread, so that a slot can be called, withdrawn and reused at once, and one
slot a table, so that the second name is refused while the first drains. Four
slots for five commands refuse the last to register, whichever module that is,
and make it take back what it has; five loads allow two replacements beside
three modules. Two trace slots for three persons overwrite
a trace, once in every order, and four requests overtake a request that is
being routed by two others, or by its own person under another name. Five
records over a window of three overrun it from a non-empty cursor, and two
faults allow a failure during the recovery from another; one refused cursor adds
a repetition that no fault explains. Records of low relevance are left out of
that run (the class `low` is in the model): the watcher does with them what it
does with unprintable ones. A ring of two with
three messages is filled and refuses; two runs let a late message meet the
next start. Two writes put a second revision in the middle of the first one's
admission; they do not allow three successive replacements. All reports of a
build are the same at each load, which is what "the same bytes" means.
In `hotload` the faults come in two sets because `stop()` failing together with
a loader table that cannot grow unmaps running code (section 7).

Deadlock is checked in `host_tables`, `abi_lifecycle` and `control_broker`. The
other runs set `CHECK_DEADLOCK FALSE`: the watch comes to rest when the writes
are used up, the process exits, and the messages, requests, records, loads and
restarts of the bounded instances run out.

The type invariants are proved, and no run repeats them.

## 4. Fairness

* `Hotload`: weak fairness of the work of a poll, because a poll runs to its
  end on one thread; strong fairness of `Detect(m)` and `Adopt(m)`, because a
  poll visits every directory entry: one that calls for work again and again,
  between work on others, is reached.
* `RictusCore`: weak fairness of the main thread as a whole: it does the next
  thing there is to do. A poll needs no more, because it visits each entry once.
* `ModuleHost`: handlers end and threads are scheduled; nothing says that
  anybody stops calling.
* `ModuleServices`: a start() or stop() that has been entered goes on, handlers
  return (their HTTP calls have timeouts), the web worker's loop goes round.
  Users may ask for ever.
* `Diagnostics`: none; it promises nothing that must happen.
* `Intelligence`: weak fairness of the worker's steps; strong fairness of a
  fetch, which says that restarts do not for ever come before the first poll.
* `IrcTransport`: each thread is scheduled; a buffer holds finitely many lines
  (strong fairness of `BufferEmpty`); `SSL_connect` returns. `SilentPeerSpec`
  takes the last one back for as long as nobody shuts the socket down, since
  the socket has no timeout.

## 5. What is proved

Every theorem is about the specification without its fairness and for all values
of the constants. What the constants are assumed to be is the named `ASSUME`s of
the modules. Most are typing; `ServicesAssumption` gives the names of the four
modules and of what they register; `None` and `NoSlot` are no trace and no slot.
One has substance: by `DiagnosticsAssumption` two origins count as the same for
`core_diagnostics.c` exactly when they are the same person's, which means that
no two persons share an account or, where there is none, a name. Today's callers
keep to it: IRC gives the nick and no account (`irc_module.c:314`), the web
worker asks as one person, `web` (`web_module.c:171`), so that it fails only for
an IRC user of that nick. TLC evaluates the assumptions in the runs. Four
premises are stated in theorems themselves, all in `RictusCore_proofs` and all
about which calls fail: `LogIsWritten`, `StopOrLoader`, `StopSucceeds` and
`StopOrLog`.

Each component has one inductive invariant, proved by one lemma per action;
the properties follow from it.

**ModuleAbi** (`TypeCorrect`, `RecordsAlwaysSound`, `ActiveAlwaysExecuting`,
`StartsAreProven`, `Refinement`). The invariant is `TypeOK /\ RecordsSound /\
ActiveIsExecuting`. `RecordsSound` is what makes `StartsOnlyProven` inductive:
a start looks at the record's state only, and the record's state says that a
passing report of a compatible build is in it, so every way into QUALIFIED has
to establish it (the restoration of a report obtained elsewhere, too).
`Refinement`: `ModuleAbi` implements `ModuleLifecycle`.

**ModuleHost** (`InFlightAlwaysExact`, `CallsAlwaysKeepTheirEntry`,
`NeverCallsUnloadedCode`, `ClaimsAlwaysMatchTables`, over `HostInv`). A handler
returns by looking at its slot, not at its name, and a withdrawal ends by
looking at a count. So the invariant has to say, beside the four properties,
that a free slot is clean (a registration does not reset `in_flight`), that an
entry being withdrawn has exactly one thread waiting on it, which alone may
free it, and that finitely many calls are inside a slot, without which the
count is not a number.

**ModuleServices** (`ModulesImplementHost`, `HandlersAlwaysSeeTheirState`,
`IdentityAlwaysAnswersItsOwn`, `ModulesNeverCallUnloadedCode`, over
`ServicesInv`). `ServicesInv` contains `HostInv`, which the modules keep
because their steps are the host's. The step that is not by its form is
`UnloadModule`: nothing looks at the tables, as nothing does in the code. It is
allowed because the flags of the module are empty by then (`CorePlace`), the
flags are the claims (`FlagsAreClaims`), and Core waits only for entries of the
module it is stopping (`CoreAlone`). The properties of the handlers need that a
module's state stands from before its first registration to after its last
withdrawal (`ReadyStands`), but for ollama's `owner`, which is set after them:
chat goes on without it (`FramesSee`).

**Hotload** (`LoaderAlwaysMatchesRegistry`, `SeenIsAlwaysWhatRuns`,
`AlwaysDisturbedOnlyByProven`, `OneRevisionAlwaysRuns`,
`RunningIsAlwaysMapped`). Three invariants on top of one another. `JobInv`, of
what the poll holds at each place, has no premise. `LedgerInv`, of registry,
loader and table, has the premise `LogIsWritten`: a failing audit record after
`start()` sends the poll into a rollback of a module that is ACTIVE.
`CodeInv`, of what executes, has the premise `StopOrLoader` besides: no module
fails both in `stop()` and in the transfer of its handle. Both premises are
needed, since without either the code unmaps running code (section 7); they are
about `FaultMaps`, and the run `hotload` checks the same properties with
fault maps that satisfy them. Modules, builds, their versions and reports, and
the writes of the installer are arbitrary.

**RictusCore** (`CoreTypeCorrect`, `StoppingNeverStarts`, `ExitAlwaysClean`,
`RetainedAlwaysFailedToStop`, `AlwaysUnloadsOnlyStopped`). `MainInv` holds
whatever fails: `JobInv` together with the place of the main thread, that
between polls the watch holds nothing, that the watch does no work once stopping
has begun or in preservation, and what `main` returns at each end. The first two
theorems follow from it alone. `TriedInv` says that the shutdown gets to every
module: only the registered build of a module that is ACTIVE or FAILED executes,
and while the log can be written the ACTIVE ones are still to be visited, so
that none is left when the process gives up. It has the premises of `CodeInv`;
`RetainedAlwaysFailedToStop` follows. `CloseInv` adds what the shutdown finds
and leaves. When it begins each module is ACTIVE and its code is the one mapped,
or nothing of it executes, and a `stop_all` without a failure leaves no module
ACTIVE for the cleanup. It rests on `LogIsWritten` and on two premises about
`stop()`. In the watch it must succeed (`StopSucceeds`): otherwise a FAILED
module executes, and `stop_all` passes over it (`core_unload_failed` shows what
comes of that). In the shutdown it must not fail together with the log
(`StopOrLog`), see section 7. The fault sets of `core_shutdown` satisfy the
premises. `UnloadsOnlyStopped` is about the cleanup at the end; that the watch
unloads nothing that runs is `RunningIsAlwaysMapped`.

**IrcTransport** (`AlwaysSentByItsRun`, `OnlineAlwaysMeansJoined`,
`OffIsAlwaysQuiet`, `TransportImplementsQueue`, over `IrcInv`). `ControlInv`
ties the places of the two threads to the socket, the unlocked flags and the
negotiation; `QueueInv` says that the ring from head to tail holds accepted
messages of this run. The second rests on the first, because the ring is
cleared by the next start and by nothing else: a message is of this run because
no worker is left when a run begins. The refinement maps the ring to the
abstract queue through `Slot(i)`, the index of its i-th message; two lemmas do
all of the modular arithmetic.

**Intelligence** (`AlwaysReplayedOnlyAfterFaults`,
`AlwaysPassedOverOnlyByOverrun`, `WatchImplementsEvidence`, over `PlaceInv` and
`CopiesInv`). `PlaceInv` says which records are in the evidence while they are
written and when the cursor is about to pass them. `CopiesInv` counts: a record
has as many lines as there were faults and refusals, and one more only when the
worker is past it, so that each repetition is paid for by the fault that threw it
back or by the id that `save_cursor` refused. Both are about the records that are
`Due`; `Evidence` allows the cursor to pass the others.

**Diagnostics** (`NotesAreAlwaysItsOwn`, `DiagnosticsImplementsRecentRequests`,
over `DiagInv`). That a trace in its slot is still the request's own is not
inductive: one has to show that a slot taken from a request means that it has
been overtaken. Slots hold different persons and whoever has a younger trace
than the request has asked since, so when the request's slot is the oldest, as
many persons as there are other slots have asked since, and the newcomer makes
one more: `Overtakes` has counted it. That part (`TableInv`) holds
unconditionally. The refinement is a count on both sides: who is shown an
unchanged request has been followed by at most as many persons as there are
other slots, since each of them holds one (`KeptIsRecent`), and who loses its
slot has been followed by everybody in the table and the newcomer (`LostIsOld`).

**ControlBroker** (`AnswersAlwaysTheRecord`, `ExecutorAlwaysEarned`,
`AnswersAlwaysAudited`). The three properties speak of the answer and need to
know what each stage has already established; the inductive invariant adds
that the accumulated facts are those of the lines read (`Sound`), that the
request handed on is their fold (`Resolved`, `Handed`), and how far the log is
at each stage (`Logged`, `Told`).

## 6. What is only model-checked

Every safety property and every refinement of the passing runs is a theorem.
What is left is:

* All liveness: `WithdrawalEnds`, `LifecycleEnds`, `WatchSettles`,
  `PassingIsActivated`, `ShutdownEnds`, `SignalIsHeard`, `RelevantIsHandled`,
  `LifecycleCallsEnd`, `QueueIsServed`. The installed provers do not handle
  fairness and ENABLED.

No model uses a RECURSIVE operator.

## 7. Where code and documents disagree

Three are kept as runs that TLC must find violated:

* `core_unload_failed`: "Unload only modules known non-running or successfully
  stopped" (`src/core_discovery.c:139`), but a module whose `stop()` failed
  during a replacement is FAILED, `stop_all` passes over it, and the cleanup
  unregisters and unloads it while it executes.
* `hotload_log`: "ACTIVE -> STOPPED -> UNREGISTERED -> old shared object
  unloaded" (`src/core_hotload.c:311`), but an admission whose audit record
  cannot be written after `start()` unloads code that is ACTIVE.
* `irc_silent_peer`: "SIGINT/SIGTERM to stop" (`src/rictus.c:73`), but a stop
  that reads `active_socket` just before the worker stores it waits for a
  worker that is in `SSL_connect` with a silent peer.

More were seen while modelling and have no run of their own:

* "Executing code cannot disappear from the registry"
  (`module_registry.c:774`): a FAILED record may be unregistered, and a module
  whose `stop()` failed is FAILED and executing.
* "The same failed bytes are not retried until the file changes"
  (`modules/irc/README.md:56`): a snapshot that fails for a passing reason is
  remembered like a failed qualification, so bytes that were never tried are
  not tried. `PassingIsActivated` is checked without a file that is absent for
  a moment for that reason.
* "relevance=HIGH is recorded as an intelligence candidate"
  (`modules/intelligence/README.md:12`): CURSOR_GAP passes over everything the
  response shows, what is still visible included, and a record with an empty
  id, type or severity, or a DEL in one, is left out without a line
  (`intelligence_module.c:307`) while the cursor passes it.
* "That cursor prevents the entire feed from replaying after a normal restart"
  (`modules/intelligence/README.md:22`): while the newest record has an id that
  `save_cursor` refuses (`intelligence_module.c:242`), the cursor stays and the
  records after it are logged again at every poll, restart or not.
* DENY means "positively prohibited" (`docs/ROADMAP.md:239`): with a valid
  escalation target, as in the shipped governance file, a denial by a mission
  rule is answered ESCALATE (`core_policy.c:65`), where `README.md:37` reports
  DENY.
* "Matching identity/mission questions never reach Ollama generation"
  (`modules/identity/README.md:10`): they do when chat is called before ollama
  has set `owner` (`ollama_module.c:213`), and while identity is absent or being
  replaced, since chat takes NOT_FOUND for "no such question"
  (`ollama_module.c:169`). `IdentityAnswersItsOwn` says what is left: while both
  modules stay ACTIVE.
* "The trace follows the actual runtime path" (`src/README.md:56`): a worker
  whose request has been overtaken writes its later notes into the trace of
  another request, another person's included (`core_diagnostics.c:99`).
  `NotesAreItsOwn` has the premise that no request has been overtaken and fails
  without it.

Outside these: `stop()` failing together with a loader table that cannot grow
also unmaps running code. So does a `stop()` that fails in the shutdown of a
process whose log fails: that path does not look at the result of `stop_all`
before it unloads. A signal that arrives between `sigaction` and
`runtime.c:80` is forgotten, and one before the handlers are installed or after
they are restored kills the process without a clean stop; `SignalIsHeard` is
about the time in between.

## 8. What is not modelled, and why

* Two handlers on two worker threads that each withdraw the other's entry wait
  for one another. Modules of the repository register and unregister in
  `start()` and `stop()` only, on the Core thread; `host_tables` lets one
  worker withdraw beside Core and no more.
* `CORE.ROOT` branches: the agent root is validated before anything else runs.
* Parsers, formatting, JSON, configuration, static discovery (one directory
  scan before anything runs), the policy evidence index (a lookup in a
  generated file), logging and inventory, the policy tools: I/O and text. Their
  results are inputs of the models, a failing audit record is a fault.
* Real time: the length of backoffs, timeouts and polling intervals.
* `stnlabz_core_authorize` and `stnlabz_core_activate` of `core_activation.c`,
  the legacy module manager (`module_manager.c`), `human_release` of
  `runtime.c`: compiled, and called by nothing in the program.
* Reuse of a descriptor number between `close` and `shutdown`.
* A failing `pthread_join` in `irc_stop` (`irc_module.c:713`) and
  `intelligence_stop` (`intelligence_module.c:411`): the thread is one that was
  created, is joined once and is not the caller.
* Chat's `send_message` (`ollama_module.c:71`, `:184`): it invokes the channel
  service of the transport, which none of the modules of `ModuleServices`
  provides.
* Memory that runs out in the isolated registry of a replacement: `Preflight` has
  it together with a qualify() that fails, since both reject the candidate before
  anything is stopped.
* The IRC module is not among those of `ModuleServices`: its registrations, its
  worker and its stop are `IrcTransport`, on a host that is summed up there.
* An owner of a registration made outside `start()`: `ModuleHost` has it, but
  only the diagnostics show an owner and nothing depends on it.
* Start-up failures before the first poll: no module exists yet.

## 9. Plan

Done: registry, host, watch, shutdown; intelligence, IRC transport, control
gate; the services of four modules on the host; main loop and signals; request
traces; proofs of every safety property and every refinement the runs check.

Left: a composition of `IrcTransport` with `ModuleServices`, whose `Callers` its
worker would be.
