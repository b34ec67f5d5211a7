---------------------------- MODULE Diagnostics ----------------------------
(***************************************************************************)
(* The last-request traces of src/core_diagnostics.c: a table of           *)
(* RICTUS_DIAG_TRACE_MAX traces under trace_lock, written by the workers   *)
(* of the transports while each routes its own requests.                   *)
(*                                                                         *)
(* Every critical section is one step.  A worker finds the trace it writes *)
(* by an index of its own (active_trace, _Thread_local), taken when its    *)
(* request begins and not looked at again: the slot may be somebody else's *)
(* by then.  What a note says (names, owners, results, texts) is left out: *)
(* the note of a service stands as the request that invoked it and which   *)
(* of its calls it was, that of a command as the request.  Rendering reads *)
(* one slot under the lock and writes nothing, so what a person would be   *)
(* shown is the operator Shown; its wording and the search for source      *)
(* locations are left out.  The index a worker is left with is not used    *)
(* before its next request begins: no service is invoked in between.       *)
(*                                                                         *)
(* "own" is the trace of the request a worker routes as it should be.      *)
(***************************************************************************)
EXTENDS Naturals, Sequences, FiniteSets

CONSTANTS Workers,                 \* threads that route requests
          Origins,                 \* pairs of a sender and an account
          NoAccount,               \* the empty account
          Person,                  \* who uses each origin
          RICTUS_DIAG_TRACE_MAX,
          RICTUS_DIAG_SERVICE_MAX,
          NotReached,              \* the command has not been reached
          None,                    \* no trace
          MaxRequests,             \* bound on the requests
          MaxServices              \* bound on the services one request invokes

Sender(o) == o[1]
Account(o) == o[2]

\* same_origin: by account if both have one, by sender otherwise.
SameOrigin(o, p) ==
  IF Account(o) # NoAccount /\ Account(p) # NoAccount
  THEN Account(o) = Account(p) ELSE Sender(o) = Sender(p)

\* Persons share neither accounts nor names: what they use tells them apart.
ASSUME DiagnosticsAssumption ==
  /\ \A o, p \in Origins : SameOrigin(o, p) <=> Person[o] = Person[p]
  /\ RICTUS_DIAG_TRACE_MAX \in Nat \ {0}
  /\ {RICTUS_DIAG_SERVICE_MAX, MaxRequests, MaxServices} \subseteq Nat

Notes == [request : Nat, call : Nat]
Traces == [origin : Origins, sequence : Nat, named : BOOLEAN,
           services : Seq(Notes), command : Nat \cup {NotReached}]
ASSUME NoTraceAssumption == None \notin Traces

VARIABLES traces,            \* traces[slot], None while it is not valid
          sequence_counter,
          active_trace,      \* of each worker, 0 while it routes nothing
          own,               \* what has happened to the request it routes
          since,             \* who else has asked since that request began
          overtaken          \* a request has lost its slot while it was routed

routing == <<active_trace, own>>
vars == <<traces, sequence_counter, routing, since, overtaken>>

Slots == 1 .. RICTUS_DIAG_TRACE_MAX
Persons == {Person[o] : o \in Origins}
Routes(w) == own[w] # None

\* A trace as rictus_diag_begin leaves it.
Fresh(o, n) == [origin |-> o, sequence |-> n, named |-> FALSE,
                services |-> <<>>, command |-> NotReached]

Match(s, o) == traces[s] # None /\ SameOrigin(traces[s].origin, o)
Usable(s, o) == traces[s] = None \/ Match(s, o)

\* Mutant: a table that is full is reused in the order of its slots.
SlotInOrder(o) ==
  IF \E s \in Slots : Usable(s, o)
  THEN CHOOSE s \in Slots : Usable(s, o) /\ \A u \in 1 .. s - 1 : ~Usable(u, o)
  ELSE (sequence_counter % RICTUS_DIAG_TRACE_MAX) + 1

\* The slot a request takes: the first that is not in use or its origin's,
\* else the one whose request began first.
Slot(o) ==
  IF \E s \in Slots : Usable(s, o)
  THEN CHOOSE s \in Slots : Usable(s, o) /\ \A u \in 1 .. s - 1 : ~Usable(u, o)
  ELSE CHOOSE s \in Slots : \A u \in Slots : traces[s].sequence <= traces[u].sequence

\* The request rictus_diag_render shows to an origin: that of the first slot
\* that is its own.
Shown(o) ==
  IF \E s \in Slots : Match(s, o)
  THEN traces[CHOOSE s \in Slots : Match(s, o) /\ \A u \in 1 .. s - 1 : ~Match(u, o)].sequence
  ELSE 0

\* A request is overtaken when its own person asks again, or as many others
\* have asked as there are slots.
Overtakes(o) ==
  \E w \in Workers :
    /\ Routes(w)
    /\ \/ Person[o] = Person[own[w].origin]
       \/ Cardinality(since[w] \cup {Person[o]}) >= RICTUS_DIAG_TRACE_MAX

-----------------------------------------------------------------------------
\* Mutant: the notes of the slot's previous request are not erased.
BeginKeepsNotes(w, o) ==
  /\ ~Routes(w)
  /\ sequence_counter < MaxRequests
  /\ sequence_counter' = sequence_counter + 1
  /\ LET s == Slot(o)
         trace == Fresh(o, sequence_counter')
     IN  /\ traces' = [traces EXCEPT ![s] =
              IF @ = None THEN trace ELSE [trace EXCEPT !.services = traces[s].services]]
         /\ active_trace' = [active_trace EXCEPT ![w] = s]
         /\ own' = [own EXCEPT ![w] = trace]
  /\ since' = [u \in Workers |-> IF Routes(u) THEN since[u] \cup {Person[o]} ELSE {}]
  /\ overtaken' = (overtaken \/ Overtakes(o))

\* rictus_diag_begin, for a request other than "diagnose my last request".
Begin(w, o) ==
  /\ ~Routes(w)
  /\ sequence_counter < MaxRequests
  /\ sequence_counter' = sequence_counter + 1
  /\ LET s == Slot(o)
         trace == Fresh(o, sequence_counter')
     IN  /\ traces' = [traces EXCEPT ![s] = trace]
         /\ active_trace' = [active_trace EXCEPT ![w] = s]
         /\ own' = [own EXCEPT ![w] = trace]
  /\ since' = [u \in Workers |-> IF Routes(u) THEN since[u] \cup {Person[o]} ELSE {}]
  /\ overtaken' = (overtaken \/ Overtakes(o))

\* A note goes to the slot the worker took when its request began.
Note(w, trace) ==
  /\ traces' = [traces EXCEPT ![active_trace[w]] = trace]
  /\ UNCHANGED <<sequence_counter, overtaken>>

\* The worker goes on with its request, or is done with it.
Continues(w, happened) ==
  own' = [own EXCEPT ![w] = happened] /\ UNCHANGED <<active_trace, since>>
Ends(w) ==
  /\ own' = [own EXCEPT ![w] = None]
  /\ active_trace' = [active_trace EXCEPT ![w] = 0]
  /\ since' = [since EXCEPT ![w] = {}]

\* rictus_diag_route: the router has made out the command's name.
NoteRoute(w) ==
  /\ Routes(w) /\ ~own[w].named
  /\ Note(w, [traces[active_trace[w]] EXCEPT !.named = TRUE])
  /\ Continues(w, [own[w] EXCEPT !.named = TRUE])

\* The router refuses the name, or later the arguments: no note is made.
Refuse(w) ==
  /\ Routes(w) /\ own[w].services = <<>>
  /\ Ends(w)
  /\ UNCHANGED <<traces, sequence_counter, overtaken>>

\* rictus_diag_service: a service has returned to the command that invoked
\* it, or there is no such service.
NoteService(w) ==
  /\ Routes(w) /\ own[w].named
  /\ Len(own[w].services) < MaxServices
  /\ LET note == [request |-> own[w].sequence, call |-> Len(own[w].services) + 1]
     IN  /\ Note(w, [traces[active_trace[w]] EXCEPT !.services =
                      IF Len(@) < RICTUS_DIAG_SERVICE_MAX THEN Append(@, note) ELSE @])
         /\ Continues(w, [own[w] EXCEPT !.services = Append(@, note)])

\* rictus_diag_command: the command has returned, or there is no such command.
NoteCommand(w) ==
  /\ Routes(w) /\ own[w].named
  /\ Note(w, [traces[active_trace[w]] EXCEPT !.named = TRUE, !.command = own[w].sequence])
  /\ Ends(w)

-----------------------------------------------------------------------------
Init ==
  /\ traces = [s \in Slots |-> None]
  /\ sequence_counter = 0
  /\ active_trace = [w \in Workers |-> 0]
  /\ own = [w \in Workers |-> None]
  /\ since = [w \in Workers |-> {}]
  /\ overtaken = FALSE

Next ==
  \E w \in Workers :
    \/ \E o \in Origins : Begin(w, o)
    \/ NoteRoute(w)
    \/ Refuse(w)
    \/ NoteService(w)
    \/ NoteCommand(w)

Spec == Init /\ [][Next]_vars

-----------------------------------------------------------------------------
InUse == {s \in Slots : traces[s] # None}

\* What is shown to a person: the older one, should two of its origins be
\* shown different requests.
LastShown ==
  [p \in Persons |->
     LET shown == {Shown(o) : o \in {o \in Origins : Person[o] = p}}
     IN  CHOOSE r \in shown : \A q \in shown : r <= q]

Requests ==
  INSTANCE RecentRequests WITH
    Capacity <- RICTUS_DIAG_TRACE_MAX, asked <- sequence_counter, last <- LastShown

(* "Rictus Core retains a bounded in-memory last-request diagnostic trace  *)
(* per sender" (src/README.md:55): whatever origins a person asks under,   *)
(* and however the workers interleave, every one of the last sixteen to    *)
(* ask is shown the last request, under each of these origins, and the     *)
(* trace that makes room is that of the one who asked longest ago.         *)
ImplementsRecentRequests == Requests!Spec

(* "The trace follows the actual runtime path" (src/README.md:56): every   *)
(* note in a trace is about its own request, and while a request is routed *)
(* none is missing, services past the limit excepted, though a worker      *)
(* notes by an index it took when the request began; as long as no request *)
(* has been overtaken, by sixteen others or by its own person on another   *)
(* worker.  From then on a trace may hold the notes of another request.    *)
NotesAreItsOwn ==
  ~overtaken =>
    /\ \A s \in InUse :
         /\ traces[s].command \in {NotReached, traces[s].sequence}
         /\ \A i \in 1 .. Len(traces[s].services) :
              traces[s].services[i] = [request |-> traces[s].sequence, call |-> i]
    /\ \A w \in Workers : Routes(w) =>
         LET s == active_trace[w]
             noted == {i \in 1 .. Len(own[w].services) : i <= RICTUS_DIAG_SERVICE_MAX}
         IN  traces[s] = [own[w] EXCEPT !.services = [i \in noted |-> own[w].services[i]]]
=============================================================================
