---------------------------- MODULE IrcTransport ----------------------------
(***************************************************************************)
(* The IRC module (modules/irc): irc_start and irc_stop on Core's thread,  *)
(* the worker that connects, negotiates, flushes and reads, and other      *)
(* modules' threads that queue messages through the transport services.    *)
(* They share the flags stop_requested, online and active_socket without a *)
(* lock and the ring of outbound messages under one.                       *)
(*                                                                         *)
(* Messages are numbered in the order they enter the ring.  The two        *)
(* transport services are registered, refused and withdrawn together, so   *)
(* one stands for both.  A line of the server is what handle_line makes of *)
(* it, and the server follows the order of the IRC negotiation.            *)
(***************************************************************************)
EXTENDS Naturals, Sequences

CONSTANTS Cap,           \* IRC_OUTBOUND_MAX
          Callers,       \* threads of other modules
          MaxMessages,   \* bound on the messages accepted
          MaxRuns        \* bound on the calls of irc_start

ASSUME IrcAssumption ==
  /\ Cap \in Nat \ {0}
  /\ MaxMessages \in Nat
  /\ MaxRuns \in Nat

VARIABLES core,            \* where irc_start or irc_stop is
          worker,          \* where the worker is
          session,         \* run_session's locals
          socket,          \* the connection: "none", "open" or "shut" (down)
          active_socket,   \* active_socket holds the worker's descriptor
          interrupt,       \* the descriptor irc_stop has read is not -1
          stop_requested, online,
          services,        \* the transport services: "out", "in" or "leaving"
          outbound, outbound_head, outbound_tail, outbound_count,
          item,            \* the message flush_outbound has popped, or 0
          callers,         \* where each caller of the service is
          run,             \* calls of irc_start so far
          born,            \* for each message, the run that accepted it
          sent             \* the messages sent, each with the run that sent it

ring == <<outbound, outbound_head, outbound_tail, outbound_count>>
flags == <<active_socket, stop_requested, online>>
history == <<run, born, sent>>
vars == <<core, worker, session, socket, flags, interrupt, services, ring,
          item, callers, history>>

CorePlaces == {"off", "starting", "waiting", "active", "loading",
               "interrupting", "joining", "clearing", "withdrawing"}
\* The worker inside the loop of run_session, its handshake done.
InSession == {"looping", "flushing", "sending", "reading", "lines", "routing"}
WorkerPlaces == InSession \cup
  {"none", "checking", "connecting", "connected", "handshake", "ending",
   "closing", "freeing", "exited"}

\* asked: the last request of the negotiation that was sent.
Fresh == [asked |-> "CAP LS", sasl_seen |-> FALSE, authenticated |-> FALSE,
          registered |-> FALSE, join_sent |-> FALSE, joined |-> FALSE]
Sessions == [asked : {"CAP LS", "CAP REQ", "PLAIN", "CREDENTIALS", "CAP END"},
             sasl_seen : BOOLEAN, authenticated : BOOLEAN,
             registered : BOOLEAN, join_sent : BOOLEAN, joined : BOOLEAN]

EmptyRing == [i \in 0 .. Cap - 1 |-> 0]

\* reset_outbound
Reset ==
  /\ outbound' = EmptyRing
  /\ outbound_head' = 0 /\ outbound_tail' = 0 /\ outbound_count' = 0

\* There is room in the ring (and within the bound).
Room == outbound_count < Cap /\ Len(born) < MaxMessages

\* queue_outbound, under the lock
Enqueue ==
  /\ outbound' = [outbound EXCEPT ![outbound_tail] = Len(born) + 1]
  /\ outbound_tail' = (outbound_tail + 1) % Cap
  /\ outbound_count' = outbound_count + 1
  /\ born' = Append(born, run)
  /\ UNCHANGED outbound_head

-----------------------------------------------------------------------------
(* irc_start *)

\* The services are registered before the configuration is read.
Start ==
  /\ core = "off"
  /\ run < MaxRuns
  /\ run' = run + 1
  /\ core' = "starting"
  /\ services' = "in"
  /\ UNCHANGED <<worker, session, socket, flags, interrupt, ring, item, callers,
                 born, sent>>

\* Configuration, OpenSSL or pthread_create.
StartFails ==
  /\ core = "starting"
  /\ core' = "withdrawing"
  /\ UNCHANGED <<worker, session, socket, flags, interrupt, services, ring,
                 item, callers, history>>

\* Mutant: what an earlier run left in the ring is kept.
CreateWorkerKeeps ==
  /\ core = "starting"
  /\ stop_requested' = FALSE /\ active_socket' = FALSE /\ online' = FALSE
  /\ worker' = "checking"
  /\ core' = "waiting"
  /\ UNCHANGED <<session, socket, interrupt, services, ring, item, callers,
                 history>>

CreateWorker ==
  /\ core = "starting"
  /\ Reset
  /\ stop_requested' = FALSE /\ active_socket' = FALSE /\ online' = FALSE
  /\ worker' = "checking"
  /\ core' = "waiting"
  /\ UNCHANGED <<session, socket, interrupt, services, item, callers, history>>

\* One round of the wait of IRC_STARTUP_WAIT_SECONDS.
StartSucceeds ==
  /\ core = "waiting" /\ online
  /\ core' = "active"
  /\ UNCHANGED <<worker, session, socket, flags, interrupt, services, ring,
                 item, callers, history>>

(* The wait has ended without success, or irc_stop is called: both request *)
(* the stop, shut the socket down if there is one, join and clean up.      *)
RequestStop ==
  /\ core \in {"waiting", "active"}
  /\ stop_requested' = TRUE
  /\ core' = "loading"
  /\ UNCHANGED <<worker, session, socket, active_socket, online, interrupt,
                 services, ring, item, callers, history>>

LoadSocket ==
  /\ core = "loading"
  /\ interrupt' = active_socket
  /\ core' = "interrupting"
  /\ UNCHANGED <<worker, session, socket, flags, services, ring, item, callers,
                 history>>

\* shutdown() of a descriptor the worker has closed since is left out.
Shutdown ==
  /\ core = "interrupting"
  /\ socket' = IF interrupt /\ socket = "open" THEN "shut" ELSE socket
  /\ core' = "joining"
  /\ UNCHANGED <<worker, session, flags, interrupt, services, ring, item,
                 callers, history>>

Join ==
  /\ core = "joining" /\ worker = "exited"
  /\ worker' = "none"
  /\ online' = FALSE
  /\ core' = "clearing"
  /\ UNCHANGED <<session, socket, active_socket, stop_requested, interrupt,
                 services, ring, item, callers, history>>

ResetOutbound ==
  /\ core = "clearing"
  /\ Reset
  /\ core' = "withdrawing"
  /\ UNCHANGED <<worker, session, socket, flags, interrupt, services, item,
                 callers, history>>

Withdraw ==
  /\ core = "withdrawing" /\ services = "in"
  /\ services' = "leaving"
  /\ UNCHANGED <<core, worker, session, socket, flags, interrupt, ring, item,
                 callers, history>>

\* Mutant: the callers that are still inside are not waited for.
WithdrawnAtOnce ==
  /\ core = "withdrawing" /\ services = "leaving"
  /\ services' = "out"
  /\ core' = "off"
  /\ UNCHANGED <<worker, session, socket, flags, interrupt, ring, item, callers,
                 history>>

\* ModuleHost's withdrawal returns once no call is in flight.
Withdrawn ==
  /\ core = "withdrawing" /\ services = "leaving"
  /\ \A c \in Callers : callers[c] = "idle"
  /\ services' = "out"
  /\ core' = "off"
  /\ UNCHANGED <<worker, session, socket, flags, interrupt, ring, item, callers,
                 history>>

-----------------------------------------------------------------------------
(* The transport services, on the thread of another module *)

Invoke(c) ==
  /\ callers[c] = "idle" /\ services = "in"
  /\ callers' = [callers EXCEPT ![c] = "inside"]
  /\ UNCHANGED <<core, worker, session, socket, flags, interrupt, services,
                 ring, item, history>>

\* queue_outbound looks at online before it takes the lock.
CheckOnline(c) ==
  /\ callers[c] = "inside"
  /\ callers' = [callers EXCEPT ![c] = IF online THEN "queueing" ELSE "idle"]
  /\ UNCHANGED <<core, worker, session, socket, flags, interrupt, services,
                 ring, item, history>>

Queue(c) ==
  /\ callers[c] = "queueing"
  /\ IF Room THEN Enqueue ELSE UNCHANGED <<ring, born>>
  /\ callers' = [callers EXCEPT ![c] = "idle"]
  /\ UNCHANGED <<core, worker, session, socket, flags, interrupt, services,
                 item, run, sent>>

-----------------------------------------------------------------------------
(* The worker *)

\* A step of the worker that is its place, its session and its socket.
Moves(to) ==
  /\ worker' = to
  /\ UNCHANGED <<core, interrupt, services, callers, stop_requested, history>>

\* The loop of irc_worker, after the backoff if a session was lost, and the
\* head of run_session.
Check ==
  /\ worker = "checking"
  /\ IF stop_requested
     THEN Moves("exited") /\ UNCHANGED online
     ELSE Moves("connecting") /\ online' = FALSE
  /\ UNCHANGED <<session, socket, active_socket, ring, item>>

Connect ==
  /\ worker = "connecting"
  /\ \/ Moves("connected") /\ socket' = "open"
     \/ Moves("ending") /\ UNCHANGED socket
  /\ UNCHANGED <<session, active_socket, online, ring, item>>

Publish ==
  /\ worker = "connected"
  /\ Moves("handshake")
  /\ active_socket' = TRUE
  /\ UNCHANGED <<session, socket, online, ring, item>>

\* SSL_connect, the certificate, CAP LS, NICK and USER
Handshake ==
  /\ worker = "handshake"
  /\ \/ socket = "open" /\ Moves("looping")
     \/ Moves("ending")
  /\ session' = Fresh
  /\ UNCHANGED <<socket, active_socket, online, ring, item>>

\* Mutant: the session runs until the connection fails.
LoopForever ==
  /\ worker = "looping"
  /\ Moves("flushing")
  /\ UNCHANGED <<session, socket, active_socket, online, ring, item>>

Loop ==
  /\ worker = "looping"
  /\ Moves(IF stop_requested THEN "ending" ELSE "flushing")
  /\ UNCHANGED <<session, socket, active_socket, online, ring, item>>

\* Mutant: the newest message is taken.
PopNewest ==
  /\ worker = "flushing" /\ outbound_count > 0
  /\ LET last == (outbound_tail + Cap - 1) % Cap
     IN  /\ item' = outbound[last]
         /\ outbound' = [outbound EXCEPT ![last] = 0]
         /\ outbound_tail' = last
  /\ outbound_count' = outbound_count - 1
  /\ Moves("sending")
  /\ UNCHANGED <<outbound_head, session, socket, active_socket, online>>

\* flush_outbound takes a message out of the ring before it sends it.
Pop ==
  /\ worker = "flushing" /\ outbound_count > 0
  /\ item' = outbound[outbound_head]
  /\ outbound' = [outbound EXCEPT ![outbound_head] = 0]
  /\ outbound_head' = (outbound_head + 1) % Cap
  /\ outbound_count' = outbound_count - 1
  /\ Moves("sending")
  /\ UNCHANGED <<outbound_tail, session, socket, active_socket, online>>

Send ==
  /\ worker = "sending" /\ socket = "open"
  /\ sent' = Append(sent, [message |-> item, run |-> run])
  /\ item' = 0
  /\ worker' = "flushing"
  /\ UNCHANGED <<core, session, socket, flags, interrupt, services, ring,
                 callers, run, born>>

SendFails ==
  /\ worker = "sending"
  /\ item' = 0
  /\ Moves("ending")
  /\ UNCHANGED <<session, socket, active_socket, online, ring>>

Flushed ==
  /\ worker = "flushing" /\ outbound_count = 0
  /\ Moves("reading")
  /\ UNCHANGED <<session, socket, active_socket, online, ring, item>>

\* poll: a second without data, or a buffer of lines
Poll ==
  /\ worker = "reading"
  /\ \/ Moves("looping")
     \/ socket = "open" /\ Moves("lines")
  /\ UNCHANGED <<session, socket, active_socket, online, ring, item>>

\* Mutant: after a buffer of lines the next read comes first.
BufferEmptyReads ==
  /\ worker = "lines"
  /\ Moves("reading")
  /\ UNCHANGED <<session, socket, active_socket, online, ring, item>>

\* The buffer holds no further line.
BufferEmpty ==
  /\ worker = "lines"
  /\ Moves("looping")
  /\ UNCHANGED <<session, socket, active_socket, online, ring, item>>

\* The connection fails, or handle_line gives the session up.
Lose ==
  /\ worker \in {"reading", "lines"}
  /\ Moves("ending")
  /\ UNCHANGED <<session, socket, active_socket, online, ring, item>>

\* A line that only changes the session.
Line(update) ==
  /\ worker = "lines"
  /\ session' = update
  /\ Moves("lines")
  /\ UNCHANGED <<socket, active_socket, online, ring, item>>

\* The server lists its capabilities in one line or more.
CapLs(sasl, more) ==
  /\ session.asked = "CAP LS"
  /\ LET seen == session.sasl_seen \/ sasl
     IN  /\ more \/ seen
         /\ Line([session EXCEPT !.sasl_seen = seen,
                                 !.asked = IF more THEN @ ELSE "CAP REQ"])

CapAck ==
  /\ session.asked = "CAP REQ"
  /\ Line([session EXCEPT !.asked = "PLAIN"])

Authenticate ==
  /\ session.asked = "PLAIN"
  /\ Line([session EXCEPT !.asked = "CREDENTIALS"])

\* 903
Authenticated ==
  /\ session.asked = "CREDENTIALS"
  /\ Line([session EXCEPT !.authenticated = TRUE, !.asked = "CAP END"])

\* 001, also from a server that ignores CAP
Welcome ==
  /\ session.asked \in {"CAP LS", "CAP END"}
  /\ Line([session EXCEPT !.registered = TRUE,
                          !.join_sent = @ \/ session.authenticated])

\* Any other line requests the join that is due.
OtherLine ==
  Line([session EXCEPT !.join_sent = @ \/ (session.registered /\ session.authenticated)])

\* 366 for the channel
Joined ==
  /\ worker = "lines" /\ session.join_sent
  /\ session' = [session EXCEPT !.joined = TRUE]
  /\ online' = (online \/ ~session.joined)
  /\ Moves("lines")
  /\ UNCHANGED <<socket, active_socket, ring, item>>

\* Mutant: the rejoin is requested, online is left.
KickedOnline ==
  /\ worker = "lines" /\ session.joined
  /\ session' = [session EXCEPT !.joined = FALSE]
  /\ Moves("lines")
  /\ UNCHANGED <<socket, active_socket, online, ring, item>>

\* KICK: the rejoin is requested at once.
Kicked ==
  /\ worker = "lines" /\ session.joined
  /\ session' = [session EXCEPT !.joined = FALSE]
  /\ online' = FALSE
  /\ Moves("lines")
  /\ UNCHANGED <<socket, active_socket, ring, item>>

\* PRIVMSG: Core's router is called on the worker's thread ...
Route ==
  /\ worker = "lines"
  /\ Moves("routing")
  /\ UNCHANGED <<session, socket, active_socket, online, ring, item>>

\* ... and a reply is queued.
Reply ==
  /\ worker = "routing"
  /\ worker' = "lines"
  /\ \/ online /\ Room /\ Enqueue
     \/ UNCHANGED <<ring, born>>
  /\ UNCHANGED <<core, session, socket, flags, interrupt, services, item,
                 callers, run, sent>>

\* The end of run_session, in its three steps
End ==
  /\ worker = "ending"
  /\ online' = FALSE
  /\ Moves("closing")
  /\ UNCHANGED <<session, socket, active_socket, ring, item>>

Retract ==
  /\ worker = "closing"
  /\ active_socket' = FALSE
  /\ Moves("freeing")
  /\ UNCHANGED <<session, socket, online, ring, item>>

Close ==
  /\ worker = "freeing"
  /\ socket' = "none"
  /\ Moves("checking")
  /\ UNCHANGED <<session, active_socket, online, ring, item>>

-----------------------------------------------------------------------------
Init ==
  /\ core = "off" /\ worker = "none"
  /\ session = Fresh /\ socket = "none"
  /\ active_socket = FALSE /\ stop_requested = FALSE /\ online = FALSE
  /\ interrupt = FALSE
  /\ services = "out"
  /\ outbound = EmptyRing
  /\ outbound_head = 0 /\ outbound_tail = 0 /\ outbound_count = 0
  /\ item = 0
  /\ callers = [c \in Callers |-> "idle"]
  /\ run = 0 /\ born = <<>> /\ sent = <<>>

CoreReturns ==
  \/ StartFails \/ CreateWorker \/ StartSucceeds
  \/ core = "waiting" /\ RequestStop
  \/ LoadSocket \/ Shutdown \/ Join \/ ResetOutbound
  \/ Withdraw \/ Withdrawn

CallerReturns(c) == CheckOnline(c) \/ Queue(c)

HandleLine ==
  \/ \E sasl, more \in BOOLEAN : CapLs(sasl, more)
  \/ CapAck \/ Authenticate \/ Authenticated
  \/ Welcome \/ OtherLine
  \/ Joined \/ Kicked
  \/ Route

WorkerRuns ==
  \/ Check \/ Connect \/ Publish \/ Handshake
  \/ Loop \/ Pop \/ Send \/ SendFails \/ Flushed
  \/ Poll \/ BufferEmpty \/ Lose
  \/ HandleLine \/ Reply
  \/ End \/ Retract \/ Close

Next ==
  \/ Start \/ CoreReturns
  \/ core = "active" /\ RequestStop
  \/ \E c \in Callers : Invoke(c) \/ CallerReturns(c)
  \/ WorkerRuns

Spec == Init /\ [][Next]_vars

(* Every thread runs.  A buffer holds finitely many lines.  SSL_connect,   *)
(* and the controller a message is routed to, return.                      *)
FairSpec ==
  /\ Spec
  /\ WF_vars(CoreReturns)
  /\ \A c \in Callers : WF_vars(CallerReturns(c))
  /\ WF_vars(WorkerRuns)
  /\ SF_vars(BufferEmpty)

(* The same, but a peer that has accepted the connection may stay silent   *)
(* during SSL_connect for as long as nobody shuts the socket down: the     *)
(* socket has no timeout.                                                  *)
SilentPeerSpec ==
  /\ Spec
  /\ WF_vars(CoreReturns)
  /\ \A c \in Callers : WF_vars(CallerReturns(c))
  /\ WF_vars((worker = "handshake" => socket = "shut") /\ WorkerRuns)
  /\ SF_vars(BufferEmpty)

-----------------------------------------------------------------------------
\* The messages that have been accepted and have not left, oldest first.
Pending ==
  LET inRing == [i \in 1 .. outbound_count |-> outbound[(outbound_head + i - 1) % Cap]]
  IN  IF item = 0 THEN inRing ELSE <<item>> \o inRing

TypeOK ==
  /\ core \in CorePlaces /\ worker \in WorkerPlaces
  /\ session \in Sessions
  /\ socket \in {"none", "open", "shut"}
  /\ active_socket \in BOOLEAN /\ stop_requested \in BOOLEAN
  /\ online \in BOOLEAN /\ interrupt \in BOOLEAN
  /\ services \in {"out", "in", "leaving"}
  /\ outbound \in [0 .. Cap - 1 -> 0 .. Len(born)]
  /\ outbound_head \in 0 .. Cap - 1 /\ outbound_tail \in 0 .. Cap - 1
  /\ outbound_count \in 0 .. Cap
  /\ outbound_tail = (outbound_head + outbound_count) % Cap
  /\ item \in 0 .. Len(born)
  /\ callers \in [Callers -> {"idle", "inside", "queueing"}]
  /\ run \in 0 .. MaxRuns
  /\ born \in Seq(1 .. run) /\ Len(born) <= MaxMessages
  /\ sent \in Seq([message : 1 .. Len(born), run : 1 .. run])

(* Whatever threads queue and flush, lose sessions, stop and restart the   *)
(* module: messages leave in the order they were accepted, each at most    *)
(* once, and none is made up (queue_outbound, flush_outbound,              *)
(* reset_outbound).                                                        *)
Outbound == INSTANCE OutboundQueue WITH
  accepted <- Len(born),
  pending <- Pending,
  delivered <- [k \in 1 .. Len(sent) |-> sent[k].message]
ImplementsQueue == Outbound!Spec

(* A message never survives a restart of the module: what a late caller    *)
(* leaves in the ring after irc_stop has cleared it is not sent by the     *)
(* session of the next start.                                              *)
SentByItsRun == \A k \in 1 .. Len(sent) : sent[k].run = born[sent[k].message]

(* The channel is joined only after authentication and registration, on    *)
(* every path through the negotiation and after a KICK; and online is only *)
(* seen while the worker holds a live session that has gone through that   *)
(* and is in the channel.                                                  *)
OnlineIsJoined ==
  /\ worker \in InSession /\ session.join_sent =>
       session.authenticated /\ session.registered
  /\ online =>
       /\ worker \in InSession \cup {"ending"}
       /\ socket # "none"
       /\ session.joined /\ session.authenticated

(* When irc_start has failed or irc_stop has returned, no thread is left   *)
(* inside the module, so its code may be unloaded.                         *)
OffIsQuiet ==
  core = "off" =>
    /\ worker = "none" /\ socket = "none" /\ ~online
    /\ services = "out"
    /\ \A c \in Callers : callers[c] = "idle"

(* irc_start and irc_stop return, wherever the worker is when the stop is  *)
(* requested: before it connects, between connect and the store of         *)
(* active_socket, in a session, in a routed command or in the backoff.     *)
LifecycleCallsEnd == core \notin {"off", "active"} ~> core \in {"off", "active"}

(* A message that is accepted leaves as long as a session lasts, however   *)
(* many lines arrive and messages are queued meanwhile.                    *)
QueueIsServed ==
  \A m \in 1 .. MaxMessages :
    LET waits == worker \in InSession /\ \E k \in 1 .. Len(Pending) : Pending[k] = m
    IN  waits ~> ~waits
=============================================================================
