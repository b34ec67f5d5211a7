------------------------ MODULE IrcTransport_proofs ------------------------
(***************************************************************************)
(* Proofs about IrcTransport, for any ring, any callers and any bounds.    *)
(*                                                                         *)
(* ControlInv says what the places of the two threads, the socket, the     *)
(* flags and the negotiation have to do with one another.  QueueInv says   *)
(* what the ring holds, and of which run; it rests on ControlInv, since a  *)
(* run begins only where no worker is left.  The ring is read through      *)
(* Slot: no step of a proof but the two lemmas on it does modular          *)
(* arithmetic.                                                             *)
(***************************************************************************)
EXTENDS IrcTransport, TLAPS

\* Where Core has no worker: before it is created and after it is joined.
Workerless == {"off", "starting", "clearing", "withdrawing"}

ControlType ==
  /\ core \in CorePlaces /\ worker \in WorkerPlaces
  /\ session \in Sessions
  /\ socket \in {"none", "open", "shut"}
  /\ active_socket \in BOOLEAN /\ stop_requested \in BOOLEAN
  /\ online \in BOOLEAN /\ interrupt \in BOOLEAN
  /\ services \in {"out", "in", "leaving"}
  /\ callers \in [Callers -> {"idle", "inside", "queueing"}]
  /\ run \in 0 .. MaxRuns

ControlInv ==
  /\ ControlType
  /\ worker = "none" <=> core \in Workerless
  /\ core # "off" => run > 0
  /\ services = "out" <=> core = "off"
  /\ services = "leaving" => core = "withdrawing"
  /\ services = "out" => \A c \in Callers : callers[c] = "idle"
  /\ worker \in {"none", "checking", "connecting", "exited"} => socket = "none"
  /\ worker \in InSession => socket # "none"
  /\ session.join_sent => session.authenticated /\ session.registered
  /\ session.joined => session.join_sent
  /\ online =>
       worker \in InSession \cup {"ending"} /\ socket # "none" /\ session.joined

\* The i-th oldest message of the ring.
Slot(i) == (outbound_head + i - 1) % Cap
InRing == [i \in 1 .. outbound_count |-> outbound[Slot(i)]]

QueueType ==
  /\ outbound \in [0 .. Cap - 1 -> 0 .. Len(born)]
  /\ outbound_head \in 0 .. Cap - 1 /\ outbound_tail \in 0 .. Cap - 1
  /\ outbound_count \in 0 .. Cap
  /\ outbound_tail = (outbound_head + outbound_count) % Cap
  /\ item \in 0 .. Len(born)
  /\ born \in Seq(1 .. run) /\ Len(born) <= MaxMessages
  /\ sent \in Seq([message : 1 .. Len(born), run : 1 .. run])

QueueInv ==
  /\ QueueType
  /\ item # 0 <=> worker = "sending"
  /\ item # 0 => born[item] = run
  /\ \A i \in 1 .. outbound_count : InRing[i] \in 1 .. Len(born)
  /\ worker # "none" => \A i \in 1 .. outbound_count : born[InRing[i]] = run
  /\ SentByItsRun

IrcInv == ControlInv /\ QueueInv

-----------------------------------------------------------------------------
(* The threads *)

\* The two type invariants are that of the module.
LEMMA TypesTogether == TypeOK <=> ControlType /\ QueueType
BY DEF TypeOK, ControlType, QueueType

\* The two properties of the threads are parts of ControlInv.
LEMMA ControlProperties == ControlInv => OnlineIsJoined /\ OffIsQuiet
BY DEF ControlInv, ControlType, OnlineIsJoined, OffIsQuiet, Workerless, InSession

\* The module is loaded and nothing runs in it.
LEMMA ControlInvInit == Init => ControlInv
<1> SUFFICES ASSUME Init PROVE ControlInv
  OBVIOUS
<1>1. Fresh \in Sessions
  BY DEF Fresh, Sessions
<1>2. ControlType
  <2>1. session \in Sessions
    BY <1>1 DEF Init
  <2>2. callers \in [Callers -> {"idle", "inside", "queueing"}]
    BY DEF Init
  <2>3. run \in 0 .. MaxRuns
    BY IrcAssumption DEF Init
  <2> QED
    BY <2>1, <2>2, <2>3 DEF Init, ControlType, CorePlaces, WorkerPlaces
<1> QED
  BY <1>2 DEF Init, ControlInv, Workerless, InSession, Fresh

\* What irc_start and irc_stop do keeps ControlInv.
LEMMA CoreKeepsControl ==
  ControlInv /\ (Start \/ CoreReturns \/ RequestStop) => ControlInv'
<1> SUFFICES ASSUME ControlInv, Start \/ CoreReturns \/ RequestStop PROVE ControlInv'
  OBVIOUS
<1> USE DEF ControlInv, ControlType, Workerless, InSession, CorePlaces, WorkerPlaces,
            flags, ring, history
<1>1. CASE Start
  BY <1>1, IrcAssumption DEF Start
<1>2. CASE StartFails
  BY <1>2 DEF StartFails
<1>3. CASE CreateWorker
  BY <1>3 DEF CreateWorker
<1>4. CASE StartSucceeds
  BY <1>4 DEF StartSucceeds
<1>5. CASE RequestStop
  BY <1>5 DEF RequestStop
<1>6. CASE LoadSocket
  BY <1>6 DEF LoadSocket
<1>7. CASE Shutdown
  BY <1>7 DEF Shutdown
<1>8. CASE Join
  BY <1>8 DEF Join
<1>9. CASE ResetOutbound
  BY <1>9 DEF ResetOutbound
<1>10. CASE Withdraw
  BY <1>10 DEF Withdraw
<1>11. CASE Withdrawn
  BY <1>11 DEF Withdrawn
<1> QED
  BY <1>1, <1>2, <1>3, <1>4, <1>5, <1>6, <1>7, <1>8, <1>9, <1>10, <1>11 DEF CoreReturns

\* What the threads of other modules do keeps ControlInv.
LEMMA CallersKeepControl ==
  ASSUME NEW c \in Callers
  PROVE  ControlInv /\ (Invoke(c) \/ CallerReturns(c)) => ControlInv'
<1> SUFFICES ASSUME ControlInv, Invoke(c) \/ CallerReturns(c) PROVE ControlInv'
  OBVIOUS
<1>1. /\ services # "out"
      /\ callers' \in [Callers -> {"idle", "inside", "queueing"}]
  BY DEF ControlInv, ControlType, Invoke, CallerReturns, CheckOnline, Queue
<1>2. UNCHANGED <<core, worker, session, socket, flags, interrupt, services, run>>
  BY DEF Invoke, CallerReturns, CheckOnline, Queue, history
<1> QED
  BY <1>1, <1>2 DEF ControlInv, ControlType, flags

\* The replies of the negotiation, the join and the kick keep what the
\* session records in step with what online says.
LEMMA LinesKeepControl == ControlInv /\ HandleLine => ControlInv'
<1> SUFFICES ASSUME ControlInv, HandleLine PROVE ControlInv'
  OBVIOUS
<1> DEFINE Good(s) ==
      /\ s \in Sessions
      /\ s.join_sent => s.authenticated /\ s.registered
      /\ s.joined => s.join_sent
<1>1. worker = "lines" /\ Good(session)
  BY DEF ControlInv, ControlType, HandleLine, CapLs, CapAck, Authenticate,
         Authenticated, Welcome, OtherLine, Line, Joined, Kicked, Route
<1>2. ASSUME NEW s, Line(s), Good(s), session.joined => s.joined
      PROVE  ControlInv'
  BY <1>2 DEF ControlInv, ControlType, Line, Moves, InSession, Workerless, WorkerPlaces,
              history
<1>3. ASSUME NEW sasl \in BOOLEAN, NEW more \in BOOLEAN, CapLs(sasl, more)
      PROVE  ControlInv'
  <2>1. \A ask \in {"CAP LS", "CAP REQ"} : \A seen \in BOOLEAN :
          LET s == [session EXCEPT !.sasl_seen = seen, !.asked = ask]
          IN  Good(s) /\ (session.joined => s.joined)
    BY <1>1 DEF Sessions
  <2>2. PICK ask \in {"CAP LS", "CAP REQ"}, seen \in BOOLEAN :
          Line([session EXCEPT !.sasl_seen = seen, !.asked = ask])
    BY <1>1, <1>3 DEF CapLs, Sessions
  <2> QED
    BY <1>2, <2>1, <2>2
<1>4. CASE CapAck
  BY <1>1, <1>2, <1>4 DEF CapAck, Sessions
<1>5. CASE Authenticate
  BY <1>1, <1>2, <1>5 DEF Authenticate, Sessions
<1>6. CASE Authenticated
  BY <1>1, <1>2, <1>6 DEF Authenticated, Sessions
<1>7. CASE Welcome
  BY <1>1, <1>2, <1>7 DEF Welcome, Sessions
<1>8. CASE OtherLine
  BY <1>1, <1>2, <1>8 DEF OtherLine, Sessions
<1>9. CASE Joined
  BY <1>9 DEF Joined, Moves, ControlInv, ControlType, Sessions, InSession, Workerless,
              WorkerPlaces, history
<1>10. CASE Kicked
  BY <1>10 DEF Kicked, Moves, ControlInv, ControlType, Sessions, InSession, Workerless,
               WorkerPlaces, history
<1>11. CASE Route
  BY <1>11 DEF Route, Moves, ControlInv, ControlType, InSession, Workerless, WorkerPlaces,
               history
<1> QED
  BY <1>3, <1>4, <1>5, <1>6, <1>7, <1>8, <1>9, <1>10, <1>11 DEF HandleLine

\* The worker's other steps keep ControlInv.
LEMMA WorkerKeepsControl == ControlInv /\ WorkerRuns => ControlInv'
<1> SUFFICES ASSUME ControlInv, WorkerRuns PROVE ControlInv'
  OBVIOUS
<1> USE DEF Moves, ControlInv, ControlType, Workerless, InSession, WorkerPlaces, flags, history
<1>1. CASE Check
  BY <1>1 DEF Check
<1>2. CASE Connect
  BY <1>2 DEF Connect
<1>3. CASE Publish
  BY <1>3 DEF Publish
<1>4. CASE Handshake
  <2>1. /\ Fresh \in Sessions
        /\ ~Fresh.join_sent /\ ~Fresh.joined
    BY DEF Fresh, Sessions
  <2> QED
    BY <1>4, <2>1 DEF Handshake
<1>5. CASE Loop
  BY <1>5 DEF Loop
<1>6. CASE Pop
  BY <1>6 DEF Pop
<1>7. CASE Send
  BY <1>7 DEF Send
<1>8. CASE SendFails
  BY <1>8 DEF SendFails
<1>9. CASE Flushed
  BY <1>9 DEF Flushed
<1>10. CASE Poll
  BY <1>10 DEF Poll
<1>11. CASE BufferEmpty
  BY <1>11 DEF BufferEmpty
<1>12. CASE Lose
  BY <1>12 DEF Lose
<1>13. CASE HandleLine
  BY <1>13, LinesKeepControl
<1>14. CASE Reply
  BY <1>14 DEF Reply
<1>15. CASE End
  BY <1>15 DEF End
<1>16. CASE Retract
  BY <1>16 DEF Retract
<1>17. CASE Close
  BY <1>17 DEF Close
<1> QED
  BY <1>1, <1>2, <1>3, <1>4, <1>5, <1>6, <1>7, <1>8, <1>9, <1>10, <1>11, <1>12, <1>13,
     <1>14, <1>15, <1>16, <1>17 DEF WorkerRuns

\* ControlInv is inductive.
LEMMA ControlInvStep == ControlInv /\ [Next]_vars => ControlInv'
<1>1. ControlInv /\ UNCHANGED vars => ControlInv'
  BY DEF ControlInv, ControlType, vars, flags, history
<1> QED
  BY <1>1, CoreKeepsControl, CallersKeepControl, WorkerKeepsControl DEF Next

-----------------------------------------------------------------------------
(* The ring *)

\* One turn of the ring at most.
LEMMA OneTurn ==
  ASSUME NEW h \in 0 .. Cap - 1, NEW i \in 1 .. Cap
  PROVE  (h + i - 1) % Cap = IF h + i - 1 < Cap THEN h + i - 1 ELSE h + i - 1 - Cap
BY IrcAssumption, SMT

\* Where the oldest, the i-th and the next free place of the ring are.
LEMMA SlotValue ==
  ASSUME QueueType, NEW i \in 1 .. Cap
  PROVE  /\ Slot(i) = IF outbound_head + i - 1 < Cap THEN outbound_head + i - 1
                                                      ELSE outbound_head + i - 1 - Cap
         /\ Slot(i) \in 0 .. Cap - 1
         /\ Slot(1) = outbound_head
         /\ outbound_count < Cap => outbound_tail = Slot(outbound_count + 1)
         /\ (outbound_head + 1) % Cap = IF outbound_head + 1 < Cap THEN outbound_head + 1
                                                                   ELSE 0
<1> DEFINE Wrapped(n) == IF n < Cap THEN n ELSE n - Cap
<1>1. \A n \in Nat : n < 2 * Cap => n % Cap = Wrapped(n)
  BY IrcAssumption, SMT
<1>2. /\ Cap \in Nat /\ Cap > 0
      /\ outbound_head \in 0 .. Cap - 1 /\ outbound_count \in 0 .. Cap
      /\ outbound_tail = (outbound_head + outbound_count) % Cap
  BY IrcAssumption DEF QueueType
<1>3. outbound_head + i - 1 \in Nat /\ outbound_head + i - 1 < 2 * Cap
  BY <1>2
<1>4. Slot(i) = Wrapped(outbound_head + i - 1)
  BY <1>1, <1>3 DEF Slot
<1>5. Slot(1) = Wrapped(outbound_head)
  <2>1. outbound_head + 1 - 1 = outbound_head /\ outbound_head \in Nat
    BY <1>2
  <2> QED
    BY <1>1, <1>2, <2>1 DEF Slot
<1>6. outbound_count < Cap => outbound_tail = Slot(outbound_count + 1)
  <2>1. outbound_head + (outbound_count + 1) - 1 = outbound_head + outbound_count
    BY <1>2
  <2> QED
    BY <1>2, <2>1 DEF Slot
<1>7. (outbound_head + 1) % Cap = Wrapped(outbound_head + 1)
  BY <1>1, <1>2
<1> QED
  BY <1>2, <1>3, <1>4, <1>5, <1>6, <1>7

\* Two messages of the ring are in two places.
LEMMA SlotsApart ==
  ASSUME QueueType, NEW i \in 1 .. Cap, NEW j \in 1 .. Cap, i # j
  PROVE  Slot(i) \in 0 .. Cap - 1 /\ Slot(i) # Slot(j)
<1>1. Cap \in Nat /\ outbound_head \in Nat /\ outbound_head < Cap
  BY IrcAssumption DEF QueueType
<1>2. /\ Slot(i) \in 0 .. Cap - 1
      /\ Slot(i) = IF outbound_head + i - 1 < Cap THEN outbound_head + i - 1
                                                  ELSE outbound_head + i - 1 - Cap
  BY SlotValue
<1>3. Slot(j) = IF outbound_head + j - 1 < Cap THEN outbound_head + j - 1
                                               ELSE outbound_head + j - 1 - Cap
  BY SlotValue
<1> QED
  BY <1>1, <1>2, <1>3

\* The tail advances with a message that enters ...
LEMMA NextTail ==
  ASSUME NEW h \in 0 .. Cap - 1, NEW n \in 0 .. Cap - 1
  PROVE  /\ (((h + n) % Cap) + 1) % Cap = (h + (n + 1)) % Cap
         /\ (((h + n) % Cap) + 1) % Cap \in 0 .. Cap - 1
<1>1. (h + n) % Cap = IF h + n < Cap THEN h + n ELSE h + n - Cap
  BY IrcAssumption, SMT
<1>2. (h + (n + 1)) % Cap = IF h + n + 1 < Cap THEN h + n + 1 ELSE h + n + 1 - Cap
  BY IrcAssumption, SMT
<1>3. \A t \in 0 .. Cap - 1 : (t + 1) % Cap = IF t + 1 < Cap THEN t + 1 ELSE 0
  BY IrcAssumption, SMT
<1>4. PICK t \in 0 .. Cap - 1 : t = (h + n) % Cap
  BY <1>1, IrcAssumption
<1>5. (t + 1) % Cap = IF t + 1 < Cap THEN t + 1 ELSE 0
  BY <1>3
<1>6. /\ (t + 1) % Cap = IF h + n + 1 < Cap THEN h + n + 1 ELSE h + n + 1 - Cap
      /\ (t + 1) % Cap \in 0 .. Cap - 1
  BY <1>1, <1>4, <1>5, IrcAssumption
<1> QED
  BY <1>2, <1>4, <1>6

\* ... and the head with one that leaves.
LEMMA NextHead ==
  ASSUME NEW h \in 0 .. Cap - 1, NEW n \in 1 .. Cap
  PROVE  /\ (h + n) % Cap = (((h + 1) % Cap) + (n - 1)) % Cap
         /\ (h + 1) % Cap \in 0 .. Cap - 1
<1>1. (h + n) % Cap = IF h + n < Cap THEN h + n ELSE h + n - Cap
  BY IrcAssumption, SMT
<1>2. (h + 1) % Cap = IF h + 1 < Cap THEN h + 1 ELSE 0
  BY IrcAssumption, SMT
<1>3. PICK g \in 0 .. Cap - 1 : g = (h + 1) % Cap
  BY <1>2, IrcAssumption
<1>4. (g + (n - 1)) % Cap = IF g + n - 1 < Cap THEN g + n - 1 ELSE g + n - 1 - Cap
  BY IrcAssumption, SMT
<1>5. (g + (n - 1)) % Cap = IF h + n < Cap THEN h + n ELSE h + n - Cap
  BY <1>2, <1>3, <1>4, IrcAssumption
<1> QED
  BY <1>1, <1>3, <1>5

\* The ring as a sequence of messages, oldest first.
LEMMA RingType ==
  ASSUME QueueType
  PROVE  /\ InRing \in Seq(0 .. Len(born)) /\ Len(InRing) = outbound_count
         /\ \A i \in 1 .. outbound_count :
              InRing[i] = outbound[Slot(i)] /\ InRing[i] \in 0 .. Len(born)
<1>1. outbound_count \in Nat /\ outbound_count <= Cap /\ Cap \in Nat /\ Len(born) \in Nat
  BY IrcAssumption DEF QueueType
<1>2. ASSUME NEW i \in 1 .. outbound_count
      PROVE  outbound[Slot(i)] \in 0 .. Len(born)
  <2>1. i \in 1 .. Cap
    BY <1>1
  <2>2. Slot(i) \in 0 .. Cap - 1
    BY <2>1, SlotValue
  <2> QED
    BY <2>2 DEF QueueType
<1>3. InRing \in [1 .. outbound_count -> 0 .. Len(born)]
  BY <1>2 DEF InRing
<1> QED
  BY <1>1, <1>2, <1>3 DEF InRing

\* Queueing a message puts it behind all the others and moves none.
LEMMA EnqueueAppends ==
  ASSUME QueueType, Room, Enqueue
  PROVE  /\ outbound_count' = outbound_count + 1
         /\ \A i \in 1 .. outbound_count : InRing'[i] = InRing[i]
         /\ InRing'[outbound_count + 1] = Len(born) + 1
<1>1. /\ Cap \in Nat /\ outbound_count \in Nat /\ outbound_count < Cap
      /\ outbound_head \in Nat /\ outbound_head < Cap
      /\ outbound \in [0 .. Cap - 1 -> 0 .. Len(born)]
  BY IrcAssumption DEF QueueType, Room
<1>2. /\ outbound' = [outbound EXCEPT ![outbound_tail] = Len(born) + 1]
      /\ outbound_count' = outbound_count + 1
      /\ outbound_head' = outbound_head
  BY DEF Enqueue
<1>3. InRing' = [i \in 1 .. outbound_count + 1 |-> outbound'[Slot(i)]]
  BY <1>2 DEF InRing, Slot
<1>4. outbound_tail = Slot(outbound_count + 1) /\ outbound_tail \in 0 .. Cap - 1
  <2>1. outbound_count + 1 \in 1 .. Cap
    BY <1>1
  <2> QED
    BY <1>1, <2>1, SlotValue DEF QueueType
<1>5. ASSUME NEW i \in 1 .. outbound_count
      PROVE  InRing'[i] = InRing[i]
  <2>1. i \in 1 .. outbound_count + 1 /\ i \in 1 .. Cap /\ outbound_count + 1 \in 1 .. Cap
    BY <1>1
  <2>2. Slot(i) \in 0 .. Cap - 1 /\ Slot(i) # Slot(outbound_count + 1)
    BY <1>1, <2>1, SlotsApart
  <2>3. outbound'[Slot(i)] = outbound[Slot(i)]
    BY <1>1, <1>2, <1>4, <2>2
  <2> QED
    BY <1>3, <2>1, <2>3 DEF InRing
<1>6. InRing'[outbound_count + 1] = Len(born) + 1
  BY <1>1, <1>2, <1>3, <1>4
<1> QED
  BY <1>2, <1>5, <1>6

\* flush_outbound takes the oldest message and moves every other one up.
LEMMA PopTakesOldest ==
  ASSUME QueueType, Pop
  PROVE  /\ outbound_count' + 1 = outbound_count /\ outbound_count' \in Nat
         /\ item' = InRing[1]
         /\ \A i \in 1 .. outbound_count' : InRing'[i] = InRing[i + 1]
<1>1. /\ Cap \in Nat /\ outbound_count \in Nat /\ outbound_count <= Cap
      /\ outbound_count > 0
      /\ outbound_head \in Nat /\ outbound_head < Cap
      /\ outbound \in [0 .. Cap - 1 -> 0 .. Len(born)]
  BY IrcAssumption DEF QueueType, Pop
<1>2. /\ item' = outbound[outbound_head]
      /\ outbound' = [outbound EXCEPT ![outbound_head] = 0]
      /\ outbound_head' = (outbound_head + 1) % Cap
      /\ outbound_count' = outbound_count - 1
  BY DEF Pop
<1>3. Slot(1) = outbound_head /\ 1 \in 1 .. Cap
  BY <1>1, SlotValue
<1>4. item' = InRing[1]
  BY <1>1, <1>2, <1>3 DEF InRing
<1>5. ASSUME NEW i \in 1 .. outbound_count'
      PROVE  InRing'[i] = InRing[i + 1]
  <2>1. i \in 1 .. Cap /\ i + 1 \in 1 .. Cap /\ i + 1 \in 1 .. outbound_count /\ i \in Nat
    BY <1>1, <1>2
  <2>2. outbound_head' = IF outbound_head + 1 < Cap THEN outbound_head + 1 ELSE 0
    BY <1>2, <2>1, SlotValue
  <2>4. (outbound_head' + i - 1) % Cap = Slot(i + 1)
    <3>1. PICK h : h = outbound_head'
      OBVIOUS
    <3>2. Slot(i + 1) = IF outbound_head + i < Cap THEN outbound_head + i
                                                   ELSE outbound_head + i - Cap
      <4>1. outbound_head + (i + 1) - 1 = outbound_head + i
        BY <1>1, <2>1
      <4> QED
        BY <2>1, <4>1, SlotValue
    <3>3. h \in 0 .. Cap - 1
      BY <1>1, <2>1, <2>2, <3>1
    <3>4. (h + i - 1) % Cap = IF h + i - 1 < Cap THEN h + i - 1 ELSE h + i - 1 - Cap
      BY <2>1, <3>3, OneTurn, Zenon
    <3>5. CASE outbound_head + 1 < Cap
      <4>1. h = outbound_head + 1
        BY <2>2, <3>1, <3>5
      <4>2. (h + i - 1) % Cap = Slot(i + 1)
        BY <1>1, <2>1, <3>2, <3>4, <4>1
      <4> QED
        BY <3>1, <4>2
    <3>6. CASE ~(outbound_head + 1 < Cap)
      <4>1. outbound_head + 1 = Cap /\ h = 0 /\ i - 1 < Cap
        BY <1>1, <2>1, <2>2, <3>1, <3>6
      <4>2. (h + i - 1) % Cap = Slot(i + 1)
        BY <1>1, <2>1, <3>2, <3>4, <4>1
      <4> QED
        BY <3>1, <4>2
    <3> QED
      BY <3>5, <3>6
  <2>5. Slot(i + 1) \in 0 .. Cap - 1 /\ Slot(i + 1) # outbound_head
    BY <1>1, <1>3, <2>1, SlotsApart
  <2>6. InRing'[i] = outbound'[Slot(i + 1)]
    BY <2>1, <2>4 DEF InRing, Slot
  <2> QED
    BY <1>1, <1>2, <2>1, <2>5, <2>6 DEF InRing
<1> QED
  BY <1>1, <1>2, <1>4, <1>5

-----------------------------------------------------------------------------
(* What the ring holds *)

\* A sequence is over any set that holds its elements.
LEMMA SeqOver ==
  ASSUME NEW S, NEW T, NEW s \in Seq(S), \A k \in 1 .. Len(s) : s[k] \in T
  PROVE  s \in Seq(T)
<1>1. Len(s) \in Nat /\ s \in [1 .. Len(s) -> S]
  OBVIOUS
<1>2. s \in [1 .. Len(s) -> T]
  BY <1>1
<1> QED
  BY <1>1, <1>2

\* Each accepted message has a run, and each one that was sent was accepted.
LEMMA HistoryType ==
  ASSUME QueueType, run \in Nat
  PROVE  /\ Len(born) \in Nat /\ \A k \in 1 .. Len(born) : born[k] \in 1 .. run
         /\ Len(sent) \in Nat
         /\ \A k \in 1 .. Len(sent) :
              /\ sent[k].message \in 1 .. Len(born) /\ sent[k].run \in 1 .. run
              /\ sent[k] = [message |-> sent[k].message, run |-> sent[k].run]
<1>1. born \in Seq(1 .. run)
  BY DEF QueueType
<1>2. Len(born) \in Nat /\ \A k \in 1 .. Len(born) : born[k] \in 1 .. run
  BY <1>1
<1>3. PICK R : R = [message : 1 .. Len(born), run : 1 .. run]
  OBVIOUS
<1>4. sent \in Seq(R)
  BY <1>3 DEF QueueType
<1>5. Len(sent) \in Nat /\ \A k \in 1 .. Len(sent) : sent[k] \in R
  BY <1>4
<1>6. \A r \in R : /\ r.message \in 1 .. Len(born) /\ r.run \in 1 .. run
                   /\ r = [message |-> r.message, run |-> r.run]
  BY <1>3
<1> QED
  BY <1>2, <1>5, <1>6

\* No message has been accepted.
LEMMA QueueInvInit == Init => QueueInv
<1> SUFFICES ASSUME Init PROVE QueueInv
  OBVIOUS
<1>1. /\ born = <<>> /\ sent = <<>> /\ run = 0 /\ item = 0
      /\ outbound = EmptyRing /\ outbound_head = 0 /\ outbound_tail = 0
      /\ outbound_count = 0 /\ worker = "none"
  BY DEF Init
<1>2. Len(born) = 0 /\ Len(sent) = 0 /\ Cap \in Nat /\ Cap > 0 /\ MaxMessages \in Nat
  BY <1>1, IrcAssumption
<1>3. (outbound_head + outbound_count) % Cap = 0
  BY <1>1, <1>2, SMT
<1>4. QueueType
  BY <1>1, <1>2, <1>3 DEF QueueType, EmptyRing
<1> QED
  BY <1>1, <1>2, <1>4 DEF QueueInv, SentByItsRun

\* A step that leaves the ring and the histories alone and does not create
\* the worker keeps QueueInv.
LEMMA QueueUnmoved ==
  ASSUME QueueInv, UNCHANGED <<ring, item, history>>,
         worker' = "sending" <=> worker = "sending",
         worker' # "none" => worker # "none"
  PROVE  QueueInv'
<1>1. UNCHANGED <<outbound, outbound_head, outbound_tail, outbound_count, item, run,
                  born, sent>>
  BY DEF ring, history
<1>2. QueueType' /\ InRing' = InRing /\ SentByItsRun'
  BY <1>1 DEF QueueInv, QueueType, InRing, Slot, SentByItsRun
<1> QED
  BY <1>1, <1>2 DEF QueueInv

\* A run begins while there is no worker; what the last one left in the ring
\* may stay, for now.
LEMMA StartKeepsQueue == ControlInv /\ QueueInv /\ Start => QueueInv'
<1> SUFFICES ASSUME ControlInv, QueueInv, Start PROVE QueueInv'
  OBVIOUS
<1>1. /\ UNCHANGED <<outbound, outbound_head, outbound_tail, outbound_count, item,
                     born, sent>>
      /\ run' = run + 1 /\ run \in Nat
      /\ worker = "none" /\ worker' = "none" /\ item = 0
  BY IrcAssumption DEF Start, ring, ControlInv, ControlType, QueueInv, Workerless
<1>2. QueueType'
  <2>1. PICK n : n = run + 1
    OBVIOUS
  <2>2. \A k \in 1 .. Len(born) : born[k] \in 1 .. n
    BY <1>1, <2>1, HistoryType DEF QueueInv
  <2>3. born \in Seq(1 .. n)
    <3>1. born \in Seq(1 .. run)
      BY DEF QueueInv, QueueType
    <3> QED
      BY <2>2, <3>1, SeqOver
  <2>4. \A k \in 1 .. Len(sent) : sent[k] \in [message : 1 .. Len(born), run : 1 .. n]
    <3> TAKE k \in 1 .. Len(sent)
    <3>1. /\ sent[k].message \in 1 .. Len(born) /\ sent[k].run \in 1 .. n
          /\ sent[k] = [message |-> sent[k].message, run |-> sent[k].run]
      BY <1>1, <2>1, HistoryType DEF QueueInv
    <3> QED
      BY <3>1, Zenon
  <2>5. sent \in Seq([message : 1 .. Len(born), run : 1 .. n])
    <3>1. sent \in Seq([message : 1 .. Len(born), run : 1 .. run])
      BY DEF QueueInv, QueueType
    <3> QED
      BY <2>4, <3>1, SeqOver
  <2> QED
    BY <1>1, <2>1, <2>3, <2>5 DEF QueueInv, QueueType
<1> QED
  BY <1>1, <1>2 DEF QueueInv, InRing, Slot, SentByItsRun

\* The ring is emptied, before the worker is created and after it is joined.
LEMMA ResetKeepsQueue ==
  ControlInv /\ QueueInv /\ (CreateWorker \/ ResetOutbound) => QueueInv'
<1> SUFFICES ASSUME ControlInv, QueueInv, CreateWorker \/ ResetOutbound PROVE QueueInv'
  OBVIOUS
<1>1. /\ Reset /\ UNCHANGED <<item, run, born, sent>>
      /\ worker = "none" /\ item = 0 /\ worker' # "sending"
  BY DEF CreateWorker, ResetOutbound, history, ControlInv, QueueInv, Workerless
<1>2. /\ outbound' = EmptyRing
      /\ outbound_head' = 0 /\ outbound_tail' = 0 /\ outbound_count' = 0
      /\ Len(born) \in Nat /\ Cap \in Nat /\ Cap > 0
  BY <1>1, IrcAssumption DEF Reset, QueueInv, QueueType
<1>3. (outbound_head' + outbound_count') % Cap = 0
  BY <1>2, SMT
<1>4. EmptyRing \in [0 .. Cap - 1 -> 0 .. Len(born)]
  BY <1>2 DEF EmptyRing
<1>5. QueueType'
  BY <1>1, <1>2, <1>3, <1>4 DEF QueueInv, QueueType
<1> QED
  BY <1>1, <1>2, <1>5 DEF QueueInv, SentByItsRun

\* Accepting a message, from a caller or as a reply: it is of this run.
LEMMA EnqueueKeepsQueue ==
  ASSUME ControlInv, QueueInv, Room, Enqueue, UNCHANGED <<item, run, sent>>, run > 0,
         worker' = "sending" <=> worker = "sending",
         worker' # "none" => worker # "none"
  PROVE  QueueInv'
<1> DEFINE n == Len(born)
<1>1. /\ n \in Nat /\ n < MaxMessages /\ MaxMessages \in Nat /\ run \in Nat
      /\ born' = Append(born, run) /\ born \in Seq(1 .. run)
  BY IrcAssumption DEF Room, Enqueue, ControlInv, ControlType, QueueInv, QueueType
<1>2. /\ born' \in Seq(1 .. run) /\ Len(born') = n + 1 /\ born'[n + 1] = run
      /\ \A k \in 1 .. n : born'[k] = born[k]
  BY <1>1
<1>3. sent \in Seq([message : 1 .. n + 1, run : 1 .. run])
  <2>1. \A k \in 1 .. Len(sent) : sent[k] \in [message : 1 .. n + 1, run : 1 .. run]
    <3> TAKE k \in 1 .. Len(sent)
    <3>1. /\ sent[k].message \in 1 .. n + 1 /\ sent[k].run \in 1 .. run
          /\ sent[k] = [message |-> sent[k].message, run |-> sent[k].run]
      BY <1>1, HistoryType DEF QueueInv
    <3> QED
      BY <3>1, Zenon
  <2>2. sent \in Seq([message : 1 .. n, run : 1 .. run])
    BY DEF QueueInv, QueueType
  <2> QED
    BY <2>1, <2>2, SeqOver
<1>4. /\ outbound_count' = outbound_count + 1 /\ outbound_count \in Nat
      /\ outbound_count < Cap /\ Cap \in Nat
      /\ \A i \in 1 .. outbound_count : InRing'[i] = InRing[i]
      /\ InRing'[outbound_count + 1] = n + 1
  BY EnqueueAppends, IrcAssumption DEF QueueInv, QueueType, Room
<1>5. QueueType'
  <2>1. /\ outbound_head' = outbound_head /\ outbound_head \in 0 .. Cap - 1
        /\ outbound_tail' = (outbound_tail + 1) % Cap /\ outbound_tail \in 0 .. Cap - 1
        /\ outbound_tail = (outbound_head + outbound_count) % Cap
        /\ outbound' = [outbound EXCEPT ![outbound_tail] = n + 1]
        /\ outbound \in [0 .. Cap - 1 -> 0 .. n]
    BY DEF Enqueue, QueueInv, QueueType
  <2>2. outbound' \in [0 .. Cap - 1 -> 0 .. n + 1]
    BY <1>1, <2>1
  <2>3. outbound_tail' = (outbound_head' + outbound_count') % Cap /\ outbound_tail' \in 0 .. Cap - 1
    BY <1>4, <2>1, NextTail
  <2>4. outbound_count' \in 0 .. Cap /\ Len(born') <= MaxMessages
    BY <1>1, <1>2, <1>4
  <2>5. item' \in 0 .. Len(born')
    BY <1>1, <1>2 DEF QueueInv, QueueType
  <2>6. /\ sent' \in Seq([message : 1 .. Len(born'), run : 1 .. run'])
        /\ born' \in Seq(1 .. run')
        /\ outbound' \in [0 .. Cap - 1 -> 0 .. Len(born')]
    BY <1>2, <1>3, <2>2
  <2> QED
    BY <2>1, <2>3, <2>4, <2>5, <2>6 DEF QueueType
<1>6. \A i \in 1 .. outbound_count' :
        /\ InRing'[i] \in 1 .. n + 1
        /\ worker # "none" => born'[InRing'[i]] = run
  <2> TAKE i \in 1 .. outbound_count'
  <2>1. CASE i = outbound_count + 1
    BY <1>1, <1>2, <1>4, <2>1
  <2>2. CASE i # outbound_count + 1
    <3>1. i \in 1 .. outbound_count
      BY <1>4, <2>2
    <3> QED
      BY <1>1, <1>2, <1>4, <3>1 DEF QueueInv
  <2> QED
    BY <2>1, <2>2
<1>7. item # 0 => item \in 1 .. n
  BY <1>1 DEF QueueInv, QueueType
<1>8. SentByItsRun'
  BY <1>1, <1>2, HistoryType DEF QueueInv, SentByItsRun
<1> QED
  BY <1>2, <1>5, <1>6, <1>7, <1>8 DEF QueueInv

\* flush_outbound takes a message of this run.
LEMMA PopKeepsQueue == ControlInv /\ QueueInv /\ Pop => QueueInv'
<1> SUFFICES ASSUME ControlInv, QueueInv, Pop PROVE QueueInv'
  OBVIOUS
<1>1. /\ UNCHANGED <<run, born, sent>>
      /\ worker = "flushing" /\ worker' = "sending"
  BY DEF Pop, Moves, history
<1>2. /\ outbound_count' + 1 = outbound_count /\ outbound_count' \in Nat
      /\ item' = InRing[1]
      /\ \A i \in 1 .. outbound_count' : InRing'[i] = InRing[i + 1]
  BY PopTakesOldest DEF QueueInv
<1>3. 1 \in 1 .. outbound_count /\ \A i \in 1 .. outbound_count' : i + 1 \in 1 .. outbound_count
  BY <1>2
<1>4. item' \in 1 .. Len(born) /\ born[item'] = run
  BY <1>1, <1>2, <1>3 DEF QueueInv
<1>5. QueueType'
  <2>1. /\ outbound_head' = (outbound_head + 1) % Cap /\ outbound_head \in 0 .. Cap - 1
        /\ outbound_tail' = outbound_tail /\ outbound_tail \in 0 .. Cap - 1
        /\ outbound_tail = (outbound_head + outbound_count) % Cap
        /\ outbound' = [outbound EXCEPT ![outbound_head] = 0]
        /\ outbound \in [0 .. Cap - 1 -> 0 .. Len(born)]
        /\ outbound_count \in 1 .. Cap /\ outbound_count' = outbound_count - 1
        /\ Len(born) \in Nat
    BY <1>2 DEF Pop, QueueInv, QueueType
  <2>2. outbound' \in [0 .. Cap - 1 -> 0 .. Len(born)]
    BY <2>1
  <2>3. outbound_tail' = (outbound_head' + outbound_count') % Cap /\ outbound_head' \in 0 .. Cap - 1
    BY <2>1, NextHead
  <2>4. outbound_count' \in 0 .. Cap
    BY IrcAssumption, <2>1
  <2> QED
    BY <1>1, <1>4, <2>1, <2>2, <2>3, <2>4 DEF QueueInv, QueueType
<1>6. \A i \in 1 .. outbound_count' :
        InRing'[i] \in 1 .. Len(born) /\ born[InRing'[i]] = run
  BY <1>1, <1>2, <1>3 DEF QueueInv
<1>7. item' # 0
  BY <1>4
<1> QED
  BY <1>1, <1>4, <1>5, <1>6, <1>7 DEF QueueInv, SentByItsRun

\* A message leaves, under the run it was accepted in.
LEMMA SendKeepsQueue == ControlInv /\ QueueInv /\ (Send \/ SendFails) => QueueInv'
<1> SUFFICES ASSUME ControlInv, QueueInv, Send \/ SendFails PROVE QueueInv'
  OBVIOUS
<1>1. /\ UNCHANGED <<outbound, outbound_head, outbound_tail, outbound_count, run, born>>
      /\ worker = "sending" /\ worker' # "sending" /\ item' = 0 /\ item # 0
      /\ run \in Nat /\ run > 0 /\ Len(born) \in Nat
  BY IrcAssumption DEF Send, SendFails, Moves, ring, history, ControlInv, ControlType,
     Workerless, QueueInv, QueueType
<1>2. item \in 1 .. Len(born) /\ born[item] = run
  BY <1>1 DEF QueueInv, QueueType
<1>3. /\ sent' \in Seq([message : 1 .. Len(born), run : 1 .. run])
      /\ SentByItsRun'
  <2>1. CASE SendFails
    BY <1>1, <2>1 DEF SendFails, Moves, history, QueueInv, QueueType, SentByItsRun
  <2>2. CASE Send
    <3>1. PICK last : last = [message |-> item, run |-> run]
      OBVIOUS
    <3>2. /\ last \in [message : 1 .. Len(born), run : 1 .. run]
          /\ last.message = item /\ last.run = run
      BY <1>1, <1>2, <3>1
    <3>3. /\ sent' = Append(sent, last)
          /\ sent \in Seq([message : 1 .. Len(born), run : 1 .. run])
      BY <2>2, <3>1 DEF Send, QueueInv, QueueType
    <3>4. /\ sent' \in Seq([message : 1 .. Len(born), run : 1 .. run])
          /\ Len(sent') = Len(sent) + 1 /\ Len(sent) \in Nat
          /\ sent'[Len(sent) + 1] = last
          /\ \A k \in 1 .. Len(sent) : sent'[k] = sent[k]
      BY <3>2, <3>3
    <3>5. \A k \in 1 .. Len(sent') : sent'[k].run = born[sent'[k].message]
      BY <1>2, <3>2, <3>4 DEF QueueInv, SentByItsRun
    <3> QED
      BY <1>1, <3>4, <3>5 DEF SentByItsRun
  <2> QED
    BY <2>1, <2>2
<1>4. QueueType'
  BY <1>1, <1>3 DEF QueueInv, QueueType
<1>5. \A i \in 1 .. outbound_count : InRing'[i] = InRing[i]
  BY <1>1 DEF InRing, Slot
<1> QED
  BY <1>1, <1>3, <1>4, <1>5 DEF QueueInv

\* QueueInv is inductive under ControlInv.
LEMMA QueueInvStep == ControlInv /\ QueueInv /\ [Next]_vars => QueueInv'
<1> SUFFICES ASSUME ControlInv, QueueInv, [Next]_vars PROVE QueueInv'
  OBVIOUS
<1>1. ASSUME UNCHANGED <<ring, item, history>>,
             worker' = "sending" <=> worker = "sending",
             worker' # "none" => worker # "none"
      PROVE  QueueInv'
  BY <1>1, QueueUnmoved
<1>2. ASSUME UNCHANGED <<ring, born, item, run, sent>>,
             worker' = "sending" <=> worker = "sending",
             worker' # "none" => worker # "none"
      PROVE  QueueInv'
  BY <1>1, <1>2 DEF history
<1>3. CASE Start
  BY <1>3, StartKeepsQueue
<1>4. CASE CreateWorker \/ ResetOutbound
  BY <1>4, ResetKeepsQueue
<1>5. CASE StartFails \/ StartSucceeds \/ RequestStop \/ LoadSocket \/ Shutdown \/ Withdraw
           \/ Withdrawn
  BY <1>1, <1>5 DEF StartFails, StartSucceeds, RequestStop, LoadSocket, Shutdown, Withdraw,
                    Withdrawn
<1>6. CASE Join
  BY <1>1, <1>6 DEF Join
<1>7. CASE \E c \in Callers : Invoke(c) \/ CheckOnline(c)
  BY <1>1, <1>7 DEF Invoke, CheckOnline
<1>8. ASSUME NEW c \in Callers, Queue(c) PROVE QueueInv'
  <2>1. run > 0
    BY <1>8 DEF Queue, ControlInv, ControlType
  <2>2. UNCHANGED <<worker, item, run, sent>>
    BY <1>8 DEF Queue
  <2>3. (Room /\ Enqueue) \/ UNCHANGED <<ring, born>>
    BY <1>8 DEF Queue
  <2> QED
    BY <1>2, <2>1, <2>2, <2>3, EnqueueKeepsQueue
<1>9. CASE Check \/ Connect \/ Publish \/ Handshake \/ Loop \/ Flushed \/ Poll \/ BufferEmpty
           \/ Lose \/ End \/ Retract \/ Close
  BY <1>1, <1>9 DEF Check, Connect, Publish, Handshake, Loop, Flushed, Poll, BufferEmpty, Lose,
                    End, Retract, Close, Moves
<1>10. CASE HandleLine
  BY <1>1, <1>10 DEF HandleLine, CapLs, CapAck, Authenticate, Authenticated, Welcome,
                     OtherLine, Line, Joined, Kicked, Route, Moves
<1>11. CASE Reply
  <2>1. run > 0
    BY <1>11 DEF Reply, ControlInv, Workerless
  <2>2. /\ UNCHANGED <<item, run, sent>>
        /\ worker # "none" /\ worker # "sending" /\ worker' # "sending"
    BY <1>11 DEF Reply
  <2>3. (Room /\ Enqueue) \/ UNCHANGED <<ring, born>>
    BY <1>11 DEF Reply
  <2> QED
    BY <1>2, <2>1, <2>2, <2>3, EnqueueKeepsQueue
<1>12. CASE Pop
  BY <1>12, PopKeepsQueue
<1>13. CASE Send \/ SendFails
  BY <1>13, SendKeepsQueue
<1>14. CASE UNCHANGED vars
  BY <1>1, <1>14 DEF vars
<1> QED
  BY <1>3, <1>4, <1>5, <1>6, <1>7, <1>8, <1>9, <1>10, <1>11, <1>12, <1>13, <1>14
     DEF Next, CoreReturns, CallerReturns, WorkerRuns

-----------------------------------------------------------------------------
(* The theorems *)

\* Both invariants hold in every state: of the two threads' places, the
\* socket, the flags and the negotiation, and of the ring's messages.
THEOREM IrcInvAlways == Spec => []IrcInv
<1>1. Init => IrcInv
  BY ControlInvInit, QueueInvInit DEF IrcInv
<1>2. IrcInv /\ [Next]_vars => IrcInv'
  BY ControlInvStep, QueueInvStep DEF IrcInv
<1> QED
  BY <1>1, <1>2, PTL DEF Spec

\* The state stays well-formed: the ring's indices and count agree with one
\* another, and every message it holds has been accepted.
THEOREM IrcTypeCorrect == Spec => []TypeOK
<1>1. IrcInv => TypeOK
  BY TypesTogether DEF IrcInv, ControlInv, QueueInv
<1> QED
  BY <1>1, IrcInvAlways, PTL

\* A message is only sent by the run of the module that accepted it, however
\* late a caller of the service comes and whatever irc_stop has left.
THEOREM AlwaysSentByItsRun == Spec => []SentByItsRun
<1>1. IrcInv => SentByItsRun
  BY DEF IrcInv, QueueInv
<1> QED
  BY <1>1, IrcInvAlways, PTL

\* The module never says that it is online without a live session in the
\* channel, and never joins before authentication and registration.
THEOREM OnlineAlwaysMeansJoined == Spec => []OnlineIsJoined
<1>1. IrcInv => OnlineIsJoined
  BY ControlProperties DEF IrcInv
<1> QED
  BY <1>1, IrcInvAlways, PTL

\* When irc_start has failed or irc_stop has returned, no thread is inside
\* the module.
THEOREM OffIsAlwaysQuiet == Spec => []OffIsQuiet
<1>1. IrcInv => OffIsQuiet
  BY ControlProperties DEF IrcInv
<1> QED
  BY <1>1, IrcInvAlways, PTL

-----------------------------------------------------------------------------
(* The ring and the item in hand implement OutboundQueue *)

Delivered == [k \in 1 .. Len(sent) |-> sent[k].message]
Offset == IF item = 0 THEN 0 ELSE 1

\* Two sequences are equal when they agree place by place.
LEMMA SameSequence ==
  ASSUME NEW s \in Seq(Nat), NEW t \in Seq(Nat), Len(s) = Len(t),
         \A k \in 1 .. Len(s) : s[k] = t[k]
  PROVE  s = t
OBVIOUS

PendingIsRing ==
  /\ Pending \in Seq(Nat) /\ Len(Pending) = outbound_count + Offset
  /\ \A k \in 1 .. Len(Pending) :
       Pending[k] = IF item # 0 /\ k = 1 THEN item ELSE InRing[k - Offset]

\* What is pending: the item in hand, if any, and then the ring.
LEMMA PendingValue == QueueType => PendingIsRing
<1> SUFFICES ASSUME QueueType PROVE PendingIsRing
  OBVIOUS
<1>1. /\ InRing \in Seq(Nat) /\ Len(InRing) = outbound_count
      /\ outbound_count \in Nat /\ item \in Nat
  <2>1. Len(born) \in Nat
    BY DEF QueueType
  <2>2. \A k \in 1 .. Len(InRing) : InRing[k] \in Nat
    BY <2>1, RingType
  <2>3. InRing \in Seq(0 .. Len(born))
    BY RingType
  <2>4. InRing \in Seq(Nat)
    BY <2>2, <2>3, SeqOver
  <2> QED
    BY IrcAssumption, <2>1, <2>4, RingType DEF QueueType
<1>2. Pending = IF item = 0 THEN InRing ELSE <<item>> \o InRing
  BY DEF Pending, InRing, Slot
<1>3. CASE item = 0
  BY <1>1, <1>2, <1>3 DEF PendingIsRing, Offset
<1>4. CASE item # 0
  <2>1. /\ <<item>> \in Seq(Nat) /\ Len(<<item>>) = 1 /\ <<item>>[1] = item
    BY <1>1
  <2> QED
    BY <1>1, <1>2, <1>4, <2>1 DEF PendingIsRing, Offset
<1> QED
  BY <1>3, <1>4

\* What has been delivered, as a sequence of messages.
LEMMA DeliveredType ==
  ASSUME QueueType, run \in Nat
  PROVE  /\ Delivered \in Seq(Nat) /\ Len(Delivered) = Len(sent)
         /\ \A k \in 1 .. Len(sent) : Delivered[k] = sent[k].message
<1>1. /\ Len(born) \in Nat /\ Len(sent) \in Nat
      /\ \A k \in 1 .. Len(sent) : sent[k].message \in 1 .. Len(born)
  BY HistoryType
<1> QED
  BY <1>1 DEF Delivered

\* Queueing a message is an Accept.
LEMMA EnqueueAccepts ==
  ASSUME QueueInv, QueueInv', Room, Enqueue, UNCHANGED <<item, sent>>
  PROVE  Outbound!Accept
<1>1. QueueType /\ QueueType'
  BY DEF QueueInv
<1>2. /\ Len(born) \in Nat /\ Len(born') = Len(born) + 1
      /\ outbound_count \in Nat
  BY IrcAssumption DEF Enqueue, QueueInv, QueueType
<1>3. /\ outbound_count' = outbound_count + 1
      /\ \A i \in 1 .. outbound_count : InRing'[i] = InRing[i]
      /\ InRing'[outbound_count + 1] = Len(born) + 1
  BY <1>1, EnqueueAppends
<1>4. item' = item /\ Offset' = Offset /\ Offset \in {0, 1}
      /\ (item # 0 <=> Offset = 1)
  BY DEF Offset
<1>5. PICK p : p = Pending
  OBVIOUS
<1>6. PICK q : q = Pending'
  OBVIOUS
<1>7. /\ p \in Seq(Nat) /\ Len(p) = outbound_count + Offset
      /\ \A k \in 1 .. Len(p) :
           p[k] = IF item # 0 /\ k = 1 THEN item ELSE InRing[k - Offset]
  BY <1>1, <1>5, PendingValue DEF PendingIsRing
<1>8. /\ q \in Seq(Nat) /\ Len(q) = outbound_count + 1 + Offset
      /\ \A k \in 1 .. Len(q) :
           q[k] = IF item # 0 /\ k = 1 THEN item ELSE InRing'[k - Offset]
  <2>1. /\ Pending' \in Seq(Nat) /\ Len(Pending') = outbound_count' + Offset'
        /\ \A k \in 1 .. Len(Pending') :
             Pending'[k] = IF item' # 0 /\ k = 1 THEN item' ELSE InRing'[k - Offset']
    <3>1. PendingIsRing'
      BY <1>1, PendingValue, PTL
    <3> QED
      BY <3>1 DEF PendingIsRing
  <2> QED
    BY <1>3, <1>4, <1>6, <2>1
<1>9. ASSUME NEW k \in 1 .. Len(p)
      PROVE  q[k] = p[k]
  <2>1. k \in 1 .. Len(q)
    BY <1>2, <1>4, <1>7, <1>8
  <2>2. ~(item # 0 /\ k = 1) => k - Offset \in 1 .. outbound_count
    BY <1>2, <1>4, <1>7
  <2> QED
    BY <1>3, <1>7, <1>8, <2>1, <2>2
<1>10. q[Len(p) + 1] = Len(born) + 1
  BY <1>2, <1>3, <1>4, <1>7, <1>8
<1>11. q = Append(p, Len(born) + 1)
  <2>1. PICK a : a = Append(p, Len(born) + 1)
    OBVIOUS
  <2>2. /\ a \in Seq(Nat) /\ Len(a) = Len(p) + 1 /\ a[Len(p) + 1] = Len(born) + 1
        /\ \A k \in 1 .. Len(p) : a[k] = p[k]
    BY <1>2, <1>7, <2>1
  <2>3. Len(q) = Len(p) + 1
    BY <1>2, <1>4, <1>7, <1>8
  <2>4. \A k \in 1 .. Len(q) : q[k] = a[k]
    BY <1>2, <1>7, <1>9, <1>10, <2>2, <2>3
  <2> QED
    BY <1>8, <2>1, <2>2, <2>3, <2>4, SameSequence
<1> QED
  BY <1>2, <1>5, <1>6, <1>11 DEF Outbound!Accept

\* Taking a message out of the ring into the hand is not a step of the queue.
LEMMA PopStutters ==
  ASSUME QueueInv, QueueInv', Pop, item = 0
  PROVE  UNCHANGED Outbound!vars
<1>1. QueueType /\ QueueType'
  BY DEF QueueInv
<1>2. /\ outbound_count' + 1 = outbound_count /\ outbound_count' \in Nat
      /\ item' = InRing[1]
      /\ \A i \in 1 .. outbound_count' : InRing'[i] = InRing[i + 1]
  BY <1>1, PopTakesOldest
<1>3. item' # 0
  BY DEF QueueInv, Pop, Moves
<1>4. Offset = 0 /\ Offset' = 1
  BY <1>3 DEF Offset
<1>5. PICK p : p = Pending
  OBVIOUS
<1>6. PICK q : q = Pending'
  OBVIOUS
<1>7. /\ p \in Seq(Nat) /\ Len(p) = outbound_count
      /\ \A k \in 1 .. Len(p) : p[k] = InRing[k - 0]
  <2>1. PendingIsRing /\ outbound_count + 0 = outbound_count
    BY <1>1, <1>2, PendingValue
  <2> QED
    BY <1>4, <1>5, <2>1 DEF PendingIsRing
<1>8. /\ q \in Seq(Nat) /\ Len(q) = outbound_count
      /\ \A k \in 1 .. Len(q) : q[k] = IF k = 1 THEN InRing[1] ELSE InRing'[k - 1]
  <2>1. PendingIsRing'
    BY <1>1, PendingValue, PTL
  <2> QED
    BY <1>2, <1>3, <1>4, <1>6, <2>1 DEF PendingIsRing
<1>9. ASSUME NEW k \in 1 .. Len(p)
      PROVE  q[k] = p[k]
  <2>1. k \in 1 .. Len(q) /\ k - 0 = k
    BY <1>2, <1>7, <1>8
  <2>2. CASE k = 1
    BY <1>7, <1>8, <2>1, <2>2
  <2>3. CASE k # 1
    <3>1. k - 1 \in 1 .. outbound_count' /\ (k - 1) + 1 = k
      BY <1>2, <1>7, <2>3
    <3>2. InRing'[k - 1] = InRing[k]
      BY <1>2, <3>1
    <3> QED
      BY <1>7, <1>8, <2>1, <2>3, <3>2
  <2> QED
    BY <2>2, <2>3
<1>10. p = q
  BY <1>7, <1>8, <1>9, SameSequence
<1> QED
  BY <1>5, <1>6, <1>10 DEF Outbound!vars, Pop, Moves, history

\* A message that is sent is the oldest one; one that cannot be sent is gone.
LEMMA SendDelivers ==
  ASSUME ControlInv, QueueInv, QueueInv', Send \/ SendFails
  PROVE  Outbound!Deliver \/ Outbound!Drop
<1>1. QueueType /\ QueueType' /\ run \in Nat
  BY IrcAssumption DEF QueueInv, ControlInv, ControlType
<1>2. /\ UNCHANGED <<outbound, outbound_head, outbound_count, born>>
      /\ item # 0 /\ item' = 0
      /\ outbound_count \in Nat
  BY IrcAssumption DEF Send, SendFails, Moves, ring, history, QueueInv, QueueType
<1>3. Offset = 1 /\ Offset' = 0 /\ InRing' = InRing
  BY <1>2 DEF Offset, InRing, Slot
<1>4. PICK p : p = Pending
  OBVIOUS
<1>5. PICK q : q = Pending'
  OBVIOUS
<1>6. /\ p \in Seq(Nat) /\ Len(p) = outbound_count + 1
      /\ \A k \in 1 .. Len(p) : p[k] = IF k = 1 THEN item ELSE InRing[k - 1]
  BY <1>1, <1>2, <1>3, <1>4, PendingValue DEF PendingIsRing
<1>7. /\ q \in Seq(Nat) /\ Len(q) = outbound_count
      /\ \A k \in 1 .. Len(q) : q[k] = InRing[k]
  <2>1. PendingIsRing'
    BY <1>1, PendingValue, PTL
  <2>2. \A k \in 1 .. Len(q) : q[k] = InRing[k - 0]
    BY <1>2, <1>3, <1>5, <2>1 DEF PendingIsRing
  <2> QED
    BY <1>2, <1>3, <1>5, <2>1, <2>2 DEF PendingIsRing
<1>8. p # <<>> /\ Head(p) = item
  BY <1>2, <1>6
<1>9. q = Tail(p)
  <2>1. PICK t : t = Tail(p)
    OBVIOUS
  <2>2. /\ t \in Seq(Nat) /\ Len(t) = outbound_count
        /\ \A k \in 1 .. Len(t) : t[k] = p[k + 1]
    BY <1>2, <1>6, <1>8, <2>1
  <2>3. ASSUME NEW k \in 1 .. Len(q)
        PROVE  q[k] = t[k]
    <3>1. k + 1 \in 1 .. Len(p) /\ k + 1 # 1 /\ (k + 1) - 1 = k
      BY <1>2, <1>6, <1>7
    <3> QED
      BY <1>6, <1>7, <2>2, <3>1
  <2> QED
    BY <1>7, <2>1, <2>2, <2>3, SameSequence
<1>10. Send => Delivered' = Append(Delivered, item)
  <2> SUFFICES ASSUME Send PROVE Delivered' = Append(Delivered, item)
    OBVIOUS
  <2>1. PICK last : last = [message |-> item, run |-> run]
    OBVIOUS
  <2>2. sent' = Append(sent, last) /\ last.message = item /\ item \in Nat
    BY <1>1, <2>1 DEF Send, QueueType
  <2>3. sent \in Seq([message : 1 .. Len(born), run : 1 .. run])
    BY <1>1 DEF QueueType
  <2>4. /\ Len(sent') = Len(sent) + 1 /\ Len(sent) \in Nat
        /\ sent'[Len(sent) + 1] = last
        /\ \A k \in 1 .. Len(sent) : sent'[k] = sent[k]
    BY <2>2, <2>3
  <2>5. /\ Delivered \in Seq(Nat) /\ Len(Delivered) = Len(sent)
        /\ \A k \in 1 .. Len(sent) : Delivered[k] = sent[k].message
    BY <1>1, DeliveredType
  <2>6. Delivered' = [k \in 1 .. Len(sent) + 1 |-> sent'[k].message]
    BY <2>4 DEF Delivered
  <2>7. PICK a : a = Append(Delivered, item)
    OBVIOUS
  <2>8. /\ a \in Seq(Nat) /\ Len(a) = Len(sent) + 1 /\ a[Len(sent) + 1] = item
        /\ \A k \in 1 .. Len(sent) : a[k] = sent[k].message
    BY <2>2, <2>4, <2>5, <2>7
  <2>9. \A k \in 1 .. Len(sent) + 1 : a[k] = sent'[k].message
    BY <2>2, <2>4, <2>8
  <2>10. /\ Delivered' \in Seq(Nat) /\ Len(Delivered') = Len(sent) + 1
         /\ \A k \in 1 .. Len(sent) + 1 : Delivered'[k] = a[k]
    <3>1. \A k \in 1 .. Len(sent) + 1 : a[k] \in Nat
      BY <2>4, <2>8
    <3> QED
      BY <2>4, <2>6, <2>9, <3>1
  <2> QED
    BY <2>7, <2>8, <2>10, SameSequence
<1>11. SendFails => UNCHANGED sent
  BY DEF SendFails, Moves, history
<1> QED
  BY <1>2, <1>4, <1>5, <1>8, <1>9, <1>10, <1>11
     DEF Outbound!Deliver, Outbound!Drop, Delivered

\* Emptying the ring, with no item in hand, is a Clear.
LEMMA ResetClears ==
  ASSUME QueueInv', Reset, item = 0, UNCHANGED <<item, born, sent>>
  PROVE  Outbound!Clear
<1>1. PendingIsRing'
  <2>1. QueueType'
    BY DEF QueueInv
  <2> QED
    BY <2>1, PendingValue, PTL
<1>2. PICK q : q = Pending'
  OBVIOUS
<1>3. q \in Seq(Nat) /\ Len(q) = 0
  BY <1>1, <1>2 DEF PendingIsRing, Offset, Reset
<1>4. q = <<>>
  BY <1>3
<1> QED
  BY <1>2, <1>4 DEF Outbound!Clear

\* Every step of the transport is a step of the queue or leaves it alone.
LEMMA StepImplementsQueue ==
  IrcInv /\ IrcInv' /\ [Next]_vars => [Outbound!Next]_(Outbound!vars)
<1> SUFFICES ASSUME IrcInv, IrcInv', [Next]_vars
             PROVE  [Outbound!Next]_(Outbound!vars)
  OBVIOUS
<1>1. ControlInv /\ QueueInv /\ QueueInv'
  BY DEF IrcInv
<1>2. ASSUME UNCHANGED <<ring, item, born, sent>>
      PROVE  UNCHANGED Outbound!vars
  <2>1. Pending' = Pending
    BY <1>2 DEF ring, Pending
  <2> QED
    BY <1>2, <2>1 DEF Outbound!vars
<1>3. CASE Start \/ StartFails \/ StartSucceeds \/ RequestStop \/ LoadSocket \/ Shutdown
           \/ Join \/ Withdraw \/ Withdrawn
  BY <1>2, <1>3 DEF Start, StartFails, StartSucceeds, RequestStop, LoadSocket, Shutdown,
                    Join, Withdraw, Withdrawn, history
<1>4. CASE CreateWorker \/ ResetOutbound
  <2>1. item = 0 /\ Reset /\ UNCHANGED <<item, born, sent>>
    BY <1>1, <1>4 DEF CreateWorker, ResetOutbound, history, ControlInv, QueueInv, Workerless
  <2> QED
    BY <1>1, <2>1, ResetClears DEF Outbound!Next
<1>5. CASE \E c \in Callers : Invoke(c) \/ CheckOnline(c)
  BY <1>2, <1>5 DEF Invoke, CheckOnline, history
<1>6. CASE Reply \/ \E c \in Callers : Queue(c)
  <2>1. UNCHANGED <<item, sent>>
    BY <1>6 DEF Reply, Queue
  <2>2. CASE Room /\ Enqueue
    BY <1>1, <2>1, <2>2, EnqueueAccepts DEF Outbound!Next
  <2>3. CASE UNCHANGED <<ring, born>>
    BY <1>2, <2>1, <2>3
  <2> QED
    BY <1>6, <2>2, <2>3 DEF Reply, Queue
<1>7. CASE Check \/ Connect \/ Publish \/ Handshake \/ Loop \/ Flushed \/ Poll \/ BufferEmpty
           \/ Lose \/ End \/ Retract \/ Close
  BY <1>2, <1>7 DEF Check, Connect, Publish, Handshake, Loop, Flushed, Poll, BufferEmpty,
                    Lose, End, Retract, Close, Moves, history
<1>8. CASE HandleLine
  BY <1>2, <1>8 DEF HandleLine, CapLs, CapAck, Authenticate, Authenticated, Welcome,
                    OtherLine, Line, Joined, Kicked, Route, Moves, history
<1>9. CASE Pop
  <2>1. item = 0
    BY <1>1, <1>9 DEF QueueInv, Pop
  <2> QED
    BY <1>1, <1>9, <2>1, PopStutters
<1>10. CASE Send \/ SendFails
  BY <1>1, <1>10, SendDelivers DEF Outbound!Next
<1>11. CASE UNCHANGED vars
  BY <1>2, <1>11 DEF vars, history
<1> QED
  BY <1>3, <1>4, <1>5, <1>6, <1>7, <1>8, <1>9, <1>10, <1>11
     DEF Next, CoreReturns, CallerReturns, WorkerRuns

\* Whatever threads queue and flush, lose sessions, stop and restart the
\* module: messages leave in the order they were accepted, each at most once,
\* and none is made up.
THEOREM TransportImplementsQueue == Spec => ImplementsQueue
<1>1. Init => Outbound!Init
  <2> SUFFICES ASSUME Init PROVE Outbound!Init
    OBVIOUS
  <2>1. /\ born = <<>> /\ sent = <<>> /\ item = 0
    BY DEF Init
  <2>2. Len(born) = 0 /\ Len(sent) = 0
    BY <2>1
  <2>3. QueueType
    BY QueueInvInit DEF QueueInv
  <2>4. PendingIsRing
    BY <2>3, PendingValue
  <2>5. Len(Pending) = 0 /\ Pending \in Seq(Nat)
    BY <2>1, <2>4 DEF PendingIsRing, Offset, Init
  <2>6. Pending = <<>>
    BY <2>5
  <2>7. [k \in 1 .. Len(sent) |-> sent[k].message] = <<>>
    BY <2>2
  <2> QED
    BY <2>2, <2>6, <2>7 DEF Outbound!Init
<1>2. IrcInv /\ IrcInv' /\ [Next]_vars => [Outbound!Next]_(Outbound!vars)
  BY StepImplementsQueue
<1> QED
  BY <1>1, <1>2, IrcInvAlways, PTL DEF Spec, ImplementsQueue, Outbound!Spec
=============================================================================
