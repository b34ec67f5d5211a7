---------------------------- MODULE Intelligence ----------------------------
(***************************************************************************)
(* The threat-feed watcher (modules/intelligence): a worker polls a feed,  *)
(* appends the relevant records it has not seen to the evidence log and    *)
(* then moves a cursor that survives restarts.                             *)
(*                                                                         *)
(* Records are numbered in the order the feed's owner publishes them; the  *)
(* feed shows the latest Window of them.  Position 0 is the empty cursor.  *)
(* Each line of the log and the replacement of the cursor file (written    *)
(* aside and renamed) is a step, and the process can die between any two.  *)
(***************************************************************************)
EXTENDS Naturals, Sequences, FiniteSets

CONSTANTS Window,       \* records a response holds: the API's limit or ours
          Classes,      \* what the feed may publish
          Faults,       \* what may fail
          MaxRecords,   \* bound on the records published
          MaxFaults,    \* bound on the failures
          MaxRefusals   \* bound on the responses logged without a usable cursor

ASSUME IntelligenceAssumption ==
  /\ Window \in Nat \ {0}
  /\ MaxRecords \in Nat
  /\ MaxFaults \in Nat
  /\ MaxRefusals \in Nat
  /\ Faults \subseteq {"crash", "log", "save", "read"}
  /\ Classes \subseteq {"low", "relevant", "malformed", "unprintable", "nameless"}

VARIABLES newest,       \* records published so far
          relevant,     \* those the feed classifies MEDIUM or HIGH
          malformed,    \* those parse_record refuses
          unprintable,  \* relevant ones with a field that bounded_text refuses
          nameless,     \* those of them whose id is such a field
          evidence,     \* the CANDIDATE lines of the log
          saved,        \* the cursor file
          cursor,       \* the worker's cursor
          at,           \* where the worker is
          top,          \* records[0] of the response being processed
          next,         \* the record to consider next
          stop,         \* stop_requested
          skipped,      \* records passed over by BASELINE or CURSOR_GAP
          refusals,     \* responses logged that save_cursor refused for its id
          faults        \* failures so far

feed == <<newest, relevant, malformed, unprintable, nameless>>
vars == <<newest, relevant, malformed, unprintable, nameless, evidence, saved, cursor, at,
          top, next, stop, skipped, refusals, faults>>

Places == {"stopped", "waiting", "logging", "saving", "resetting"}

Fail(what) == what \in Faults /\ faults < MaxFaults /\ faults' = faults + 1
Works == UNCHANGED faults

\* The records that are to be recorded, and can be.  The parser accepts an
\* empty field, or one with a DEL; the worker leaves a record with such an id,
\* type or severity out.
Due == relevant \ unprintable

\* The response to a fetch: the latest Window records.
Oldest == IF newest > Window THEN newest - Window + 1 ELSE 1
\* One record that cannot be parsed fails the whole response.
Readable == \A i \in malformed : i < Oldest

-----------------------------------------------------------------------------
\* A record without a usable id counts as relevant here; the worker treats one
\* of low relevance alike.
Publish(class) ==
  LET With(S, those) == IF class \in those THEN S \cup {newest + 1} ELSE S
  IN  /\ newest < MaxRecords
      /\ newest' = newest + 1
      /\ relevant' = With(relevant, {"relevant", "unprintable", "nameless"})
      /\ malformed' = With(malformed, {"malformed"})
      /\ unprintable' = With(unprintable, {"unprintable", "nameless"})
      /\ nameless' = With(nameless, {"nameless"})
      /\ UNCHANGED <<evidence, saved, cursor, at, top, next, stop, skipped, refusals, faults>>

\* start, and the worker's read_cursor: a file that cannot be read counts as
\* no cursor.
Start ==
  /\ at = "stopped"
  /\ at' = "waiting"
  /\ stop' = FALSE
  /\ \/ cursor' = saved /\ Works
     \/ cursor' = 0 /\ Fail("read")
  /\ UNCHANGED <<feed, evidence, saved, top, next, skipped, refusals>>

RequestStop ==
  /\ at # "stopped" /\ ~stop
  /\ stop' = TRUE
  /\ UNCHANGED <<feed, evidence, saved, cursor, at, top, next, skipped, refusals, faults>>

\* The worker sees stop_requested between two polls only.
Stopped ==
  /\ at = "waiting" /\ stop
  /\ at' = "stopped"
  /\ UNCHANGED <<feed, evidence, saved, cursor, top, next, stop, skipped, refusals, faults>>

\* Mutant: the last record of the response is not compared with the cursor.
FetchShort ==
  /\ at = "waiting" /\ ~stop
  /\ newest > 0 /\ Readable /\ cursor # newest
  /\ newest \in nameless => refusals < MaxRefusals
  /\ top' = newest
  /\ IF cursor # 0 /\ Oldest < cursor
     THEN at' = "logging" /\ next' = cursor + 1
     ELSE at' = "resetting" /\ UNCHANGED next
  /\ UNCHANGED <<feed, evidence, saved, cursor, stop, skipped, refusals, faults>>

\* fetch_feed and the head of process_feed.  A response that does not arrive,
\* does not parse or shows nothing new is a stutter.
Fetch ==
  /\ at = "waiting" /\ ~stop
  /\ newest > 0 /\ Readable /\ cursor # newest
  /\ newest \in nameless => refusals < MaxRefusals
  /\ top' = newest
  /\ IF cursor # 0 /\ Oldest <= cursor
     THEN at' = "logging" /\ next' = cursor + 1
     ELSE at' = "resetting" /\ UNCHANGED next
  /\ UNCHANGED <<feed, evidence, saved, cursor, stop, skipped, refusals, faults>>

\* One round of the loop from the cursor up to the newest record.
Log ==
  /\ at = "logging"
  /\ next <= top
  /\ evidence' = IF next \in Due THEN Append(evidence, next) ELSE evidence
  /\ next' = next + 1
  /\ UNCHANGED <<feed, saved, cursor, at, top, stop, skipped, refusals, faults>>

\* Mutant: a failed line does not end the loop.
LogFailsContinues ==
  /\ at = "logging"
  /\ next <= top /\ next \in Due
  /\ Fail("log")
  /\ next' = next + 1
  /\ UNCHANGED <<feed, evidence, saved, cursor, at, top, stop, skipped, refusals>>

\* Mutant: a failed line moves the cursor past the records before it.
LogFailsGivesUp ==
  /\ at = "logging"
  /\ next <= top /\ next \in Due
  /\ Fail("log")
  /\ cursor' = top
  /\ at' = "waiting"
  /\ UNCHANGED <<feed, evidence, saved, top, next, stop, skipped, refusals>>

\* log_line failed, before the write or, at fsync, after it: the response is
\* abandoned with the cursor where it was.
LogFails ==
  /\ at = "logging"
  /\ next <= top /\ next \in Due
  /\ Fail("log")
  /\ evidence' \in {evidence, Append(evidence, next)}
  /\ at' = "waiting"
  /\ UNCHANGED <<feed, saved, cursor, top, next, stop, skipped, refusals>>

EndOfBatch ==
  /\ at = "logging" /\ next > top
  /\ at' = "saving"
  /\ UNCHANGED <<feed, evidence, saved, cursor, top, next, stop, skipped, refusals, faults>>

\* Mutant: the file is written, the cursor in memory is not updated.
SaveDiskOnly ==
  /\ at = "saving" /\ top \notin nameless
  /\ saved' = top
  /\ at' = "waiting"
  /\ UNCHANGED <<feed, evidence, cursor, top, next, stop, skipped, refusals, faults>>

\* save_cursor: on the disk first, then in memory.
Save ==
  /\ at = "saving" /\ top \notin nameless
  /\ saved' = top
  /\ cursor' = top
  /\ at' = "waiting"
  /\ UNCHANGED <<feed, evidence, top, next, stop, skipped, refusals, faults>>

\* BASELINE and CURSOR_GAP: the cursor goes to the newest record.
Reset ==
  /\ at = "resetting" /\ top \notin nameless
  /\ saved' = top
  /\ cursor' = top
  /\ skipped' = skipped \cup (saved + 1 .. top)
  /\ at' = "waiting"
  /\ UNCHANGED <<feed, evidence, top, next, stop, refusals, faults>>

\* save_cursor refuses the id of the newest record: the cursor stays where it
\* was, and the response is processed again at the next poll.
Refuse ==
  /\ at \in {"saving", "resetting"} /\ top \in nameless
  /\ at' = "waiting"
  /\ refusals' = IF at = "saving" THEN refusals + 1 ELSE refusals
  /\ UNCHANGED <<feed, evidence, saved, cursor, top, next, stop, skipped, faults>>

SaveFails ==
  /\ at \in {"saving", "resetting"}
  /\ Fail("save")
  /\ at' = "waiting"
  /\ UNCHANGED <<feed, evidence, saved, cursor, top, next, stop, skipped, refusals>>

\* The process dies: what is on the disk remains.
Crash ==
  /\ at # "stopped"
  /\ Fail("crash")
  /\ at' = "stopped"
  /\ UNCHANGED <<feed, evidence, saved, cursor, top, next, stop, skipped, refusals>>

-----------------------------------------------------------------------------
Init ==
  /\ newest = 0 /\ relevant = {} /\ malformed = {} /\ unprintable = {} /\ nameless = {}
  /\ evidence = <<>>
  /\ saved = 0 /\ cursor = 0
  /\ at = "stopped" /\ top = 0 /\ next = 0
  /\ stop = FALSE
  /\ skipped = {} /\ refusals = 0 /\ faults = 0

Work == Start \/ Stopped \/ Fetch \/ Log \/ EndOfBatch \/ Save \/ Reset \/ Refuse

Next ==
  \/ \E class \in Classes : Publish(class)
  \/ Work
  \/ RequestStop
  \/ LogFails \/ SaveFails \/ Crash

Spec == Init /\ [][Next]_vars
\* The worker goes on, a stopped module is started again, and its stops do not
\* forever come between the start and the first poll.
FairSpec == Spec /\ WF_vars(Work) /\ SF_vars(Fetch)

-----------------------------------------------------------------------------
Recorded == {evidence[k] : k \in 1 .. Len(evidence)}

TypeOK ==
  /\ newest \in 0 .. MaxRecords
  /\ relevant \subseteq 1 .. newest /\ malformed \subseteq 1 .. newest
  /\ unprintable \subseteq relevant /\ nameless \subseteq unprintable
  /\ evidence \in Seq(Due)
  /\ saved \in 0 .. newest /\ cursor \in 0 .. newest /\ top \in 0 .. newest
  /\ at \in Places
  /\ next \in 0 .. newest + 1
  /\ stop \in BOOLEAN
  /\ skipped \subseteq 1 .. newest
  /\ refusals \in 0 .. MaxRefusals /\ faults \in 0 .. MaxFaults

(* "That cursor prevents the entire feed from replaying after a normal     *)
(* restart" (modules/intelligence/README.md): a record is recorded again   *)
(* at most once for each crash or failure, and for each response whose     *)
(* newest record has no usable id, and never otherwise.                    *)
ReplayedOnlyAfterFaults ==
  \A i \in Due :
    Cardinality({k \in 1 .. Len(evidence) : evidence[k] = i}) <= 1 + faults + refusals

(* Every relevant record that can be written is recorded in the end, or    *)
(* passed over by a reset, although the watcher crashes, fails and is      *)
(* stopped on the way, and the feed shows it records it cannot parse or    *)
(* name, as long as such records do not stay in the window for good, or at *)
(* its head.                                                               *)
RelevantIsHandled ==
  <>[](Readable /\ newest \notin nameless) =>
    \A i \in 1 .. MaxRecords : i \in Due ~> i \in Recorded \cup skipped

(* A relevant record is passed over only when the worker has no cursor (at *)
(* first, or when the file cannot be read) or when the response had        *)
(* outgrown the window by then: crashes, failing lines and failing saves,  *)
(* however often they make it start again, never do it.                    *)
PassedOverOnlyByOverrun ==
  [][\A i \in (skipped' \ skipped) \cap relevant :
       cursor = 0 \/ saved + Window <= top]_skipped

\* The watcher implements the promise of Evidence.
Promise == INSTANCE Evidence WITH recorded <- Recorded, passed <- saved

(* Whatever crashes or fails: records enter the evidence in the order of   *)
(* publication, the cursor file never moves back, and it passes a relevant *)
(* record only when that is in the evidence, or cannot be written, or by a *)
(* reset.  Repeats, crashes and retries are invisible at that level.       *)
ImplementsEvidence == Promise!Spec
=============================================================================
