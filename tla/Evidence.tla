------------------------------ MODULE Evidence ------------------------------
(***************************************************************************)
(* What the intelligence watcher promises of the records of the feed:      *)
(* they are recorded in the order they were published, a position is       *)
(* passed only once every relevant record up to it that can be written has *)
(* been recorded, and other records are given up only by an explicit jump. *)
(* Records are numbered in the order of publication.                       *)
(***************************************************************************)
EXTENDS Naturals

VARIABLES newest,       \* number of records published
          relevant,     \* those of MEDIUM or HIGH relevance
          unprintable,  \* those of them that cannot be written
          recorded,     \* those that are in the evidence
          passed,       \* the position the watcher will resume from
          skipped       \* records it has given up

vars == <<newest, relevant, unprintable, recorded, passed, skipped>>

\* The records the evidence owes.
Due == relevant \ unprintable

Publish ==
  /\ newest' = newest + 1
  /\ relevant' \in {relevant, relevant \cup {newest + 1}}
  /\ unprintable' \in {unprintable, unprintable \cup {newest + 1}}
  /\ UNCHANGED <<recorded, passed, skipped>>

Record(i) ==
  /\ i \in Due /\ i > passed
  /\ \A j \in Due : passed < j /\ j < i => j \in recorded
  /\ recorded' = recorded \cup {i}
  /\ UNCHANGED <<newest, relevant, unprintable, passed, skipped>>

Advance(p) ==
  /\ passed < p /\ p <= newest
  /\ \A j \in Due : passed < j /\ j <= p => j \in recorded
  /\ passed' = p
  /\ UNCHANGED <<newest, relevant, unprintable, recorded, skipped>>

Jump(p) ==
  /\ passed < p /\ p <= newest
  /\ passed' = p
  /\ skipped' = skipped \cup (passed + 1 .. p)
  /\ UNCHANGED <<newest, relevant, unprintable, recorded>>

Init ==
  /\ newest = 0 /\ relevant = {} /\ unprintable = {} /\ recorded = {}
  /\ passed = 0 /\ skipped = {}

Next ==
  \/ Publish
  \/ \E i \in Due : Record(i)
  \/ \E p \in 1 .. newest : Advance(p) \/ Jump(p)

Spec == Init /\ [][Next]_vars
=============================================================================
