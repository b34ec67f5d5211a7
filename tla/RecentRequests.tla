--------------------------- MODULE RecentRequests ---------------------------
(***************************************************************************)
(* What the diagnostics promise (src/README.md:55): Core remembers the     *)
(* last request of each of the Capacity persons who asked most recently,   *)
(* and shows a person that one or, if it is forgotten, none.               *)
(***************************************************************************)
EXTENDS Naturals, FiniteSets

CONSTANTS Persons, Capacity

VARIABLES asked,   \* requests so far, which numbers them
          last     \* the request each person is shown, 0 if none

vars == <<asked, last>>

Init == asked = 0 /\ last = [p \in Persons |-> 0]

\* Who will have asked after q's last request, once p has asked.
AskedAfter(q, p) == {p} \cup {r \in Persons : last[r] > last[q]}

Ask(p) ==
  /\ asked' = asked + 1
  /\ last' = [q \in Persons |->
       IF q = p THEN asked'
       ELSE IF Cardinality(AskedAfter(q, p)) < Capacity THEN last[q] ELSE 0]

Next == \E p \in Persons : Ask(p)

Spec == Init /\ [][Next]_vars
=============================================================================
