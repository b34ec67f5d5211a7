--------------------------- MODULE ModuleLifecycle ---------------------------
(***************************************************************************)
(* What the registry and the ABI layer promise of one module's life,       *)
(* without records, reports or results: a candidate is judged before it    *)
(* runs, what has been rejected never runs again under the same            *)
(* registration, and only what is proven or rejected is removed.           *)
(***************************************************************************)
CONSTANT Ids

VARIABLE phase   \* of each id

Phases == {"out", "candidate", "proven", "running", "rejected"}

Move(m, from, to) ==
  /\ phase[m] \in from
  /\ phase' \in {[phase EXCEPT ![m] = p] : p \in to}

Admit(m) == Move(m, {"out"}, {"candidate", "proven", "rejected"})
Judge(m) == Move(m, {"candidate"}, {"candidate", "proven", "rejected"})
Start(m) == Move(m, {"proven"}, {"running", "rejected"})
Stop(m) == Move(m, {"running"}, {"proven", "rejected"})
Reject(m) == Move(m, Phases \ {"out"}, {"rejected"})
Remove(m) == Move(m, {"proven", "rejected"}, {"out"})
\* A replacement stops the incumbent and removes it in one call.
Replace(m) == Move(m, {"running"}, {"out"})

Init == phase = [m \in Ids |-> "out"]

Next == \E m \in Ids : \/ Admit(m) \/ Judge(m) \/ Start(m) \/ Stop(m)
                       \/ Reject(m) \/ Remove(m) \/ Replace(m)

Spec == Init /\ [][Next]_phase
=============================================================================
