---------------------------- MODULE MCModuleAbi ----------------------------
(* ModuleAbi on a small instance: builds on both sides of each API check   *)
(* and a report that fails each clause of the acceptance rule.             *)
EXTENDS ModuleAbi, TLC

CONSTANTS m1, m2, current, older, tooNew, otherMajor

MCIds == {m1, m2}
MCBuilds == {current, older, tooNew, otherMajor}
MCApiMajor == [b \in MCBuilds |-> IF b = otherMajor THEN 2 ELSE 1]
MCApiMinor ==
  (current :> 5) @@ (older :> 3) @@ (tooNew :> 6) @@ (otherMajor :> 0)

MCReport(executed, passed, failed, negative, negativePassed) ==
  [executed |-> executed, passed |-> passed, failed |-> failed,
   negativeExecuted |-> negative, negativePassed |-> negativePassed]

MCReports ==
  {MCReport(10, 10, 0, TRUE, TRUE),    \* the least that is accepted
   MCReport(9, 9, 0, TRUE, TRUE),      \* too few tests
   MCReport(10, 9, 1, TRUE, TRUE),     \* a failed test
   MCReport(10, 10, 1, TRUE, TRUE),    \* counts that do not add up
   MCReport(10, 10, 0, TRUE, FALSE)}   \* the negative test failed
=============================================================================
