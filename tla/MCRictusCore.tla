---------------------------- MODULE MCRictusCore ----------------------------
(* RictusCore on a small instance: two passing revisions and a failing one.*)
EXTENDS RictusCore

CONSTANTS m1, m2, first, second, failing

MCBuilds == {first, second, failing}
MCApiMajor == [b \in MCBuilds |-> 1]
MCApiMinor == [b \in MCBuilds |-> 5]

MCReport(passed, failed) ==
  [executed |-> 10, passed |-> passed, failed |-> failed,
   negativeExecuted |-> TRUE, negativePassed |-> TRUE]
MCReports == {MCReport(10, 0), MCReport(9, 1)}
MCTests == [b \in MCBuilds |-> IF b = failing THEN MCReport(9, 1) ELSE MCReport(10, 0)]

MCVersion ==
  [b \in MCBuilds |-> CASE b = first -> <<1, 0, 9>>
                        [] b = second -> <<1, 1, 0>>
                        [] b = failing -> <<2, 0, 0>>]

MCStartFaults == {[m \in {m1, m2} |-> {"snapshot", "start"}]}
MCStopFaults == {[m \in {m1, m2} |-> {"stop"}]}
=============================================================================
