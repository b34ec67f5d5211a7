----------------------------- MODULE MCHotload -----------------------------
(* Hotload on a small instance: passing revisions of a module that are     *)
(* newer and of equal version, the newest of all one that fails its tests, *)
(* and a file that is no module.                                           *)
EXTENDS Hotload

CONSTANTS m1, m2, first, second, twin, failing, garbage

MCBuilds == {first, second, twin, failing, garbage}
MCApiMajor == [b \in MCBuilds |-> 1]
MCApiMinor == [b \in MCBuilds |-> 5]

MCReport(passed, failed) ==
  [executed |-> 10, passed |-> passed, failed |-> failed,
   negativeExecuted |-> TRUE, negativePassed |-> TRUE]
MCReports == {MCReport(10, 0), MCReport(9, 1)}
MCTests == [b \in MCBuilds |-> IF b = failing THEN MCReport(9, 1) ELSE MCReport(10, 0)]

MCVersion ==
  [b \in MCBuilds |-> CASE b \in {first, twin} -> <<1, 0, 9>>
                        [] b = second -> <<1, 1, 0>>
                        [] b = failing -> <<2, 0, 0>>
                        [] b = garbage -> <<0, 0, 0>>]
MCBroken == {garbage}

\* Everything fails in one module beside one in which nothing does.  Where
\* stop() may fail, no table runs out of memory, and conversely: both
\* together, or an audit record that cannot be written, unmap running code.
MCFaultMaps ==
  {[m \in {m1, m2} |-> IF m = m1 THEN kinds ELSE {}] :
     kinds \in {{"snapshot", "qualify", "start", "stop", "registry"},
               {"start", "loader", "seen"}}}
MCLogFaults == {[m \in {m1} |-> {"log"}]}
=============================================================================
