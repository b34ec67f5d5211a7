SPECIFICATION CoreFairSpec
CONSTANTS
  m1 = m1
  m2 = m2
  first = first
  second = second
  failing = failing
  NoBuild = NoBuild
  NoId = NoId
  Ids = {m1, m2}
  Builds <- MCBuilds
  ApiMajor <- MCApiMajor
  ApiMinor <- MCApiMinor
  Reports <- MCReports
  Version <- MCVersion
  Tests <- MCTests
  Broken = {}
  Files = {first, second, failing, NoBuild}
  MaxChanges = 2
  FaultMaps <- MCStartFaults
  ShutdownFaults = {{"log", "os"}, {"stop", "os"}}
CHECK_DEADLOCK FALSE
INVARIANTS
  ExitIsClean
  RetainedFailedToStop
PROPERTIES
  ShutdownEnds
  SignalIsHeard
  StoppingStartsNothing
