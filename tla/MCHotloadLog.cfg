SPECIFICATION Spec
CONSTANTS
  m1 = m1
  m2 = m2
  first = first
  second = second
  twin = twin
  failing = failing
  garbage = garbage
  NoBuild = NoBuild
  NoId = NoId
  Ids = {m1}
  Builds <- MCBuilds
  ApiMajor <- MCApiMajor
  ApiMinor <- MCApiMinor
  Reports <- MCReports
  Version <- MCVersion
  Tests <- MCTests
  Broken <- MCBroken
  Files = {first, second}
  MaxChanges = 1
  FaultMaps <- MCLogFaults
CHECK_DEADLOCK FALSE
INVARIANTS
  RunningIsMapped
