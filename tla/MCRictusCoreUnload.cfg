SPECIFICATION CoreSpec
CONSTANTS
  m1 = m1
  m2 = m2
  first = first
  second = second
  failing = failing
  NoBuild = NoBuild
  NoId = NoId
  Ids = {m1, m2}
  Builds <- MCBuilds
  ApiMajor <- MCApiMajor
  ApiMinor <- MCApiMinor
  Reports <- MCReports
  Version <- MCVersion
  Tests <- MCTests
  Broken = {}
  Files = {first, second, failing}
  MaxChanges = 1
  FaultMaps <- MCStopFaults
  ShutdownFaults = {{}}
CHECK_DEADLOCK FALSE
PROPERTIES
  UnloadsOnlyStopped
