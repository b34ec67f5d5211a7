SPECIFICATION FairSpec
CONSTANTS
  m1 = m1
  m2 = m2
  first = first
  second = second
  twin = twin
  failing = failing
  garbage = garbage
  NoBuild = NoBuild
  NoId = NoId
  Ids = {m1, m2}
  Builds <- MCBuilds
  ApiMajor <- MCApiMajor
  ApiMinor <- MCApiMinor
  Reports <- MCReports
  Version <- MCVersion
  Tests <- MCTests
  Broken <- MCBroken
  Files = {first, second, twin, failing, garbage}
  MaxChanges = 2
  FaultMaps <- MCFaultMaps
CHECK_DEADLOCK FALSE
INVARIANTS
  RunningIsMapped
  OneRevisionRuns
  LoaderMatchesRegistry
  SeenIsWhatRuns
PROPERTIES
  DisturbedOnlyByProven
  WatchSettles
  PassingIsActivated
