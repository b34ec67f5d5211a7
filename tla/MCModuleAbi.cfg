SPECIFICATION Spec
CONSTANTS
  m1 = m1
  m2 = m2
  current = current
  older = older
  tooNew = tooNew
  otherMajor = otherMajor
  NoBuild = NoBuild
  Ids <- MCIds
  Builds <- MCBuilds
  ApiMajor <- MCApiMajor
  ApiMinor <- MCApiMinor
  Reports <- MCReports
INVARIANTS
  RecordsSound
  ActiveIsExecuting
PROPERTIES
  StartsOnlyProven
  ImplementsLifecycle
