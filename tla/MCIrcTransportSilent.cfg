SPECIFICATION SilentPeerSpec
CONSTANTS
  c1 = c1
  Cap = 2
  Callers = {c1}
  MaxMessages = 2
  MaxRuns = 2
CHECK_DEADLOCK FALSE
PROPERTIES
  LifecycleCallsEnd
