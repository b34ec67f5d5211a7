SPECIFICATION FairSpec
CONSTANTS
  c1 = c1
  Cap = 2
  Callers = {c1}
  MaxMessages = 3
  MaxRuns = 2
CHECK_DEADLOCK FALSE
INVARIANTS
  SentByItsRun
  OnlineIsJoined
  OffIsQuiet
PROPERTIES
  ImplementsQueue
  LifecycleCallsEnd
  QueueIsServed
