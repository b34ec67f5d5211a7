SPECIFICATION Spec
CONSTANTS
  Workers = {"irc", "web"}
  NoAccount = NoAccount
  None = None
  NotReached = NotReached
  Origins <- MCOrigins
  Person <- MCPerson
  RICTUS_DIAG_TRACE_MAX = 2
  RICTUS_DIAG_SERVICE_MAX = 1
  MaxRequests = 4
  MaxServices = 2
INVARIANT NotesAreItsOwn
PROPERTY ImplementsRecentRequests
CHECK_DEADLOCK FALSE
