SPECIFICATION FairSpec
CONSTANTS
  Window = 3
  Faults = {"crash", "log", "save", "read"}
  Classes = {"relevant", "malformed", "unprintable", "nameless"}
  MaxRecords = 5
  MaxFaults = 2
  MaxRefusals = 1
CHECK_DEADLOCK FALSE
INVARIANTS
  ReplayedOnlyAfterFaults
PROPERTIES
  PassedOverOnlyByOverrun
  RelevantIsHandled
  ImplementsEvidence
