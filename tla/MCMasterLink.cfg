SPECIFICATION FairSpec
CHECK_DEADLOCK FALSE
CONSTANTS
  Queued = {"status_info", "key"}
  Urgent = {"authorize"}
  MaxBreaks = 3
INVARIANTS
  TypeOK
  RegistersFirst
PROPERTIES
  StrandedByBreak
  BackUnlessStranded
