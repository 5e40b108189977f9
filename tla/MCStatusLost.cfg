SPECIFICATION FairSpec
CHECK_DEADLOCK FALSE
CONSTANTS
  Devices = {"tel", "cam"}
  Clients = {"x1", "x2"}
  TargetOf <- MCTargetOf
  Cameras = {}
  BlockedBy <- MCBlockOthers
  Mortal = {"cam"}
  MaxRuns <- MCOneRun
INVARIANTS
  AnsweredOnce
  RoundIsOwed
PROPERTIES
  CommandEnds
