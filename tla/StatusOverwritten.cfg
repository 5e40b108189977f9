SPECIFICATION FairSpec
CHECK_DEADLOCK FALSE
CONSTANTS
  Devices = {"tel", "cam"}
  Clients = {"x1", "x2"}
  TargetOf <- MCBothMount
  Cameras = {}
  BlockedBy <- MCBlockOthers
  Mortal = {}
  MaxRuns <- MCOneRun
PROPERTIES
  StatusAnswered
