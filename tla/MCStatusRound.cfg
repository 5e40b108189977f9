SPECIFICATION Spec
CHECK_DEADLOCK FALSE
CONSTANTS
  Devices = {"tel", "cam", "foc"}
  Clients = {"x1", "x2"}
  TargetOf <- MCTargetOf
  Cameras = {"cam"}
  BlockedBy <- MCBlockCamera
  Mortal = {}
  MaxRuns <- MCOneRun
INVARIANTS
  TypeOK
  QuietAgree
PROPERTIES
  RoundIsFresh
