SPECIFICATION Spec
CONSTANTS
  Clients = {"x1"}
  FrameTransfer = FALSE
  Bits = {"EXPOSURE", "TRIG"}
  Kinds = {"filter", "window"}
  MaxAsked = 3
  MaxLine = 1
INVARIANTS
  TypeOK
  HoldsMount
  NoneUnasked
  NoneForgotten
PROPERTIES
  WindowKept
