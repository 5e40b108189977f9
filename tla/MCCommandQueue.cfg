SPECIFICATION FairSpec
CONSTANTS
  Plain = {"info"}
  Blocking = {"move", "expose"}
  While = {"filter"}
  Bits <- MCBits
  BitsOf <- MCBitsOf
  MaxInput = 2
INVARIANTS
  TypeOK
  ReturnsMatch
  StatusTells
PROPERTIES
  KeepsOrder
  Served
