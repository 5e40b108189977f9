SPECIFICATION Spec
CONSTANTS
  d1 = d1
  NoDevice = NoDevice
  Devices <- MCDevices
  Words <- MCWords
  RequiredConfigs <- MCRequired
  SequenceConfigs <- MCSequences
  Commands <- MCCommands
  ClientPeriods <- MCPeriods
  Suns <- MCSuns
  SunEvents = TRUE
  Polar = FALSE
  MaxTimers = 1
INVARIANTS
  TypeOK
  PeriodFollowsSun
PROPERTIES
  OffStaysOff
