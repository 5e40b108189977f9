SPECIFICATION FairSpec
CONSTANTS
  d1 = d1
  d2 = d2
  NoDevice = NoDevice
  Devices <- MCDevices
  Words <- MCWords
  RequiredConfigs <- MCRequired
  SequenceConfigs <- MCSequences
  Commands <- MCCommands
  ClientPeriods <- MCPeriods
  Suns <- MCSuns
  SunEvents = FALSE
  Polar = FALSE
  MaxTimers = 0
INVARIANTS
  WeatherUnanimous
  MoveUnanimous
  WeatherExplained
PROPERTIES
  DeadRequiredVoted
