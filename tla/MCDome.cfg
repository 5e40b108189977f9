SPECIFICATION FairSpec
CONSTANTS
  c1 = c1
  Centralds <- MCCentralds
  StateMaster <- MCMaster
  MasterWords <- MCLiveWords
  InhibitAutoClose = FALSE
  WeatherOpens = {FALSE}
  Faults = {"sensor", "start", "park"}
INVARIANTS
  TypeOK
  StatusCoherent
  MovementIsDriven
  RetryWhileWaiting
PROPERTIES
  BadWeatherCloses
  OpeningEnds
  ReluctanceVoted
