SPECIFICATION Spec
CONSTANTS
  c1 = c1
  c2 = c2
  Centralds <- MCCentralds
  StateMaster <- MCMaster
  MasterWords <- MCWords
  InhibitAutoClose = FALSE
  WeatherOpens = {TRUE}
  Faults = {}
PROPERTIES
  OpensInGoodWeather
  OthersOnlyRestrain
