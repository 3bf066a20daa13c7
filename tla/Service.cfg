SPECIFICATION Spec
CONSTANTS
  LcBoxes <- MCBoxes
  MaxSignals = 2
  TfScenarios <- MCTraffics
  TfConns = {1, 2}
  TfBytes = 1
  TfClosed = 1
  RsScenarios <- MCSets
  RsVersions = 2
  RsCrashes = 1
INVARIANTS
  OrderKept
  NothingLeftOpen
  AccountsSound
  ApiSound
  
  
PROPERTIES
  TermHonoured
CHECK_DEADLOCK FALSE
