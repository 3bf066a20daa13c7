SPECIFICATION Spec
CONSTANTS
  CmSessions <- MCSessions
  MaxVersion = 3
  MaxLines = 2
  MaxQueue = 2
  SubScenarios <- MCSubScenarios
  None = None
INVARIANTS
  CommandsSound
  StreamsCurrent
  
PROPERTIES
  EveryCommandAnswered
CHECK_DEADLOCK FALSE
