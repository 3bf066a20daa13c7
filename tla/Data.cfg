SPECIFICATION Spec
CONSTANTS
  InConfigs <- MCConfigs
  InClients <- MCClients
  InPackets = 3
  InQueries <- MCQueries
  InStreams <- MCStreams
  DlScenarios <- MCDials
  DlAnswers <- MCAnswers
  DlRacers = {1, 2, 3}
  DlRetries = 4
  DlConns = {1, 2}
  SeScenarios <- MCSessions
  SeUsers = {1, 2}
  SeMax = 3
  ObScenarios <- MCOutbounds
  ObChunks = 2
  ObPorts = {1, 2}
  FrScenarios <- MCFramings
  FrBuffer = 3
  FrWrite = 2
  FrFirst = 2
INVARIANTS
  InboundsSound
  
  DialersSound
  
  
  
PROPERTIES
  LoopsFinish
  
CHECK_DEADLOCK FALSE
