\* A test below the resolution of the clock measures 0.
SPECIFICATION UtSpec
CONSTANTS
  x = x
  y = y
  z = z
  UtTag = {x, y, z}
  UtOutboundless = UtOutboundless
  UtNoTag = UtNoTag
  Nets <- TcpOnlyY
  UtContents <- Three
  UtDelays = {0, 4}
  UtNoDelay = UtNoDelay
  Tolerance = 1
  Width = 8
  UtInterruptExternal = FALSE
  UtMaxGen = 0
  UtMaxTests = 4
  Checker = {p1}
  UtConn = {}
PROPERTIES
  ToleranceRespected
