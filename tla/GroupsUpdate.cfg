\* The provider of the selector changes and its calls do not overlap; the checks of the URL test group do.
SPECIFICATION GroupsSpec
CONSTANTS
  a = a
  b = b
  c = c
  Tag = {a, b, c}
  Outboundless = Outboundless
  NoTag = NoTag
  Direct = {}
  Static <- NoneNamed
  Contents <- Changing
  Accepted = {a, b}
  Default = b
  Fallback = TRUE
  InterruptExternal = TRUE
  HasCache = TRUE
  Overlap = FALSE
  MaxGen = 2
  Delays = {1, 2}
  NoDelay = NoDelay
  MaxTests = 2
  Conn = {c1}
  Api = {s1}
  Health = Health
  x = x
  y = y
  z = z
  UtTag = {x, y}
  UtOutboundless = UtOutboundless
  UtNoTag = UtNoTag
  Nets <- TcpOnlyY
  UtContents <- Losing
  UtDelays = {1, 3}
  UtNoDelay = UtNoDelay
  Tolerance = 1
  Width = 8
  UtInterruptExternal = FALSE
  UtMaxGen = 1
  UtMaxTests = 2
  Checker = {p1, p2}
  UtConn = {c1}
SYMMETRY UtSymmetry
INVARIANTS
  SelectorSound
  UtInterrupted
