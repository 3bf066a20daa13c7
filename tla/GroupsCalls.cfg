\* The selector has named members only, two callers of the API, recurring health checks and a connection;
\* the members of the URL test group change, and the delays are on both sides of the tolerance.
SPECIFICATION CallsSpec
CONSTANTS
  a = a
  b = b
  c = c
  Tag = {a, b}
  Outboundless = Outboundless
  NoTag = NoTag
  Direct = {}
  Static <- TwoNamed
  Contents <- NoContent
  Accepted = {a, b}
  Default = NoTag
  Fallback = TRUE
  InterruptExternal = TRUE
  HasCache = TRUE
  Overlap = TRUE
  MaxGen = 0
  Delays = {1}
  NoDelay = NoDelay
  MaxTests = 2
  Conn = {c1}
  Api = {s1, s2}
  Health = Health
  x = x
  y = y
  z = z
  UtTag = {x, y, z}
  UtOutboundless = UtOutboundless
  UtNoTag = UtNoTag
  Nets <- TcpOnlyY
  UtContents <- Shrinking
  UtDelays = {1, 2, 4}
  UtNoDelay = UtNoDelay
  Tolerance = 1
  Width = 8
  UtInterruptExternal = FALSE
  UtMaxGen = 1
  UtMaxTests = 4
  Checker = {p1}
  UtConn = {}
INVARIANTS
  Interrupted
PROPERTIES
  LeavesDead
  SelectSound
