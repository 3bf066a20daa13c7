\* A provider that replaces the selected outbound.
SPECIFICATION Spec
CONSTANTS
  a = a
  b = b
  c = c
  Tag = {a, b, c}
  Outboundless = Outboundless
  NoTag = NoTag
  Direct = {}
  Static <- NoneNamed
  Contents <- Switching
  Accepted = {a, b}
  Default = NoTag
  Fallback = TRUE
  InterruptExternal = TRUE
  HasCache = TRUE
  Overlap = TRUE
  MaxGen = 1
  Delays = {1, 2}
  NoDelay = NoDelay
  MaxTests = 2
  Conn = {c1}
  Api = {s1}
  Health = Health
INVARIANTS
  Interrupted
