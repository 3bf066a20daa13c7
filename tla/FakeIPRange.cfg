\* IPv4 only, restarted with another range.
SPECIFICATION Spec
CONSTANTS
  Domain = {d1, d2}
  MaxIndex = 3
  NoDomain = NoDomain
  NoAddr = NoAddr
  Family = {"v4", "v6"}
  Client = {c1}
  Worker = {w1}
  Configs <- V4Only
  NoRange = NoRange
  NoMeta = NoMeta
  WrapInFlight = TRUE
  MayCrash = FALSE
  MayFlush = FALSE
  MayFail = FALSE
INVARIANTS
  CreatedInRange
