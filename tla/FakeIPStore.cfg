\* Two clients, changing ranges, every fault, addresses come round in flight.
SPECIFICATION Spec
CONSTANTS
  Domain = {d1, d2}
  MaxIndex = 3
  NoDomain = NoDomain
  NoAddr = NoAddr
  Family = {"v4", "v6"}
  Client = {c1, c2}
  Worker = {w1, w2}
  Configs <- Moving
  NoRange = NoRange
  NoMeta = NoMeta
  WrapInFlight = TRUE
  MayCrash = TRUE
  MayFlush = TRUE
  MayFail = TRUE
SYMMETRY Symmetry
INVARIANTS
  StoreSound
  AllocatesInRange
