\* The timing assumption: an address is saved before it comes round.
\* Goroutines are scheduled fairly; the process may crash.
SPECIFICATION FairSpec
CONSTANTS
  Domain = {d1, d2, d3}
  MaxIndex = 3
  NoDomain = NoDomain
  NoAddr = NoAddr
  Family = {"v4"}
  Client = {c1}
  Worker = {w1, w2}
  Configs <- Fixed
  NoRange = NoRange
  NoMeta = NoMeta
  WrapInFlight = FALSE
  MayCrash = TRUE
  MayFlush = FALSE
  MayFail = FALSE
PROPERTIES
  ContractSpec
  SavesFinish
