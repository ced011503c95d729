SPECIFICATION AtomicSpec
CONSTANTS
  c1 = c1
  c2 = c2
  c3 = c3
  usd = usd
  Nobody = Nobody
  MeterOf <- OneMeter
  Estimate <- Estimates
  Price <- Prices
  DayCeiling <- DayLimit
  RunCeiling <- RunLimit
  Call = {c1, c2, c3}
  RunOf <- TwoRuns
  VideoOf <- TwoVideos
  Caller <- AllCallers
  VideoCeiling = 2
  Days = 2
  Faults = {"crash", "io", "lost"}
  Atomic <- TheAtomic
  VideoCount = 2
  Histories <- ThreeEarlier
  MaxHistory = 2
  Factor <- ThreeHalves
  Unit = 12
INVARIANTS
  CeilingsHold
  AtomicInv
  ChargesAreCounted
PROPERTIES
  LedgerKeepsTheContract
