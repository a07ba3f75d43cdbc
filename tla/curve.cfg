SPECIFICATION Spec
CONSTANTS
  m1 = m1
  m2 = m2
  Mints = {m1, m2}
  Configs <- MCConfigs
  Amounts <- MCAmounts
  Limits <- MCLimits
  WholeToken = 2
  TokenScale = 3
  MaxBps = 10
  RentReserve = 1
  FlatFee = 1
  Seed = 1
  MaxU64 = 19
  MaxU128 = 10000
  MaxConfigures = 2
INVARIANTS
  TypeOK
  VaultCoversCurves
  TokensBacked
  PoolAsPromised
  RoundTripNeverProfits
  CompletedCanMigrate
PROPERTIES
  ProductHolds
SYMMETRY MintSymmetry
CHECK_DEADLOCK FALSE
