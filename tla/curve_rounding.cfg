SPECIFICATION CountedSpec
CONSTANTS
  m1 = m1
  Mints = {m1}
  Configs <- MCConfigs
  Amounts <- MCAmounts
  Limits <- MCLimits
  WholeToken = 2
  TokenScale = 12
  MaxBps = 10
  RentReserve = 1
  FlatFee = 1
  Seed = 1
  MaxU64 = 19
  MaxU128 = 10000
  MaxConfigures = 2
INVARIANTS
  TypeOK
  RaisedWithinReach
  RoomIsEnough
CONSTRAINT FewBuys
CHECK_DEADLOCK FALSE
