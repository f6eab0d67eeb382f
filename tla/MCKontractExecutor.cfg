SPECIFICATION Spec
CONSTANTS
  g1 = g1
  g2 = g2
  k1 = k1
  k2 = k2
  empty = empty
  short = short
  long = long
  GuestKey = {g1, g2}
  Key = {k1, k2}
  Blake2 <- MCBlake2
  Value = {empty, short, long}
  EmptyValue = empty
  Length <- MCLength
  MaxKontracStorageKeySize = 64
  MaxKontracStorageValueSize = 100
  MaxKontracStorageSize = 2
  HalfWord = 2
  Buffer <- MCBuffer
  Fuel = {0, 1, 3}
  Limit = {0, 1, 3}
  InitialStorages <- MCInitialStorages
INVARIANTS
  TypeOK
  LimitsRespected
PROPERTIES
  KeepsPromise
  Termination
CHECK_DEADLOCK FALSE
