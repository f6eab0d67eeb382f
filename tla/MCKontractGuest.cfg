SPECIFICATION GuestSpec
CONSTANTS
  key123 = key123
  key456 = key456
  keyOne = keyOne
  empty = empty
  vec456 = vec456
  v64 = v64
  v101 = v101
  Panic = Panic
  GuestKey = {key123, key456, keyOne}
  Key = {key123, key456, keyOne}
  Blake2 <- MCBlake2
  Value <- MCValue
  Content <- MCValue
  Numbers <- MCNumbers
  EmptyValue = empty
  Length <- MCLength
  MaxKontracStorageKeySize = 64
  MaxKontracStorageValueSize = 100
  MaxKontracStorageSize = 3
  HalfWord = 16
  Buffer <- MCBuffer
  Fuel = {0, 1, 2, 3, 4, 5, 6, 31}
  Limit = {0, 1, 2, 31}
  InitialStorages <- MCInitialStorages
  Kontract <- MCKontract
  Program <- MCProgram
  LoadError <- MCLoadError
INVARIANTS
  OutcomeIsFunction
  AbsentIsEmpty
CHECK_DEADLOCK FALSE
