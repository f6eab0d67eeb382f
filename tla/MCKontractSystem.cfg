SPECIFICATION SystemSpec
CONSTANTS
  alice = alice
  root = root
  key123 = key123
  key456 = key456
  keyOne = keyOne
  empty = empty
  vec456 = vec456
  Panic = Panic
  Account = {alice}
  Root = root
  GuestKey = {key123, key456, keyOne}
  Key = {key123, key456, keyOne}
  Blake2 <- MCBlake2
  Value <- MCValue
  Content <- MCValue
  Numbers <- MCNumbers
  EmptyValue = empty
  Length <- MCLength
  MaxKontracStorageKeySize = 64
  MaxKontracStorageValueSize = 100
  MaxKontracStorageSize = 3
  ExistentialDeposit = 10
  HalfWord = 256
  Buffer <- MCBuffer
  Fuel = {3, 4, 9}
  Limit = {1, 2}
  InitialStorages = {}
  Kontract <- MCKontract
  Program <- MCProgram
  collatz = "collantz_conjecture"
  LoadError <- MCLoadError
  CodeId <- MCKontract
  Hash <- MCHash
  Budget <- MCBudget
  Declared <- MCDeclared
  InitialBalances <- MCInitialBalances
  MaxNumberContracts = 3
PROPERTIES
  ImplementsPallet
  DispatchEnds
  CollatzSeries
CHECK_DEADLOCK TRUE
