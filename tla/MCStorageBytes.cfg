SPECIFICATION Spec
CONSTANTS
  alice = alice
  bob = bob
  k1 = k1
  k2 = k2
  v13 = v13
  v60 = v60
  vBig = vBig
  vHuge = vHuge
  root = root
  Account = {alice, bob}
  Root = root
  Key = {k1, k2}
  Value <- MCValue
  Length <- MCLength
  MaxKontracStorageKeySize = 64
  MaxKontracStorageValueSize = 60
  MaxKontracStorageSize = 50
  ExistentialDeposit = 10
  Binary = {"pair"}
  CodeId = {"pair"}
  Hash <- MCHash
  Budget <- MCBudget
  HostExecute <- MCHostExecute
  ExecutionErrors <- MCExecutionErrors
  Declared <- MCDeclared
  HalfWord = 256
  InitialBalances <- MCInitialBalances
  MaxNumberContracts = 3
INVARIANT
  StorageWithinMaxSize
CHECK_DEADLOCK TRUE
