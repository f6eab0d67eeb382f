SPECIFICATION RuntimeSpec
CONSTANTS
  k1 = k1
  v13 = v13
  v62 = v62
  vBig = vBig
  root = root
  Account <- MCAccount
  Root = root
  Signer = {"Alice", "Bob"}
  SudoKey <- MCSudoKey
  Calls <- MCCalls
  Fee <- MCFee
  MaxNonce = 1
  MaxExtrinsics = 4
  Key = {k1}
  Value = {v13, v62, vBig}
  Length <- MCLength
  MaxKontracStorageKeySize = 64
  MaxKontracStorageValueSize = 62
  MaxKontracStorageSize = 2
  ExistentialDeposit = 50
  Binary = {"cycle"}
  CodeId = {"cycle"}
  Hash <- MCHash
  Budget = {"enough", "more"}
  HostExecute <- MCHostExecute
  ExecutionErrors = {"OutOfWrites"}
  Declared <- MCDeclared
  HalfWord = 256
  InitialBalances <- MCInitialBalances
  MaxNumberContracts = 2
INVARIANTS
  NonceCountsExtrinsics
  DepositsCoverStorage
  IssuanceNeverGrows
PROPERTIES
  SlashedOnlyIfStale
  FailureCostsFee
  DepositsLostByOwner
  OnlySudoRemovesCode
CHECK_DEADLOCK FALSE
