----------------------- MODULE KontractsRuntimeProofs -----------------------
(***************************************************************************)
(* What holds of the chain whatever extrinsics its accounts sign, in what  *)
(* order and how late they are applied, and whatever kontracts compute.    *)
(***************************************************************************)
EXTENDS KontractsRuntime, KontractsProofs

----------------------------------------------------------------------------
(***************************************************************************)
(* The inductive invariant                                                 *)
(***************************************************************************)

ExtrinsicOK(x) ==
  x.signer \in Signer /\ x.nonce \in Nat /\ x.call \in Calls[x.signer]

\* Every nonce below the one of its account was used once at most.
NoncesUsed ==
  /\ nonce \in [Account -> Nat]
  /\ included = [a \in Account |-> included[a]]
  /\ \A a \in Account : /\ IsFiniteSet(included[a])
                        /\ nonce[a] = Cardinality(included[a])
                        /\ \A x \in included[a] : x.nonce \in Nat /\ x.nonce < nonce[a]

\* An account that does not exist has no nonce.
Forgotten ==
  \A a \in Account : TotalBalance(balances[a]) = 0 => nonce[a] = 0 /\ included[a] = {}

\* The state without what the checks of x did.
Unchecked(x) ==
  <<Codes, Storages, [balances EXCEPT ![x.signer].free = @ + Fee[x.call.call]],
    [nonce EXCEPT ![x.signer] = @ - 1]>>

\* Nothing was done since the checks of x, which can be undone.
Undoable(x) ==
  /\ x \in included[x.signer]
  /\ \A y \in included[x.signer] \ {x} : y.nonce < nonce[x.signer] - 1
  /\ TotalBalance(balances[x.signer]) > 0
  /\ applying.before = Unchecked(x)

IssuanceBefore == Total([a \in Account |-> TotalBalance(applying.before[3][a])])

\* The extrinsic being applied.
Applied ==
  LET x == applying.xt
  IN  \/ applying = Idle
      \/ /\ applying = [phase |-> "checked", xt |-> x, before |-> applying.before]
         /\ ExtrinsicOK(x) /\ Undoable(x)
         /\ TotalIssuance + Fee[x.call.call] = IssuanceBefore
      \/ /\ applying = [phase |-> "dispatched", xt |-> x, before |-> applying.before]
         /\ ExtrinsicOK(x) /\ (last.result # "Ok" => Undoable(x) /\ Refund(x) = 0)
         /\ TotalIssuance + Refund(x) <= IssuanceBefore

RInv ==
  /\ IInv
  /\ \A x \in submitted : ExtrinsicOK(x)
  /\ NoncesUsed
  /\ Forgotten
  /\ Applied

\* What the assumption says of a call that an account signs.
LEMMA CallType ==
  ASSUME NEW x, ExtrinsicOK(x)
  PROVE  /\ x.signer \in Account
         /\ x.call \in RuntimeCall
         /\ x.call.call \in CallName
         /\ Fee[x.call.call] \in Nat /\ Fee[x.call.call] > 0
<1>1. x.signer \in Account /\ x.call \in RuntimeCall
  BY RuntimeAssumption DEF ExtrinsicOK
<1>2. x.call.call \in CallName
  BY <1>1 DEF RuntimeCall, PalletCall, CallName, SignedCall, RootCall
<1>. QED  BY <1>1, <1>2, RuntimeAssumption

----------------------------------------------------------------------------
(***************************************************************************)
(* Sums over the accounts                                                  *)
(***************************************************************************)

Issuance(data) == Total([a \in Account |-> TotalBalance(data[a])])

LEMMA TotalBalanceType ==
  ASSUME NEW acc \in AccountData
  PROVE  TotalBalance(acc) \in Nat
BY DEF AccountData, TotalBalance

LEMMA IssuanceType ==
  ASSUME NEW data \in [Account -> AccountData]
  PROVE  Issuance(data) \in Nat
<1>1. [a \in Account |-> TotalBalance(data[a])] \in [Account -> Nat]
  BY TotalBalanceType
<1>. QED  BY <1>1, KontractsAssumption, TotalType DEF Issuance

\* One account changes: the issuance changes by as much.
LEMMA IssuanceUpdate ==
  ASSUME NEW data \in [Account -> AccountData], NEW who \in Account, NEW acc \in AccountData
  PROVE  /\ Issuance(data) \in Nat
         /\ Issuance([data EXCEPT ![who] = acc]) =
              Issuance(data) - TotalBalance(data[who]) + TotalBalance(acc)
<1> DEFINE f == [a \in Account |-> TotalBalance(data[a])]
           new == [data EXCEPT ![who] = acc]
<1>1. f \in [Account -> Nat] /\ TotalBalance(acc) \in Nat /\ IsFiniteSet(Account)
  BY TotalBalanceType, KontractsAssumption
<1>2. [a \in Account |-> TotalBalance(new[a])] = [f EXCEPT ![who] = TotalBalance(acc)]
  OBVIOUS
<1>3. f[who] = TotalBalance(data[who])
  OBVIOUS
<1>4. Issuance(data) = Total(f) /\ Issuance(new) = Total([f EXCEPT ![who] = TotalBalance(acc)])
  BY <1>2 DEF Issuance
<1> HIDE DEF f, new
<1>5. Total([f EXCEPT ![who] = TotalBalance(acc)]) = Total(f) - f[who] + TotalBalance(acc)
  BY <1>1, TotalUpdate
<1>6. Issuance(data) \in Nat
  BY IssuanceType
<1>7. Issuance(new) = Issuance(data) - TotalBalance(data[who]) + TotalBalance(acc)
  BY <1>3, <1>4, <1>5
<1>. QED  BY <1>6, <1>7 DEF new

\* A change of free balances alone, which leaves no dust, keeps the invariant
\* of the pallet.
LEMMA FreeStep ==
  ASSUME IInv, balances' \in [Account -> AccountData], NoDust',
         \A a \in Account : balances'[a].reserved = balances[a].reserved,
         UNCHANGED <<Codes, Storages, confiscated>>
  PROVE  IInv'
<1>1. TypeOK' /\ CodeIdIsHash' /\ StoredIsDecodable'
  BY DEF IInv, TypeOK, CodeIdIsHash, StoredIsDecodable
<1>2. BytesStored' = BytesStored
  BY DEF BytesStored
<1>3. [a \in Account |-> balances'[a].reserved] = [a \in Account |-> balances[a].reserved]
  OBVIOUS
<1>4. TotalReserved' = TotalReserved
  BY <1>3 DEF TotalReserved
<1>. QED  BY <1>1, <1>2, <1>4 DEF IInv, DepositsCoverStorage

\* A fee taken and given back.
LEMMA FeeReturned ==
  ASSUME NEW acc \in AccountData, NEW fee \in Nat
  PROVE  [[acc EXCEPT !.free = @ - fee] EXCEPT !.free = @ + fee] = acc
<1>1. PICK f \in Nat, r \in Nat : acc = [free |-> f, reserved |-> r]
  BY DEF AccountData
<1> DEFINE less == [acc EXCEPT !.free = @ - fee]
<1>2. less = [free |-> f - fee, reserved |-> r]
  BY <1>1
<1> HIDE DEF less
<1>3. [less EXCEPT !.free = @ + fee] = [free |-> f - fee + fee, reserved |-> r]
  BY <1>2
<1>4. f - fee + fee = f
  OBVIOUS
<1>. QED  BY <1>1, <1>3, <1>4 DEF less

----------------------------------------------------------------------------
(***************************************************************************)
(* The dispatch                                                            *)
(***************************************************************************)

\* What sudo makes of a call for signed origins.
SudoDoesNothing ==
  /\ Deposits([type |-> "None"], 0)
  /\ UNCHANGED <<Codes, Storages, balances, confiscated>>

\* A dispatch is a step of the pallet, a transfer, or sudo for the wrong key or
\* of a call that turns the root away.
LEMMA DispatchCases ==
  ASSUME NEW who \in Account, NEW c \in RuntimeCall, DispatchAs(who, c)
  PROVE  \/ Next
         \/ \E dest \in Account, value \in Nat : Transfer(who, dest, value)
         \/ Fails("RequireSudo")
         \/ SudoDoesNothing
<1>1. CASE c.call = "upload_code" /\ UploadCode(who, c.code)
  <2>1. c.code \in Binary
    BY <1>1 DEF RuntimeCall, PalletCall
  <2>. QED  BY <1>1, <2>1 DEF Next
<1>2. CASE c.call = "execute_code" /\ ExecuteCode(who, c.id, c.expected, Run(c.id, c.budget))
  <2>1. c.id \in CodeId /\ c.expected \in Declared /\ c.budget \in Budget
    BY <1>2 DEF RuntimeCall, PalletCall
  <2>. QED  BY <1>2, <2>1 DEF Next
<1>3. CASE c.call \in RootCall /\ RejectOrigin(who, c.call)
  BY <1>3 DEF Next
<1>4. CASE c.call = "transfer" /\ Transfer(who, c.dest, c.value)
  <2>1. c.dest \in Account /\ c.value \in Nat
    BY <1>4 DEF RuntimeCall, PalletCall
  <2>. QED  BY <1>4, <2>1
<1>5. CASE c.call = "sudo" /\ Sudo(who, c.inner)
  <2>1. c.inner \in PalletCall
    BY <1>5 DEF RuntimeCall, PalletCall
  <2> DEFINE i == c.inner
  <2>2. CASE i.call = "delete_code" /\ DeleteCode(i.id)
    <3>1. i.id \in CodeId
      BY <2>1, <2>2 DEF PalletCall
    <3>. QED  BY <2>2, <3>1 DEF Next
  <2>3. CASE i.call = "update_code" /\ UpdateCode(i.id, i.code)
    <3>1. i.id \in CodeId /\ i.code \in Binary
      BY <2>1, <2>3 DEF PalletCall
    <3>. QED  BY <2>3, <3>1 DEF Next
  <2>. QED  BY <1>5, <2>2, <2>3 DEF Sudo, DispatchAsRoot, SudoDoesNothing
<1>. QED  BY <1>1, <1>2, <1>3, <1>4, <1>5 DEF DispatchAs

\* A transfer moves a value, but for what is lost with the sender.
LEMMA TransferMoves ==
  ASSUME IInv, NEW who \in Account, NEW dest \in Account, NEW value \in Nat,
         Transfers(who, dest, value)
  PROVE  IInv' /\ TotalIssuance' <= TotalIssuance
<1> DEFINE less == [balances[who] EXCEPT !.free = @ - value]
           acc  == Settled(less)
           more == [balances[dest] EXCEPT !.free = @ + value]
           mid  == [balances EXCEPT ![who] = acc]
<1>1. /\ who # dest
      /\ balances' = [balances EXCEPT ![who] = acc, ![dest].free = @ + value]
      /\ confiscated' = confiscated + balances[who].reserved - acc.reserved
      /\ UNCHANGED <<Codes, Storages>>
  BY DEF Transfers
<1>2. balances \in [Account -> AccountData] /\ confiscated \in Nat /\ NoDust
  BY DEF IInv, TypeOK
<1>3. /\ less \in AccountData /\ TotalBalance(less) = TotalBalance(balances[who]) - value
      /\ less.reserved = balances[who].reserved
  BY <1>2 DEF Transfers, AccountData, TotalBalance
<1>4. /\ acc \in AccountData /\ Alive(acc)
      /\ acc.reserved <= balances[who].reserved
      /\ TotalBalance(acc) <= TotalBalance(balances[who]) - value
  <2> HIDE DEF less
  <2>. QED  BY <1>3, BalancesAssumption DEF Settled, Alive, AccountData, TotalBalance
<1>5. /\ more \in AccountData /\ more.reserved = balances[dest].reserved
      /\ TotalBalance(more) = TotalBalance(balances[dest]) + value
  BY <1>2 DEF AccountData, TotalBalance
<1>6. Alive(more)
  BY <1>5 DEF Transfers, Alive
<1> HIDE DEF acc, less
<1>7. /\ mid \in [Account -> AccountData]
      /\ mid[dest] = balances[dest]
      /\ balances' = [mid EXCEPT ![dest] = more]
  BY <1>1, <1>2, <1>4
<1> HIDE DEF more
<1>8. TypeOK' /\ CodeIdIsHash' /\ StoredIsDecodable'
  BY <1>1, <1>2, <1>4, <1>5, <1>7 DEF IInv, TypeOK, CodeIdIsHash, StoredIsDecodable, AccountData
<1>9. NoDust'
  BY <1>1, <1>2, <1>4, <1>5, <1>6, <1>7 DEF NoDust
<1>10. DepositsCoverStorage'
  <2> DEFINE f == [a \in Account |-> balances[a].reserved]
  <2>1. /\ f \in [Account -> Nat] /\ f[who] = balances[who].reserved
        /\ acc.reserved \in Nat /\ IsFiniteSet(Account)
    BY <1>2, <1>4, KontractsAssumption DEF AccountData
  <2>2. [a \in Account |-> balances'[a].reserved] = [f EXCEPT ![who] = acc.reserved]
    BY <1>1, <1>5, <1>7
  <2>3. TotalReserved = Total(f) /\ TotalReserved' = Total([f EXCEPT ![who] = acc.reserved])
    BY <2>2 DEF TotalReserved
  <2> HIDE DEF f
  <2>4. Total(f) \in Nat
    BY <2>1, TotalType
  <2>5. Total([f EXCEPT ![who] = acc.reserved]) = Total(f) - f[who] + acc.reserved
    BY <2>1, TotalUpdate
  <2>6. TotalReserved' + confiscated' = TotalReserved + confiscated
    BY <1>1, <1>2, <2>1, <2>3, <2>4, <2>5
  <2>7. BytesStored' = BytesStored
    BY <1>1 DEF BytesStored
  <2>. QED  BY <2>6, <2>7 DEF IInv, DepositsCoverStorage
<1>11. TotalIssuance' <= TotalIssuance
  <2>1. TotalIssuance = Issuance(balances) /\ TotalIssuance' = Issuance(balances')
    BY DEF TotalIssuance, Issuance
  <2>2. /\ Issuance(balances) \in Nat
        /\ Issuance(mid) = Issuance(balances) - TotalBalance(balances[who]) + TotalBalance(acc)
    BY <1>2, <1>4, IssuanceUpdate
  <2>3. /\ Issuance(mid) \in Nat
        /\ Issuance(balances') = Issuance(mid) - TotalBalance(balances[dest]) + TotalBalance(more)
    <3> HIDE DEF mid
    <3>. QED  BY <1>5, <1>7, IssuanceUpdate
  <2>4. /\ TotalBalance(balances[who]) \in Nat /\ TotalBalance(acc) \in Nat
        /\ TotalBalance(balances[dest]) \in Nat
    BY <1>2, <1>4, TotalBalanceType
  <2>. QED  BY <1>4, <1>5, <2>1, <2>2, <2>3, <2>4
<1>. QED  BY <1>8, <1>9, <1>10, <1>11 DEF IInv

\* No call of the pallet creates balance.
LEMMA NextBurns ==
  ASSUME IInv, Next
  PROVE  TotalIssuance' <= TotalIssuance
<1>1. balances \in [Account -> AccountData] /\ TotalIssuance \in Nat
  BY IssuanceType DEF IInv, TypeOK, Issuance, TotalIssuance
<1>2. ASSUME UNCHANGED balances
      PROVE  TotalIssuance' <= TotalIssuance
  BY <1>1, <1>2 DEF TotalIssuance
<1>3. ASSUME NEW who \in Account, NEW acc \in AccountData,
             balances' = [balances EXCEPT ![who] = acc],
             TotalBalance(acc) <= TotalBalance(balances[who])
      PROVE  TotalIssuance' <= TotalIssuance
  <2>1. Issuance(balances') = Issuance(balances) - TotalBalance(balances[who]) + TotalBalance(acc)
    BY <1>1, <1>3, IssuanceUpdate
  <2>2. TotalBalance(balances[who]) \in Nat /\ TotalBalance(acc) \in Nat
    BY <1>1, <1>3, TotalBalanceType
  <2>3. TotalIssuance = Issuance(balances) /\ TotalIssuance' = Issuance(balances')
    BY DEF TotalIssuance, Issuance
  <2>. QED  BY <1>1, <1>3, <2>1, <2>2, <2>3
<1>4. ASSUME NEW who \in Account, NEW id \in CodeId, NEW expected \in Declared,
             NEW budget \in Budget, ExecuteCode(who, id, expected, Run(id, budget))
      PROVE  TotalIssuance' <= TotalIssuance
  <2> DEFINE run == Run(id, budget)
  <2>1. id \in DOMAIN Codes => run \in ExecutionResult
    BY RunType DEF IInv
  <2> HIDE DEF run
  <2>2. CASE ExecutionExceeds(who, id, expected, run)
    <3> DEFINE amount == U32(Variation(id, run))
    <3>1. run \in ExecutionResult /\ run.storage \in Storage /\ Storages[id] \in Storage
      BY <2>1, <2>2, ResultStorage DEF ExecutionExceeds, IInv, TypeOK
    <3>2. StorageSize(run.storage) \in Int /\ StorageSize(Storages[id]) \in Int
      BY <3>1, EntriesSizeType, I32Type DEF StorageSize
    <3>3. amount \in Nat
      BY <3>2, I32Type, U32Type DEF Variation
    <3>4. balances' = [balances EXCEPT ![who] = Slashed(balances[who], amount)]
      BY <2>2 DEF ExecutionExceeds
    <3> HIDE DEF amount
    <3>5. /\ Slashed(balances[who], amount) \in AccountData
          /\ TotalBalance(Slashed(balances[who], amount)) <= TotalBalance(balances[who])
      BY <1>1, <3>3, SlashTakes
    <3>. QED  BY <1>3, <3>4, <3>5
  <2>3. CASE ExecutionCommits(who, id, expected, run)
    <3>1. run \in ExecutionResult
      BY <2>1, <2>3 DEF ExecutionCommits
    <3>2. PICK acc \in AccountData : /\ balances' = [balances EXCEPT ![who] = acc]
                                     /\ TotalBalance(acc) = TotalBalance(balances[who])
      BY <2>3, <3>1, CommitMoves DEF IInv
    <3>3. TotalBalance(acc) <= TotalBalance(balances[who])
      BY <1>1, <3>2, TotalBalanceType
    <3>. QED  BY <1>3, <3>2, <3>3
  <2>4. CASE ~ExecutionExceeds(who, id, expected, run) /\ ~ExecutionCommits(who, id, expected, run)
    <3>1. ExecuteCode(who, id, expected, run)
      BY <1>4 DEF run
    <3>2. UNCHANGED balances
      BY <2>4, <3>1 DEF ExecuteCode, ExecuteMissingCode, ExecutionFails, DepositFails, DecodeFails, Fails
    <3>. QED  BY <1>2, <3>2
  <2>. QED  BY <2>2, <2>3, <2>4
<1>. QED  BY <1>2, <1>4 DEF Next, UploadCode, DeleteCode, UpdateCode, RejectOrigin, Fails

\* A dispatch that ends in an error or in a panic has changed nothing, and was
\* not one of sudo for its key.
LEMMA FailureChangesNothing ==
  ASSUME NEW who \in Account, NEW c \in RuntimeCall, DispatchAs(who, c),
         last'.result # "Ok"
  PROVE  /\ UNCHANGED <<Codes, Storages, balances, confiscated>>
         /\ ~(c.call = "sudo" /\ who = SudoKey)
<1>1. ASSUME Next
      PROVE  UNCHANGED <<Codes, Storages, balances, confiscated>>
  <2>1. ASSUME NEW w \in Account, NEW id \in CodeId, NEW expected \in Declared,
               NEW budget \in Budget, ExecuteCode(w, id, expected, Run(id, budget))
        PROVE  UNCHANGED <<Codes, Storages, balances, confiscated>>
    BY <2>1 DEF ExecuteCode, ExecuteMissingCode, ExecutionFails, ExecutionExceeds, DepositFails,
                DecodeFails, ExecutionCommits, Fails, Deposits
  <2>. QED  BY <1>1, <2>1 DEF Next, UploadCode, DeleteCode, UpdateCode, RejectOrigin,
                              Fails, Deposits
<1>2. ASSUME \E dest \in Account, value \in Nat : Transfer(who, dest, value)
      PROVE  UNCHANGED <<Codes, Storages, balances, confiscated>>
  BY <1>2 DEF Transfer, Transfers, TransferFails, TransferNothing, Fails, Deposits
<1>3. ASSUME Fails("RequireSudo") \/ SudoDoesNothing
      PROVE  UNCHANGED <<Codes, Storages, balances, confiscated>>
  BY <1>3 DEF Fails, SudoDoesNothing
<1>4. ASSUME c.call = "sudo", who = SudoKey
      PROVE  FALSE
  <2>1. DispatchAsRoot(c.inner)
    BY <1>4 DEF DispatchAs, SignedCall, RootCall, Sudo
  <2>. QED  BY <2>1 DEF DispatchAsRoot, DeleteCode, UpdateCode, Deposits
<1>. QED  BY <1>1, <1>2, <1>3, <1>4, DispatchCases

\* A dispatch keeps the invariant of the pallet and creates no balance.
LEMMA DispatchBurns ==
  ASSUME IInv, NEW who \in Account, NEW c \in RuntimeCall, DispatchAs(who, c)
  PROVE  IInv' /\ TotalIssuance' <= TotalIssuance
<1>1. CASE Next
  BY <1>1, NextIInv, NextBurns
<1>2. ASSUME UNCHANGED <<Codes, Storages, balances, confiscated>>
      PROVE  IInv' /\ TotalIssuance' <= TotalIssuance
  <2>1. TotalIssuance \in Nat
    BY IssuanceType DEF IInv, TypeOK, Issuance, TotalIssuance
  <2>2. TotalIssuance' = TotalIssuance
    BY <1>2 DEF TotalIssuance
  <2>3. CodesOK(Codes')
    BY <1>2 DEF IInv, TypeOK, CodeIdIsHash, CodesOK
  <2>. QED  BY <1>2, <2>1, <2>2, <2>3, CodesStep
<1>3. CASE \E dest \in Account, value \in Nat : Transfer(who, dest, value)
  BY <1>2, <1>3, TransferMoves DEF Transfer, TransferFails, TransferNothing, Fails
<1>4. CASE Fails("RequireSudo") \/ SudoDoesNothing
  BY <1>2, <1>4 DEF Fails, SudoDoesNothing
<1>. QED  BY <1>1, <1>3, <1>4, DispatchCases

----------------------------------------------------------------------------
(***************************************************************************)
(* Initial states and steps                                                *)
(***************************************************************************)

LEMMA InitRInv ==
  ASSUME RuntimeInit
  PROVE  RInv
<1>1. IInv
  BY InitIInv DEF RuntimeInit
<1>2. NoncesUsed
  BY FS_EmptySet DEF RuntimeInit, NoncesUsed
<1>3. Forgotten /\ Applied /\ \A x \in submitted : ExtrinsicOK(x)
  BY DEF RuntimeInit, Forgotten, Applied
<1>. QED  BY <1>1, <1>2, <1>3 DEF RInv

\* Nothing but the pool and the extrinsic being applied depends on the pool.
LEMMA SubmitStep ==
  ASSUME RInv, NEW who \in Signer, NEW n \in 0 .. MaxNonce, NEW c \in Calls[who],
         Submit(who, n, c)
  PROVE  RInv'
<1>1. UNCHANGED <<Codes, Storages, balances, last, confiscated, nonce, applying, included>>
  BY DEF Submit, vars
<1>2. CodesOK(Codes')
  BY <1>1 DEF RInv, IInv, TypeOK, CodeIdIsHash, CodesOK
<1>3. IInv'
  BY <1>1, <1>2, CodesStep DEF RInv
<1>4. \A x \in submitted' : ExtrinsicOK(x)
  <2> DEFINE new == [signer |-> who, nonce |-> n, call |-> c,
                     seen |-> IF c.call = "execute_code" THEN Storages[c.id] ELSE EmptyStorage]
  <2>1. submitted' = submitted \cup {new}
    BY DEF Submit
  <2>2. n \in Nat
    OBVIOUS
  <2>3. ExtrinsicOK(new)
    BY <2>2 DEF ExtrinsicOK
  <2> HIDE DEF new
  <2>. QED  BY <2>1, <2>3 DEF RInv
<1>5. NoncesUsed' /\ Forgotten'
  BY <1>1 DEF RInv, NoncesUsed, Forgotten
<1>6. applying = Idle /\ applying' = Idle
  BY DEF Submit
<1>7. Applied'
  BY <1>6 DEF Applied
<1>. QED  BY <1>3, <1>4, <1>5, <1>7 DEF RInv

\* The checks take a nonce that was not used and a fee that leaves the account
\* alive.
LEMMA PreDispatchStep ==
  ASSUME RInv, NEW x \in submitted, PreDispatch(x)
  PROVE  RInv'
<1> DEFINE s   == x.signer
           fee == Fee[x.call.call]
           acc == [balances[s] EXCEPT !.free = @ - fee]
<1>1. ExtrinsicOK(x) /\ s \in Account /\ fee \in Nat /\ fee > 0
  BY CallType DEF RInv
<1>2. balances \in [Account -> AccountData] /\ nonce \in [Account -> Nat] /\ NoDust
  BY DEF RInv, IInv, TypeOK, NoncesUsed
<1>3. /\ acc \in AccountData /\ acc.reserved = balances[s].reserved
      /\ TotalBalance(acc) = TotalBalance(balances[s]) - fee
      /\ Alive(acc) /\ TotalBalance(acc) > 0
      /\ [acc EXCEPT !.free = @ + fee] = balances[s]
  <2>1. fee <= balances[s].free /\ TotalBalance(balances[s]) - fee >= ExistentialDeposit
    BY DEF PreDispatch, CanPay
  <2>2. ExistentialDeposit \in Nat /\ ExistentialDeposit > 0
    BY BalancesAssumption, RuntimeAssumption
  <2> HIDE DEF fee
  <2>3. /\ acc \in AccountData /\ acc.reserved = balances[s].reserved
        /\ TotalBalance(acc) = TotalBalance(balances[s]) - fee
    BY <1>1, <1>2, <2>1 DEF AccountData, TotalBalance
  <2>4. [acc EXCEPT !.free = @ + fee] = balances[s]
    BY <1>1, <1>2, FeeReturned
  <2>. QED  BY <2>1, <2>2, <2>3, <2>4, TotalBalanceType DEF Alive
<1>4. /\ balances' = [balances EXCEPT ![s] = acc]
      /\ nonce' = [nonce EXCEPT ![s] = @ + 1]
      /\ included' = [included EXCEPT ![s] = @ \cup {x}]
      /\ applying' = [phase |-> "checked", xt |-> x, before |-> <<Codes, Storages, balances, nonce>>]
      /\ x.nonce = nonce[s]
      /\ UNCHANGED <<Codes, Storages, last, confiscated, submitted>>
  BY DEF PreDispatch
<1> HIDE DEF acc
<1>5. balances' \in [Account -> AccountData] /\ NoDust'
  BY <1>1, <1>2, <1>3, <1>4 DEF NoDust
<1>6. IInv'
  <2>1. \A a \in Account : balances'[a].reserved = balances[a].reserved
    BY <1>1, <1>2, <1>3, <1>4
  <2>. QED  BY <1>4, <1>5, <2>1, FreeStep DEF RInv
<1>7. NoncesUsed' /\ \A y \in included'[s] \ {x} : y.nonce < nonce'[s] - 1
  <2>1. /\ included = [a \in Account |-> included[a]]
        /\ \A a \in Account : /\ IsFiniteSet(included[a])
                              /\ nonce[a] = Cardinality(included[a])
                              /\ \A y \in included[a] : y.nonce \in Nat /\ y.nonce < nonce[a]
    BY DEF RInv, NoncesUsed
  <2>2. x \notin included[s]
    BY <1>1, <1>2, <1>4, <2>1
  <2>3. /\ IsFiniteSet(included[s] \cup {x})
        /\ Cardinality(included[s] \cup {x}) = Cardinality(included[s]) + 1
    BY <1>1, <2>1, <2>2, FS_AddElement
  <2>4. /\ nonce' \in [Account -> Nat] /\ nonce'[s] = nonce[s] + 1
        /\ included'[s] = included[s] \cup {x}
        /\ included' = [a \in Account |-> included'[a]]
        /\ \A a \in Account \ {s} : nonce'[a] = nonce[a] /\ included'[a] = included[a]
    <3> HIDE DEF s
    <3>1. DOMAIN included = Account
      BY <2>1
    <3>2. included' = [a \in Account |-> IF a = s THEN included[s] \cup {x} ELSE included[a]]
      BY <1>1, <1>4, <3>1
    <3>3. nonce' \in [Account -> Nat] /\ nonce'[s] = nonce[s] + 1
      BY <1>1, <1>2, <1>4
    <3>4. \A a \in Account \ {s} : nonce'[a] = nonce[a]
      BY <1>1, <1>2, <1>4
    <3>. QED  BY <1>1, <3>2, <3>3, <3>4
  <2>5. \A y \in included'[s] \ {x} : y.nonce < nonce'[s] - 1
    BY <1>1, <1>2, <2>1, <2>4
  <2>6. ASSUME NEW a \in Account
        PROVE  /\ IsFiniteSet(included'[a])
               /\ nonce'[a] = Cardinality(included'[a])
               /\ \A y \in included'[a] : y.nonce \in Nat /\ y.nonce < nonce'[a]
    <3>1. CASE a = s
      <4>1. ASSUME NEW y \in included'[s]
            PROVE  y.nonce \in Nat /\ y.nonce < nonce'[s]
        <5>1. CASE y = x
          BY <1>2, <1>1, <1>4, <2>4, <5>1
        <5>2. CASE y # x
          <6>1. y \in included[s] /\ y.nonce \in Nat /\ y.nonce < nonce[s]
            BY <1>1, <2>1, <2>4, <4>1, <5>2
          <6>. QED  BY <1>1, <1>2, <2>4, <6>1
        <5>. QED  BY <5>1, <5>2
      <4>. QED  BY <1>1, <2>1, <2>3, <2>4, <3>1, <4>1
    <3>2. CASE a # s
      BY <2>1, <2>4, <3>2
    <3>. QED  BY <3>1, <3>2
  <2>. QED  BY <2>4, <2>5, <2>6 DEF NoncesUsed
<1>8. Forgotten'
  <2>1. nonce'[s] # 0 => TotalBalance(balances'[s]) > 0
    BY <1>1, <1>2, <1>3, <1>4
  <2>2. \A a \in Account \ {s} :
          balances'[a] = balances[a] /\ nonce'[a] = nonce[a] /\ included'[a] = included[a]
    <3>1. DOMAIN included = Account
      BY DEF RInv, NoncesUsed
    <3> HIDE DEF s
    <3>. QED  BY <1>1, <1>2, <1>4, <3>1
  <2>3. balances'[s] = acc
    BY <1>1, <1>2, <1>4
  <2>. QED  BY <1>3, <2>2, <2>3 DEF RInv, Forgotten
<1>9. Undoable(x)'
  <2>1. x \in included'[s]
    <3>1. DOMAIN included = Account
      BY DEF RInv, NoncesUsed
    <3>. QED  BY <1>1, <1>4, <3>1
  <2>2. balances'[s] = acc /\ TotalBalance(balances'[s]) > 0
    BY <1>1, <1>2, <1>3, <1>4
  <2>3. [balances' EXCEPT ![s].free = @ + fee] = balances
    <3>1. [balances' EXCEPT ![s].free = @ + fee] = [balances' EXCEPT ![s] = balances[s]]
      BY <1>3, <2>2
    <3>. QED  BY <1>1, <1>2, <1>4, <3>1
  <2>4. [nonce' EXCEPT ![s] = @ - 1] = nonce
    <3> HIDE DEF s
    <3>1. nonce'[s] - 1 = nonce[s]
      BY <1>1, <1>2, <1>4
    <3>. QED  BY <1>1, <1>2, <1>4, <3>1
  <2>5. applying'.before = <<Codes', Storages', balances, nonce>>
    BY <1>4
  <2>. QED  BY <1>7, <2>1, <2>2, <2>3, <2>4, <2>5 DEF Undoable, Unchecked
<1>10. TotalIssuance' + fee = IssuanceBefore'
  <2>1. /\ Issuance(balances) \in Nat
        /\ Issuance(balances') = Issuance(balances) - TotalBalance(balances[s]) + TotalBalance(acc)
    BY <1>1, <1>2, <1>3, <1>4, IssuanceUpdate
  <2>2. IssuanceBefore' = Issuance(balances) /\ TotalIssuance' = Issuance(balances')
    BY <1>4 DEF IssuanceBefore, Issuance, TotalIssuance
  <2>3. TotalBalance(balances[s]) \in Nat
    BY <1>1, <1>2, TotalBalanceType
  <2>. QED  BY <1>1, <1>3, <2>1, <2>2, <2>3
<1>11. Applied'
  BY <1>1, <1>4, <1>9, <1>10 DEF Applied, ExtrinsicOK
<1>. QED  BY <1>4, <1>6, <1>7, <1>8, <1>11 DEF RInv

\* The dispatch may reap any account but the signer of a failure.
LEMMA DispatchStep ==
  ASSUME RInv, Dispatch
  PROVE  RInv'
<1> DEFINE x   == applying.xt
           s   == x.signer
<1>1. /\ applying = [phase |-> "checked", xt |-> x, before |-> applying.before]
      /\ ExtrinsicOK(x) /\ Undoable(x)
      /\ TotalIssuance + Fee[x.call.call] = IssuanceBefore
  BY DEF RInv, Applied, Dispatch, Idle
<1>2. s \in Account /\ x.call \in RuntimeCall /\ Fee[x.call.call] \in Nat
  BY <1>1, CallType
<1>3. /\ DispatchAs(s, x.call)
      /\ applying' = [phase |-> "dispatched", xt |-> x, before |-> applying.before]
      /\ submitted' = submitted
  BY <1>1 DEF Dispatch
<1>4. IInv' /\ TotalIssuance' <= TotalIssuance
  BY <1>2, <1>3, DispatchBurns DEF RInv
<1>5. /\ nonce' = [a \in Account |-> IF TotalBalance(balances'[a]) = 0 THEN 0 ELSE nonce[a]]
      /\ included' = [a \in Account |-> IF TotalBalance(balances'[a]) = 0 THEN {} ELSE included[a]]
  BY DEF Dispatch, RemovesReaped
<1>6. NoncesUsed'
  <2>1. ASSUME NEW a \in Account
        PROVE  /\ nonce'[a] \in Nat /\ IsFiniteSet(included'[a])
               /\ nonce'[a] = Cardinality(included'[a])
               /\ \A y \in included'[a] : y.nonce \in Nat /\ y.nonce < nonce'[a]
    BY <1>5, FS_EmptySet DEF RInv, NoncesUsed
  <2>2. nonce' \in [Account -> Nat] /\ included' = [a \in Account |-> included'[a]]
    BY <1>5, <2>1
  <2>. QED  BY <2>1, <2>2 DEF NoncesUsed
<1>7. Forgotten'
  BY <1>5 DEF Forgotten
<1>8. ASSUME last'.result # "Ok"
      PROVE  Undoable(x)' /\ Refund(x) = 0
  <2>1. UNCHANGED <<Codes, Storages, balances>> /\ Refund(x) = 0
    BY <1>2, <1>3, <1>8, FailureChangesNothing DEF Refund
  <2>2. \A a \in Account : nonce'[a] = nonce[a] /\ included'[a] = included[a]
    BY <1>5, <2>1 DEF RInv, Forgotten
  <2>3. nonce \in [Account -> Nat] /\ nonce' = nonce
    BY <1>5, <2>2 DEF RInv, NoncesUsed
  <2>4. applying'.before = applying.before /\ applying'.xt = applying.xt
    BY <1>3
  <2>5. included'[s] = included[s]
    BY <1>2, <2>2
  <2>. QED  BY <1>1, <2>1, <2>3, <2>4, <2>5 DEF Undoable, Unchecked
<1>9. TotalIssuance' + Refund(x) <= IssuanceBefore'
  <2>1. TotalIssuance \in Nat /\ TotalIssuance' \in Nat
    <3>1. balances \in [Account -> AccountData] /\ balances' \in [Account -> AccountData]
      BY <1>4 DEF RInv, IInv, TypeOK
    <3>2. Issuance(balances) \in Nat /\ Issuance(balances') \in Nat
      BY <3>1, IssuanceType
    <3>. QED  BY <3>2 DEF Issuance, TotalIssuance
  <2>2. Refund(x) \in Nat /\ Refund(x) <= Fee[x.call.call]
    BY <1>2 DEF Refund
  <2>3. IssuanceBefore' = IssuanceBefore
    BY <1>3 DEF IssuanceBefore
  <2>. QED  BY <1>1, <1>2, <1>4, <2>1, <2>2, <2>3
<1>10. Applied' /\ \A y \in submitted' : ExtrinsicOK(y)
  BY <1>1, <1>3, <1>8, <1>9 DEF RInv, Applied, ExtrinsicOK
<1>. QED  BY <1>4, <1>6, <1>7, <1>10 DEF RInv

\* Giving back more or less of a fee: free balance of one account grows.
LEMMA FreeGrows ==
  ASSUME RInv, NEW s \in Account, NEW n \in Nat, TotalBalance(balances[s]) > 0,
         balances' = [balances EXCEPT ![s].free = @ + n],
         UNCHANGED <<Codes, Storages, confiscated>>
  PROVE  IInv' /\ \A a \in Account : TotalBalance(balances'[a]) = 0 <=> TotalBalance(balances[a]) = 0
<1> DEFINE acc == [balances[s] EXCEPT !.free = @ + n]
<1>1. balances \in [Account -> AccountData] /\ NoDust
  BY DEF RInv, IInv, TypeOK
<1>2. /\ acc \in AccountData /\ acc.reserved = balances[s].reserved
      /\ TotalBalance(acc) = TotalBalance(balances[s]) + n
  BY <1>1 DEF AccountData, TotalBalance
<1>3. Alive(acc) /\ TotalBalance(acc) > 0
  BY <1>1, <1>2, TotalBalanceType, BalancesAssumption DEF NoDust, Alive
<1>4. balances' = [balances EXCEPT ![s] = acc]
  OBVIOUS
<1> HIDE DEF acc
<1>5. balances' \in [Account -> AccountData] /\ NoDust'
  BY <1>1, <1>2, <1>3, <1>4 DEF NoDust
<1>6. \A a \in Account : /\ balances'[a].reserved = balances[a].reserved
                        /\ TotalBalance(balances'[a]) = 0 <=> TotalBalance(balances[a]) = 0
  BY <1>1, <1>2, <1>3, <1>4
<1>. QED  BY <1>5, <1>6, FreeStep DEF RInv

\* The fee of sudo is given back to an account that is still there.
LEMMA PostDispatchStep ==
  ASSUME RInv, PostDispatch
  PROVE  RInv'
<1> DEFINE x == applying.xt
<1>1. ExtrinsicOK(x) /\ x.signer \in Account /\ Refund(x) \in Nat
  <2>1. ExtrinsicOK(x)
    BY DEF RInv, Applied, PostDispatch, Idle
  <2>2. Fee["sudo"] \in Nat
    BY RuntimeAssumption DEF CallName
  <2>. QED  BY <2>1, <2>2, CallType DEF Refund
<1>2. /\ applying' = Idle
      /\ UNCHANGED <<Codes, Storages, last, confiscated, nonce, submitted, included>>
  BY DEF PostDispatch
<1>3. IInv' /\ Forgotten'
  <2>1. CASE TotalBalance(balances[x.signer]) = 0
    <3>1. UNCHANGED balances
      BY <2>1 DEF PostDispatch
    <3>2. CodesOK(Codes')
      BY <1>2 DEF RInv, IInv, TypeOK, CodeIdIsHash, CodesOK
    <3>. QED  BY <1>2, <3>1, <3>2, CodesStep DEF RInv, Forgotten
  <2>2. CASE TotalBalance(balances[x.signer]) # 0
    <3>1. balances' = [balances EXCEPT ![x.signer].free = @ + Refund(x)]
      BY <2>2 DEF PostDispatch
    <3>2. TotalBalance(balances[x.signer]) > 0
      BY <1>1, <2>2, TotalBalanceType DEF RInv, IInv, TypeOK
    <3>. QED  BY <1>1, <1>2, <3>1, <3>2, FreeGrows DEF RInv, Forgotten
  <2>. QED  BY <2>1, <2>2
<1>4. NoncesUsed' /\ Applied' /\ \A y \in submitted' : ExtrinsicOK(y)
  BY <1>2 DEF RInv, NoncesUsed, Applied, ExtrinsicOK
<1>. QED  BY <1>3, <1>4 DEF RInv

\* A discarded extrinsic gives its fee and its nonce back: nothing else changed
\* since.
LEMMA UnwindStep ==
  ASSUME RInv, Unwind
  PROVE  RInv'
<1> DEFINE x == applying.xt
           s == x.signer
<1>1. ExtrinsicOK(x) /\ Undoable(x)
  BY DEF RInv, Applied, Unwind, Idle, HostPanic
<1>2. s \in Account /\ Fee[x.call.call] \in Nat
  BY <1>1, CallType
<1>3. /\ nonce' = [nonce EXCEPT ![s] = @ - 1]
      /\ balances' = [balances EXCEPT ![s].free = @ + Fee[x.call.call]]
      /\ included' = [included EXCEPT ![s] = @ \ {x}]
      /\ applying' = Idle
      /\ UNCHANGED <<Codes, Storages, last, confiscated, submitted>>
  BY <1>1 DEF Unwind, Undoable, Unchecked
<1>4. /\ x \in included[s] /\ TotalBalance(balances[s]) > 0
      /\ \A y \in included[s] \ {x} : y.nonce < nonce[s] - 1
  BY <1>1 DEF Undoable
<1> HIDE DEF s, x
<1>5. /\ IInv'
      /\ \A a \in Account : TotalBalance(balances'[a]) = 0 => TotalBalance(balances[a]) = 0
  BY <1>2, <1>3, <1>4, FreeGrows
<1>6. /\ nonce \in [Account -> Nat] /\ DOMAIN included = Account
      /\ \A a \in Account : /\ IsFiniteSet(included[a])
                            /\ nonce[a] = Cardinality(included[a])
                            /\ \A y \in included[a] : y.nonce \in Nat /\ y.nonce < nonce[a]
  BY DEF RInv, NoncesUsed
<1>7. /\ IsFiniteSet(included[s] \ {x})
      /\ Cardinality(included[s] \ {x}) = nonce[s] - 1
      /\ nonce[s] - 1 \in Nat
  <2>1. /\ IsFiniteSet(included[s] \ {x})
        /\ Cardinality(included[s] \ {x}) = Cardinality(included[s]) - 1
    BY <1>2, <1>4, <1>6, FS_RemoveElement
  <2>2. Cardinality(included[s] \ {x}) \in Nat
    BY <2>1, FS_CardinalityType
  <2>. QED  BY <1>2, <1>6, <2>1, <2>2
<1>8. /\ included' = [a \in Account |-> IF a = s THEN included[s] \ {x} ELSE included[a]]
      /\ nonce' = [a \in Account |-> IF a = s THEN nonce[s] - 1 ELSE nonce[a]]
  BY <1>2, <1>3, <1>6
<1>9. NoncesUsed'
  <2>1. ASSUME NEW a \in Account
        PROVE  /\ nonce'[a] \in Nat /\ IsFiniteSet(included'[a])
               /\ nonce'[a] = Cardinality(included'[a])
               /\ \A y \in included'[a] : y.nonce \in Nat /\ y.nonce < nonce'[a]
    <3>1. CASE a = s
      BY <1>2, <1>4, <1>6, <1>7, <1>8, <3>1
    <3>2. CASE a # s
      BY <1>6, <1>8, <3>2
    <3>. QED  BY <3>1, <3>2
  <2>2. nonce' \in [Account -> Nat] /\ included' = [a \in Account |-> included'[a]]
    BY <1>8, <2>1
  <2>. QED  BY <2>1, <2>2 DEF NoncesUsed
<1>10. Forgotten'
  BY <1>4, <1>5, <1>8 DEF RInv, Forgotten
<1>11. Applied' /\ \A y \in submitted' : ExtrinsicOK(y)
  BY <1>3 DEF RInv, Applied, ExtrinsicOK
<1>. QED  BY <1>5, <1>9, <1>10, <1>11 DEF RInv

\* Every step keeps the invariant.
LEMMA RuntimeNextRInv ==
  ASSUME RInv, [RuntimeNext]_runtimeVars
  PROVE  RInv'
<1>1. ASSUME NEW who \in Signer, NEW n \in 0 .. MaxNonce, NEW c \in Calls[who], Submit(who, n, c)
      PROVE  RInv'
  BY <1>1, SubmitStep
<1>2. ASSUME NEW x \in submitted, PreDispatch(x)
      PROVE  RInv'
  BY <1>2, PreDispatchStep
<1>3. ASSUME UNCHANGED runtimeVars
      PROVE  RInv'
  <2>1. CodesOK(Codes') /\ UNCHANGED <<Storages, balances, confiscated>>
    BY <1>3 DEF runtimeVars, vars, RInv, IInv, TypeOK, CodeIdIsHash, CodesOK
  <2>2. IInv'
    BY <2>1, CodesStep DEF RInv
  <2>3. NoncesUsed' /\ Forgotten' /\ \A x \in submitted' : ExtrinsicOK(x)
    BY <1>3 DEF runtimeVars, vars, RInv, NoncesUsed, Forgotten, ExtrinsicOK
  <2>4. Applied'
    BY <1>3 DEF runtimeVars, vars, RInv, Applied, Undoable, Unchecked, TotalIssuance, IssuanceBefore, Refund
  <2>. QED  BY <2>2, <2>3, <2>4 DEF RInv
<1>. QED  BY <1>1, <1>2, <1>3, DispatchStep, PostDispatchStep, UnwindStep DEF RuntimeNext

----------------------------------------------------------------------------
(***************************************************************************)
(* Theorems                                                                *)
(***************************************************************************)

\* The invariant holds in every state the runtime reaches.
THEOREM RuntimeInvariance == RuntimeSpec => []RInv
<1>1. RuntimeInit => RInv
  BY InitRInv
<1>2. RInv /\ [RuntimeNext]_runtimeVars => RInv'
  BY RuntimeNextRInv
<1>. QED  BY <1>1, <1>2, PTL DEF RuntimeSpec

\* CheckNonce lets no extrinsic be applied twice, whatever fails, is refunded
\* or discarded, while its signer exists.
THEOREM NoReplay == RuntimeSpec => []NonceCountsExtrinsics
<1>1. RInv => NonceCountsExtrinsics
  BY DEF RInv, NoncesUsed, NonceCountsExtrinsics
<1>. QED  BY <1>1, RuntimeInvariance, PTL

\* Fees and transfers reach no deposit that covers a stored byte, unless they
\* reap the account, which is counted as a confiscation.
THEOREM DepositsSurviveFees == RuntimeSpec => []DepositsCoverStorage
<1>1. RInv => DepositsCoverStorage
  BY DEF RInv, IInv
<1>. QED  BY <1>1, RuntimeInvariance, PTL

\* No extrinsic, whatever call of the pallet, transfer or refund it brings,
\* creates balance.
THEOREM IssuanceShrinks == RuntimeSpec => []IssuanceNeverGrows
<1>1. ASSUME RInv, applying.phase # "idle"
      PROVE  TotalIssuance + (IF applying.phase = "dispatched" THEN Refund(applying.xt) ELSE 0)
               <= IssuanceBefore
  <2>1. CASE applying.phase = "dispatched"
    BY <1>1, <2>1 DEF RInv, Applied, Idle
  <2>2. CASE applying.phase # "dispatched"
    <3>1. ExtrinsicOK(applying.xt) /\ TotalIssuance + Fee[applying.xt.call.call] = IssuanceBefore
      BY <1>1, <2>2 DEF RInv, Applied, Idle
    <3>2. Fee[applying.xt.call.call] \in Nat
      BY <3>1, CallType
    <3>3. TotalIssuance \in Nat
      BY <1>1, IssuanceType DEF RInv, IInv, TypeOK, Issuance, TotalIssuance
    <3>. QED  BY <2>2, <3>1, <3>2, <3>3
  <2>. QED  BY <2>1, <2>2
<1>2. RInv => IssuanceNeverGrows
  BY <1>1 DEF IssuanceNeverGrows, IssuanceBefore
<1>. QED  BY <1>2, RuntimeInvariance, PTL

\* A failing dispatch has changed nothing of what its checks left, and what
\* follows it gives nothing back.
THEOREM FailureIsCharged == RuntimeSpec => FailureCostsFee
<1> DEFINE x == applying.xt
           Charged ==
             applying.phase = "dispatched" /\ last.result \notin {"Ok", HostPanic} =>
               /\ <<Codes', Storages'>> = <<applying.before[1], applying.before[2]>>
               /\ balances' = [applying.before[3] EXCEPT ![x.signer].free = @ - Fee[x.call.call]]
               /\ nonce' = [applying.before[4] EXCEPT ![x.signer] = @ + 1]
<1>1. ASSUME RInv, RuntimeNext, applying.phase = "dispatched", last.result \notin {"Ok", HostPanic}
      PROVE  Charged
  <2> DEFINE s   == x.signer
             fee == Fee[x.call.call]
  <2>1. Undoable(x) /\ Refund(x) = 0 /\ s \in Account /\ fee \in Nat
    BY <1>1, CallType DEF RInv, Applied, Idle
  <2>2. PostDispatch
    <3>1. applying # Idle
      BY <1>1 DEF Idle
    <3>2. \A y : ~PreDispatch(y)
      BY <3>1 DEF PreDispatch
    <3>3. \A who, n, c : ~Submit(who, n, c)
      BY <3>1 DEF Submit
    <3>4. ~Dispatch /\ ~Unwind
      BY <1>1 DEF Dispatch, Unwind
    <3>. QED  BY <1>1, <3>2, <3>3, <3>4 DEF RuntimeNext
  <2>3. balances \in [Account -> AccountData] /\ nonce \in [Account -> Nat]
    BY <1>1 DEF RInv, IInv, TypeOK, NoncesUsed
  <2>4. PICK f \in Nat, r \in Nat : balances[s] = [free |-> f, reserved |-> r]
    BY <2>1, <2>3 DEF AccountData
  <2>5. UNCHANGED <<Codes, Storages, nonce>>
    BY <2>2 DEF PostDispatch
  <2>6. /\ applying.before[1] = Codes /\ applying.before[2] = Storages
        /\ applying.before[3] = [balances EXCEPT ![s].free = @ + fee]
        /\ applying.before[4] = [nonce EXCEPT ![s] = @ - 1]
    BY <2>1 DEF Undoable, Unchecked
  <2>7. balances' = balances
    <3>1. balances' = [balances EXCEPT ![s].free = @ + 0]
      BY <2>1, <2>2 DEF PostDispatch, Undoable
    <3>. QED  BY <2>1, <2>3, <2>4, <3>1
  <2> HIDE DEF s, fee
  <2>8. [[balances EXCEPT ![s].free = @ + fee] EXCEPT ![s].free = @ - fee] = balances
    <3> DEFINE more == [balances EXCEPT ![s].free = @ + fee]
    <3>1. more[s] = [free |-> f + fee, reserved |-> r] /\ more \in [Account -> AccountData]
      BY <2>1, <2>3, <2>4 DEF AccountData
    <3>2. more = [balances EXCEPT ![s] = more[s]]
      BY <2>1, <2>3
    <3> HIDE DEF more
    <3>3. [more EXCEPT ![s].free = @ - fee] = [more EXCEPT ![s] = [free |-> f, reserved |-> r]]
      <4>1. (f + fee) - fee = f
        BY <2>1, <2>4
      <4>2. [more[s] EXCEPT !.free = @ - fee] = [free |-> f, reserved |-> r]
        BY <3>1, <4>1
      <4>. QED  BY <2>1, <3>1, <4>2
    <3>4. [more EXCEPT ![s] = balances[s]] = balances
      BY <2>1, <2>3, <3>2
    <3>. QED  BY <2>4, <3>3, <3>4 DEF more
  <2>9. [[nonce EXCEPT ![s] = @ - 1] EXCEPT ![s] = @ + 1] = nonce
    <3> DEFINE less == [nonce EXCEPT ![s] = @ - 1]
    <3>1. less[s] + 1 = nonce[s]
      BY <2>1, <2>3
    <3>2. [less EXCEPT ![s] = nonce[s]] = nonce
      BY <2>1, <2>3
    <3> HIDE DEF less
    <3>. QED  BY <3>1, <3>2 DEF less
  <2>10. balances' = [applying.before[3] EXCEPT ![s].free = @ - fee]
    BY <2>6, <2>7, <2>8
  <2>11. nonce' = [applying.before[4] EXCEPT ![s] = @ + 1]
    BY <2>5, <2>6, <2>9
  <2>. QED  BY <2>5, <2>6, <2>10, <2>11 DEF s, fee
<1>2. RInv /\ [RuntimeNext]_runtimeVars => [Charged]_runtimeVars
  BY <1>1
<1>. QED  BY <1>2, RuntimeInvariance, PTL DEF RuntimeSpec, FailureCostsFee

\* Between two states of the chain deposits move as storage does, but for the
\* slash and the reaping of the one who signed.
THEOREM OwnersLoseDeposits == RuntimeSpec => DepositsLostByOwner
<1> DEFINE BySigner(a) ==
             /\ applying.phase = "checked" /\ applying.xt.signer = a
             /\ \/ last'.event.type = "ExceededStorage"
                \/ applying.xt.call.call = "transfer"
           ByOwner == \A a \in Account : DepositsFollow(a, BySigner(a))
<1>1. ASSUME RInv, NEW a \in Account, balances'[a].reserved = balances[a].reserved
      PROVE  DepositsFollow(a, BySigner(a))
  BY <1>1, NothingFollows DEF RInv, IInv, DepositsFollow
<1>2. ASSUME RInv, NEW x, PreDispatch(x) \/ PostDispatch \/ Unwind, NEW a \in Account
      PROVE  balances'[a].reserved = balances[a].reserved
  <2>1. balances \in [Account -> AccountData]
    BY <1>2 DEF RInv, IInv, TypeOK
  <2>2. CASE PreDispatch(x) \/ PostDispatch
    BY <2>1, <2>2 DEF PreDispatch, PostDispatch, AccountData
  <2>3. CASE Unwind
    <3>1. applying.before = Unchecked(applying.xt)
      BY <1>2, <2>3 DEF RInv, Applied, Unwind, Idle, HostPanic, Undoable
    <3>2. balances' = [balances EXCEPT ![applying.xt.signer].free = @ + Fee[applying.xt.call.call]]
      BY <2>3, <3>1 DEF Unwind, Unchecked
    <3>. QED  BY <2>1, <3>2 DEF AccountData
  <2>. QED  BY <1>2, <2>2, <2>3
<1>3. ASSUME RInv, Dispatch, NEW a \in Account
      PROVE  DepositsFollow(a, BySigner(a))
  <2> DEFINE s == applying.xt.signer
             c == applying.xt.call
  <2>1. /\ applying.phase = "checked" /\ s \in Account /\ c \in RuntimeCall
        /\ DispatchAs(s, c)
    BY <1>3, CallType DEF RInv, Applied, Dispatch, Idle
  <2>2. balances \in [Account -> AccountData]
    BY <1>3 DEF RInv, IInv, TypeOK
  <2>3. CASE c.call = "execute_code" /\ ExecuteCode(s, c.id, c.expected, Run(c.id, c.budget))
    <3>1. c.id \in CodeId /\ c.budget \in Budget
      BY <2>1, <2>3 DEF RuntimeCall, PalletCall
    <3>2. c.id \in DOMAIN Codes => Run(c.id, c.budget) \in ExecutionResult
      BY <1>3, <3>1, RunType DEF RInv, IInv
    <3>3. \/ DepositsFollow(a, FALSE)
          \/ /\ a = s
             /\ last'.event = [type |-> "ExceededStorage", code_id |-> c.id, who |-> s]
             /\ DepositsFollow(a, TRUE)
      BY <1>3, <2>1, <2>3, <3>1, <3>2, ExecuteFollows DEF RInv
    <3>4. CASE DepositsFollow(a, FALSE)
      BY <3>4 DEF DepositsFollow
    <3>5. CASE /\ a = s
               /\ last'.event = [type |-> "ExceededStorage", code_id |-> c.id, who |-> s]
               /\ DepositsFollow(a, TRUE)
      <4>1. BySigner(a)
        BY <2>1, <3>5
      <4>. QED  BY <3>5, <4>1 DEF DepositsFollow
    <3>. QED  BY <3>3, <3>4, <3>5
  <2>4. CASE c.call = "transfer" /\ Transfers(s, c.dest, c.value)
    <3> DEFINE less == [balances[s] EXCEPT !.free = @ - c.value]
               acc  == Settled(less)
    <3>1. /\ balances' = [balances EXCEPT ![s] = acc, ![c.dest].free = @ + c.value]
          /\ s # c.dest /\ c.dest \in Account
      BY <2>1, <2>4 DEF Transfers, RuntimeCall, PalletCall
    <3>2. /\ less.reserved = balances[s].reserved
          /\ acc = less \/ (acc.reserved = 0 /\ acc.free = 0)
      BY <2>1, <2>2 DEF AccountData, Settled
    <3> HIDE DEF acc, less
    <3>3. CASE a # s
      <4>1. balances'[a].reserved = balances[a].reserved
        BY <2>1, <2>2, <3>1, <3>3 DEF AccountData
      <4>. QED  BY <1>1, <1>3, <4>1
    <3>4. CASE a = s
      <4>1. balances'[a] = acc
        BY <2>1, <2>2, <3>1, <3>4
      <4>2. CASE acc = less
        BY <1>1, <1>3, <3>2, <3>4, <4>1, <4>2
      <4>3. CASE acc.reserved = 0 /\ acc.free = 0
        <5>1. BySigner(a)
          BY <2>1, <2>4, <3>4
        <5>2. balances[a].reserved \in Nat
          BY <2>2 DEF AccountData
        <5>3. ~(balances'[a].reserved - balances[a].reserved > 0)
          BY <4>1, <4>3, <5>2
        <5>. QED  BY <4>1, <4>3, <5>1, <5>3 DEF DepositsFollow
      <4>. QED  BY <3>2, <4>2, <4>3
    <3>. QED  BY <3>3, <3>4
  <2>5. CASE UNCHANGED balances
    BY <1>1, <1>3, <2>5
  <2>6. CASE c.call = "transfer" /\ Transfer(s, c.dest, c.value)
    BY <2>4, <2>5, <2>6 DEF Transfer, TransferFails, TransferNothing, Fails
  <2>. QED  BY <2>1, <2>3, <2>5, <2>6 DEF DispatchAs, UploadCode, RejectOrigin, Sudo, DispatchAsRoot,
                 DeleteCode, UpdateCode, Fails
<1>4. ASSUME RInv, RuntimeNext
      PROVE  ByOwner
  <2>1. ASSUME NEW a \in Account
        PROVE  DepositsFollow(a, BySigner(a))
    <3>1. CASE Dispatch
      BY <1>3, <1>4, <2>1, <3>1
    <3>2. CASE \E x \in submitted : PreDispatch(x)
      BY <1>1, <1>2, <1>4, <2>1, <3>2
    <3>3. CASE PostDispatch \/ Unwind
      BY <1>1, <1>2, <1>4, <2>1, <3>3
    <3>4. CASE \E who \in Signer, n \in 0 .. MaxNonce : \E c \in Calls[who] : Submit(who, n, c)
      <4>1. UNCHANGED balances
        BY <3>4 DEF Submit, vars
      <4>. QED  BY <1>1, <1>4, <2>1, <4>1
    <3>. QED  BY <1>4, <3>1, <3>2, <3>3, <3>4 DEF RuntimeNext
  <2>. QED  BY <2>1
<1>5. RInv /\ [RuntimeNext]_runtimeVars => [ByOwner]_runtimeVars
  BY <1>4
<1>. QED  BY <1>5, RuntimeInvariance, PTL DEF RuntimeSpec, DepositsLostByOwner

\* delete_code and update_code reach a code through sudo alone.
THEOREM SudoRemovesCode == RuntimeSpec => OnlySudoRemovesCode
<1> DEFINE BySudo == \A id \in DOMAIN Codes : id \notin DOMAIN Codes' => applying.xt.signer = SudoKey
<1>1. ASSUME NEW who, NEW c, DispatchAs(who, c), who # SudoKey
      PROVE  DOMAIN Codes \subseteq DOMAIN Codes'
  <2>1. CASE c.call = "execute_code" /\ ExecuteCode(who, c.id, c.expected, Run(c.id, c.budget))
    BY <2>1 DEF ExecuteCode, ExecuteMissingCode, ExecutionFails, ExecutionExceeds, DepositFails,
                DecodeFails, ExecutionCommits, Fails
  <2>2. CASE c.call = "transfer" /\ Transfer(who, c.dest, c.value)
    BY <2>2 DEF Transfer, Transfers, TransferFails, TransferNothing, Fails
  <2>. QED  BY <1>1, <2>1, <2>2 DEF DispatchAs, UploadCode, Inserted, RejectOrigin, Fails, Sudo
<1>2. ASSUME RInv, RuntimeNext
      PROVE  BySudo
  <2>1. CASE Dispatch
    BY <1>1, <2>1 DEF Dispatch
  <2>2. CASE Unwind
    <3>1. applying.before = Unchecked(applying.xt)
      BY <1>2, <2>2 DEF RInv, Applied, Unwind, Idle, HostPanic, Undoable
    <3>2. Codes' = Codes
      BY <2>2, <3>1 DEF Unwind, Unchecked
    <3>. QED  BY <3>2
  <2>. QED  BY <1>2, <2>1, <2>2 DEF RuntimeNext, Submit, PreDispatch, PostDispatch, vars
<1>3. RInv /\ [RuntimeNext]_runtimeVars => [BySudo]_runtimeVars
  BY <1>2
<1>. QED  BY <1>3, RuntimeInvariance, PTL DEF RuntimeSpec, OnlySudoRemovesCode

\* execute_code slashes no caller whose declaration covers what the kontract
\* does on the storage it saw, as long as that is still the storage.
THEOREM SlashNeedsChange == RuntimeSpec => SlashedOnlyIfStale
<1> DEFINE x   == applying.xt
           run == HostExecute(Codes[x.call.id], x.seen, x.call.budget)
           Justified ==
             \/ Storages[x.call.id] # x.seen
             \/ EntriesSize[run.storage] - EntriesSize[x.seen] > x.call.expected
           OnlyIfStale ==
             applying.phase = "checked" /\ last'.event.type = "ExceededStorage" => Justified
<1>1. ASSUME RInv, RuntimeNext, applying.phase = "checked", last'.event.type = "ExceededStorage",
             Storages[x.call.id] = x.seen
      PROVE  EntriesSize[run.storage] - EntriesSize[x.seen] > x.call.expected
  <2> DEFINE c == x.call
  <2>1. ExtrinsicOK(x) /\ c \in RuntimeCall
    BY <1>1, CallType DEF RInv, Applied, Idle
  <2>2. Dispatch
    <3>1. applying # Idle
      BY <1>1 DEF Idle
    <3>2. \A y : ~PreDispatch(y)
      BY <3>1 DEF PreDispatch
    <3>3. \A who, n, d : ~Submit(who, n, d)
      BY <3>1 DEF Submit
    <3>4. ~PostDispatch /\ ~Unwind
      BY <1>1 DEF PostDispatch, Unwind
    <3>. QED  BY <1>1, <3>2, <3>3, <3>4 DEF RuntimeNext
  <2>3. DispatchAs(x.signer, c)
    BY <2>2 DEF Dispatch
  <2>4. c.call = "execute_code" /\ ExecuteCode(x.signer, c.id, c.expected, Run(c.id, c.budget))
    BY <1>1, <2>3 DEF DispatchAs, UploadCode, DeleteCode, UpdateCode, RejectOrigin, Sudo, DispatchAsRoot,
       Transfer, Transfers, TransferFails, TransferNothing, Fails, Deposits
  <2>5. ExecutionExceeds(x.signer, c.id, c.expected, Run(c.id, c.budget))
    BY <1>1, <2>4 DEF ExecuteCode, ExecuteMissingCode, ExecutionFails, DepositFails,
       DecodeFails, ExecutionCommits, Fails, Deposits
  <2>6. c.id \in CodeId /\ c.expected \in Declared /\ c.budget \in Budget
    BY <2>1, <2>4 DEF RuntimeCall, PalletCall
  <2>7. c.expected \in Int /\ c.expected < HalfWord
    <3>1. Declared \subseteq -HalfWord .. HalfWord - 1
      BY KontractsAssumption
    <3>2. HalfWord \in Int
      BY WordType
    <3>3. c.expected \in -HalfWord .. HalfWord - 1
      BY <2>6, <3>1
    <3> HIDE DEF c
    <3>. QED  BY <3>2, <3>3
  <2>8. /\ run = Run(c.id, c.budget) /\ run.storage \in Storage
        /\ Storages[c.id] \in Storage /\ Decodable(Storages[c.id])
    <3>1. run = Run(c.id, c.budget)
      BY <1>1 DEF Run
    <3>2. run \in ExecutionResult /\ run.ok
      BY <1>1, <2>5, <2>6, <3>1, RunType DEF ExecutionExceeds, RInv, IInv
    <3>. QED  BY <1>1, <2>6, <3>1, <3>2, ResultStorage DEF RInv, IInv, TypeOK, StoredIsDecodable
  <2> HIDE DEF run
  <2>9. /\ StorageSize(Storages[c.id]) = EntriesSize[x.seen]
        /\ EntriesSize[x.seen] \in Nat /\ EntriesSize[x.seen] < HalfWord
        /\ EntriesSize[run.storage] \in Nat
    BY <1>1, <2>8, StorageSizeExact, EntriesSizeType
  <2>10. I32(I32(EntriesSize[run.storage]) - EntriesSize[x.seen]) > c.expected
    <3>1. Variation(c.id, run) = I32(I32(EntriesSize[run.storage]) - EntriesSize[x.seen])
      BY <2>9 DEF Variation, StorageSize
    <3>2. Variation(c.id, run) \in Int
      BY <2>9, <3>1, I32Type
    <3>3. ~(Variation(c.id, run) <= c.expected)
      BY <2>5, <2>8 DEF ExecutionExceeds, Expects
    <3>. QED  BY <2>7, <3>1, <3>2, <3>3
  <2>. QED  BY <2>7, <2>9, <2>10, DifferenceExceeds
<1>2. RInv /\ [RuntimeNext]_runtimeVars => [OnlyIfStale]_runtimeVars
  BY <1>1
<1>. QED  BY <1>2, RuntimeInvariance, PTL DEF RuntimeSpec, SlashedOnlyIfStale
=============================================================================
