-------------------------- MODULE KontractsProofs --------------------------
(***************************************************************************)
(* What holds of the pallet whatever kontracts compute, whoever calls them *)
(* and whatever the bounds of the runtime.                                 *)
(***************************************************************************)
EXTENDS Kontracts, FunctionSumsProofs, MachineIntegersProofs

----------------------------------------------------------------------------
(***************************************************************************)
(* Sizes                                                                   *)
(***************************************************************************)

\* The sizes of an entry and of a storage are natural numbers.
LEMMA EntrySizeType ==
  ASSUME NEW v \in Value
  PROVE  EntrySize(v) \in Nat
<1>1. \A n \in Nat : CompactLength(n) \in Nat
  BY DEF CompactLength
<1>2. HashLength \in Nat /\ Length[v] \in Nat
  BY StorageAssumption DEF HashLength
<1>3. EncodedLength(HashLength) \in Nat /\ EncodedLength(Length[v]) \in Nat
  BY <1>1, <1>2 DEF EncodedLength
<1>. QED  BY <1>3 DEF EntrySize

LEMMA EntriesSizeType ==
  ASSUME NEW s \in Storage
  PROVE  EntriesSize[s] \in Nat
<1> DEFINE f == [k \in DOMAIN s |-> EntrySize(s[k])]
<1>1. DOMAIN s \subseteq Key /\ \A k \in DOMAIN s : s[k] \in Value
  BY DEF Storage
<1>2. IsFiniteSet(DOMAIN s)
  BY <1>1, StorageAssumption, FS_Subset
<1>3. f \in [DOMAIN s -> Nat]
  BY <1>1, EntrySizeType
<1>4. Total(f) \in Nat
  BY <1>2, <1>3, TotalType
<1>. QED  BY <1>4 DEF EntriesSize

\* A kontract starts with an empty storage, which takes no byte and is within
\* the bounds.
LEMMA EmptyStorageFacts ==
  /\ EmptyStorage \in Storage
  /\ EntriesSize[EmptyStorage] = 0
  /\ Decodable(EmptyStorage)
<1>1. EmptyStorage \in [{} -> Value] /\ DOMAIN EmptyStorage = {}
  BY DEF EmptyStorage
<1>2. EmptyStorage \in Storage
  BY <1>1 DEF Storage
<1>3. Cardinality({}) = 0
  BY FS_EmptySet
<1>4. Units([k \in DOMAIN EmptyStorage |-> EntrySize(EmptyStorage[k])]) = {}
  BY <1>1 DEF Units
<1>5. EntriesSize[EmptyStorage] = 0
  BY <1>2, <1>3, <1>4 DEF EntriesSize, Total
<1>6. Decodable(EmptyStorage)
  BY <1>1, <1>3, StorageAssumption DEF Decodable
<1>. QED  BY <1>2, <1>5, <1>6

\* The size the pallet computes of a storage within the bounds is its size.
LEMMA StorageSizeExact ==
  ASSUME NEW s \in Storage, Decodable(s)
  PROVE  /\ StorageSize(s) = EntriesSize[s]
         /\ EntriesSize[s] \in Nat /\ EntriesSize[s] < HalfWord
<1>1. EntriesSize[s] \in Nat /\ EntriesSize[s] < HalfWord
  BY EntriesSizeType, BoundsAssumption
<1>. QED  BY <1>1, I32Exact, WordType DEF StorageSize

----------------------------------------------------------------------------
(***************************************************************************)
(* One account                                                             *)
(***************************************************************************)

\* Reserving moves the amount, and neither reaps nor creates anything.
LEMMA ReserveMoves ==
  ASSUME NEW acc \in AccountData, Alive(acc),
         NEW amount \in Nat, CanReserve(acc, amount)
  PROVE  /\ Reserved(acc, amount) =
              [free |-> acc.free - amount, reserved |-> acc.reserved + amount]
         /\ Reserved(acc, amount) \in AccountData
         /\ TotalBalance(Reserved(acc, amount)) = TotalBalance(acc)
<1> DEFINE new == [free |-> acc.free - amount, reserved |-> acc.reserved + amount]
<1>1. new \in AccountData /\ TotalBalance(new) = TotalBalance(acc)
  BY DEF AccountData, CanReserve, TotalBalance
<1>2. Settled(new) = new
  BY <1>1, BalancesAssumption DEF Settled, Alive, AccountData, TotalBalance
<1>. QED  BY <1>1, <1>2 DEF Reserved

\* Unreserving moves the amount or all that is reserved.
LEMMA UnreserveMoves ==
  ASSUME NEW acc \in AccountData, Alive(acc), NEW amount \in Nat
  PROVE  /\ Unreserved(acc, amount) \in AccountData
         /\ TotalBalance(Unreserved(acc, amount)) = TotalBalance(acc)
         /\ Unreserved(acc, amount).reserved >= acc.reserved - amount
         /\ Unreserved(acc, amount).reserved <= acc.reserved
<1> DEFINE actual == Smaller(acc.reserved, amount)
           new == [free |-> acc.free + actual, reserved |-> acc.reserved - actual]
<1>1. actual \in Nat /\ actual <= acc.reserved /\ actual <= amount
  BY DEF AccountData, Smaller
<1> HIDE DEF actual
<1>2. new \in AccountData /\ TotalBalance(new) = TotalBalance(acc)
  BY <1>1 DEF AccountData, TotalBalance
<1>3. Settled(new) = new
  BY <1>2, BalancesAssumption DEF Settled, Alive, AccountData, TotalBalance
<1>4. new.reserved >= acc.reserved - amount /\ new.reserved <= acc.reserved
  BY <1>1 DEF AccountData
<1>. QED  BY <1>2, <1>3, <1>4 DEF Unreserved, actual

\* A slash leaves the account empty or alive, with no more reserved, and with
\* less of it only when nothing free is left.
LEMMA SlashTakes ==
  ASSUME NEW acc \in AccountData, NEW amount \in Nat
  PROVE  /\ Slashed(acc, amount) \in AccountData
         /\ Alive(Slashed(acc, amount))
         /\ Slashed(acc, amount).reserved <= acc.reserved
         /\ Slashed(acc, amount).reserved < acc.reserved => Slashed(acc, amount).free = 0
         /\ TotalBalance(Slashed(acc, amount)) <= TotalBalance(acc)
<1> DEFINE fromFree     == Smaller(acc.free, amount)
           fromReserved == Smaller(acc.reserved, amount - fromFree)
           new == [free |-> acc.free - fromFree, reserved |-> acc.reserved - fromReserved]
<1>1. /\ fromFree \in Nat /\ fromFree <= acc.free /\ fromFree <= amount
      /\ fromFree = acc.free \/ fromFree = amount
  BY DEF AccountData, Smaller
<1> HIDE DEF fromFree
<1>2. /\ fromReserved \in Nat /\ fromReserved <= acc.reserved
      /\ fromFree = amount => fromReserved = 0
  BY <1>1 DEF AccountData, Smaller
<1> HIDE DEF fromReserved
<1>3. /\ new \in AccountData /\ new.reserved <= acc.reserved
      /\ new.reserved < acc.reserved => new.free = 0
      /\ TotalBalance(new) <= TotalBalance(acc)
  BY <1>1, <1>2 DEF AccountData, TotalBalance
<1>4. Slashed(acc, amount) = Settled(new)
  BY DEF Slashed, fromFree, fromReserved
<1> HIDE DEF new
<1>5. /\ Settled(new) \in AccountData
      /\ Settled(new) = new \/ Settled(new).free = 0
      /\ Settled(new).reserved <= new.reserved
      /\ Alive(Settled(new))
      /\ TotalBalance(Settled(new)) <= TotalBalance(new)
  BY <1>3, BalancesAssumption DEF Settled, Alive, AccountData, TotalBalance
<1>. QED  BY <1>3, <1>4, <1>5 DEF AccountData, TotalBalance

----------------------------------------------------------------------------
(***************************************************************************)
(* The inductive invariant                                                 *)
(***************************************************************************)

IInv ==
  /\ TypeOK
  /\ CodeIdIsHash
  /\ StoredIsDecodable
  /\ NoDust
  /\ DepositsCoverStorage

\* The executor returns a result for the code that is uploaded.
LEMMA RunType ==
  ASSUME TypeOK, NEW id \in DOMAIN Codes, NEW budget \in Budget
  PROVE  Run(id, budget) \in ExecutionResult
<1>1. Codes[id] \in Binary /\ id \in CodeId /\ Storages[id] \in Storage
  BY DEF TypeOK
<1>. QED  BY <1>1, KontractsAssumption DEF Run

\* A result without error carries a storage.
LEMMA ResultStorage ==
  ASSUME NEW run \in ExecutionResult, run.ok
  PROVE  run.storage \in Storage
BY DEF ExecutionResult

\* The deposit settled for a variation that fits: exactly the growth moves
\* from free to reserved, or at most what was freed moves back.
LEMMA DepositMoves ==
  ASSUME NEW acc \in AccountData, Alive(acc),
         NEW x \in Int, -HalfWord < x, x < HalfWord, CanSettle(acc, x)
  PROVE  /\ DepositSettled(acc, x) \in AccountData
         /\ Alive(DepositSettled(acc, x))
         /\ TotalBalance(DepositSettled(acc, x)) = TotalBalance(acc)
         /\ DepositSettled(acc, x).reserved >= acc.reserved + x
         /\ x <= 0 => DepositSettled(acc, x).reserved <= acc.reserved
         /\ x > 0 => DepositSettled(acc, x) =
                       [free |-> acc.free - x, reserved |-> acc.reserved + x]
<1>1. HalfWord \in Nat /\ Word \in Nat /\ HalfWord < Word
  BY WordType
<1>2. CASE x < 0
  <2>1. -x \in Nat /\ -HalfWord <= -x /\ -x < HalfWord
    BY <1>1, <1>2
  <2>2. U32(I32(-x)) = -x
    BY <1>1, <2>1, I32Exact, U32Exact
  <2>3. DepositSettled(acc, x) = Unreserved(acc, -x)
    BY <1>2, <2>2 DEF DepositSettled
  <2>4. acc.reserved - (-x) = acc.reserved + x
    BY DEF AccountData
  <2>. QED  BY <1>2, <2>1, <2>3, <2>4, UnreserveMoves DEF Alive
<1>3. CASE x >= 0
  <2>1. x \in Nat /\ U32(x) = x
    BY <1>1, <1>3, U32Exact
  <2>2. CanReserve(acc, x)
    BY <1>3, <2>1 DEF CanSettle, CanReserve, AccountData
  <2>3. DepositSettled(acc, x) = Reserved(acc, x)
    BY <1>3, <2>1 DEF DepositSettled
  <2>. QED  BY <1>3, <2>1, <2>2, <2>3, ReserveMoves DEF Alive, AccountData
<1>. QED  BY <1>2, <1>3

\* What a committed execution changes: one storage within the bounds, and the
\* account of the caller, whose reserved balance follows the storage.
LEMMA CommitMoves ==
  ASSUME TypeOK, StoredIsDecodable, NoDust,
         NEW who \in Account, NEW id \in CodeId, NEW expected,
         NEW run \in ExecutionResult, ExecutionCommits(who, id, expected, run)
  PROVE  \E new \in Storage, acc \in AccountData :
           LET growth == EntriesSize[new] - EntriesSize[Storages[id]]
           IN  /\ Decodable(new) /\ Storages' = [Storages EXCEPT ![id] = new]
               /\ Alive(acc) /\ balances' = [balances EXCEPT ![who] = acc]
               /\ TotalBalance(acc) = TotalBalance(balances[who])
               /\ acc.reserved >= balances[who].reserved + growth
               /\ growth <= 0 => acc.reserved <= balances[who].reserved
               /\ growth > 0 => acc = [free |-> balances[who].free - growth,
                                       reserved |-> balances[who].reserved + growth]
<1> DEFINE new == run.storage
           old == Storages[id]
           x   == Variation(id, run)
           acc == DepositSettled(balances[who], x)
<1>1. new \in Storage /\ Decodable(new)
  BY ResultStorage DEF ExecutionCommits
<1>2. old \in Storage /\ Decodable(old) /\ balances[who] \in AccountData /\ Alive(balances[who])
  BY DEF TypeOK, StoredIsDecodable, NoDust
<1>3. /\ CanSettle(balances[who], x)
      /\ balances' = [balances EXCEPT ![who] = acc]
      /\ Storages' = [Storages EXCEPT ![id] = new]
  BY DEF ExecutionCommits
<1>4. x = I32(StorageSize(new) - StorageSize(old))
  BY DEF Variation
<1> HIDE DEF new, old, x
<1>5. /\ x = EntriesSize[new] - EntriesSize[old]
      /\ x \in Int /\ -HalfWord < x /\ x < HalfWord
  <2>1. /\ StorageSize(new) \in Nat /\ StorageSize(new) < HalfWord
        /\ StorageSize(old) \in Nat /\ StorageSize(old) < HalfWord
        /\ StorageSize(new) = EntriesSize[new] /\ StorageSize(old) = EntriesSize[old]
    BY <1>1, <1>2, StorageSizeExact
  <2>. QED  BY <1>4, <2>1, WordType, I32Exact
<1>6. /\ acc \in AccountData /\ Alive(acc)
      /\ TotalBalance(acc) = TotalBalance(balances[who])
      /\ acc.reserved >= balances[who].reserved + x
      /\ x <= 0 => acc.reserved <= balances[who].reserved
      /\ x > 0 => acc = [free |-> balances[who].free - x, reserved |-> balances[who].reserved + x]
  BY <1>2, <1>3, <1>5, DepositMoves
<1> HIDE DEF acc
<1>. QED  BY <1>1, <1>3, <1>5, <1>6 DEF old

\* Uploading and removing keep every binary under its identifier.
CodesOK(codes) ==
  /\ codes \in UNION {[C -> Binary] : C \in SUBSET CodeId}
  /\ \A id \in DOMAIN codes : Hash[codes[id]] = id

LEMMA InsertedCode ==
  ASSUME NEW codes, CodesOK(codes), NEW code \in Binary
  PROVE  CodesOK(Inserted(codes, Hash[code], code))
<1> DEFINE new == Inserted(codes, Hash[code], code)
<1>1. Hash[code] \in CodeId
  BY KontractsAssumption
<1>2. /\ DOMAIN codes \subseteq CodeId
      /\ \A id \in DOMAIN codes : codes[id] \in Binary /\ Hash[codes[id]] = id
  BY DEF CodesOK
<1>3. /\ DOMAIN new \subseteq CodeId
      /\ new \in [DOMAIN new -> Binary]
      /\ \A id \in DOMAIN new : Hash[new[id]] = id
  BY <1>1, <1>2 DEF Inserted
<1>. QED  BY <1>3 DEF CodesOK

LEMMA RemovedCode ==
  ASSUME NEW codes, CodesOK(codes), NEW old
  PROVE  CodesOK(Removed(codes, old))
<1> DEFINE new == Removed(codes, old)
<1>1. /\ DOMAIN codes \subseteq CodeId
      /\ \A id \in DOMAIN codes : codes[id] \in Binary /\ Hash[codes[id]] = id
  BY DEF CodesOK
<1>2. /\ DOMAIN new \subseteq CodeId
      /\ new \in [DOMAIN new -> Binary]
      /\ \A id \in DOMAIN new : Hash[new[id]] = id
  BY <1>1 DEF Removed
<1>. QED  BY <1>2 DEF CodesOK

\* One storage changes: the bytes stored change by as much.
LEMMA BytesUpdate ==
  ASSUME TypeOK, NEW id \in CodeId, NEW new \in Storage,
         Storages' = [Storages EXCEPT ![id] = new]
  PROVE  /\ BytesStored \in Nat
         /\ BytesStored' = BytesStored - EntriesSize[Storages[id]] + EntriesSize[new]
<1> DEFINE f == [i \in CodeId |-> EntriesSize[Storages[i]]]
<1>1. IsFiniteSet(CodeId) /\ Storages \in [CodeId -> Storage]
  BY KontractsAssumption DEF TypeOK
<1>2. f \in [CodeId -> Nat] /\ EntriesSize[new] \in Nat
  BY <1>1, EntriesSizeType
<1>3. [i \in CodeId |-> EntriesSize[Storages'[i]]] = [f EXCEPT ![id] = EntriesSize[new]]
  BY <1>1
<1>4. BytesStored = Total(f) /\ BytesStored' = Total([f EXCEPT ![id] = EntriesSize[new]])
  BY <1>3 DEF BytesStored
<1>5. f[id] = EntriesSize[Storages[id]]
  OBVIOUS
<1> HIDE DEF f
<1>6. Total(f) \in Nat
  BY <1>1, <1>2, TotalType
<1>7. Total([f EXCEPT ![id] = EntriesSize[new]]) = Total(f) - f[id] + EntriesSize[new]
  BY <1>1, <1>2, TotalUpdate
<1>. QED  BY <1>4, <1>5, <1>6, <1>7

\* One account changes: the balance reserved changes by as much.
LEMMA ReservedUpdate ==
  ASSUME TypeOK, NEW who \in Account, NEW acc \in AccountData,
         balances' = [balances EXCEPT ![who] = acc]
  PROVE  /\ TotalReserved \in Nat
         /\ TotalReserved' = TotalReserved - balances[who].reserved + acc.reserved
<1> DEFINE f == [a \in Account |-> balances[a].reserved]
<1>1. IsFiniteSet(Account) /\ balances \in [Account -> AccountData]
  BY KontractsAssumption DEF TypeOK
<1>2. f \in [Account -> Nat] /\ acc.reserved \in Nat
  BY <1>1 DEF AccountData
<1>3. [a \in Account |-> balances'[a].reserved] = [f EXCEPT ![who] = acc.reserved]
  BY <1>1
<1>4. TotalReserved = Total(f) /\ TotalReserved' = Total([f EXCEPT ![who] = acc.reserved])
  BY <1>3 DEF TotalReserved
<1>5. f[who] = balances[who].reserved
  OBVIOUS
<1> HIDE DEF f
<1>6. Total(f) \in Nat
  BY <1>1, <1>2, TotalType
<1>7. Total([f EXCEPT ![who] = acc.reserved]) = Total(f) - f[who] + acc.reserved
  BY <1>1, <1>2, TotalUpdate
<1>. QED  BY <1>4, <1>5, <1>6, <1>7

----------------------------------------------------------------------------
(***************************************************************************)
(* Initial states and steps                                                *)
(***************************************************************************)

\* The genesis stores nothing and reserves nothing.
LEMMA InitIInv ==
  ASSUME Init
  PROVE  IInv
<1>1. CodesOK(Codes)
  <2>1. Codes \in [{} -> Binary] /\ DOMAIN Codes = {}
    BY DEF Init
  <2>. QED  BY <2>1 DEF CodesOK
<1>2. Storages \in [CodeId -> Storage] /\ StoredIsDecodable
  BY EmptyStorageFacts DEF Init, StoredIsDecodable
<1>3. balances \in [Account -> AccountData] /\ NoDust
  <2>1. balances \in InitialBalances
    BY DEF Init
  <2>2. balances \in [Account -> AccountData]
    BY <2>1, GenesisAssumption
  <2>3. ASSUME NEW a \in Account
        PROVE  Alive(balances[a])
    <3>1. balances[a] \in AccountData /\ balances[a].reserved = 0
      BY <2>1, <2>2, GenesisAssumption
    <3>2. balances[a].free = 0 \/ balances[a].free >= ExistentialDeposit
      BY <2>1, GenesisAssumption
    <3>. QED  BY <3>1, <3>2 DEF Alive, TotalBalance, AccountData
  <2>. QED  BY <2>2, <2>3 DEF NoDust
<1>4. TypeOK /\ CodeIdIsHash
  BY <1>1, <1>2, <1>3 DEF CodesOK, TypeOK, CodeIdIsHash, Init
<1>5. DepositsCoverStorage
  <2>1. BytesStored = 0
    <3>1. [id \in CodeId |-> EntriesSize[Storages[id]]] = [id \in CodeId |-> 0]
      BY EmptyStorageFacts DEF Init
    <3>2. Units([id \in CodeId |-> 0]) = {}
      BY DEF Units, Column
    <3>. QED  BY <3>1, <3>2, FS_EmptySet DEF BytesStored, Total
  <2>2. TotalReserved \in Nat
    <3>1. [a \in Account |-> balances[a].reserved] \in [Account -> Nat]
      BY <1>3 DEF AccountData
    <3>. QED  BY <3>1, KontractsAssumption, TotalType DEF TotalReserved
  <2>. QED  BY <2>1, <2>2 DEF DepositsCoverStorage, Init
<1>. QED  BY <1>2, <1>3, <1>4, <1>5 DEF IInv

\* A step that leaves storages, accounts and confiscations alone keeps the
\* invariant when it keeps the binaries under their identifiers.
LEMMA CodesStep ==
  ASSUME IInv, CodesOK(Codes'), UNCHANGED <<Storages, balances, confiscated>>
  PROVE  IInv'
<1>1. TypeOK' /\ CodeIdIsHash'
  BY DEF IInv, TypeOK, CodeIdIsHash, CodesOK
<1>2. StoredIsDecodable' /\ NoDust'
  BY DEF IInv, StoredIsDecodable, NoDust
<1>3. BytesStored' = BytesStored /\ TotalReserved' = TotalReserved
  BY DEF BytesStored, TotalReserved
<1>. QED  BY <1>1, <1>2, <1>3 DEF IInv, DepositsCoverStorage

\* A slash moves reserved balance to the confiscations.
LEMMA ExceedsStep ==
  ASSUME IInv,
         NEW who \in Account, NEW id \in CodeId, NEW expected,
         NEW run \in ExecutionResult, ExecutionExceeds(who, id, expected, run)
  PROVE  IInv'
<1> DEFINE amount == U32(Variation(id, run))
           acc    == Slashed(balances[who], amount)
<1>1. /\ balances' = [balances EXCEPT ![who] = acc]
      /\ confiscated' = confiscated + balances[who].reserved - acc.reserved
      /\ UNCHANGED <<Codes, Storages>>
  BY DEF ExecutionExceeds
<1>2. /\ balances \in [Account -> AccountData] /\ confiscated \in Nat
      /\ Storages \in [CodeId -> Storage]
  BY DEF IInv, TypeOK
<1>3. amount \in Nat
  <2>1. run.storage \in Storage
    BY ResultStorage DEF ExecutionExceeds, IInv
  <2>2. StorageSize(run.storage) \in Int /\ StorageSize(Storages[id]) \in Int
    BY <1>2, <2>1, EntriesSizeType, I32Type DEF StorageSize
  <2>. QED  BY <2>2, I32Type, U32Type DEF Variation
<1> HIDE DEF amount
<1>4. acc \in AccountData /\ Alive(acc) /\ acc.reserved <= balances[who].reserved
  BY <1>2, <1>3, SlashTakes
<1> HIDE DEF acc
<1>5. TypeOK'
  BY <1>1, <1>2, <1>4 DEF IInv, TypeOK, AccountData
<1>6. CodeIdIsHash' /\ StoredIsDecodable'
  BY <1>1 DEF IInv, CodeIdIsHash, StoredIsDecodable
<1>7. NoDust'
  BY <1>1, <1>2, <1>4 DEF IInv, NoDust
<1>8. DepositsCoverStorage'
  <2>1. BytesStored' = BytesStored
    BY <1>1 DEF BytesStored
  <2>2. /\ TotalReserved \in Nat
        /\ TotalReserved' = TotalReserved - balances[who].reserved + acc.reserved
    BY <1>1, <1>4, ReservedUpdate DEF IInv
  <2>3. TotalReserved' + confiscated' = TotalReserved + confiscated
    BY <1>1, <1>2, <1>4, <2>2 DEF AccountData
  <2>. QED  BY <2>1, <2>3 DEF IInv, DepositsCoverStorage
<1>. QED  BY <1>5, <1>6, <1>7, <1>8 DEF IInv

\* A commit moves the deposit before it keeps the bytes it is for.
LEMMA CommitStep ==
  ASSUME IInv,
         NEW who \in Account, NEW id \in CodeId, NEW expected,
         NEW run \in ExecutionResult, ExecutionCommits(who, id, expected, run)
  PROVE  IInv'
<1>1. /\ balances \in [Account -> AccountData] /\ confiscated \in Nat
      /\ Storages \in [CodeId -> Storage]
  BY DEF IInv, TypeOK
<1>2. PICK new \in Storage, acc \in AccountData :
        LET growth == EntriesSize[new] - EntriesSize[Storages[id]]
        IN  /\ Decodable(new) /\ Storages' = [Storages EXCEPT ![id] = new]
            /\ Alive(acc) /\ balances' = [balances EXCEPT ![who] = acc]
            /\ acc.reserved >= balances[who].reserved + growth
  BY CommitMoves DEF IInv
<1>3. UNCHANGED <<Codes, confiscated>>
  BY DEF ExecutionCommits
<1>4. TypeOK' /\ CodeIdIsHash'
  BY <1>1, <1>2, <1>3 DEF IInv, TypeOK, CodeIdIsHash
<1>5. StoredIsDecodable' /\ NoDust'
  BY <1>1, <1>2 DEF IInv, StoredIsDecodable, NoDust
<1>6. DepositsCoverStorage'
  <2>1. /\ BytesStored \in Nat
        /\ BytesStored' = BytesStored - EntriesSize[Storages[id]] + EntriesSize[new]
    BY <1>2, BytesUpdate DEF IInv
  <2>2. /\ TotalReserved \in Nat
        /\ TotalReserved' = TotalReserved - balances[who].reserved + acc.reserved
    BY <1>2, ReservedUpdate DEF IInv
  <2>3. EntriesSize[new] \in Nat /\ EntriesSize[Storages[id]] \in Nat
    BY <1>1, EntriesSizeType
  <2>4. balances[who].reserved \in Nat /\ acc.reserved \in Nat
    BY <1>1 DEF AccountData
  <2>5. BytesStored <= TotalReserved + confiscated
    BY DEF IInv, DepositsCoverStorage
  <2>6. acc.reserved >= balances[who].reserved + (EntriesSize[new] - EntriesSize[Storages[id]])
    BY <1>2
  <2>7. BytesStored' <= TotalReserved' + confiscated'
    BY <1>1, <1>3, <2>1, <2>2, <2>3, <2>4, <2>5, <2>6
  <2>. QED  BY <2>7 DEF DepositsCoverStorage
<1>. QED  BY <1>4, <1>5, <1>6 DEF IInv

\* Every way through execute_code keeps the invariant, whatever result the
\* executor returned.
LEMMA ExecuteStep ==
  ASSUME IInv,
         NEW who \in Account, NEW id \in CodeId, NEW expected, NEW run,
         id \in DOMAIN Codes => run \in ExecutionResult,
         ExecuteCode(who, id, expected, run)
  PROVE  IInv'
<1>1. CodesOK(Codes)
  BY DEF IInv, TypeOK, CodeIdIsHash, CodesOK
<1>2. CASE ExecuteMissingCode(id) \/ ExecutionFails(id, run)
  BY <1>1, <1>2, CodesStep DEF ExecuteMissingCode, ExecutionFails, Fails
<1>3. CASE DepositFails(who, id, expected, run) \/ DecodeFails(who, id, expected, run)
  BY <1>1, <1>3, CodesStep DEF DepositFails, DecodeFails, Fails
<1>4. CASE ExecutionExceeds(who, id, expected, run)
  <2>1. run \in ExecutionResult
    BY <1>4 DEF ExecutionExceeds
  <2>. QED  BY <1>4, <2>1, ExceedsStep
<1>5. CASE ExecutionCommits(who, id, expected, run)
  <2>1. run \in ExecutionResult
    BY <1>5 DEF ExecutionCommits
  <2>. QED  BY <1>5, <2>1, CommitStep
<1>. QED  BY <1>2, <1>3, <1>4, <1>5 DEF ExecuteCode

\* Every step keeps the invariant.
LEMMA NextIInv ==
  ASSUME IInv, [Next]_vars
  PROVE  IInv'
<1>1. CodesOK(Codes)
  BY DEF IInv, TypeOK, CodeIdIsHash, CodesOK
<1>2. ASSUME NEW who \in Account, NEW code \in Binary, UploadCode(who, code)
      PROVE  IInv'
  BY <1>1, <1>2, InsertedCode, CodesStep DEF UploadCode
<1>3. ASSUME NEW who \in Account, NEW id \in CodeId, NEW expected \in Declared,
             NEW budget \in Budget, ExecuteCode(who, id, expected, Run(id, budget))
      PROVE  IInv'
  <2>1. id \in DOMAIN Codes => Run(id, budget) \in ExecutionResult
    BY RunType DEF IInv
  <2>. QED  BY <1>3, <2>1, ExecuteStep
<1>4. ASSUME NEW id \in CodeId, DeleteCode(id)
      PROVE  IInv'
  BY <1>1, <1>4, RemovedCode, CodesStep DEF DeleteCode
<1>5. ASSUME NEW old \in CodeId, NEW code \in Binary, UpdateCode(old, code)
      PROVE  IInv'
  BY <1>1, <1>5, RemovedCode, InsertedCode, CodesStep DEF UpdateCode
<1>6. ASSUME NEW origin, NEW call, RejectOrigin(origin, call)
      PROVE  IInv'
  BY <1>1, <1>6, CodesStep DEF RejectOrigin, Fails
<1>7. ASSUME UNCHANGED vars
      PROVE  IInv'
  BY <1>1, <1>7, CodesStep DEF vars
<1>. QED  BY <1>2, <1>3, <1>4, <1>5, <1>6, <1>7 DEF Next

\* Reserved balance left alone: no deposit moves.
LEMMA NothingFollows ==
  ASSUME TypeOK, NEW a \in Account, balances'[a].reserved = balances[a].reserved
  PROVE  DepositsFollow(a, FALSE)
<1>1. balances[a].reserved \in Nat
  BY DEF TypeOK, AccountData
<1>2. balances'[a].reserved - balances[a].reserved = 0
  BY <1>1
<1>. QED  BY <1>2 DEF DepositsFollow

\* An execution moves deposits as it changes the storage, or slashes its caller
\* down to the reserved balance.
LEMMA ExecuteFollows ==
  ASSUME IInv,
         NEW who \in Account, NEW id \in CodeId, NEW expected, NEW run,
         id \in DOMAIN Codes => run \in ExecutionResult,
         ExecuteCode(who, id, expected, run),
         NEW a \in Account
  PROVE  \/ DepositsFollow(a, FALSE)
         \/ /\ a = who
            /\ last'.event = [type |-> "ExceededStorage", code_id |-> id, who |-> who]
            /\ DepositsFollow(a, TRUE)
<1> DEFINE moved == balances'[a].reserved - balances[a].reserved
<1>1. /\ balances \in [Account -> AccountData] /\ Storages \in [CodeId -> Storage]
      /\ balances[a].reserved \in Nat
  BY DEF IInv, TypeOK, AccountData
<1>2. ASSUME balances'[a] = balances[a]
      PROVE  DepositsFollow(a, FALSE)
  BY <1>2, NothingFollows DEF IInv
<1>3. CASE ExecutionExceeds(who, id, expected, run)
  <2> DEFINE amount == U32(Variation(id, run))
             acc    == Slashed(balances[who], amount)
  <2>1. /\ balances' = [balances EXCEPT ![who] = acc]
        /\ last'.event = [type |-> "ExceededStorage", code_id |-> id, who |-> who]
        /\ UNCHANGED Storages
    BY <1>3 DEF ExecutionExceeds, Deposits
  <2>2. amount \in Nat
    <3>1. run.storage \in Storage
      BY <1>3, ResultStorage DEF ExecutionExceeds
    <3>2. StorageSize(run.storage) \in Int /\ StorageSize(Storages[id]) \in Int
      BY <1>1, <3>1, EntriesSizeType, I32Type DEF StorageSize
    <3>. QED  BY <3>2, I32Type, U32Type DEF Variation
  <2> HIDE DEF amount
  <2>3. /\ acc \in AccountData /\ acc.reserved <= balances[who].reserved
        /\ acc.reserved < balances[who].reserved => acc.free = 0
    BY <1>1, <2>2, SlashTakes
  <2> HIDE DEF acc
  <2>4. CASE a = who
    <3>1. balances'[a] = acc /\ acc.reserved \in Nat
      BY <1>1, <2>1, <2>3, <2>4 DEF AccountData
    <3>2. moved \in Int /\ moved <= 0 /\ (moved < 0 => balances'[a].free = 0)
      BY <1>1, <2>3, <2>4, <3>1
    <3> HIDE DEF moved
    <3>3. ~(moved > 0)
      BY <3>2
    <3>4. DepositsFollow(a, TRUE)
      BY <3>2, <3>3 DEF DepositsFollow, moved
    <3>. QED  BY <2>1, <2>4, <3>4
  <2>5. CASE a # who
    <3>1. balances'[a] = balances[a]
      BY <2>1, <2>5
    <3>. QED  BY <1>2, <3>1
  <2>. QED  BY <2>4, <2>5
<1>4. CASE ExecutionCommits(who, id, expected, run)
  <2>1. run \in ExecutionResult
    BY <1>4 DEF ExecutionCommits
  <2>2. PICK new \in Storage, acc \in AccountData :
          LET growth == EntriesSize[new] - EntriesSize[Storages[id]]
          IN  /\ Storages' = [Storages EXCEPT ![id] = new]
              /\ balances' = [balances EXCEPT ![who] = acc]
              /\ acc.reserved >= balances[who].reserved + growth
              /\ growth <= 0 => acc.reserved <= balances[who].reserved
              /\ growth > 0 => acc = [free |-> balances[who].free - growth,
                                      reserved |-> balances[who].reserved + growth]
    BY <1>4, <2>1, CommitMoves DEF IInv
  <2> DEFINE growth == EntriesSize[new] - EntriesSize[Storages[id]]
  <2>3. growth \in Int /\ BytesStored' - BytesStored = growth
    <3>1. EntriesSize[new] \in Nat /\ EntriesSize[Storages[id]] \in Nat
      BY <1>1, EntriesSizeType
    <3>2. /\ BytesStored \in Nat
          /\ BytesStored' = BytesStored - EntriesSize[Storages[id]] + EntriesSize[new]
      BY <2>2, BytesUpdate DEF IInv
    <3>. QED  BY <3>1, <3>2
  <2>4. /\ acc.reserved >= balances[who].reserved + growth
        /\ growth <= 0 => acc.reserved <= balances[who].reserved
        /\ growth > 0 => acc.reserved = balances[who].reserved + growth
    BY <2>2
  <2> HIDE DEF growth
  <2>5. CASE a = who
    <3>1. balances'[a] = acc /\ acc.reserved \in Nat
      BY <1>1, <2>2, <2>5 DEF AccountData
    <3>2. /\ moved > 0 => moved = growth
          /\ moved < 0 => growth <= moved
      BY <1>1, <2>3, <2>4, <2>5, <3>1
    <3>. QED  BY <2>3, <3>2 DEF DepositsFollow
  <2>6. CASE a # who
    <3>1. balances'[a] = balances[a]
      BY <2>2, <2>6
    <3>. QED  BY <1>2, <3>1
  <2>. QED  BY <2>5, <2>6
<1>5. CASE ~ExecutionExceeds(who, id, expected, run) /\ ~ExecutionCommits(who, id, expected, run)
  BY <1>2, <1>5 DEF ExecuteCode, ExecuteMissingCode, ExecutionFails, DepositFails, DecodeFails, Fails
<1>. QED  BY <1>3, <1>4, <1>5

\* Only a committed execution changes what is stored.
LEMMA OnlyCommitsStore ==
  ASSUME [Next]_vars
  PROVE  \/ UNCHANGED Storages
         \/ \E who \in Account, id \in CodeId, expected \in Declared, budget \in Budget :
              ExecutionCommits(who, id, expected, Run(id, budget))
<1>1. ASSUME NEW who \in Account, NEW id \in CodeId, NEW expected \in Declared,
             NEW budget \in Budget, ExecuteCode(who, id, expected, Run(id, budget))
      PROVE  UNCHANGED Storages \/ ExecutionCommits(who, id, expected, Run(id, budget))
  BY <1>1 DEF ExecuteCode, ExecuteMissingCode, ExecutionFails, ExecutionExceeds,
              DepositFails, DecodeFails, Fails
<1>. QED  BY <1>1 DEF Next, vars, UploadCode, DeleteCode, UpdateCode, RejectOrigin, Fails

----------------------------------------------------------------------------
(***************************************************************************)
(* Theorems                                                                *)
(***************************************************************************)

\* The invariant holds in every state the dispatch of extrinsics reaches.
THEOREM Invariance == Spec => []IInv
<1>1. Init => IInv
  BY InitIInv
<1>2. IInv /\ [Next]_vars => IInv'
  BY NextIInv
<1>. QED  BY <1>1, <1>2, PTL DEF Spec

\* The storage of the pallet and the accounts stay of their types.
THEOREM TypeCorrect == Spec => []TypeOK
<1>1. IInv => TypeOK
  BY DEF IInv
<1>. QED  BY <1>1, Invariance, PTL

\* upload_code, delete_code and update_code never file a binary under the
\* identifier of another.
THEOREM CodesAreIdentified == Spec => []CodeIdIsHash
<1>1. IInv => CodeIdIsHash
  BY DEF IInv
<1>. QED  BY <1>1, Invariance, PTL

\* execute_code keeps only storages that it can read back.
THEOREM StorageStaysReadable == Spec => []StoredIsDecodable
<1>1. IInv => StoredIsDecodable
  BY DEF IInv
<1>. QED  BY <1>1, Invariance, PTL

\* reserve, unreserve and slash leave no account below the existential deposit.
THEOREM NoAccountIsDust == Spec => []NoDust
<1>1. IInv => NoDust
  BY DEF IInv
<1>. QED  BY <1>1, Invariance, PTL

\* execute_code never keeps a byte that no deposit was taken for: only a slash
\* takes deposits away from the storage they were taken for.
THEOREM DepositsAreEnough == Spec => []DepositsCoverStorage
<1>1. IInv => DepositsCoverStorage
  BY DEF IInv
<1>. QED  BY <1>1, Invariance, PTL

\* execute_code lets one storage at a time grow, and its caller pays for it.
THEOREM GrowthIsAlwaysPaid == Spec => GrowthIsPaid
<1> DEFINE Growth(id) == EntriesSize[Storages'[id]] - EntriesSize[Storages[id]]
           Paid(id) ==
             Growth(id) > 0 =>
               /\ \E a \in Account :
                    balances' = [balances EXCEPT ![a].free = @ - Growth(id),
                                                 ![a].reserved = @ + Growth(id)]
               /\ Storages' = [Storages EXCEPT ![id] = Storages'[id]]
<1>1. ASSUME IInv, [Next]_vars, NEW id \in CodeId
      PROVE  Paid(id)
  <2>1. Storages \in [CodeId -> Storage] /\ balances \in [Account -> AccountData]
    BY <1>1 DEF IInv, TypeOK
  <2>2. CASE UNCHANGED Storages
    <3>1. EntriesSize[Storages[id]] \in Nat
      BY <2>1, EntriesSizeType
    <3>. QED  BY <2>2, <3>1
  <2>3. ASSUME NEW who \in Account, NEW c \in CodeId, NEW expected \in Declared,
               NEW budget \in Budget, ExecutionCommits(who, c, expected, Run(c, budget))
        PROVE  Paid(id)
    <3>0. Run(c, budget) \in ExecutionResult
      BY <1>1, <2>3, RunType DEF IInv, ExecutionCommits
    <3>1. PICK new \in Storage, acc \in AccountData :
            LET growth == EntriesSize[new] - EntriesSize[Storages[c]]
            IN  /\ Storages' = [Storages EXCEPT ![c] = new]
                /\ balances' = [balances EXCEPT ![who] = acc]
                /\ growth > 0 => acc = [free |-> balances[who].free - growth,
                                        reserved |-> balances[who].reserved + growth]
      BY <1>1, <2>3, <3>0, CommitMoves DEF IInv
    <3>2. EntriesSize[Storages[id]] \in Nat /\ EntriesSize[new] \in Nat
      BY <2>1, EntriesSizeType
    <3>3. CASE id # c
      BY <2>1, <3>1, <3>2, <3>3
    <3>4. CASE id = c /\ Growth(id) > 0
      <4>1. Storages' = [Storages EXCEPT ![id] = Storages'[id]] /\ Storages'[id] = new
        BY <2>1, <3>1, <3>4
      <4>2. acc = [free |-> balances[who].free - Growth(id),
                   reserved |-> balances[who].reserved + Growth(id)]
        BY <3>1, <3>4, <4>1
      <4>3. balances' = [balances EXCEPT ![who].free = @ - Growth(id),
                                         ![who].reserved = @ + Growth(id)]
        BY <2>1, <3>1, <4>2 DEF AccountData
      <4>. QED  BY <4>1, <4>3
    <3>. QED  BY <3>3, <3>4
  <2>. QED  BY <1>1, <2>2, <2>3, OnlyCommitsStore
<1>2. IInv /\ [Next]_vars => [\A id \in CodeId : Paid(id)]_vars
  BY <1>1
<1>. QED  BY <1>2, Invariance, PTL DEF Spec, GrowthIsPaid

\* execute_code reserves and gives back what its storage takes and frees; the
\* slash alone takes deposits away, from a caller that has nothing else left.
THEOREM DepositsFollowTheBytes == Spec => DepositsFollowStorage
<1> DEFINE Follow ==
      \A a \in Account :
        DepositsFollow(a, last'.event.type = "ExceededStorage" /\ last'.event.who = a)
<1>1. ASSUME NEW a, DepositsFollow(a, FALSE)
      PROVE  DepositsFollow(a, last'.event.type = "ExceededStorage" /\ last'.event.who = a)
  BY <1>1 DEF DepositsFollow
<1>2. ASSUME IInv, Next
      PROVE  Follow
  <2>1. ASSUME NEW who \in Account, NEW id \in CodeId, NEW expected \in Declared,
               NEW budget \in Budget, ExecuteCode(who, id, expected, Run(id, budget)),
               NEW a \in Account
        PROVE  DepositsFollow(a, last'.event.type = "ExceededStorage" /\ last'.event.who = a)
    <3>1. id \in DOMAIN Codes => Run(id, budget) \in ExecutionResult
      BY <1>2, RunType DEF IInv
    <3>2. \/ DepositsFollow(a, FALSE)
          \/ /\ a = who
             /\ last'.event = [type |-> "ExceededStorage", code_id |-> id, who |-> who]
             /\ DepositsFollow(a, TRUE)
      BY <1>2, <2>1, <3>1, ExecuteFollows
    <3>3. CASE /\ a = who
               /\ last'.event = [type |-> "ExceededStorage", code_id |-> id, who |-> who]
               /\ DepositsFollow(a, TRUE)
      BY <3>3 DEF DepositsFollow
    <3>. QED  BY <1>1, <3>2, <3>3
  <2>2. CASE UNCHANGED balances
    BY <1>1, <1>2, <2>2, NothingFollows DEF IInv
  <2>. QED  BY <1>2, <2>1, <2>2 DEF Next, UploadCode, DeleteCode, UpdateCode, RejectOrigin, Fails
<1>3. IInv /\ [Next]_vars => [Follow]_vars
  BY <1>2
<1>. QED  BY <1>3, Invariance, PTL DEF Spec, DepositsFollowStorage

\* The events deposited by upload_code, delete_code and update_code, and the
\* absence of others, tell which codes are uploaded.
THEOREM EventsAreExact == Spec => EventsTrackCodes
<1> DEFINE Tracked == DOMAIN Codes' = Indexed(DOMAIN Codes, last'.event)
<1>1. ASSUME Next
      PROVE  Tracked
  <2>1. ASSUME NEW who \in Account, NEW code \in Binary, UploadCode(who, code)
        PROVE  Tracked
    BY <2>1 DEF UploadCode, Inserted, Deposits, Indexed
  <2>2. ASSUME NEW who \in Account, NEW id \in CodeId, NEW expected \in Declared,
               NEW budget \in Budget, ExecuteCode(who, id, expected, Run(id, budget))
        PROVE  Tracked
    <3>1. UNCHANGED Codes /\ last'.event.type \in {"None", "CodeExecuted", "ExceededStorage"}
      BY <2>2 DEF ExecuteCode, ExecuteMissingCode, ExecutionFails, ExecutionExceeds,
                  DepositFails, DecodeFails, ExecutionCommits, Fails, Deposits
    <3>. QED  BY <3>1 DEF Indexed
  <2>3. ASSUME NEW id \in CodeId, DeleteCode(id)
        PROVE  Tracked
    BY <2>3 DEF DeleteCode, Removed, Deposits, Indexed
  <2>4. ASSUME NEW old \in CodeId, NEW code \in Binary, UpdateCode(old, code)
        PROVE  Tracked
    BY <2>4 DEF UpdateCode, Removed, Inserted, Deposits, Indexed
  <2>5. ASSUME NEW origin, NEW call, RejectOrigin(origin, call)
        PROVE  Tracked
    BY <2>5 DEF RejectOrigin, Fails, Indexed
  <2>. QED  BY <1>1, <2>1, <2>2, <2>3, <2>4, <2>5 DEF Next
<1>2. [Next]_vars => [Tracked]_vars
  BY <1>1
<1>. QED  BY <1>2, PTL DEF Spec, EventsTrackCodes
=============================================================================
