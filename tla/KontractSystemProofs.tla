------------------------ MODULE KontractSystemProofs ------------------------
(***************************************************************************)
(* The pallet, the executor and kontracts together do what the pallet does *)
(* in one step, and what the pallet assumes of an execution is true of     *)
(* every kontract built with the SDK.  What is proved of the pallet then   *)
(* holds of the system.                                                    *)
(***************************************************************************)
EXTENDS KontractSeries, KontractGuestProofs

----------------------------------------------------------------------------
(***************************************************************************)
(* What an execution returns                                               *)
(***************************************************************************)

\* A statement is stopped by one of the errors, or by a panic of the host.
LEMMA StoppedType ==
  ASSUME NEW b, NEW s, NEW g, NEW i, Stopped(b, s, g, i) # NoResult
  PROVE  \/ \E e \in Errors : Stopped(b, s, g, i) = Error(e)
         \/ Stopped(b, s, g, i) = [state |-> "HostPanic"]
<1>1. Stopped(b, s, g, i) \in
        {Error("OutOfFuel"), Error("OutOfWrites"), Error("OutOfReads"), Error("WasmPanic"),
         [state |-> "HostPanic"], NoResult}
  BY DEF Stopped
<1>. QED  BY <1>1 DEF Errors

\* A kontract returns a storage or one of the errors, or panics the host.
LEMMA OutcomeType ==
  ASSUME NEW b \in Kontract, NEW s \in Storage, NEW g
  PROVE  \/ \E e \in Errors : Outcome(b, s, g) = Error(e)
         \/ Outcome(b, s, g) = [state |-> "HostPanic"]
         \/ \E t \in Storage : Outcome(b, s, g) = [state |-> "Ok", storage |-> t]
<1>. DEFINE End == Len(Program[b]) + 1
            stops == {i \in 1 .. End : Stopped(b, s, g, i) # NoResult}
            first == CHOOSE i \in stops : \A j \in stops : i <= j
<1>1. CASE b \in DOMAIN LoadError
  <2>1. LoadError[b] \in Errors
    BY <1>1, GuestAssumption DEF LoadErrorOf, Errors
  <2>. QED  BY <1>1, <2>1 DEF Outcome
<1>2. CASE b \notin DOMAIN LoadError /\ stops # {}
  <2>1. Len(Program[b]) \in Nat /\ stops \in SUBSET Nat
    BY ProgramLength
  <2>2. first \in stops /\ \A j \in stops : first <= j
    <3>. HIDE DEF stops
    <3>. QED  BY <1>2, <2>1, LeastElement
  <2>. HIDE DEF first
  <2>3. first \in 1 .. End /\ \A j \in 1 .. first - 1 : Stopped(b, s, g, j) = NoResult
    BY <2>1, <2>2
  <2>4. Outcome(b, s, g) = Stopped(b, s, g, first)
    BY <1>2, <2>2, <2>3, FirstStop
  <2>. QED  BY <2>2, <2>4, StoppedType
<1>3. CASE b \notin DOMAIN LoadError /\ stops = {}
  <2>1. Outcome(b, s, g) = [state |-> "Ok", storage |-> Before(b, s)[End].storage]
    BY <1>3, NoStop
  <2>2. Before(b, s)[End] \in Memory
    BY ProgramLength, BeforeType
  <2>. QED  BY <2>1, <2>2 DEF Memory
<1>. QED  BY <1>1, <1>2, <1>3

\* A storage is a storage for the pallet.
LEMMA SameStorage ==
  /\ Pallet!Storage = Storage /\ Pallet!EmptyStorage = EmptyStorage
  /\ EmptyStorage \in Storage
<1>1. Pallet!Storage = Storage /\ Pallet!EmptyStorage = EmptyStorage
  BY DEF Pallet!Storage, Storage, Pallet!EmptyStorage, EmptyStorage
<1>2. EmptyStorage \in [{} -> Value]
  BY DEF EmptyStorage
<1>. QED  BY <1>1, <1>2 DEF Storage

\* The pallet is proved about for every HostExecute that returns a storage or an
\* error: the executor is one, whatever kontract it executes.
THEOREM ExecutorIsHostExecute ==
  \A b \in Kontract, s \in Storage, g \in Budget :
    ExecuteInOneStep(b, s, g) \in Pallet!ExecutionResult
<1>. SUFFICES ASSUME NEW b \in Kontract, NEW s \in Storage, NEW g \in Budget
              PROVE  ExecuteInOneStep(b, s, g) \in Pallet!ExecutionResult
  OBVIOUS
<1>1. CASE \E e \in Errors : Outcome(b, s, g) = Error(e)
  BY <1>1 DEF ExecuteInOneStep, AsRun, Error, Pallet!ExecutionResult
<1>2. CASE Outcome(b, s, g) = [state |-> "HostPanic"]
  BY <1>2 DEF ExecuteInOneStep, AsRun, Pallet!ExecutionResult, Pallet!HostPanic
<1>3. CASE \E t \in Storage : Outcome(b, s, g) = [state |-> "Ok", storage |-> t]
  BY <1>3, SameStorage DEF ExecuteInOneStep, AsRun, Pallet!ExecutionResult
<1>. QED  BY <1>1, <1>2, <1>3, OutcomeType

----------------------------------------------------------------------------
(***************************************************************************)
(* The refinement                                                          *)
(***************************************************************************)

\* The codes are kontracts, and the storages are storages.
PalletOK ==
  /\ \A id \in DOMAIN Codes : Codes[id] \in Kontract
  /\ Storages \in [CodeId -> Storage]

\* The execution under way is that of the code and the storage of the extrinsic,
\* as the pallet still holds them.
ExtrinsicOK ==
  /\ GInv
  /\ extrinsic.who \in Account /\ extrinsic.id \in CodeId /\ extrinsic.expected \in Declared
  /\ extrinsic.id \in DOMAIN Codes
  /\ call.code = Codes[extrinsic.id] /\ call.storage = Storages[extrinsic.id]
  /\ call.budget \in Budget

SInv ==
  /\ PalletOK
  /\ extrinsic = NoExtrinsic => Dropped
  /\ extrinsic # NoExtrinsic => ExtrinsicOK

\* The chain starts with no code and no extrinsic.
LEMMA InitSInv ==
  ASSUME SystemInit
  PROVE  SInv
<1>1. PalletOK
  BY SameStorage DEF SystemInit, Pallet!Init, PalletOK
<1>. QED  BY <1>1 DEF SystemInit, SInv

\* A call of the pallet that executes nothing.
LEMMA DispatchStep ==
  ASSUME SInv, Dispatch
  PROVE  SInv' /\ Pallet!Next
<1>1. Dropped /\ Dropped'
  BY DEF SInv, Dispatch, Dropped, guestVars, vars
<1>2. Pallet!Next
  BY DEF Dispatch, Pallet!Next, Pallet!ExecuteCode
<1>3. PalletOK'
  <2>. USE DEF PalletOK
  <2>1. PalletOK
    BY DEF SInv
  <2>2. ASSUME NEW who \in Account, NEW code \in Kontract, Pallet!UploadCode(who, code)
        PROVE  PalletOK'
    BY <2>1, <2>2 DEF Pallet!UploadCode, Pallet!Inserted
  <2>3. ASSUME NEW id \in CodeId, Pallet!DeleteCode(id)
        PROVE  PalletOK'
    BY <2>1, <2>3 DEF Pallet!DeleteCode, Pallet!Removed
  <2>4. ASSUME NEW old \in CodeId, NEW code \in Kontract, Pallet!UpdateCode(old, code)
        PROVE  PalletOK'
    BY <2>1, <2>4 DEF Pallet!UpdateCode, Pallet!Inserted, Pallet!Removed
  <2>5. ASSUME NEW id \in CodeId, Pallet!ExecuteMissingCode(id)
        PROVE  PalletOK'
    BY <2>1, <2>5 DEF Pallet!ExecuteMissingCode, Pallet!Fails
  <2>6. ASSUME NEW origin \in Account \cup {Root}, NEW c, Pallet!RejectOrigin(origin, c)
        PROVE  PalletOK'
    BY <2>1, <2>6 DEF Pallet!RejectOrigin, Pallet!Fails
  <2>. HIDE DEF PalletOK
  <2>. QED  BY <2>2, <2>3, <2>4, <2>5, <2>6 DEF Dispatch
<1>4. extrinsic' = NoExtrinsic
  BY DEF Dispatch
<1>. QED  BY <1>1, <1>2, <1>3, <1>4 DEF SInv

\* The host function is called: nothing happens in the pallet.
LEMMA ExecuteStep ==
  ASSUME SInv, NEW who \in Account, NEW id \in CodeId, NEW expected \in Declared,
         NEW budget \in Budget, Execute(who, id, expected, budget)
  PROVE  SInv' /\ UNCHANGED palletVars
<1>1. /\ Dropped /\ PalletOK /\ id \in DOMAIN Codes
      /\ Codes' = Codes /\ Storages' = Storages
  BY DEF SInv, Execute, palletVars
<1>2. Codes[id] \in Kontract /\ Storages[id] \in Storage /\ budget \in GuestBudget
  BY <1>1, BudgetAssumption DEF PalletOK
<1>3. Called(Codes[id], Storages[id], budget)'
  BY <1>1 DEF Execute, Calls, Dropped, Called
<1>4. (\A b \in Kontract, s \in Storage, g \in GuestBudget : Called(b, s, g) => GInv)'
  BY CalledGInv, PTL
<1>5. GInv'
  BY <1>1, <1>2, <1>3, <1>4
<1>6. extrinsic' = [call |-> "execute_code", who |-> who, id |-> id, expected |-> expected]
  BY DEF Execute
<1>7. ExtrinsicOK'
  BY <1>1, <1>5, <1>6 DEF Execute, Calls, ExtrinsicOK
<1>8. extrinsic' # NoExtrinsic
  BY <1>6 DEF NoExtrinsic
<1>9. PalletOK'
  BY <1>1 DEF PalletOK
<1>. QED  BY <1>7, <1>8, <1>9 DEF SInv, Execute

\* The kontract runs: nothing happens in the pallet.
LEMMA RunningStep ==
  ASSUME SInv, Running
  PROVE  SInv' /\ UNCHANGED palletVars
<1>1. /\ ExtrinsicOK /\ PalletOK /\ GuestNext
      /\ Codes' = Codes /\ Storages' = Storages /\ extrinsic' = extrinsic
  BY DEF SInv, Running, palletVars
<1>2. GInv'
  BY <1>1, NextGInv DEF ExtrinsicOK
<1>3. call' = call
  BY <1>1 DEF GuestNext, Loads, MainReturns, FuelRunsOut, SDKWrite, SDKDelete, SDKRead, Take,
              PanicHandler, LoopForever, Stays, Continues
<1>4. ExtrinsicOK'
  BY <1>1, <1>2, <1>3 DEF ExtrinsicOK
<1>5. PalletOK'
  BY <1>1 DEF PalletOK
<1>. QED  BY <1>1, <1>4, <1>5 DEF SInv, Running

\* What the pallet gets is what it would get from one step, and a storage it
\* keeps is a storage.
LEMMA SettleStep ==
  ASSUME SInv, Settle
  PROVE  SInv' /\ Pallet!Next
<1>. DEFINE id == extrinsic.id
            budget == call.budget
            run == AsRun(result)
<1>1. /\ ExtrinsicOK /\ PalletOK /\ phase = "done" /\ extrinsic' = NoExtrinsic
      /\ Pallet!ExecuteCode(extrinsic.who, id, extrinsic.expected, run)
  BY DEF SInv, Settle
<1>2. /\ call.code \in Kontract /\ call.storage \in Storage /\ budget \in Budget
      /\ result = Outcome(Codes[id], Storages[id], budget)
      /\ Codes[id] \in Kontract /\ Storages[id] \in Storage
  BY <1>1 DEF ExtrinsicOK, GInv, GuestOK, OInv, CallOK, OutcomeIsFunction
<1>3. run = Pallet!Run(id, budget)
  BY <1>2 DEF Pallet!Run, ExecuteInOneStep
<1>4. run \in Pallet!ExecutionResult
  BY <1>2, ExecutorIsHostExecute DEF ExecuteInOneStep
<1>5. Pallet!Next
  BY <1>1, <1>2, <1>3 DEF ExtrinsicOK, Pallet!Next
<1>6. Dropped'
  BY <1>1 DEF Settle, Drops, Dropped
<1>. HIDE DEF run
<1>7. PalletOK'
  <2>1. run.ok => run.storage \in Storage
    BY <1>4, SameStorage DEF Pallet!ExecutionResult
  <2>2. Codes' = Codes
    BY <1>1 DEF Pallet!ExecuteCode, Pallet!ExecuteMissingCode, Pallet!ExecutionFails,
                Pallet!ExecutionExceeds, Pallet!DepositFails, Pallet!DecodeFails,
                Pallet!ExecutionCommits, Pallet!Fails
  <2>3. Storages' = Storages \/ (run.ok /\ Storages' = [Storages EXCEPT ![id] = run.storage])
    BY <1>1 DEF Pallet!ExecuteCode, Pallet!ExecuteMissingCode, Pallet!ExecutionFails,
                Pallet!ExecutionExceeds, Pallet!DepositFails, Pallet!DecodeFails,
                Pallet!ExecutionCommits, Pallet!Fails
  <2>. QED  BY <1>1, <2>1, <2>2, <2>3 DEF PalletOK
<1>. QED  BY <1>1, <1>5, <1>6, <1>7 DEF SInv

\* Every step of the system is a step of the pallet or none.
LEMMA NextSystem ==
  ASSUME SInv, [SystemNext]_systemVars
  PROVE  SInv' /\ [Pallet!Next]_Pallet!vars
<1>1. ASSUME UNCHANGED systemVars
      PROVE  SInv' /\ UNCHANGED Pallet!vars
  <2>1. /\ UNCHANGED <<guestVars, extrinsic, Codes, Storages>>
        /\ UNCHANGED Pallet!vars
    BY <1>1 DEF systemVars, palletVars, Pallet!vars
  <2>2. GInv => GInv'
    BY <2>1, NextGInv
  <2>3. call' = call
    BY <2>1 DEF guestVars
  <2>4. Dropped => Dropped'
    BY <2>1 DEF Dropped, guestVars, vars
  <2>5. (PalletOK => PalletOK') /\ (ExtrinsicOK => ExtrinsicOK')
    BY <2>1, <2>2, <2>3 DEF PalletOK, ExtrinsicOK
  <2>. QED  BY <2>1, <2>4, <2>5 DEF SInv
<1>2. UNCHANGED palletVars => UNCHANGED Pallet!vars
  BY DEF palletVars, Pallet!vars
<1>3. ASSUME SystemNext
      PROVE  SInv' /\ [Pallet!Next]_Pallet!vars
  <2>1. CASE Dispatch
    BY <2>1, DispatchStep
  <2>2. CASE \E who \in Account, id \in CodeId, expected \in Declared, budget \in Budget :
               Execute(who, id, expected, budget)
    BY <1>2, <2>2, ExecuteStep
  <2>3. CASE Running
    BY <1>2, <2>3, RunningStep
  <2>4. CASE Settle
    BY <2>4, SettleStep
  <2>. QED  BY <1>3, <2>1, <2>2, <2>3, <2>4 DEF SystemNext
<1>. QED  BY <1>1, <1>3

\* In a dispatch the kontract works on the code and the storage of the pallet and
\* is on its way to its outcome; in between there is no store.
THEOREM SystemInvariance == SystemSpec => []SInv
<1>1. SystemInit => SInv
  BY InitSInv
<1>2. SInv /\ [SystemNext]_systemVars => SInv'
  BY NextSystem
<1>. QED  BY <1>1, <1>2, PTL DEF SystemSpec

\* Statement by statement the system does what the pallet does in one step with
\* the outcome of the kontract, whatever kontracts are uploaded.
THEOREM SystemImplementsPallet == SystemSpec => ImplementsPallet
<1>1. SystemInit => Pallet!Init
  BY DEF SystemInit
<1>2. SInv /\ [SystemNext]_systemVars => [Pallet!Next]_Pallet!vars
  BY NextSystem
<1>. QED  BY <1>1, <1>2, SystemInvariance, PTL DEF SystemSpec, ImplementsPallet, Pallet!Spec

\* A dispatch that began ends, or goes on closer to its end: no kontract keeps a
\* block waiting for more steps than its caller bought.
THEOREM DispatchesAreBounded ==
  SystemSpec =>
    [][extrinsic # NoExtrinsic =>
         \/ extrinsic' = NoExtrinsic
         \/ extrinsic' = extrinsic /\ StepsLeft' \in Nat /\ StepsLeft' < StepsLeft]_systemVars
<1>1. ASSUME SInv, SystemNext, extrinsic # NoExtrinsic
      PROVE  \/ extrinsic' = NoExtrinsic
             \/ extrinsic' = extrinsic /\ StepsLeft' \in Nat /\ StepsLeft' < StepsLeft
  <2>1. Running \/ Settle
    BY <1>1 DEF SystemNext, Dispatch, Execute
  <2>2. IInv /\ GuestOK
    BY <1>1 DEF SInv, ExtrinsicOK, GInv
  <2>. QED  BY <2>1, <2>2, GuestStep, EveryStepCounts DEF Running, Settle
<1>2. SInv /\ [SystemNext]_systemVars =>
        [extrinsic # NoExtrinsic =>
           \/ extrinsic' = NoExtrinsic
           \/ extrinsic' = extrinsic /\ StepsLeft' \in Nat /\ StepsLeft' < StepsLeft]_systemVars
  BY <1>1
<1>. QED  BY <1>2, SystemInvariance, PTL DEF SystemSpec

----------------------------------------------------------------------------
(***************************************************************************)
(* What is proved of the pallet holds of the system                        *)
(***************************************************************************)

\* The proofs about the pallet, of the pallet with this executor.
Proofs == INSTANCE KontractsProofs WITH
  Binary <- Kontract, HostExecute <- ExecuteInOneStep, ExecutionErrors <- Errors

\* Storages and their sizes are those of the system.
LEMMA SameSizes ==
  /\ Proofs!Storage = Storage /\ Proofs!EntriesSize = EntriesSize
  /\ \A s : Proofs!Decodable(s) <=> Decodable(s)
  /\ Proofs!AccountData = AccountData
<1>1. Proofs!Storage = Storage /\ Proofs!AccountData = AccountData
  BY SMT DEF Proofs!Storage, Storage, Proofs!AccountData, AccountData
<1>2. \A f : Proofs!Total(f) = Total(f)
  <2>1. \A f : Proofs!Units(f) = Units(f)
    BY SMT DEF Proofs!Units, Units, Proofs!Column, Column
  <2>2. \A S : Proofs!Cardinality(S) = Cardinality(S)
    BY SMT DEF Proofs!Cardinality, Cardinality
  <2>. QED  BY <2>1, <2>2, SMT DEF Proofs!Total, Total
<1>3. \A v : Proofs!EntrySize(v) = EntrySize(v)
  BY SMT
     DEF Proofs!EntrySize, EntrySize, Proofs!EncodedLength, EncodedLength, Proofs!CompactLength,
         CompactLength, Proofs!HashLength, HashLength
<1>4. Proofs!EntriesSize = EntriesSize
  BY <1>1, <1>2, <1>3, SMT DEF Proofs!EntriesSize, EntriesSize
<1>5. \A s : Proofs!Decodable(s) <=> Decodable(s)
  BY SMT
     DEF Proofs!Decodable, Decodable, Proofs!Cardinality, Cardinality, Proofs!HashLength,
         HashLength
<1>. QED  BY <1>1, <1>4, <1>5, SMT

\* What the pallet assumes holds of the system, of the host function above all.
LEMMA AssumptionsHold ==
  /\ Proofs!StorageAssumption /\ Proofs!BalancesAssumption /\ Proofs!HalfWordAssumption
  /\ Proofs!KontractsAssumption /\ Proofs!BoundsAssumption /\ Proofs!GenesisAssumption
<1>1. Proofs!StorageAssumption /\ Proofs!BalancesAssumption /\ Proofs!HalfWordAssumption
  BY StorageAssumption, BalancesAssumption, HalfWordAssumption
     DEF Proofs!StorageAssumption, Proofs!BalancesAssumption, Proofs!HalfWordAssumption,
         Proofs!IsFiniteSet, IsFiniteSet
<1>2. Proofs!KontractsAssumption
  BY SystemAssumption, ExecutorIsHostExecute
     DEF Proofs!KontractsAssumption, Proofs!ExecutionResult, Pallet!ExecutionResult,
         Proofs!IsFiniteSet, Proofs!Storage, Pallet!Storage, Storage, Proofs!HostPanic,
         Pallet!HostPanic, IsFiniteSet
<1>3. Proofs!BoundsAssumption /\ Proofs!GenesisAssumption
  BY SystemAssumption, SameSizes DEF Proofs!BoundsAssumption, Proofs!GenesisAssumption
<1>. QED  BY <1>1, <1>2, <1>3

\* The pallet that is proved about is the pallet that is implemented: its values,
\* its initial states, its steps and what its properties say.
LEMMA SameValues ==
  /\ Pallet!vars = Proofs!vars
  /\ Pallet!EntriesSize = Proofs!EntriesSize
  /\ \A s : Pallet!Decodable(s) <=> Proofs!Decodable(s)
  /\ \A f : Pallet!Total(f) = Proofs!Total(f)
<1>1. Pallet!vars = Proofs!vars /\ Pallet!Storage = Proofs!Storage
  BY SMT DEF Pallet!vars, Proofs!vars, Pallet!Storage, Proofs!Storage
<1>2. \A f : Pallet!Total(f) = Proofs!Total(f)
  <2>1. \A f : Pallet!Units(f) = Proofs!Units(f)
    BY SMT DEF Proofs!Units, Pallet!Units, Proofs!Column, Pallet!Column
  <2>2. \A S : Pallet!Cardinality(S) = Proofs!Cardinality(S)
    BY SMT DEF Proofs!Cardinality, Pallet!Cardinality
  <2>. QED  BY <2>1, <2>2, SMT DEF Proofs!Total, Pallet!Total
<1>3. \A v : Pallet!EntrySize(v) = Proofs!EntrySize(v)
  BY SMT
     DEF Proofs!EntrySize, Pallet!EntrySize, Proofs!EncodedLength, Pallet!EncodedLength,
         Proofs!CompactLength, Pallet!CompactLength, Proofs!HashLength, Pallet!HashLength
<1>4. Pallet!EntriesSize = Proofs!EntriesSize
  BY <1>1, <1>2, <1>3, SMT DEF Proofs!EntriesSize, Pallet!EntriesSize
<1>5. \A s : Pallet!Decodable(s) <=> Proofs!Decodable(s)
  BY SMT
     DEF Proofs!Decodable, Pallet!Decodable, Proofs!Cardinality, Pallet!Cardinality,
         Proofs!HashLength, Pallet!HashLength
<1>. QED  BY <1>1, <1>2, <1>4, <1>5, SMT

\* The chain starts in the same states.
LEMMA SameInit == Pallet!Init => Proofs!Init
BY SMT DEF Pallet!Init, Proofs!Init, Pallet!EmptyStorage, Proofs!EmptyStorage

\* execute_code ends in the same ways.
LEMMA SameExecute ==
  ASSUME NEW who, NEW id, NEW expected, NEW run, Pallet!ExecuteCode(who, id, expected, run)
  PROVE  Proofs!ExecuteCode(who, id, expected, run)
<1>1. \A n : Pallet!I32(n) = Proofs!I32(n) /\ Pallet!U32(n) = Proofs!U32(n)
  BY SMT DEF Pallet!I32, Proofs!I32, Pallet!U32, Proofs!U32, Pallet!Word, Proofs!Word
<1>2. \A r : Pallet!Variation(id, r) = Proofs!Variation(id, r)
  BY <1>1, SameValues, SMT
     DEF Pallet!Variation, Proofs!Variation, Pallet!StorageSize, Proofs!StorageSize
<1>3. /\ \A acc, x : Pallet!CanSettle(acc, x) <=> Proofs!CanSettle(acc, x)
      /\ \A acc, x : Pallet!DepositSettled(acc, x) = Proofs!DepositSettled(acc, x)
      /\ \A acc, x : Pallet!Slashed(acc, x) = Proofs!Slashed(acc, x)
      /\ \A y, x : Pallet!Expects(y, x) <=> Proofs!Expects(y, x)
  <2>1. \A acc : Pallet!Settled(acc) = Proofs!Settled(acc)
    BY SMT DEF Pallet!Settled, Proofs!Settled, Pallet!TotalBalance, Proofs!TotalBalance
  <2>2. \A m, n : Pallet!Smaller(m, n) = Proofs!Smaller(m, n)
    BY SMT DEF Pallet!Smaller, Proofs!Smaller
  <2>3. \A acc, x : /\ Pallet!Reserved(acc, x) = Proofs!Reserved(acc, x)
                   /\ Pallet!Unreserved(acc, x) = Proofs!Unreserved(acc, x)
    BY <2>1, <2>2, SMT DEF Pallet!Reserved, Proofs!Reserved, Pallet!Unreserved, Proofs!Unreserved
  <2>4. \A acc, x : Pallet!Slashed(acc, x) = Proofs!Slashed(acc, x)
    BY <2>1, <2>2, SMT DEF Pallet!Slashed, Proofs!Slashed
  <2>5. \A acc, x : Pallet!CanSettle(acc, x) <=> Proofs!CanSettle(acc, x)
    BY <1>1, SMT DEF Pallet!CanSettle, Proofs!CanSettle, Pallet!CanReserve, Proofs!CanReserve
  <2>6. \A acc, x : Pallet!DepositSettled(acc, x) = Proofs!DepositSettled(acc, x)
    BY <1>1, <2>3, SMT DEF Pallet!DepositSettled, Proofs!DepositSettled
  <2>7. \A y, x : Pallet!Expects(y, x) <=> Proofs!Expects(y, x)
    BY SMT DEF Pallet!Expects, Proofs!Expects
  <2>. QED  BY <2>4, <2>5, <2>6, <2>7
<1>4. \A e : Pallet!Fails(e) <=> Proofs!Fails(e)
  BY SMT DEF Pallet!Fails, Proofs!Fails
<1>5. \A e, v : Pallet!Deposits(e, v) <=> Proofs!Deposits(e, v)
  BY SMT DEF Pallet!Deposits, Proofs!Deposits
<1>6. ASSUME Pallet!ExecutionExceeds(who, id, expected, run)
      PROVE  Proofs!ExecutionExceeds(who, id, expected, run)
  <2> DEFINE x == Proofs!Variation(id, run)
             acc == Proofs!Slashed(balances[who], Proofs!U32(x))
  <2>1. /\ Pallet!Variation(id, run) = x
        /\ Pallet!Slashed(balances[who], Pallet!U32(x)) = acc
        /\ Pallet!Expects(expected, x) <=> Proofs!Expects(expected, x)
    BY <1>1, <1>2, <1>3, SMT
  <2> HIDE DEF x, acc
  <2>2. /\ id \in DOMAIN Codes
        /\ run.ok
        /\ ~Proofs!Expects(expected, x)
        /\ balances' = [balances EXCEPT ![who] = acc]
        /\ confiscated' = confiscated + balances[who].reserved - acc.reserved
        /\ Proofs!Deposits([type |-> "ExceededStorage", code_id |-> id, who |-> who], x)
        /\ UNCHANGED <<Codes, Storages>>
    BY <1>5, <1>6, <2>1, SMT DEF Pallet!ExecutionExceeds
  <2>. QED  BY <2>2, Zenon DEF Proofs!ExecutionExceeds, x, acc
<1>7. ASSUME Pallet!ExecutionCommits(who, id, expected, run)
      PROVE  Proofs!ExecutionCommits(who, id, expected, run)
  <2> DEFINE x == Proofs!Variation(id, run)
             acc == Proofs!DepositSettled(balances[who], x)
  <2>1. /\ Pallet!Variation(id, run) = x
        /\ Pallet!DepositSettled(balances[who], x) = acc
        /\ Pallet!Expects(expected, x) <=> Proofs!Expects(expected, x)
        /\ Pallet!CanSettle(balances[who], x) <=> Proofs!CanSettle(balances[who], x)
    BY <1>1, <1>2, <1>3, SMT
  <2> HIDE DEF x, acc
  <2>2. /\ id \in DOMAIN Codes
        /\ run.ok
        /\ Proofs!Expects(expected, x)
        /\ Proofs!CanSettle(balances[who], x)
        /\ Proofs!Decodable(run.storage)
        /\ balances' = [balances EXCEPT ![who] = acc]
        /\ Storages' = [Storages EXCEPT ![id] = run.storage]
        /\ Proofs!Deposits([type |-> "CodeExecuted", code_id |-> id, who |-> who], x)
        /\ UNCHANGED <<Codes, confiscated>>
    BY <1>5, <1>7, <2>1, SameValues, SMT DEF Pallet!ExecutionCommits
  <2>. QED  BY <2>2, Zenon DEF Proofs!ExecutionCommits, x, acc
<1>8. Pallet!DepositFails(who, id, expected, run) \/ Pallet!DecodeFails(who, id, expected, run)
        => Proofs!DepositFails(who, id, expected, run) \/ Proofs!DecodeFails(who, id, expected, run)
  BY <1>2, <1>3, <1>4, SameValues, SMT
     DEF Pallet!DepositFails, Proofs!DepositFails, Pallet!DecodeFails, Proofs!DecodeFails
<1>9. Pallet!ExecuteMissingCode(id) \/ Pallet!ExecutionFails(id, run)
        => Proofs!ExecuteMissingCode(id) \/ Proofs!ExecutionFails(id, run)
  BY <1>4, SMT
     DEF Pallet!ExecuteMissingCode, Proofs!ExecuteMissingCode, Pallet!ExecutionFails,
         Proofs!ExecutionFails
<1>. QED  BY <1>6, <1>7, <1>8, <1>9, SMT DEF Pallet!ExecuteCode, Proofs!ExecuteCode

\* Every dispatch is the same.
LEMMA SameNext == Pallet!Next => Proofs!Next
<1>1. \A id, budget : Pallet!Run(id, budget) = Proofs!Run(id, budget)
  BY SMT DEF Pallet!Run, Proofs!Run
<1>2. \A who, code : Pallet!UploadCode(who, code) => Proofs!UploadCode(who, code)
  BY SMT
     DEF Pallet!UploadCode, Proofs!UploadCode, Pallet!Inserted, Proofs!Inserted,
         Pallet!Deposits, Proofs!Deposits
<1>3. \A old, code : Pallet!UpdateCode(old, code) => Proofs!UpdateCode(old, code)
  BY SMT
     DEF Pallet!UpdateCode, Proofs!UpdateCode, Pallet!Inserted, Proofs!Inserted, Pallet!Removed,
         Proofs!Removed, Pallet!Deposits, Proofs!Deposits
<1>4. \A old : Pallet!DeleteCode(old) => Proofs!DeleteCode(old)
  BY SMT
     DEF Pallet!DeleteCode, Proofs!DeleteCode, Pallet!Removed, Proofs!Removed, Pallet!Deposits,
         Proofs!Deposits
<1>5. \A o, c : Pallet!RejectOrigin(o, c) => Proofs!RejectOrigin(o, c)
  BY SMT
     DEF Pallet!RejectOrigin, Proofs!RejectOrigin, Pallet!Fails, Proofs!Fails,
         Pallet!SignedCall, Proofs!SignedCall, Pallet!RootCall, Proofs!RootCall
<1>. QED  BY <1>1, <1>2, <1>3, <1>4, <1>5, SameExecute, Zenon
             DEF Pallet!Next, Proofs!Next, Pallet!SignedCall, Proofs!SignedCall,
                 Pallet!RootCall, Proofs!RootCall

\* The invariants say the same.
LEMMA SameProperties ==
  /\ Proofs!CodeIdIsHash => Pallet!CodeIdIsHash
  /\ Proofs!StoredIsDecodable => Pallet!StoredIsDecodable
  /\ Proofs!NoDust => Pallet!NoDust
  /\ Proofs!DepositsCoverStorage => Pallet!DepositsCoverStorage
<1>1. Proofs!CodeIdIsHash => Pallet!CodeIdIsHash
  BY SMT DEF Pallet!CodeIdIsHash, Proofs!CodeIdIsHash
<1>2. Proofs!StoredIsDecodable => Pallet!StoredIsDecodable
  BY SameValues, SMT DEF Pallet!StoredIsDecodable, Proofs!StoredIsDecodable
<1>3. Proofs!NoDust => Pallet!NoDust
  BY SMT DEF Pallet!NoDust, Proofs!NoDust, Pallet!Alive, Proofs!Alive,
             Pallet!TotalBalance, Proofs!TotalBalance
<1>4. Pallet!BytesStored = Proofs!BytesStored /\ Pallet!TotalReserved = Proofs!TotalReserved
  BY SameValues, SMT
     DEF Pallet!BytesStored, Proofs!BytesStored, Pallet!TotalReserved, Proofs!TotalReserved
<1>5. Proofs!DepositsCoverStorage => Pallet!DepositsCoverStorage
  BY <1>4, SMT DEF Pallet!DepositsCoverStorage, Proofs!DepositsCoverStorage
<1>. QED  BY <1>1, <1>2, <1>3, <1>5

\* The pallet implemented is the pallet proved about.
LEMMA SameSpec == Pallet!Spec => Proofs!Spec
<1>1. UNCHANGED Pallet!vars => UNCHANGED Proofs!vars
  BY DEF Pallet!vars, Proofs!vars
<1>2. [Pallet!Next]_Pallet!vars => [Proofs!Next]_Proofs!vars
  BY <1>1, SameNext
<1>. QED  BY <1>2, SameInit, PTL DEF Pallet!Spec, Proofs!Spec

\* With kontracts executed statement by statement, the code found under an
\* identifier is the one it identifies, every storage can be read back, no account
\* is dust, and the deposits cover the bytes stored.
THEOREM SystemKeepsPallet ==
  SystemSpec =>
    /\ []Pallet!CodeIdIsHash
    /\ []Pallet!StoredIsDecodable
    /\ []Pallet!NoDust
    /\ []Pallet!DepositsCoverStorage
<1>1. Proofs!Spec =>
        /\ []Proofs!CodeIdIsHash
        /\ []Proofs!StoredIsDecodable
        /\ []Proofs!NoDust
        /\ []Proofs!DepositsCoverStorage
  BY AssumptionsHold, Proofs!CodesAreIdentified, Proofs!StorageStaysReadable,
     Proofs!NoAccountIsDust, Proofs!DepositsAreEnough, PTL
<1>. QED  BY <1>1, SameSpec, SameProperties, SystemImplementsPallet, PTL DEF ImplementsPallet

\* The action of GrowthIsPaid.
Pays(size) ==
  \A id \in CodeId :
    LET growth == size[Storages'[id]] - size[Storages[id]]
    IN  growth > 0 =>
          /\ \E a \in Account :
               balances' = [balances EXCEPT ![a].free = @ - growth, ![a].reserved = @ + growth]
          /\ Storages' = [Storages EXCEPT ![id] = Storages'[id]]

\* A kontract's storage grows only in the step that settles its dispatch, paid by
\* one account, whatever the kontract did on its way.
THEOREM SystemPaysGrowth == SystemSpec => Pallet!GrowthIsPaid
<1>1. Proofs!Spec => Proofs!GrowthIsPaid
  BY AssumptionsHold, Proofs!GrowthIsAlwaysPaid, PTL
<1>2. Proofs!GrowthIsPaid <=> [][Pays(Proofs!EntriesSize)]_Proofs!vars
  BY DEF Proofs!GrowthIsPaid, Pays
<1>3. Pallet!GrowthIsPaid <=> [][Pays(Pallet!EntriesSize)]_Pallet!vars
  BY DEF Pallet!GrowthIsPaid, Pays
<1>4. [Pays(Proofs!EntriesSize)]_Proofs!vars => [Pays(Pallet!EntriesSize)]_Pallet!vars
  <2>1. UNCHANGED Proofs!vars => UNCHANGED Pallet!vars
    BY DEF Pallet!vars, Proofs!vars
  <2>2. Pays(Proofs!EntriesSize) => Pays(Pallet!EntriesSize)
    BY SameValues
  <2>. QED  BY <2>1, <2>2
<1>. QED  BY <1>1, <1>2, <1>3, <1>4, SameSpec, SystemImplementsPallet, PTL DEF ImplementsPallet

\* The events of the dispatches tell which codes are uploaded.
THEOREM SystemEventsAreExact == SystemSpec => Pallet!EventsTrackCodes
<1>1. Proofs!Spec => Proofs!EventsTrackCodes
  BY AssumptionsHold, Proofs!EventsAreExact, PTL
<1>2. [DOMAIN Codes' = Proofs!Indexed(DOMAIN Codes, last'.event)]_Proofs!vars
        => [DOMAIN Codes' = Pallet!Indexed(DOMAIN Codes, last'.event)]_Pallet!vars
  <2>1. UNCHANGED Proofs!vars => UNCHANGED Pallet!vars
    BY DEF Pallet!vars, Proofs!vars
  <2>2. Proofs!Indexed(DOMAIN Codes, last'.event) = Pallet!Indexed(DOMAIN Codes, last'.event)
    BY DEF Proofs!Indexed, Pallet!Indexed
  <2>. QED  BY <2>1, <2>2
<1>. QED  BY <1>1, <1>2, SameSpec, SystemImplementsPallet, PTL
          DEF ImplementsPallet, Proofs!EventsTrackCodes, Pallet!EventsTrackCodes
----------------------------------------------------------------------------
(***************************************************************************)
(* The Collatz kontract                                                    *)
(***************************************************************************)

\* Where the Collatz kontract keeps its number.
NumberKey == Blake2[keyOne]

\* What it keeps there is a number.
NumberOK(s) == NumberKey \in DOMAIN s => s[NumberKey] \in Numbers

\* The numbers of the series are kept in the storages of its kontract.
LEMMA NumberType ==
  ASSUME NEW s, NumberOK(s)
  PROVE  /\ Number(s) \in Numbers /\ Number(s) \in Int
         /\ NextOfSeries(Number(s)) \in Numbers
         /\ NextCollatz(Number(s)) = NextOfSeries(Number(s))
<1>1. Number(s) \in Numbers /\ NextOfSeries(Number(s)) \in Numbers
  BY SeriesAssumption DEF Number, NumberOK, NumberKey
<1>2. Number(s) \in Nat /\ 3 * Number(s) + 1 < Word
  BY <1>1, SeriesAssumption, ProgramsAssumption
<1>3. Number(s) * 3 + 1 = 3 * Number(s) + 1 /\ 3 * Number(s) + 1 \in 0 .. Word - 1
  BY <1>2, WordType
<1>4. U32(Number(s) * 3 + 1) = 3 * Number(s) + 1
  <2>. DEFINE n == 3 * Number(s) + 1
  <2>1. n \in 0 .. Word - 1 /\ Word \in Nat
    BY <1>3, WordType
  <2>. HIDE DEF n
  <2>2. n % Word = n
    BY <2>1
  <2>. QED  BY <1>3, <2>2 DEF U32, n
<1>. QED  BY <1>1, <1>2, <1>4 DEF NextCollatz, NextOfSeries

\* The statements of the Collatz kontract.
LEMMA CollatzStatements ==
  /\ Len(Program[collatz]) = 3
  /\ Program[collatz][1] = Reads(keyOne)
  /\ Program[collatz][2] = Takes(DecodedNumber)
  /\ Program[collatz][3] =
       Writes(keyOne, [c \in Content |-> IF c \in Numbers THEN NextCollatz(c) ELSE c])
BY SeriesAssumption DEF CollantzConjecture

\* A kontract that returns a storage has executed all its statements.
LEMMA OkIsLast ==
  ASSUME NEW b \in Kontract, NEW s \in Storage, NEW g, Outcome(b, s, g).state = "Ok"
  PROVE  Outcome(b, s, g).storage = Before(b, s)[Len(Program[b]) + 1].storage
<1>. DEFINE End == Len(Program[b]) + 1
            stops == {i \in 1 .. End : Stopped(b, s, g, i) # NoResult}
<1>1. b \notin DOMAIN LoadError
  BY DEF Outcome, Error
<1>2. stops = {}
  <2>. SUFFICES ASSUME stops # {}
                PROVE  FALSE
    OBVIOUS
  <2>1. Len(Program[b]) \in Nat /\ stops \in SUBSET Nat
    BY ProgramLength
  <2>2. PICK i \in stops : \A j \in stops : i <= j
    <3>. HIDE DEF stops
    <3>. QED  BY <2>1, LeastElement
  <2>3. i \in 1 .. End /\ \A j \in 1 .. i - 1 : Stopped(b, s, g, j) = NoResult
    BY <2>1, <2>2
  <2>4. Outcome(b, s, g) = Stopped(b, s, g, i) /\ Stopped(b, s, g, i) # NoResult
    BY <1>1, <2>2, <2>3, FirstStop
  <2>5. Stopped(b, s, g, i).state # "Ok"
    BY <2>4, StoppedType DEF Error
  <2>. QED  BY <2>4, <2>5
<1>3. Outcome(b, s, g) = [state |-> "Ok", storage |-> Before(b, s)[End].storage]
  BY <1>1, <1>2, NoStop
<1>. QED  BY <1>3

\* A run of the Collatz kontract that returns a storage has written the number
\* after the one it found.
LEMMA CollatzOutcome ==
  ASSUME NEW s \in Storage, NumberOK(s), NEW g, Outcome(collatz, s, g).state = "Ok"
  PROVE  Outcome(collatz, s, g).storage = Inserted(s, NumberKey, NextOfSeries(Number(s)))
<1>. DEFINE P == Program[collatz]
            B == Before(collatz, s)
            n == Number(s)
            f == [c \in Content |-> IF c \in Numbers THEN NextCollatz(c) ELSE c]
<1>1. collatz \in Kontract
  BY SeriesAssumption
<1>2. /\ B[1] = Started(s)
      /\ B[2] = After(P[1], B[1]) /\ B[3] = After(P[2], B[2]) /\ B[4] = After(P[3], B[3])
  <2>1. /\ B[1] = Started(s)
        /\ \A i \in 1 .. 3 : B[i + 1] = After(P[i], B[i])
    BY <1>1, BeforeSteps, CollatzStatements
  <2>. HIDE DEF B, P
  <2>2. B[1 + 1] = After(P[1], B[1]) /\ B[2 + 1] = After(P[2], B[2]) /\ B[3 + 1] = After(P[3], B[3])
    BY <2>1
  <2>. QED  BY <2>1, <2>2
<1>3. B[2] = [storage |-> s, read |-> Found(s, keyOne), taken |-> EmptyValue]
  <2>1. P[1].op = "read" /\ P[1].key = keyOne
    BY CollatzStatements DEF Reads
  <2>. HIDE DEF B, P
  <2>2. After(P[1], B[1]) = [B[1] EXCEPT !.read = Found(B[1].storage, keyOne)]
    BY <2>1 DEF After
  <2>. QED  BY <1>2, <2>2 DEF Started
<1>4. DecodedNumber[Found(s, keyOne)] = n /\ n \in Numbers /\ n \in Value /\ n \in Content
  <2>1. Found(s, keyOne) \in Content
    <3>1. \A x \in DOMAIN s : s[x] \in Value
      BY DEF Storage
    <3>. QED  BY <3>1, SeriesAssumption, ExecutorAssumption DEF Found
  <2>2. DecodedNumber[Found(s, keyOne)] = n
    BY <2>1, SeriesAssumption DEF DecodedNumber, Found, Number, NumberOK, NumberKey
  <2>3. n \in Numbers
    BY NumberType
  <2>. QED  BY <2>2, <2>3, SeriesAssumption, ProgramsAssumption
<1>5. B[3] = [storage |-> s, read |-> Found(s, keyOne), taken |-> n]
  <2>1. P[2].op = "take" /\ P[2].taken = DecodedNumber
    BY CollatzStatements DEF Takes
  <2>. HIDE DEF n, B, P
  <2>2. After(P[2], B[2]) = [B[2] EXCEPT !.taken = n]
    BY <1>3, <1>4, <2>1 DEF After
  <2>. QED  BY <1>2, <1>3, <2>2
<1>6. B[4].storage = Inserted(s, NumberKey, f[n])
  <2>1. P[3].op = "write" /\ P[3].key = keyOne /\ P[3].value = f
    BY CollatzStatements DEF Writes
  <2>. HIDE DEF n, B, P, f
  <2>2. After(P[3], B[3]) = [B[3] EXCEPT !.storage = Inserted(@, NumberKey, f[n])]
    BY <1>5, <2>1 DEF After, NumberKey
  <2>. QED  BY <1>2, <1>5, <2>2
<1>7. f[n] = NextOfSeries(n)
  BY <1>4, NumberType
<1>8. Outcome(collatz, s, g).storage = B[3 + 1].storage
  BY <1>1, OkIsLast, CollatzStatements
<1>9. Inserted(s, NumberKey, f[n]) = Inserted(s, NumberKey, NextOfSeries(n))
  BY <1>7
<1>. HIDE DEF B, n
<1>. QED  BY <1>6, <1>8, <1>9 DEF n

\* What the Collatz kontract finds when it runs next is a number, or nothing yet.
SeriesInv == NumberOK(Storages[Hash[collatz]])

\* The only step that changes the storage of the Collatz kontract settles one of
\* its own executions.
LEMMA SeriesStep ==
  ASSUME SInv, Pallet!CodeIdIsHash, SeriesInv, [SystemNext]_systemVars
  PROVE  \/ Storages'[Hash[collatz]] = Storages[Hash[collatz]]
         \/ Storages'[Hash[collatz]] =
              Inserted(Storages[Hash[collatz]], NumberKey,
                       NextOfSeries(Number(Storages[Hash[collatz]])))
<1>. DEFINE own == Hash[collatz]
            id == extrinsic.id
            run == AsRun(result)
<1>1. CASE ~Settle
  <2>1. Storages' = Storages
    BY <1>1
       DEF SystemNext, systemVars, palletVars, Dispatch, Execute, Running, Pallet!UploadCode,
           Pallet!DeleteCode, Pallet!ExecuteMissingCode, Pallet!UpdateCode,
           Pallet!RejectOrigin, Pallet!Fails
  <2>. QED  BY <2>1
<1>2. CASE Settle
  <2>1. /\ ExtrinsicOK /\ PalletOK /\ phase = "done"
        /\ Pallet!ExecuteCode(extrinsic.who, id, extrinsic.expected, run)
    BY <1>2 DEF SInv, Settle
  <2>2. /\ result = Outcome(Codes[id], Storages[id], call.budget)
        /\ id \in DOMAIN Codes /\ id \in CodeId
        /\ Codes[id] \in Kontract /\ Storages[id] \in Storage
    BY <2>1 DEF ExtrinsicOK, PalletOK, GInv, OInv, OutcomeIsFunction
  <2>3. Storages' = Storages \/ (run.ok /\ Storages' = [Storages EXCEPT ![id] = run.storage])
    <3>. HIDE DEF run, id
    <3>. QED
      BY <2>1
         DEF Pallet!ExecuteCode, Pallet!ExecuteMissingCode, Pallet!ExecutionFails,
             Pallet!ExecutionExceeds, Pallet!DepositFails, Pallet!DecodeFails,
             Pallet!ExecutionCommits, Pallet!Fails
  <2>4. CASE Storages' = Storages
    BY <2>4
  <2>5. CASE run.ok /\ Storages' = [Storages EXCEPT ![id] = run.storage] /\ id # own
    <3>. HIDE DEF run, id
    <3>. QED  BY <2>1, <2>5 DEF PalletOK
  <2>6. CASE run.ok /\ Storages' = [Storages EXCEPT ![id] = run.storage] /\ id = own
    <3>1. Codes[id] = collatz
      BY <2>2, <2>6, SeriesAssumption DEF Pallet!CodeIdIsHash
    <3>2. result.state = "Ok" /\ run.storage = result.storage
      <4>1. \/ \E e \in Errors : result = Error(e)
            \/ result = [state |-> "HostPanic"]
            \/ \E t \in Storage : result = [state |-> "Ok", storage |-> t]
        BY <2>2, OutcomeType
      <4>. QED  BY <2>6, <4>1 DEF AsRun, Error
    <3>3. result.storage = Inserted(Storages[own], NumberKey, NextOfSeries(Number(Storages[own])))
      BY <2>2, <2>6, <3>1, <3>2, CollatzOutcome DEF SeriesInv
    <3>4. Storages'[own] = run.storage
      <4>. HIDE DEF run, id
      <4>. QED  BY <2>1, <2>2, <2>6 DEF PalletOK
    <3>. QED  BY <3>2, <3>3, <3>4
  <2>. QED  BY <2>3, <2>4, <2>5, <2>6
<1>. QED  BY <1>1, <1>2

\* The number written is found again.
LEMMA SeriesKept ==
  ASSUME SInv, Pallet!CodeIdIsHash, SeriesInv, [SystemNext]_systemVars
  PROVE  /\ SeriesInv'
         /\ Storages'[Hash[collatz]] # Storages[Hash[collatz]] =>
              Number(Storages'[Hash[collatz]]) = NextOfSeries(Number(Storages[Hash[collatz]]))
<1>. DEFINE before == Storages[Hash[collatz]]
            n == NextOfSeries(Number(before))
            after == Inserted(before, NumberKey, n)
<1>1. n \in Numbers
  BY NumberType DEF SeriesInv
<1>2. NumberKey \in DOMAIN after /\ after[NumberKey] = n
  BY DEF Inserted
<1>3. NumberOK(after) /\ Number(after) = n
  <2>. HIDE DEF n, after
  <2>. QED  BY <1>1, <1>2 DEF NumberOK, Number, NumberKey
<1>4. NumberOK(before)
  BY DEF SeriesInv
<1>5. Storages'[Hash[collatz]] \in {before, after}
  BY SeriesStep
<1>6. SeriesInv' <=> NumberOK(Storages'[Hash[collatz]])
  BY DEF SeriesInv, NumberOK, NumberKey
<1>. HIDE DEF before, after, n
<1>7. Storages'[Hash[collatz]] = before \/ (Storages'[Hash[collatz]] = after)
  BY <1>5
<1>8. NumberOK(Storages'[Hash[collatz]])
  BY <1>3, <1>4, <1>7
<1>9. Storages'[Hash[collatz]] # before => Number(Storages'[Hash[collatz]]) = n
  BY <1>3, <1>7
<1>. QED  BY <1>6, <1>8, <1>9 DEF before, n

\* From execution to execution the Collatz kontract goes through the series: no
\* limit, failure, deletion, upgrade or other kontract makes it skip or repeat a
\* number.
THEOREM CollatzIsFollowed == SystemSpec => CollatzSeries
<1>1. SystemInit => SeriesInv
  <2>1. Hash[collatz] \in CodeId
    BY SeriesAssumption, SystemAssumption
  <2>2. SystemInit => DOMAIN Storages[Hash[collatz]] = {}
    BY <2>1 DEF SystemInit, Pallet!Init, Pallet!EmptyStorage
  <2>. QED  BY <2>2 DEF SeriesInv, NumberOK
<1>2. SInv /\ Pallet!CodeIdIsHash /\ SeriesInv /\ [SystemNext]_systemVars => SeriesInv'
  BY SeriesKept
<1>3. SInv /\ Pallet!CodeIdIsHash /\ SeriesInv /\ [SystemNext]_systemVars =>
        [Storages'[Hash[collatz]] # Storages[Hash[collatz]] =>
           Number(Storages'[Hash[collatz]]) = NextOfSeries(Number(Storages[Hash[collatz]]))]_systemVars
  BY SeriesKept
<1>4. CollatzSeries <=>
        [][Storages'[Hash[collatz]] # Storages[Hash[collatz]] =>
             Number(Storages'[Hash[collatz]]) =
               NextOfSeries(Number(Storages[Hash[collatz]]))]_systemVars
  BY DEF CollatzSeries
<1>. QED  BY <1>1, <1>2, <1>3, <1>4, SystemInvariance, SystemKeepsPallet, PTL DEF SystemSpec
=============================================================================
