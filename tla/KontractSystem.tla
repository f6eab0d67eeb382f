--------------------------- MODULE KontractSystem ---------------------------
(***************************************************************************)
(* The pallet, the executor and kontracts built with the SDK together: a   *)
(* dispatch of execute_code calls the host function, which runs the        *)
(* kontract statement by statement, and settles when it returns.           *)
(*                                                                         *)
(* For the pallet the execution is one function of the binary, the storage *)
(* and the limits: this module shows that it may be.                       *)
(***************************************************************************)
EXTENDS KontractGuest, Balances

CONSTANTS
  Account, Root, CodeId, Hash, Declared, InitialBalances, MaxNumberContracts,
  Budget          \* limits callers give

ASSUME BudgetAssumption == Budget \subseteq GuestBudget

\* What the pallet assumes of its constants, but for the host function: what the
\* executor returns is known here.
ASSUME SystemAssumption ==
  /\ IsFiniteSet(Account) /\ Root \notin Account
  /\ IsFiniteSet(CodeId)
  /\ Hash \in [Kontract -> CodeId]
  /\ Declared \subseteq -HalfWord .. HalfWord - 1
  /\ \A s \in Storage : Decodable(s) => EntriesSize[s] < HalfWord
  /\ InitialBalances \subseteq [Account -> AccountData]
  /\ \A init \in InitialBalances, a \in Account :
       /\ init[a].reserved = 0
       /\ init[a].free = 0 \/ init[a].free >= ExistentialDeposit

VARIABLES
  Codes, Storages, balances, last, confiscated,     \* of the pallet
  extrinsic                                         \* being executed, if any

palletVars == <<Codes, Storages, balances, last, confiscated>>

systemVars == <<guestVars, palletVars, extrinsic>>

Errors == {"IncorrecBinary", "ImpossibleCreateInstance", "MainEntryPointNotDefined",
           "WasmPanic", "OutOfFuel", "OutOfReads", "OutOfWrites"}

\* What execute_code returned, as the pallet gets it.
AsRun(res) ==
  CASE res.state = "Ok"        -> [ok |-> TRUE, storage |-> res.storage]
    [] res.state = "Err"       -> [ok |-> FALSE, error |-> res.error]
    [] res.state = "HostPanic" -> [ok |-> FALSE, error |-> "HostPanic"]

ExecuteInOneStep(b, s, g) == AsRun(Outcome(b, s, g))

Pallet == INSTANCE Kontracts WITH
  Binary <- Kontract, HostExecute <- ExecuteInOneStep, ExecutionErrors <- Errors

----------------------------------------------------------------------------
NoExtrinsic == [call |-> "none"]

NoLimits == [fuel |-> 0, read |-> 0, write |-> 0]

\* Between two calls of execute_code there is no store.
Dropped ==
  /\ call = NoExtrinsic
  /\ phase = "done" /\ store = NewStore(EmptyStorage, NoLimits) /\ fuel = 0
  /\ buffer = NoBuffer /\ result = NoResult /\ served = NothingServed
  /\ pc = 1 /\ taken = EmptyValue

SystemInit == Pallet!Init /\ Dropped /\ extrinsic = NoExtrinsic

\* The calls of the pallet that execute nothing.
Dispatch ==
  /\ extrinsic = NoExtrinsic
  /\ \/ \E who \in Account, code \in Kontract : Pallet!UploadCode(who, code)
     \/ \E id \in CodeId : Pallet!DeleteCode(id)
     \/ \E who \in Account, id \in CodeId, expected \in Declared, budget \in Budget :
          Pallet!ExecuteMissingCode(id)
     \/ \E old \in CodeId, code \in Kontract : Pallet!UpdateCode(old, code)
     \/ \E origin \in Account \cup {Root}, c \in Pallet!SignedCall \cup Pallet!RootCall :
          Pallet!RejectOrigin(origin, c)
  /\ UNCHANGED <<guestVars, extrinsic>>

\* The store is made for a call and dropped when it returns.
Calls(b, s, g) ==
  /\ call' = [code |-> b, storage |-> s, budget |-> g]
  /\ phase' = "module" /\ store' = NewStore(s, g) /\ fuel' = g.fuel
  /\ UNCHANGED <<buffer, result, served, pc, taken>>

Drops ==
  /\ call' = NoExtrinsic
  /\ store' = NewStore(EmptyStorage, NoLimits) /\ fuel' = 0
  /\ buffer' = NoBuffer /\ result' = NoResult /\ served' = NothingServed
  /\ pc' = 1 /\ taken' = EmptyValue
  /\ UNCHANGED phase

\* The host function is called with the code and the storage found.
Execute(who, id, expected, budget) ==
  /\ extrinsic = NoExtrinsic
  /\ id \in DOMAIN Codes
  /\ extrinsic' = [call |-> "execute_code", who |-> who, id |-> id, expected |-> expected]
  /\ Calls(Codes[id], Storages[id], budget)
  /\ UNCHANGED palletVars

\* No other extrinsic is dispatched in between: the call is synchronous.
Running ==
  /\ extrinsic # NoExtrinsic
  /\ GuestNext
  /\ UNCHANGED <<palletVars, extrinsic>>

\* A slip: a failed run leaves what it had written.
SettlePartial ==
  /\ extrinsic # NoExtrinsic /\ phase = "done"
  /\ Pallet!ExecuteCode(extrinsic.who, extrinsic.id, extrinsic.expected,
                        [ok |-> TRUE, storage |-> store.storage])
  /\ extrinsic' = NoExtrinsic
  /\ Drops

\* The host function has returned: the rest of the dispatch.
Settle ==
  /\ extrinsic # NoExtrinsic /\ phase = "done"
  /\ Pallet!ExecuteCode(extrinsic.who, extrinsic.id, extrinsic.expected, AsRun(result))
  /\ extrinsic' = NoExtrinsic
  /\ Drops

SystemNext ==
  \/ Dispatch
  \/ \E who \in Account, id \in CodeId, expected \in Declared, budget \in Budget :
       Execute(who, id, expected, budget)
  \/ Running
  \/ Settle

\* A dispatch that began runs on: nothing else may happen in the block.
SystemSpec == SystemInit /\ [][SystemNext]_systemVars /\ WF_systemVars(Running \/ Settle)

----------------------------------------------------------------------------
(***************************************************************************)
(* Properties                                                              *)
(***************************************************************************)

\* Statement by statement, over every interleaving of the calls of a dispatch,
\* the system does what the pallet does in one step with the outcome of the
\* kontract.
ImplementsPallet == Pallet!Spec

\* Every dispatch ends, also of a kontract that loops or panics the host.
DispatchEnds == extrinsic # NoExtrinsic ~> extrinsic = NoExtrinsic
============================================================================
