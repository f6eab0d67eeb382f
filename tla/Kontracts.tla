----------------------------- MODULE Kontracts -----------------------------
(***************************************************************************)
(* The kontracts pallet: code uploaded, executed, deleted and upgraded,    *)
(* and the deposit taken for the storage a kontract uses.                  *)
(*                                                                         *)
(* One step is the dispatch of one extrinsic.  The executor is the host    *)
(* function HostExecute, a parameter: every theorem and every run holds of *)
(* whatever a wasm binary computes, as long as it is a function of the     *)
(* binary, of the kontract's storage and of the budget given by the caller *)
(***************************************************************************)
EXTENDS KontractStorage, Balances, MachineIntegers

CONSTANTS
  Account,              \* signed origins
  Root,                 \* the root origin (the sudo pallet)
  Binary,               \* wasm binaries
  CodeId,               \* identifiers of binaries
  Hash,                 \* HashingAlgorith: Hash[b] is the identifier of b
  Budget,               \* limits a caller may give: fuel, reads and writes
  HostExecute(_, _, _), \* execute_code of the executor
  ExecutionErrors,      \* errors the executor reports
  Declared,             \* values callers give expected_modified_storage
  InitialBalances,      \* the endowments of the genesis
  MaxNumberContracts    \* Config: declared, and read by nothing

\* The host function panics: the extrinsic is not included in any block.
HostPanic == "HostPanic"

\* A kontract's execution ends with its new storage or with an error.
ExecutionResult ==
  [ok : {TRUE}, storage : Storage] \cup
  [ok : {FALSE}, error : ExecutionErrors \cup {HostPanic}]

ASSUME KontractsAssumption ==
  /\ IsFiniteSet(Account) /\ Root \notin Account
  /\ IsFiniteSet(CodeId)
  /\ Hash \in [Binary -> CodeId]
  /\ Declared \subseteq -HalfWord .. HalfWord - 1
  /\ \A b \in Binary, s \in Storage, g \in Budget : HostExecute(b, s, g) \in ExecutionResult

\* The runtime's bounds keep an accepted storage within an i32: 2^20 entries
\* of at most 33 + 1026 bytes each.
ASSUME BoundsAssumption ==
  \A s \in Storage : Decodable(s) => EntriesSize[s] < HalfWord

\* An account is endowed with the existential deposit at least, or not at all.
ASSUME GenesisAssumption ==
  /\ InitialBalances \subseteq [Account -> AccountData]
  /\ \A init \in InitialBalances, a \in Account :
       /\ init[a].reserved = 0
       /\ init[a].free = 0 \/ init[a].free >= ExistentialDeposit

VARIABLES
  Codes,        \* Codes<T>: identifier -> binary, for the uploaded ones
  Storages,     \* Storages<T>: identifier -> storage, empty when absent
  balances,     \* data of every account
  last,         \* result, event and storage variation of the last dispatch
  confiscated   \* history: reserved balance taken by slashes so far

vars == <<Codes, Storages, balances, last, confiscated>>

Init ==
  /\ Codes = [c \in {} |-> c]
  /\ Storages = [c \in CodeId |-> EmptyStorage]
  /\ balances \in InitialBalances
  /\ last = [result |-> "Ok", event |-> [type |-> "None"], variation |-> 0]
  /\ confiscated = 0

----------------------------------------------------------------------------
(***************************************************************************)
(* How a dispatch ends                                                     *)
(***************************************************************************)

\* An Err undoes the storage layer the dispatch ran in, its events included.
Fails(error) ==
  /\ last' = [result |-> error, event |-> [type |-> "None"], variation |-> 0]
  /\ UNCHANGED <<Codes, Storages, balances, confiscated>>

Deposits(event, variation) ==
  last' = [result |-> "Ok", event |-> event, variation |-> variation]

----------------------------------------------------------------------------
(***************************************************************************)
(* upload_code, delete_code and update_code                                *)
(***************************************************************************)

UploadCode(who, code) ==
  /\ Codes' = Inserted(Codes, Hash[code], code)
  /\ Deposits([type |-> "NewCodeUploaded", code_id |-> Hash[code], who |-> who], 0)
  /\ UNCHANGED <<Storages, balances, confiscated>>

\* The storage of the kontract and the deposits taken for it stay.
DeleteCode(id) ==
  /\ Codes' = Removed(Codes, id)
  /\ Deposits([type |-> "CodeDeleted", code_id |-> id], 0)
  /\ UNCHANGED <<Storages, balances, confiscated>>

\* Two slips in update_code: the new binary filed under the old identifier,
\* the old one removed last.
UpdateCodeInPlace(old, code) ==
  /\ Codes' = Inserted(Codes, old, code)
  /\ Deposits([type |-> "CodeUpgraded", old_code_id |-> old, new_code_id |-> Hash[code]], 0)
  /\ UNCHANGED <<Storages, balances, confiscated>>

UpdateCodeRemovesLast(old, code) ==
  /\ Codes' = Removed(Inserted(Codes, Hash[code], code), old)
  /\ Deposits([type |-> "CodeUpgraded", old_code_id |-> old, new_code_id |-> Hash[code]], 0)
  /\ UNCHANGED <<Storages, balances, confiscated>>

\* The old binary is removed first: replacing a binary by itself keeps it.
UpdateCode(old, code) ==
  /\ Codes' = Inserted(Removed(Codes, old), Hash[code], code)
  /\ Deposits([type |-> "CodeUpgraded", old_code_id |-> old, new_code_id |-> Hash[code]], 0)
  /\ UNCHANGED <<Storages, balances, confiscated>>

\* ensure_signed turns the root away from upload_code and execute_code,
\* ensure_root turns every account away from delete_code and update_code.
SignedCall == {"upload_code", "execute_code"}
RootCall == {"delete_code", "update_code"}

RejectOrigin(origin, call) ==
  /\ call \in IF origin = Root THEN SignedCall ELSE RootCall
  /\ Fails("BadOrigin")

----------------------------------------------------------------------------
(***************************************************************************)
(* execute_code                                                            *)
(***************************************************************************)

\* get_storage_size
StorageSize(storage) == I32(EntriesSize[storage])

\* What the run of code id under a budget returns.
Run(id, budget) == HostExecute(Codes[id], Storages[id], budget)

\* new_storage_size - old_storage_size, for a run that returned a storage.
Variation(id, run) == I32(StorageSize(run.storage) - StorageSize(Storages[id]))

\* A slip: an exact declaration turned away.
ExpectsLess(expected, variation) == variation = 0 \/ variation < expected

\* The caller gave the variation at most, or there is none: the last arm of
\* the match is not taken.
Expects(expected, variation) == variation = 0 \/ variation <= expected

\* A slip in the settlement: the error of reserve ignored.
CanAlwaysSettle(acc, variation) == TRUE

\* The first three arms of the match: whether the deposit can be settled, and
\* the caller's account once it is.
CanSettle(acc, variation) == variation > 0 => CanReserve(acc, U32(variation))

DepositSettled(acc, variation) ==
  IF variation < 0
  THEN Unreserved(acc, U32(I32(-variation)))
  ELSE Reserved(acc, U32(variation))

\* There is no code under the identifier.
ExecuteMissingCode(id) ==
  /\ id \notin DOMAIN Codes
  /\ Fails("InvalidCodeId")

\* The executor returns an error, or panics.
ExecutionFails(id, run) ==
  /\ id \in DOMAIN Codes
  /\ ~run.ok
  /\ Fails(run.error)

\* A slip in the last arm: without its return, the new storage is kept.
ExecutionExceedsAndKeeps(who, id, expected, run) ==
  /\ id \in DOMAIN Codes
  /\ run.ok
  /\ LET x == Variation(id, run)
         acc == Slashed(balances[who], U32(x))
     IN  /\ ~Expects(expected, x)
         /\ Decodable(run.storage)
         /\ balances' = [balances EXCEPT ![who] = acc]
         /\ confiscated' = confiscated + balances[who].reserved - acc.reserved
         /\ Storages' = [Storages EXCEPT ![id] = run.storage]
         /\ Deposits([type |-> "ExceededStorage", code_id |-> id, who |-> who], x)
  /\ UNCHANGED Codes

\* The run used more than the caller expected: the new storage is dropped and
\* the variation, as an u32, is slashed.
ExecutionExceeds(who, id, expected, run) ==
  /\ id \in DOMAIN Codes
  /\ run.ok
  /\ LET x == Variation(id, run)
         acc == Slashed(balances[who], U32(x))
     IN  /\ ~Expects(expected, x)
         /\ balances' = [balances EXCEPT ![who] = acc]
         /\ confiscated' = confiscated + balances[who].reserved - acc.reserved
         /\ Deposits([type |-> "ExceededStorage", code_id |-> id, who |-> who], x)
  /\ UNCHANGED <<Codes, Storages>>

\* The caller cannot pay the deposit.
DepositFails(who, id, expected, run) ==
  /\ id \in DOMAIN Codes
  /\ run.ok
  /\ Expects(expected, Variation(id, run))
  /\ ~CanSettle(balances[who], Variation(id, run))
  /\ Fails("DepositError")

\* A slip: without the storage layer the settlement outlives the error.
DecodeFailsSettled(who, id, expected, run) ==
  /\ id \in DOMAIN Codes
  /\ run.ok
  /\ LET x == Variation(id, run)
     IN  /\ Expects(expected, x)
         /\ CanSettle(balances[who], x)
         /\ balances' = [balances EXCEPT ![who] = DepositSettled(@, x)]
  /\ ~Decodable(run.storage)
  /\ last' = [result |-> "UnexpectedBehavoiur", event |-> [type |-> "None"], variation |-> 0]
  /\ UNCHANGED <<Codes, Storages, confiscated>>

\* The storage is out of bounds: checked after the deposit is settled, which is
\* undone.
DecodeFails(who, id, expected, run) ==
  /\ id \in DOMAIN Codes
  /\ run.ok
  /\ Expects(expected, Variation(id, run))
  /\ CanSettle(balances[who], Variation(id, run))
  /\ ~Decodable(run.storage)
  /\ Fails("UnexpectedBehavoiur")

\* A slip: the new storage kept as the executor returned it, bounds unchecked.
ExecutionCommitsUnchecked(who, id, expected, run) ==
  /\ id \in DOMAIN Codes
  /\ run.ok
  /\ LET x == Variation(id, run)
     IN  /\ Expects(expected, x)
         /\ CanSettle(balances[who], x)
         /\ balances' = [balances EXCEPT ![who] = DepositSettled(@, x)]
         /\ Storages' = [Storages EXCEPT ![id] = run.storage]
         /\ Deposits([type |-> "CodeExecuted", code_id |-> id, who |-> who], x)
  /\ UNCHANGED <<Codes, confiscated>>

\* The deposit is settled and the new storage kept.
ExecutionCommits(who, id, expected, run) ==
  /\ id \in DOMAIN Codes
  /\ run.ok
  /\ LET x == Variation(id, run)
     IN  /\ Expects(expected, x)
         /\ CanSettle(balances[who], x)
         /\ Decodable(run.storage)
         /\ balances' = [balances EXCEPT ![who] = DepositSettled(@, x)]
         /\ Storages' = [Storages EXCEPT ![id] = run.storage]
         /\ Deposits([type |-> "CodeExecuted", code_id |-> id, who |-> who], x)
  /\ UNCHANGED <<Codes, confiscated>>

ExecuteCode(who, id, expected, run) ==
  \/ ExecuteMissingCode(id)
  \/ ExecutionFails(id, run)
  \/ ExecutionExceeds(who, id, expected, run)
  \/ DepositFails(who, id, expected, run)
  \/ DecodeFails(who, id, expected, run)
  \/ ExecutionCommits(who, id, expected, run)

----------------------------------------------------------------------------
Next ==
  \/ \E who \in Account, code \in Binary : UploadCode(who, code)
  \/ \E who \in Account, id \in CodeId, expected \in Declared, budget \in Budget :
       ExecuteCode(who, id, expected, Run(id, budget))
  \/ \E id \in CodeId : DeleteCode(id)
  \/ \E old \in CodeId, code \in Binary : UpdateCode(old, code)
  \/ \E origin \in Account \cup {Root}, call \in SignedCall \cup RootCall :
       RejectOrigin(origin, call)

Spec == Init /\ [][Next]_vars

----------------------------------------------------------------------------
(***************************************************************************)
(* Properties                                                              *)
(***************************************************************************)

TypeOK ==
  /\ Codes \in UNION {[C -> Binary] : C \in SUBSET CodeId}
  /\ Storages \in [CodeId -> Storage]
  /\ balances \in [Account -> AccountData]
  /\ confiscated \in Nat

\* The binary found under an identifier is the one it identifies, whatever
\* order of uploads, deletions and upgrades led there.
CodeIdIsHash == \A id \in DOMAIN Codes : Hash[Codes[id]] = id

\* No sequence of executions leaves a storage that the next execution could
\* not read back: the bounds are checked on every path that keeps a storage.
StoredIsDecodable == \A id \in CodeId : Decodable(Storages[id])

\* reserve, unreserve and slash leave no account between zero and the
\* existential deposit.
NoDust == \A a \in Account : Alive(balances[a])

\* Bytes stored by all kontracts, and balance reserved by all accounts.
BytesStored == Total([id \in CodeId |-> EntriesSize[Storages[id]]])

TotalReserved == Total([a \in Account |-> balances[a].reserved])

\* The deposits held, with those taken by slashes, cover every byte stored,
\* although any account may free the bytes another one paid for, slashes
\* reach into reserved balance and code is deleted under its storage.
DepositsCoverStorage == BytesStored <= TotalReserved + confiscated

\* Whether the deposits of account a moved as the storage did: reserved for
\* growth alone and as much of it, given back for freed bytes and no more of
\* them.  Taken away only when the account loses all of its free balance.
DepositsFollow(a, taken) ==
  LET moved  == balances'[a].reserved - balances[a].reserved
      growth == BytesStored' - BytesStored
  IN  /\ moved > 0 => moved = growth
      /\ moved < 0 => growth <= moved \/ (taken /\ balances'[a].free = 0)

\* Deposits that cover bytes still stored are lost in one way: their owner
\* executes, the run exceeds its declaration, and the slash eats up its free
\* balance first.  No error path, deletion, upgrade or other caller moves them.
DepositsFollowStorage ==
  [][\A a \in Account :
       DepositsFollow(a, last'.event.type = "ExceededStorage" /\ last'.event.who = a)]_vars

\* The codes a reader of the events alone believes to be uploaded after one.
Indexed(codes, event) ==
  CASE event.type = "NewCodeUploaded" -> codes \cup {event.code_id}
    [] event.type = "CodeDeleted"     -> codes \ {event.code_id}
    [] event.type = "CodeUpgraded"    -> (codes \ {event.old_code_id}) \cup {event.new_code_id}
    [] event.type \in {"None", "CodeExecuted", "ExceededStorage"} -> codes

\* Following the events keeps track of the uploaded codes, also when a code is
\* uploaded twice, upgraded to itself or upgraded from one never uploaded.
EventsTrackCodes == [][DOMAIN Codes' = Indexed(DOMAIN Codes, last'.event)]_vars

\* A storage grows only in a step in which one account moves exactly as many
\* units from its free to its reserved balance, and the storage of no other
\* kontract changes.
GrowthIsPaid ==
  [][\A id \in CodeId :
       LET growth == EntriesSize[Storages'[id]] - EntriesSize[Storages[id]]
       IN  growth > 0 =>
             /\ \E a \in Account :
                  balances' = [balances EXCEPT ![a].free = @ - growth, ![a].reserved = @ + growth]
             /\ Storages' = [Storages EXCEPT ![id] = Storages'[id]]]_vars

(***************************************************************************)
(* What the documentation says of the pallet                               *)
(***************************************************************************)

\* README, execute_code: freeing space has as consequence "the return of the the
\* same amount of deposit".  A caller gets back as much as it freed.
FreedBytesAreReturned ==
  [][last'.event.type = "CodeExecuted" /\ last'.variation < 0 =>
       balances'[last'.event.who].free = balances[last'.event.who].free - last'.variation]_vars

\* README, execute_code: "the user will be slash for the real storage variation".
\* A slash takes at most the size of the variation from the caller.
SlashIsVariation ==
  [][last'.event.type = "ExceededStorage" =>
       LET who == last'.event.who
           x   == last'.variation
       IN  TotalBalance(balances[who]) - TotalBalance(balances'[who])
             <= IF x < 0 THEN -x ELSE x]_vars

\* Config, MaxKontracStorageSize: "Max size of the storage, in Byte".  No
\* execution leaves a storage of more bytes.
StorageWithinMaxSize == \A id \in CodeId : EntriesSize[Storages[id]] <= MaxKontracStorageSize

\* Config, MaxNumberContracts: "Max number of contracts that can be managed in
\* the pallet".  No upload or upgrade leaves more codes.
CodesWithinMaxNumber == Cardinality(DOMAIN Codes) <= MaxNumberContracts
============================================================================
