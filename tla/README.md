# Kontracts in TLA+

TLA+ specifications of *kontracts*, a Substrate node whose runtime executes
wasm binaries ("kontracts") in wasmtime through a host function, with small
instances checked by TLC and theorems proved with TLAPS.  Paths below are
relative to `src/`.

## The system

| component | state | operations | interacts with |
|---|---|---|---|
| kontracts pallet, `kontracs/pallets/kontracts/src/lib.rs` | `Codes` (identifier -> binary), `Storages` (identifier -> storage of the kontract) | `upload_code`, `execute_code` (signed), `delete_code`, `update_code` (root) | calls the executor; `reserve`, `unreserve`, `slash` of the currency; deposits events |
| executor, `kontracs/kontracts-executor/src/lib.rs` | per call: a `KontractStore` (limits, counters, decoded storage), fuel, the wasm instance | `execute_code`; `env.set`, `env.get`, `env.remove` for the binary | called by the pallet; calls the binary, which calls it back |
| SDK, `rust_kontract/kontracts-proc-macro/src/lib.rs` | the wasm memory | `write`, `read`, `delete`, the `main` wrapper | imports of the binary |
| example and test kontracts, `rust_kontract/src/lib.rs`, `.../wasm_test/*.rs` | their storage | `main` | SDK |
| runtime, `kontracs/runtime/src/lib.rs` | nonces, balances, blocks, sudo key | dispatch of extrinsics, fees, runtime APIs | pallet, node |
| node, `kontracs/node/src/*.rs` | client, pool, network, consensus tasks | start-up, block production and import, RPC, subcommands | runtime through the wasm or native executor, host functions |

What is hard to get right in it:

* **Deposits against shared storage.**  The deposit for storage is taken from
  the caller, but a storage belongs to a kontract that anybody may execute:
  deposits and bytes are related only through long sequences of calls by several
  accounts, with slashes, deletions and upgrades in between.
* **Partial failure.**  The settlement precedes the decoding of the storage
  that it pays for; an `Err` undoes everything, and `ExceededStorage` returns
  `Ok` on purpose, so that the slash is not undone.
* **Numbers.**  Sizes are cast to `i32`, variations to `u32`, counters wrap at
  2^32, and a buffer is written through an inclusive range.
* **Binaries nobody has seen.**  The executor runs arbitrary code that calls
  back, loops, traps, or runs before `main` in a start function.
* **Staleness.**  A caller declares a variation computed against a storage that
  may change before its extrinsic is included.
* **Delivery.**  An extrinsic reaches block authors late, in any order and more
  than once; its fee and its nonce are taken before a dispatch that may fail or
  panic, and its signer may be reaped by it.
* **A start-up with tasks already running.**  `new_full` starts a dozen tasks one
  by one, any of which may fail at once, and any later step may return an error.

`PROJECT.json` lists each hazard at its line with the properties aimed at it.

What makes each component correct:

* pallet: storage is never kept without its deposit, stays readable, and the
  events tell the codes; a deposit moves with the bytes it covers, or is slashed from
  the account that owns it; slashes and refunds are what the documentation says;
* executor: the kontract gets a map of its own within the limits of the caller,
  the result is the final map or a true error, every execution ends;
* SDK and kontracts: what an execution returns is a function of the binary, the
  storage and the limits, so that all nodes execute blocks alike;
* runtime: no extrinsic is applied twice, no balance comes out of nothing, an
  honest caller is slashed only for what it could not see, a failure costs the fee and
  the nonce alone, and an account loses its deposits by its own extrinsics alone;
* node: the network comes last, and an essential task that fails or a step that fails
  takes the process down with all its tasks.

## Modules

| module | models |
|---|---|
| `KontractStorage` | the storage of a kontract: maps, the sizes of SCALE encodings, the bounds under which it decodes |
| `MachineIntegers` | `as i32`, `as u32` at a parametric width (`HalfWord` is 2^31) |
| `Balances` | external: one account of `pallet_balances` under `reserve`, `unreserve`, `slash` |
| `Kontracts` | the pallet: one step is the dispatch of one extrinsic, the executor is the parameter `HostExecute` |
| `KontractRun` | abstract: what an execution promises its caller |
| `KontractExecutor` | the executor: one call of `execute_code`, step by step, with an arbitrary binary |
| `FunctionSums` | sums over functions, without recursion |
| `KontractPrograms` | the kontracts of the repository as sequences of SDK calls and of what they compute |
| `KontractGuest` | the SDK: a given program run by the executor (EXTENDS `KontractExecutor`); its outcome in one piece |
| `KontractSystem` | pallet, executor and kontracts composed: implements `Kontracts` |
| `KontractSeries` | the Collatz kontract on that chain: what the documentation says of its state from execution to execution (EXTENDS `KontractSystem`, `KontractPrograms`) |
| `ChainSpec` | the genesis of the development chain and of the local test network, and the choice by name |
| `KontractsRuntime` | nonces, fees, transfers and sudo around the pallet (EXTENDS `Kontracts`) |
| `NodeService` | a run of the node: command line, start-up, tasks, stop |
| `MC...` | instances for TLC |
| `FunctionSumsProofs`, `MachineIntegersProofs`, `KontractsProofs`, `KontractExecutorProofs`, `KontractGuestProofs`, `KontractSystemProofs`, `KontractsRuntimeProofs`, `NodeServiceProofs` | proofs |

### Kontracts

`Codes` is a function on the uploaded identifiers; `Storages` is total, as a
`ValueQuery` map is.  `balances` holds the account data.  `last` is what an
observer learns from the last dispatch (result, event, and the variation the
code computed); `confiscated` is history: reserved balance taken by slashes.
`DepositsCoverStorage` counts it among the deposits, so that it bounds the bytes that
nobody ever paid for; `DepositsFollowStorage` looks at each step and each account
without it, and says who may lose a deposit and how.

`ExecuteCode` is the disjunction of the ways through `execute_code`, in the
order of the code: `ExecuteMissingCode`, `ExecutionFails`, then the match on the
variation (`Expects`, `CanSettle`, `DepositSettled`): `ExecutionExceeds` is its
last arm, `DepositFails` the failure of `reserve`, `DecodeFails` the late check
of the bounds, `ExecutionCommits` the rest.  FRAME runs a dispatch in a storage
layer, so every action that fails changes `last` only.  A panic of the host makes
the extrinsic invalid and also leaves the state alone.

A value is an identity and a length, a key is its hash: the pallet sees nothing
else.  Fees are the runtime's, weights are not modelled.

### KontractExecutor

`phase` follows the function: `module` (compilation), `instantiate`, `start` (a
start function, which runs inside the instantiation with all host functions),
`entry` (looking for `main`), `main`, `done`.  The binary is arbitrary: in
`start` and `main` it may compute, trap, return, or call `Set`, `Get`, `Remove`
with any argument.  Pointers are told apart by what the host does about them:
`WasmTrap` covers those `read_vec` turns down, and a `Buffer` is the size the
binary declares and the memory that follows its start.  `Get` has the three
outcomes of `write_vec`: a trap, a panic of the host, or `Slice(v)` bytes written.

A unit of `fuel` is what the binary executes up to its next call or its next fuel
check.  It takes at least one instruction and so one unit of wasmtime's fuel.

`KeepsPromise` is the refinement of `KontractRun`: its map is the storage seen
through the (collision-free) hash, its unbounded counts are the operations
carried out, its `got` the value delivered, its `result` the result with the
errors that promise nothing merged into `Failed`.

### KontractPrograms and KontractGuest

A kontract is `main` as a sequence of statements: `write`, `read` and `delete` of the
SDK, `take` (decoding what was read, and the computation on it, a function on the
values), a loop, a panic.  Each is one step of `KontractExecutor` with the arguments
given (`SDKWrite` is its `Set` or its `ExceedsWrites`), so every behaviour of
`GuestSpec` is one of the executor.  `read` hands the host a buffer of
`MaxValueBytes` and decodes it afterwards: a value that is too long traps, one of
64 bytes or more panics the host.  A binary that cannot be loaded fails in the
phase in which the executor finds out (`LoadError`).

`Outcome(b, s, g)` is what `execute_code` returns, in one piece: what the program does
to the storage were there no limits (`Before`), and the first statement that
something stops (`Stopped`).  `OutcomeIsFunction` compares the two.

### KontractSystem

`Execute` begins a dispatch and calls the host function, `Running` is a step of the
kontract, `Settle` is the rest of `execute_code` with what was returned; the calls
that execute nothing are the pallet's actions.  The executor's variables are back to
one fixed value between two calls, as the store is dropped.  `ImplementsPallet` is
the refinement: `Pallet` is `Kontracts` with the one-step `HostExecute` being
`Outcome`.  This is what justifies the parameter `HostExecute` of `Kontracts`.

`KontractSeries` adds the claim of the example's documentation: `Number` is what the
Collatz kontract would find under its key, `CollatzSeries` says that its storage changes
from a number to the next one of the series and in no other way.

### KontractsRuntime

`Submit` is `validate_transaction`: the extrinsic, with the storage its caller `seen`,
is from then on available to every author, who may apply it late, after others, or
again.  Applying one is `PreDispatch` (the checks of `SignedExtra` that depend on the
state: the nonce and the fee), `Dispatch` (a call of the pallet, a transfer, or sudo
with an inner call as root) with the removal of reaped accounts (`RemovesReaped`), and
`PostDispatch` (the refund of sudo).  After a panic of the host, `Unwind` goes back to
the state `before` the extrinsic: that is what the block builder does, library code
about which nothing is claimed here.  Sudo succeeds also when the inner call turns the root
away.  A transfer that reaps its sender adds its reserved balance to `confiscated`.
`included` is history, of the account that exists: it is cleared together with the nonce
when the account is reaped, because the runtime then does accept an earlier extrinsic
again, and `NonceCountsExtrinsics` says nothing against it.  Fees are constants by call.

The genesis of the instance is that of `ChainSpec`, where accounts and keys are told
apart by the seed they derive from.

### NodeService

`Startup(config)` is the sequence of the steps of the command, taken from `run`,
`new_partial` and `new_full` in the order of the code; a step is named after the
function called.  `StepSucceeds` spawns the tasks of the step (`Spawned`), `StepFails`
is the `?` (or the `return Err`): the error drops the task manager on its way out.
`Runs` ends the start-up; the benchmark commands keep the client alone, so that the
manager is dropped there.  A task fails at any time after it was spawned
(`TaskFails`), and ends when it notices that its manager is gone (`TaskEnds`).
The full node stops for an essential task that failed (`EssentialTaskFailed`) or a
signal, a subcommand when it is done (`Finishes`).

### Slips

Definitions introduced as "a slip" state a plausible mistake in the code next to
the definition they would replace (`UpdateCodeRemovesLast` next to `UpdateCode`).
They are used by nothing; replacing the definition by its slip makes the property
that `PROJECT.json` pairs with it fail.

## Runs

| run | question | result |
|---|---|---|
| `pallet` | do deposits, storages, codes and events stay consistent over every sequence of calls, and who can lose a deposit? | holds, 30,347 states |
| `executor` | does the executor keep its promise, respect the limits and end? | holds, 11,146 states |
| `guest` | is what a kontract returns a function of binary, storage and limits, blind to empty entries? | holds, 163,084 states |
| `system` | do pallet, executor and kontracts together do what the pallet does in one step, end every dispatch, and keep the Collatz series? | holds, 251,761 states |
| `runtime` | do nonces, issuance, deposits and slashes stay right when extrinsics come late, twice, fail, panic or reap? | holds, 481,864 states |
| `node` | does the node start in order and stop when it must, whatever fails? | holds, 59,409 states |
| `slash` | is a slash the real variation? | no: a caller that frees less than it declared loses everything (`lib.rs:201`) |
| `freed` | does a caller get back what it frees? | no: only out of its own deposits (`lib.rs:192`) |
| `storage_bytes` | is a storage within the maximum size in bytes? | no: the bound counts entries (`lib.rs:76`) |
| `code_count` | is the number of codes bounded? | no: nothing reads the bound (`lib.rs:134`) |
| `result_buffer` | does a result fit the declared buffer? | no: one byte more is written (`kontracts-executor/src/lib.rs:129`) |
| `readable` | can a value that fits the buffer be read? | no: from 64 bytes on the host panics (`kontracts-executor/src/lib.rs:131`) |

**Bounds.**  `pallet`: two accounts (a payer and a second one that frees its
bytes), three binaries: `cycle` grows twice and frees everything, `bloat` adds an
entry with a value above the bound, `huge` makes a storage whose size is negative
as an integer of the run's width (512 values instead of 2^32).  Declarations are
exact, too low, generous, and too generous when freeing.  The late decoding fails after
both settlements: after a `reserve` (the second entry of `bloat`, declared with 95) and
after an `unreserve` (`huge`).  Sizes are those of the repository's tests (an entry of 47
bytes) or twice as much, and one account cannot afford the largest.  With balances of 100 and 60 every account meets: a deposit it
can pay, one it cannot, a slash of free balance, a slash into reserved balance, and
the existential deposit.  Repetitions beyond that revisit the same states: the
state space is finite without a bound on the number of calls.  `executor`: words
of two bits, so that fuel, limits and counters all reach their maximum; two keys,
values of 0, 13 and 64 bytes; initially one key, the other, or none.  The
execution ends, so deadlock is not checked there.

`guest`: the kontracts of the repository but for the example, which is
`write_and_read_16B`; one that moves a value it read between two keys; three binaries
that cannot be loaded.  Fuel 0 to 6 stops every statement of every one of them, limits
0 to 2 every host call, 31 is the maximum of the width.  The storages hold nothing, or
the empty value, a vector, 64 or 101 bytes under the keys of the kontracts, or any
number that the Collatz series goes through from 5.  `system`: one caller, the three
kontracts that loop, write twice, and depend on their last execution; a balance that
pays for the storage of either of the last two and not of both, and three budgets: one
that is enough for all, one that stops the kontract with two writes after the first, and
one whose fuel runs out in the Collatz kontract after it has written its next number.  With one caller the
dispatches still follow each other in every order; several callers are the business
of `pallet`.  `runtime`: Alice, who has the sudo key, and Bob sign; four extrinsics
(`MaxExtrinsics`) with nonces up to one (`MaxNonce`) are enough for an extrinsic that
overtakes another, a replay after reaping, and an account that comes back.  The
kontract grows by 47, then by 49, and then frees the 96, so that three extrinsics slash an
honest caller that is late: Alice uploads, Bob declares the 47 it sees, and an execution of
Alice's makes it 49.  Weakening `SlashedOnlyIfStale` by its first alternative is refuted
by this run, as is weakening `DepositsLostByOwner` by either of the two ways to lose a
deposit.  With the other budget the kontract panics the host, or returns a value that does
not decode, so that a dispatch fails after its deposit was reserved.  Endowment and fees are
such that a slash reaches into the reserve and that a transfer of all that is free
reaps an account with deposits.
Extrinsics run out at the bound, so deadlock is not checked.  `node`: all
configurations of the full node, and all subcommands with and without a remote
keystore: there is no other bound.  The process exits, so deadlock is not checked.

**Fairness.**  `Kontracts` has none: nothing obliges anybody to call.
`KontractExecutor` assumes weak fairness of what the host does by itself (`Host`):
`execute_code` is a synchronous call and wasmtime executes instruction after
instruction.  Nothing is asked of the binary, which may never return.  In
`KontractGuest` the binary is given and each of its steps is executed by the same host,
so `GuestNext` is weakly fair; in `KontractSystem` `Running` and `Settle` are, because a
dispatch that began is a synchronous call on the thread that executes the block.
Nobody is obliged to call, and `KontractsRuntime` has no fairness at all.
`NodeService` assumes that the start-up code runs on (each step succeeds or fails),
that the runner polls the task manager's future, that spawned tasks notice the exit
signal, and that the process ends when they have.  No task is obliged to fail, no
command to be done, no signal to come.  That a step of the start-up returns at all is
assumed; the runner gives up on tasks that do not end after 60 seconds, which the
model does not need.

## Theorems

Assumptions are named where the constants are declared: finite sets of accounts,
identifiers and keys; hashing gives an identifier, and in the executor is
collision-free; only the empty vector has length 0; the executor returns a storage or an
error (proved of the executor, see *System*); genesis accounts hold
nothing or the existential deposit; fuel and limits are machine words;
`SeriesAssumption` (`KontractSeries` only): no other kontract has the hash of the Collatz
kontract, which starts from 5 and meets only numbers n whose 3n + 1 fits an `u32`; and
`BoundsAssumption`: a storage within the bounds of the runtime is smaller than 2^31
bytes (2^20 entries of at most 33 + 1026 bytes).

*Pallet* (`KontractsProofs`).  The inductive invariant is the conjunction of the
type invariant, `CodeIdIsHash`, `StoredIsDecodable`, `NoDust` and
`DepositsCoverStorage`.  `StoredIsDecodable` is what makes the arithmetic exact: the
old and the new size are below 2^31, so the difference and its casts are the real
ones (`StorageSizeExact`, `CommitMoves`).  `NoDust` makes the settlement exact:
moving balance within an account cannot reap it (`ReserveMoves`,
`UnreserveMoves`).  Then a commit moves the sum of the deposits by at least the
growth (`CommitStep`), a slash moves deposits to `confiscated` (`ExceedsStep`), and
nothing else touches either (`CodesStep`).  Sums are cardinalities of unions of
disjoint columns (`FunctionSums`), which makes an induction over the accounts
unnecessary: `TotalUpdate` is all that is needed of them.  From the same
invariant follow the action properties `GrowthIsPaid`, `EventsTrackCodes` and
`DepositsFollowStorage`; of the last one the step of `execute_code` is a lemma
(`ExecuteFollows`), which the runtime's theorem uses again.

*Executor* (`KontractExecutorProofs`).  The invariant adds `CountersExact`: the
counters equal the operations carried out, and these and the fuel left add up to
less than a word.  So an increment never wraps (`CountedExact`) and the limits
hold, also the largest one.  `PromiseIsKept` is the refinement: initial states map
to initial states and every step to a step of `KontractRun` or to a stutter.
`ExecutionsAreBounded` is what `Termination` rests on: the phases and the fuel left
(`StepsLeft`) decrease with every step.

*Guest* (`KontractGuestProofs`).  Every step of `GuestNext` is a step of the executor
(`Statement` and its value are a key and a value by `StatementOK`), so the invariant
of the executor carries over, and with it `LimitsRespected` and `KeepsPromise`.

`OutcomeIsFunction` compares the end of an execution with a function that was never
executed, so it needs an invariant that follows the execution (`GInv`): in `main`, the
storage and the values held are those of `Before` at `pc` (`Now`), the counters are the
numbers of statements of their kinds below `pc`, the fuel is the budget less the statements
executed, and no earlier statement is stopped.  Then the statement that ends the execution
is the first that `Stopped` stops (`FirstStop`), or there is none (`NoStop`), and the result
is that of `Outcome`.  All the limits that may apply at one statement are compared in the
order of the code there, which is what several nodes must agree on.  `Before` is recursive
over the statements: that the recursion defines a function is proved (`BeforeDefined`), by
an induction stated for sets of naturals (`InductionOnSets`).  The library's induction
theorems have an operator as parameter and cannot be applied; for sets the principle follows
from the well-foundedness of inclusion among finite sets.  `EmptyIsAbsent` compares the
functions of two executions: by induction on the statements, the storages of `Before` differ
in empty entries only and what was read is the same, so that the same statement stops both.
It uses that only the empty vector has no bytes.

*System* (`KontractSystemProofs`).  `SInv` says that during a dispatch the executor works on the
code and the storage that the pallet still holds under the identifier of the extrinsic, and
that `GInv` holds; between dispatches the executor is idle.  `ExecutorIsHostExecute`
discharges what `KontractsAssumption` asks of `HostExecute`: every outcome is a storage, an
error of the list, or a panic.  `SystemImplementsPallet` is the refinement: every step of the
execution stutters in the pallet (`RunningStep`), and `Settle` is the pallet's `ExecuteCode`
with the outcome (`SettleStep`), because by `GInv` the result is `Outcome` of the code and storage
that were there when the dispatch began, and these did not change.  `SystemKeepsPallet`,
`SystemPaysGrowth` and `SystemEventsAreExact` then carry the pallet's theorems over:
`KontractsProofs` is instantiated with the executor, its assumptions are proved
(`AssumptionsHold`) from `SystemAssumption`, which repeats those about accounts, hashes,
declarations, sizes and genesis, and its definitions are shown to be those of the `Pallet` that is
implemented (`SameSpec`).  `DispatchesAreBounded` gives every dispatch the bound of its execution.

`CollatzIsFollowed` goes on from there.  A storage is returned only after the last
statement (`OkIsLast`), and then the three statements of the Collatz kontract have
inserted the number after the one found, or after 5 (`CollatzOutcome`); the arithmetic does
not wrap by `SeriesAssumption`.  Only `Settle` changes storages, and that of
the Collatz kontract only for a dispatch under its identifier (`SeriesStep`), where by
`CodeIdIsHash` no other code can be.  The invariant `SeriesInv` says that what is found is
always a number.

*Runtime* (`KontractsRuntimeProofs`).  The inductive invariant `RInv` is the pallet's
invariant together with: submitted extrinsics are well formed; `NoncesUsed`, as
many extrinsics are included for an account as its nonce says, all with nonces below
it, so that the next one is new, which gives `NoReplay`; `Forgotten`, an account without balance has no nonce and no
history; and `Applied`, what relates the state in the middle of an application to
the state `before` it, phase by phase: after the checks it differs in the fee and the
nonce, and after a dispatch that did not succeed still in nothing else, whatever the call
had done before its error (`FailureChangesNothing`).  It gives `FailureIsCharged`, and that
the issuance cannot grow (`IssuanceShrinks`): both compare the state with one two steps
back.  `OwnersLoseDeposits` adds to the pallet's lemma about `execute_code` that fees and
refunds touch free balance only and that a transfer reaps nobody but its sender.
`DepositsSurviveFees` uses that fees and refunds touch
free balance only and that a reaped account moves its reserve to `confiscated`.
`SlashNeedsChange` rests on the exact arithmetic of the pallet
(`DifferenceExceeds`).  Additional assumptions: `RuntimeAssumption`, with a positive
existential deposit (500 in the runtime) and positive fees.

*Node* (`NodeServiceProofs`).  The start-up is a concatenation of optional parts; which
steps it may contain is a matter of the type of a sequence (`StartupType`), which of them
come first is `KeystoreSecond`.  The invariant `NInv` says that tasks end only after
their manager was dropped, and that the manager is kept by the commands that need it.
`NetworkComesLast` needs both ends of the start-up: the network occurs as the last element
and nowhere else (`LastAlone`), and every task the configuration asks for is spawned by a step that
occurs (`Occurs`).  Its invariant `StepsTaken` says that a task of a step that was taken is
never again missing.  `NoTaskIsLeftBehind` is what `StoppingEnds` rests on: tasks are spawned
only after `full_parts` (`StartupGuarded`), so that there is a manager to drop, it is dropped on
every way out (`Managed`), and then only tasks end until the process exits.

*Only model-checked*: liveness (`Termination`, `DispatchEnds`, `EssentialFailureStops`,
`StoppingEnds`), which is out of this prover's reach.  The safety half of three of them is
proved: `ExecutionsAreBounded` for `Termination`, `DispatchesAreBounded` for `DispatchEnds`,
`NoTaskIsLeftBehind` for `StoppingEnds`; that the bounded steps are taken is what fairness
adds.  The properties of the violation runs are refuted, and have no theorem.

## Not modelled

* Decoding errors of the stored storage, engine creation and the definition of host
  functions: they cannot fail for what the pallet hands over.
* Weights and the limits of blocks (the pallet's weights depend on the arguments of
  a call only; the fee of a call is a constant in the model), eras, forks and re-orgs, `sudo_unchecked_weight`, `set_key` and
  `sudo_as`, the other calls of balances and system, timestamp, Aura and GRANDPA: they are
  dependencies that the runtime configures and no code of the repository calls.
* What the tasks of the libraries do once spawned, and the network between nodes.
* Differences between two nodes that execute the same block: the wasm engine, the stack of
  the host and the growth of memory are outside the executor's code, and `OutcomeIsFunction`
  says only that this code leaves nothing undetermined.
* That a panicked extrinsic is discarded: the block builder's code, taken as given (`Unwind`).
* The builds with `runtime-benchmarks` and `try-runtime`.  With the first, the node's
  host functions are replaced (`service.rs:20`), but the pallet then declares a module
  `benchmarking` whose file is not in the repository: the build does not compile.
* RPC (`rpc.rs` merges two modules of the libraries), the benchmarking helpers
  (`benchmarking.rs` builds extrinsics for the library) and build files: no state, no
  decision of their own.
* The pallet's tests and mock runtime: not a part of the program, used as the source
  of amounts and scenarios.

## Plan

1. Done: `KontractStorage`, `Balances`, `Kontracts`, `KontractRun`,
   `KontractExecutor` with their runs and proofs.
2. Done: `KontractPrograms`, `KontractGuest`, `KontractSystem`, `ChainSpec`,
   `KontractsRuntime`, `NodeService` with their runs; proofs for the guest, the
   runtime and the node.
3. Done: `OutcomeIsFunction` and `AbsentIsEmpty` by an invariant that follows `Before`
   statement by statement; from it the refinement of `Kontracts` by `KontractSystem` and,
   through it, the pallet's theorems for the system; `CollatzSeries`; `NetworkStartsLast`;
   the safety halves of the liveness properties.
4. Next: what the pallet does guarantee where the documentation promises more, stated,
   checked and proved next to the refuted claims (how much a caller that frees bytes gets
   back, how much a slash may take, how many bytes a storage within the bounds has).
