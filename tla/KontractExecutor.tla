-------------------------- MODULE KontractExecutor --------------------------
(***************************************************************************)
(* The host function execute_code: one execution of a wasm binary by       *)
(* wasmtime, over the storage of a kontract and under the limits of the    *)
(* caller.                                                                 *)
(*                                                                         *)
(* The binary is not given: it may compute, call the three functions of    *)
(* its environment with any argument, trap or return at any time.  What it *)
(* asks of its memory is told by the outcome: a pointer is readable or     *)
(* not, a buffer has a declared size and some memory after its start.      *)
(***************************************************************************)
EXTENDS KontractStorage, MachineIntegers

CONSTANTS
  GuestKey,         \* keys the binary uses
  Blake2,           \* Blake2[k]: the hash of key k, under which it is filed
  EmptyValue,       \* the empty vector
  Buffer,           \* buffers for results: declared size, memory behind it
  Fuel,             \* amounts of fuel a caller may give
  Limit,            \* numbers of reads and of writes a caller may give
  InitialStorages   \* storages the pallet may hand over

ASSUME ExecutorAssumption ==
  /\ Blake2 \in [GuestKey -> Key]
  /\ \A j, k \in GuestKey : Blake2[j] = Blake2[k] => j = k
  /\ EmptyValue \in Value /\ \A v \in Value : Length[v] = 0 <=> v = EmptyValue
  /\ Buffer \subseteq [size : Nat, room : Nat]
  /\ Fuel \subseteq 0 .. Word - 1
  /\ Limit \subseteq 0 .. Word - 1
  /\ InitialStorages \subseteq Storage

VARIABLES
  phase,    \* what execute_code is doing
  store,    \* the KontractStore
  fuel,     \* left for the binary
  buffer,   \* what the last get put in the memory of the binary
  result,   \* of execute_code, once it has returned or panicked
  served    \* history: reads and writes carried out

vars == <<phase, store, fuel, buffer, result, served>>

KontractStore ==
  [max_n_read : 0 .. Word - 1, max_n_write : 0 .. Word - 1,
   curr_n_read : 0 .. Word - 1, curr_n_write : 0 .. Word - 1, storage : Storage]

NoResult == [state |-> "running"]

Init ==
  /\ phase = "module"
  /\ store \in [max_n_read : Limit, max_n_write : Limit,
                curr_n_read : {0}, curr_n_write : {0}, storage : InitialStorages]
  /\ fuel \in Fuel
  /\ buffer = [size |-> 0, written |-> 0, value |-> EmptyValue]
  /\ result = NoResult
  /\ served = [reads |-> 0, writes |-> 0]

----------------------------------------------------------------------------
(***************************************************************************)
(* How the execution ends                                                  *)
(***************************************************************************)

Ends(res) == phase' = "done" /\ result' = res

Error(e) == [state |-> "Err", error |-> e]

\* The host functions' other traps, and the traps of the binary itself.
OtherTraps == {"wasm trap", "Impossible reading wasm memory", "Impossible write data in wasm memory"}

\* The error a trap of main is reported as.
TrapError(reason) ==
  CASE reason = "all fuel consumed by WebAssembly" -> "OutOfFuel"
    [] reason = "ExceededReads"  -> "OutOfReads"
    [] reason = "ExceededWrites" -> "OutOfWrites"
    [] reason \in OtherTraps     -> "WasmPanic"

\* A trap of the start function makes the instantiation fail, whatever it is.
Traps(reason) ==
  Ends(Error(IF phase = "start" THEN "ImpossibleCreateInstance" ELSE TrapError(reason)))

\* A panic of the host unwinds through wasmtime and out of execute_code.
Panics == Ends([state |-> "HostPanic"])

----------------------------------------------------------------------------
(***************************************************************************)
(* Before and after the binary runs                                        *)
(***************************************************************************)

NewModule ==
  /\ phase = "module"
  /\ \/ Ends(Error("IncorrecBinary"))
     \/ phase' = "instantiate" /\ UNCHANGED result
  /\ UNCHANGED <<store, fuel, buffer, served>>

\* An import is unknown, or the start function runs, or there is none.
Instantiate ==
  /\ phase = "instantiate"
  /\ \/ Ends(Error("ImpossibleCreateInstance"))
     \/ phase' \in {"start", "entry"} /\ UNCHANGED result
  /\ UNCHANGED <<store, fuel, buffer, served>>

GetTypedFunc ==
  /\ phase = "entry"
  /\ \/ Ends(Error("MainEntryPointNotDefined"))
     \/ phase' = "main" /\ UNCHANGED result
  /\ UNCHANGED <<store, fuel, buffer, served>>

Returns ==
  /\ \/ phase = "start" /\ phase' = "entry" /\ UNCHANGED result
     \/ phase = "main" /\ Ends([state |-> "Ok", storage |-> store.storage])
  /\ UNCHANGED <<store, fuel, buffer, served>>

----------------------------------------------------------------------------
(***************************************************************************)
(* The binary                                                              *)
(***************************************************************************)

\* A slip: an engine without consume_fuel.
BurnsNothing ==
  /\ phase \in {"start", "main"}
  /\ fuel > 0
  /\ UNCHANGED fuel

\* A unit of fuel stands for what the binary executes up to and including
\* its next call or its next check of the fuel.  Each takes one instruction at
\* least, and pushing the arguments of a call takes two more: the units are
\* fewer than a word also with the calls a function may make between the end
\* of its fuel and the next check.
Burns ==
  /\ phase \in {"start", "main"}
  /\ fuel > 0
  /\ fuel' = fuel - 1

\* Two slips with the fuel: consumed unchecked, and checked in main alone.
ComputeUnchecked ==
  /\ phase \in {"start", "main"}
  /\ fuel' = fuel - 1
  /\ UNCHANGED <<phase, store, buffer, result, served>>

OutOfFuelInMain ==
  /\ phase = "main"
  /\ fuel = 0
  /\ Traps("all fuel consumed by WebAssembly")
  /\ UNCHANGED <<store, fuel, buffer, served>>

Compute ==
  /\ Burns
  /\ UNCHANGED <<phase, store, buffer, result, served>>

OutOfFuel ==
  /\ phase \in {"start", "main"}
  /\ fuel = 0
  /\ Traps("all fuel consumed by WebAssembly")
  /\ UNCHANGED <<store, fuel, buffer, served>>

\* The binary traps by itself, or gives a host function a pointer that
\* read_vec turns down; nothing is counted then.
WasmTrap ==
  /\ Burns
  /\ \E reason \in {"wasm trap", "Impossible reading wasm memory"} : Traps(reason)
  /\ UNCHANGED <<store, buffer, served>>

----------------------------------------------------------------------------
(***************************************************************************)
(* The host functions                                                      *)
(***************************************************************************)

\* A slip in update_with_check: the counter before the operation is compared.
AllowedOnceMore(val, max) == val <= max

\* update_with_check: val + 1 is computed in an u32.
Counted(val) == U32(val + 1)

Allowed(val, max) == Counted(val) <= max

ExceedsWrites ==
  /\ Burns
  /\ ~Allowed(store.curr_n_write, store.max_n_write)
  /\ Traps("ExceededWrites")
  /\ UNCHANGED <<store, buffer, served>>

\* kontracts_set and kontracts_remove, which counts as a write.
Modifies(storage) ==
  /\ Burns
  /\ Allowed(store.curr_n_write, store.max_n_write)
  /\ store' = [store EXCEPT !.curr_n_write = Counted(@), !.storage = storage]
  /\ served' = [served EXCEPT !.writes = @ + 1]
  /\ UNCHANGED <<phase, buffer, result>>

Set(k, v) == Modifies(Inserted(store.storage, Blake2[k], v))

\* A slip: a removal is not counted as a write.
RemoveUncounted(k) ==
  /\ Burns
  /\ store' = [store EXCEPT !.storage = Removed(@, Blake2[k])]
  /\ served' = [served EXCEPT !.writes = @ + 1]
  /\ UNCHANGED <<phase, buffer, result>>

Remove(k) == Modifies(Removed(store.storage, Blake2[k]))

ExceedsReads ==
  /\ Burns
  /\ ~Allowed(store.curr_n_read, store.max_n_read)
  /\ Traps("ExceededReads")
  /\ UNCHANGED <<store, buffer, served>>

\* A slip: nothing written for an absent key, what the buffer held stays.
StoredOrStale(k) ==
  IF Blake2[k] \in DOMAIN store.storage THEN store.storage[Blake2[k]] ELSE buffer.value

\* kontracts_get, with the empty vector for an absent key.
Stored(k) ==
  IF Blake2[k] \in DOMAIN store.storage THEN store.storage[Blake2[k]] ELSE EmptyValue

\* write_vec takes as many bytes of the memory as the value has, and one more.
Slice(v) == Length[v] + 1

\* The slice lies in the memory and has the length of the encoding.
Copies(v, b) == Slice(v) <= b.room /\ Slice(v) = EncodedLength(Length[v])

Get(k, b) ==
  /\ Burns
  /\ Allowed(store.curr_n_read, store.max_n_read)
  /\ store' = [store EXCEPT !.curr_n_read = Counted(@)]
  /\ served' = [served EXCEPT !.reads = @ + 1]
  /\ LET v == Stored(k)
     IN  \/ /\ b.size < Length[v]
            /\ Traps("Impossible write data in wasm memory")
            /\ UNCHANGED buffer
         \/ /\ b.size >= Length[v] /\ ~Copies(v, b)
            /\ Panics
            /\ UNCHANGED buffer
         \/ /\ b.size >= Length[v] /\ Copies(v, b)
            /\ buffer' = [size |-> b.size, written |-> Slice(v), value |-> v]
            /\ UNCHANGED <<phase, result>>

----------------------------------------------------------------------------
Next ==
  \/ NewModule \/ Instantiate \/ GetTypedFunc \/ Returns
  \/ Compute \/ OutOfFuel \/ WasmTrap
  \/ ExceedsWrites \/ ExceedsReads
  \/ \E k \in GuestKey, v \in Value : Set(k, v)
  \/ \E k \in GuestKey : Remove(k)
  \/ \E k \in GuestKey, b \in Buffer : Get(k, b)

\* What the host does by itself: it was called synchronously and runs on, and
\* wasmtime executes the next instruction of the binary.  Nothing is asked of
\* the binary, which may never return.
Host == NewModule \/ Instantiate \/ GetTypedFunc \/ Compute \/ OutOfFuel

Spec == Init /\ [][Next]_vars /\ WF_vars(Host)

----------------------------------------------------------------------------
(***************************************************************************)
(* Properties                                                              *)
(***************************************************************************)

TypeOK ==
  /\ phase \in {"module", "instantiate", "start", "entry", "main", "done"}
  /\ store \in KontractStore
  /\ fuel \in Nat
  /\ buffer \in [size : Nat, written : Nat, value : Value]
  /\ served \in [reads : Nat, writes : Nat]

\* No more reads and writes are carried out than the caller allowed, although
\* the counters wrap around: there is not enough fuel to get there.
LimitsRespected ==
  /\ served.reads <= store.max_n_read
  /\ served.writes <= store.max_n_write

\* Every execution returns or panics: the fuel runs out for a binary that loops.
Termination == <>(phase = "done")

\* What the binary sees of its storage.
GuestMap(storage) ==
  [k \in {g \in GuestKey : Blake2[g] \in DOMAIN storage} |-> storage[Blake2[k]]]

\* The result as the promise names it.
Promised(res) ==
  CASE res.state = "running" -> res
    [] res.state = "Ok" -> [state |-> "Ok", storage |-> GuestMap(res.storage)]
    [] res.state = "Err" /\ res.error \in {"OutOfReads", "OutOfWrites"} -> [state |-> res.error]
    [] res.state = "Err" /\ res.error \notin {"OutOfReads", "OutOfWrites"} -> [state |-> "Failed"]
    [] res.state = "HostPanic" -> [state |-> "Failed"]

Promise == INSTANCE KontractRun WITH
  map            <- GuestMap(store.storage),
  reads          <- served.reads,
  writes         <- served.writes,
  expected_read  <- store.max_n_read,
  expected_write <- store.max_n_write,
  got            <- buffer.value,
  result         <- Promised(result)

\* The execution keeps the promise made to its caller.
KeepsPromise == Promise!Spec

(***************************************************************************)
(* What the documentation says of the host functions                       *)
(***************************************************************************)

\* README, get(key_ptr, key_size, result_ptr, result_max_size): what is put in
\* the buffer of a result is not longer than the buffer.
ResultFitsBuffer == buffer.written <= buffer.size

\* README: "every contract can write, delete and read from his storage
\* everything".  A get with enough memory for the value does not end the host.
EverythingIsReadable == result.state # "HostPanic"
=============================================================================
