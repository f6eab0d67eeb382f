----------------------- MODULE KontractExecutorProofs -----------------------
(***************************************************************************)
(* The limits of the caller hold, and the promise made to it is kept, for  *)
(* every binary, every storage and every width of the counters.            *)
(***************************************************************************)
EXTENDS KontractExecutor, MachineIntegersProofs

\* The counters count: every operation carried out has burnt fuel, and the
\* fuel is not enough to make a counter wrap around.
CountersExact ==
  /\ store.curr_n_read = served.reads /\ store.curr_n_write = served.writes
  /\ served.reads + served.writes + fuel <= Word - 1

IInv ==
  /\ TypeOK
  /\ LimitsRespected
  /\ CountersExact
  /\ result = NoResult <=> phase # "done"

\* While there is fuel the next number fits.
LEMMA CountedExact ==
  ASSUME IInv, fuel > 0
  PROVE  /\ Counted(store.curr_n_read) = store.curr_n_read + 1
         /\ Counted(store.curr_n_write) = store.curr_n_write + 1
         /\ served.reads + 1 \in 0 .. Word - 1 /\ served.writes + 1 \in 0 .. Word - 1
<1>1. /\ Word \in Nat /\ fuel \in Nat /\ served.reads \in Nat /\ served.writes \in Nat
      /\ served.reads + served.writes + fuel <= Word - 1
  BY WordType DEF IInv, TypeOK, CountersExact
<1>2. /\ served.reads + 1 \in Nat /\ served.reads + 1 < Word
      /\ served.writes + 1 \in Nat /\ served.writes + 1 < Word
  BY <1>1
<1>3. U32(served.reads + 1) = served.reads + 1 /\ U32(served.writes + 1) = served.writes + 1
  BY <1>2, U32Exact
<1>. QED  BY <1>1, <1>2, <1>3 DEF Counted, IInv, CountersExact

\* Inserting and removing give a storage.
LEMMA StorageChanges ==
  ASSUME NEW s \in Storage, NEW k \in Key, NEW v \in Value
  PROVE  Inserted(s, k, v) \in Storage /\ Removed(s, k) \in Storage
<1>1. DOMAIN s \subseteq Key /\ \A x \in DOMAIN s : s[x] \in Value
  BY DEF Storage
<1>2. Inserted(s, k, v) \in [DOMAIN s \cup {k} -> Value] /\ DOMAIN s \cup {k} \subseteq Key
  BY <1>1 DEF Inserted
<1>3. Removed(s, k) \in [DOMAIN s \ {k} -> Value] /\ DOMAIN s \ {k} \subseteq Key
  BY <1>1 DEF Removed
<1>. QED  BY <1>2, <1>3 DEF Storage

\* An end that reports a result.
LEMMA ResultsAreResults ==
  /\ \A reason : Traps(reason) => phase' = "done" /\ result' # NoResult
  /\ Panics => phase' = "done" /\ result' # NoResult
BY DEF Traps, Panics, Ends, Error, NoResult

\* Whatever storage it is called with, the execution starts with counters at
\* zero and less fuel than a word.
LEMMA StartIInv ==
  ASSUME phase = "module",
         store \in [max_n_read : Limit, max_n_write : Limit,
                    curr_n_read : {0}, curr_n_write : {0}, storage : Storage],
         fuel \in Fuel,
         buffer = [size |-> 0, written |-> 0, value |-> EmptyValue],
         result = NoResult,
         served = [reads |-> 0, writes |-> 0]
  PROVE  IInv
<1>1. Word \in Nat \ {0} /\ Fuel \subseteq 0 .. Word - 1 /\ Limit \subseteq 0 .. Word - 1
  BY WordType, ExecutorAssumption
<1>2. /\ store \in KontractStore
      /\ store.curr_n_read = 0 /\ store.curr_n_write = 0
      /\ store.max_n_read \in Nat /\ store.max_n_write \in Nat
  <2>1. /\ store.max_n_read \in 0 .. Word - 1 /\ store.max_n_write \in 0 .. Word - 1
        /\ store.curr_n_read = 0 /\ store.curr_n_write = 0 /\ store.storage \in Storage
    BY <1>1
  <2>2. 0 \in 0 .. Word - 1
    BY <1>1
  <2>. QED  BY <2>1, <2>2 DEF KontractStore
<1>3. TypeOK
  BY <1>1, <1>2, ExecutorAssumption DEF TypeOK
<1>4. fuel <= Word - 1
  BY <1>1
<1>. QED  BY <1>1, <1>2, <1>3, <1>4 DEF IInv, LimitsRespected, CountersExact, NoResult

LEMMA InitIInv ==
  ASSUME Init
  PROVE  IInv
<1>1. store \in [max_n_read : Limit, max_n_write : Limit,
                 curr_n_read : {0}, curr_n_write : {0}, storage : Storage]
  BY ExecutorAssumption DEF Init
<1>. QED  BY <1>1, StartIInv DEF Init

\* A step that carries out no host function.
LEMMA QuietStep ==
  ASSUME IInv, UNCHANGED <<store, served, buffer>>,
         fuel' \in Nat, fuel' <= fuel,
         phase' \in {"module", "instantiate", "start", "entry", "main", "done"},
         result' = NoResult <=> phase' # "done"
  PROVE  IInv'
<1>1. TypeOK'
  BY DEF IInv, TypeOK
<1>2. LimitsRespected'
  BY DEF IInv, LimitsRespected
<1>3. CountersExact'
  BY WordType DEF IInv, TypeOK, CountersExact
<1>. QED  BY <1>1, <1>2, <1>3 DEF IInv

\* set and remove count before they change the storage.
LEMMA ModifiesStep ==
  ASSUME IInv, NEW storage \in Storage, Modifies(storage)
  PROVE  IInv'
<1>1. /\ fuel > 0 /\ fuel' = fuel - 1
      /\ Counted(store.curr_n_write) <= store.max_n_write
      /\ store' = [store EXCEPT !.curr_n_write = Counted(@), !.storage = storage]
      /\ served' = [served EXCEPT !.writes = @ + 1]
      /\ UNCHANGED <<phase, buffer, result>>
  BY DEF Modifies, Burns, Allowed
<1>2. /\ fuel \in Nat /\ store \in KontractStore /\ served \in [reads : Nat, writes : Nat]
      /\ served.reads + served.writes + fuel <= Word - 1 /\ Word \in Nat
      /\ store.curr_n_write = served.writes /\ store.curr_n_read = served.reads
      /\ served.reads <= store.max_n_read
  BY WordType DEF IInv, TypeOK, CountersExact, LimitsRespected
<1>3. /\ Counted(store.curr_n_write) = served.writes + 1
      /\ served.writes + 1 \in 0 .. Word - 1
  BY <1>1, <1>2, CountedExact
<1>4. /\ store' = [store EXCEPT !.curr_n_write = served.writes + 1, !.storage = storage]
      /\ store' \in KontractStore
  BY <1>1, <1>2, <1>3 DEF KontractStore
<1>5. fuel' \in Nat /\ served' \in [reads : Nat, writes : Nat]
  BY <1>1, <1>2
<1>6. TypeOK'
  BY <1>1, <1>4, <1>5 DEF IInv, TypeOK
<1>7. /\ store'.curr_n_write = served.writes + 1 /\ store'.curr_n_read = store.curr_n_read
      /\ store'.max_n_write = store.max_n_write /\ store'.max_n_read = store.max_n_read
      /\ served'.writes = served.writes + 1 /\ served'.reads = served.reads
  BY <1>1, <1>2, <1>4 DEF KontractStore
<1>8. LimitsRespected' /\ CountersExact'
  BY <1>1, <1>2, <1>3, <1>7 DEF LimitsRespected, CountersExact
<1>. QED  BY <1>1, <1>6, <1>8 DEF IInv

\* get counts before it looks at the storage, and may end the execution.
LEMMA GetStep ==
  ASSUME IInv, NEW k \in GuestKey, NEW b \in Buffer, Get(k, b)
  PROVE  IInv'
<1>1. /\ fuel > 0 /\ fuel' = fuel - 1
      /\ Counted(store.curr_n_read) <= store.max_n_read
      /\ store' = [store EXCEPT !.curr_n_read = Counted(@)]
      /\ served' = [served EXCEPT !.reads = @ + 1]
  BY DEF Get, Burns, Allowed
<1>2. /\ fuel \in Nat /\ store \in KontractStore /\ served \in [reads : Nat, writes : Nat]
      /\ served.reads + served.writes + fuel <= Word - 1 /\ Word \in Nat
      /\ store.curr_n_write = served.writes /\ store.curr_n_read = served.reads
      /\ served.writes <= store.max_n_write
  BY WordType DEF IInv, TypeOK, CountersExact, LimitsRespected
<1>3. /\ Counted(store.curr_n_read) = served.reads + 1
      /\ served.reads + 1 \in 0 .. Word - 1
  BY <1>1, <1>2, CountedExact
<1>4. /\ store' = [store EXCEPT !.curr_n_read = served.reads + 1]
      /\ store' \in KontractStore
  BY <1>1, <1>2, <1>3 DEF KontractStore
<1>5. fuel' \in Nat /\ served' \in [reads : Nat, writes : Nat]
  BY <1>1, <1>2
<1>6. Stored(k) \in Value /\ Length[Stored(k)] \in Nat
  <2>1. \A x \in DOMAIN store.storage : store.storage[x] \in Value
    BY <1>2 DEF KontractStore, Storage
  <2>. QED  BY <2>1, ExecutorAssumption, StorageAssumption DEF Stored
<1>7. /\ phase' \in {"module", "instantiate", "start", "entry", "main", "done"}
      /\ result' = NoResult <=> phase' # "done"
      /\ buffer' \in [size : Nat, written : Nat, value : Value]
  <2>1. CASE /\ Traps("Impossible write data in wasm memory") \/ Panics
             /\ UNCHANGED buffer
    BY <2>1, ResultsAreResults DEF IInv, TypeOK
  <2>2. CASE /\ buffer' = [size |-> b.size, written |-> Slice(Stored(k)), value |-> Stored(k)]
             /\ UNCHANGED <<phase, result>>
    <3>1. b.size \in Nat /\ Slice(Stored(k)) \in Nat
      BY <1>6, ExecutorAssumption DEF Slice
    <3>. QED  BY <2>2, <3>1, <1>6 DEF IInv, TypeOK
  <2>. QED  BY <2>1, <2>2 DEF Get
<1>8. TypeOK'
  BY <1>4, <1>5, <1>7 DEF TypeOK
<1>9. /\ store'.curr_n_read = served.reads + 1 /\ store'.curr_n_write = store.curr_n_write
      /\ store'.max_n_write = store.max_n_write /\ store'.max_n_read = store.max_n_read
      /\ served'.reads = served.reads + 1 /\ served'.writes = served.writes
  BY <1>1, <1>2, <1>4 DEF KontractStore
<1>10. LimitsRespected' /\ CountersExact'
  BY <1>1, <1>2, <1>3, <1>9 DEF LimitsRespected, CountersExact
<1>. QED  BY <1>7, <1>8, <1>10 DEF IInv

\* Every step keeps the invariant.
LEMMA NextIInv ==
  ASSUME IInv, [Next]_vars
  PROVE  IInv'
<1>1. fuel \in Nat /\ fuel <= fuel /\ (fuel > 0 => fuel - 1 \in Nat /\ fuel - 1 <= fuel)
  BY DEF IInv, TypeOK
<1>2. CASE NewModule \/ Instantiate \/ GetTypedFunc \/ Returns
  <2>1. /\ UNCHANGED <<store, served, buffer, fuel>>
        /\ phase' \in {"module", "instantiate", "start", "entry", "main", "done"}
        /\ result' = NoResult <=> phase' # "done"
    BY <1>2 DEF NewModule, Instantiate, GetTypedFunc, Returns, Ends, Error, NoResult, IInv, TypeOK
  <2>. QED  BY <1>1, <2>1, QuietStep
<1>3. CASE Compute
  <2>1. /\ fuel > 0 /\ fuel' = fuel - 1
        /\ UNCHANGED <<phase, store, buffer, result, served>>
    BY <1>3 DEF Compute, Burns
  <2>. QED  BY <1>1, <2>1, QuietStep DEF IInv, TypeOK
<1>4. CASE OutOfFuel \/ WasmTrap \/ ExceedsWrites \/ ExceedsReads
  <2>1. /\ fuel' = fuel \/ (fuel > 0 /\ fuel' = fuel - 1)
        /\ UNCHANGED <<store, buffer, served>>
        /\ \E reason : Traps(reason)
    BY <1>4 DEF OutOfFuel, WasmTrap, ExceedsWrites, ExceedsReads, Burns
  <2>2. fuel' \in Nat /\ fuel' <= fuel
    BY <1>1, <2>1
  <2>. QED  BY <2>1, <2>2, ResultsAreResults, QuietStep
<1>5. ASSUME NEW k \in GuestKey, NEW v \in Value, Set(k, v) \/ Remove(k)
      PROVE  IInv'
  <2>1. Blake2[k] \in Key /\ store.storage \in Storage
    BY ExecutorAssumption DEF IInv, TypeOK, KontractStore
  <2>. QED  BY <1>5, <2>1, StorageChanges, ModifiesStep DEF Set, Remove
<1>6. ASSUME NEW k \in GuestKey, NEW b \in Buffer, Get(k, b)
      PROVE  IInv'
  BY <1>6, GetStep
<1>7. CASE UNCHANGED vars
  BY <1>1, <1>7, QuietStep DEF vars, IInv, TypeOK
<1>. QED  BY <1>2, <1>3, <1>4, <1>5, <1>6, <1>7, ExecutorAssumption DEF Next

----------------------------------------------------------------------------
(***************************************************************************)
(* The promise                                                             *)
(***************************************************************************)

\* Distinct keys have distinct hashes: the binary sees one entry change.
LEMMA GuestMapChanges ==
  ASSUME NEW s \in Storage, NEW k \in GuestKey, NEW v \in Value
  PROVE  /\ GuestMap(s) \in Promise!Maps
         /\ GuestMap(Inserted(s, Blake2[k], v)) =
              [x \in DOMAIN GuestMap(s) \cup {k} |-> IF x = k THEN v ELSE GuestMap(s)[x]]
         /\ GuestMap(Removed(s, Blake2[k])) =
              [x \in DOMAIN GuestMap(s) \ {k} |-> GuestMap(s)[x]]
<1>1. \A x \in DOMAIN s : s[x] \in Value
  BY DEF Storage
<1>2. \A j \in GuestKey : Blake2[j] = Blake2[k] => j = k
  BY ExecutorAssumption
<1>3. GuestMap(s) \in Promise!Maps
  <2>1. GuestMap(s) \in [DOMAIN GuestMap(s) -> Value] /\ DOMAIN GuestMap(s) \subseteq GuestKey
    BY <1>1 DEF GuestMap
  <2>. QED  BY <2>1 DEF Promise!Maps
<1>4. GuestMap(Inserted(s, Blake2[k], v)) =
        [x \in DOMAIN GuestMap(s) \cup {k} |-> IF x = k THEN v ELSE GuestMap(s)[x]]
  BY <1>2 DEF GuestMap, Inserted
<1>5. GuestMap(Removed(s, Blake2[k])) = [x \in DOMAIN GuestMap(s) \ {k} |-> GuestMap(s)[x]]
  BY <1>2 DEF GuestMap, Removed
<1>. QED  BY <1>3, <1>4, <1>5

\* While it runs, nothing is promised of the result yet.
LEMMA PromisedResults ==
  /\ Promised(NoResult) = Promise!Running
  /\ \A e : Promised(Error(e)) = [state |-> IF e \in {"OutOfReads", "OutOfWrites"}
                                           THEN e ELSE "Failed"]
  /\ \A s : Promised([state |-> "Ok", storage |-> s]) = [state |-> "Ok", storage |-> GuestMap(s)]
  /\ Promised([state |-> "HostPanic"]) = [state |-> "Failed"]
BY DEF Promised, NoResult, Error, Promise!Running

\* The error of a trap is never one of the limits in the start function.
LEMMA TrapIsPromised ==
  ASSUME NEW reason \in OtherTraps \cup {"all fuel consumed by WebAssembly"}, Traps(reason)
  PROVE  Promised(result)' = [state |-> "Failed"]
<1>1. TrapError(reason) \in {"OutOfFuel", "WasmPanic"}
  BY DEF TrapError, OtherTraps
<1>2. PICK e \in {"ImpossibleCreateInstance", "OutOfFuel", "WasmPanic"} : result' = Error(e)
  BY <1>1 DEF Traps, Ends
<1>. QED  BY <1>2, PromisedResults

\* The execution starts as promised.
LEMMA InitPromise ==
  ASSUME Init
  PROVE  Promise!Init
<1>1. store \in KontractStore
  BY InitIInv DEF IInv, TypeOK
<1>2. GuestMap(store.storage) \in Promise!Maps
  <2>1. \A x \in DOMAIN store.storage : store.storage[x] \in Value
    BY <1>1 DEF KontractStore, Storage
  <2>2. /\ GuestMap(store.storage) \in [DOMAIN GuestMap(store.storage) -> Value]
        /\ DOMAIN GuestMap(store.storage) \subseteq GuestKey
    BY <2>1 DEF GuestMap
  <2>. QED  BY <2>2 DEF Promise!Maps
<1>3. store.max_n_read \in Nat /\ store.max_n_write \in Nat
  BY <1>1, WordType DEF KontractStore
<1>4. buffer.value = EmptyValue /\ served.reads = 0 /\ served.writes = 0
  BY DEF Init
<1>5. Promised(result) = Promise!Running
  BY PromisedResults DEF Init
<1>. QED  BY <1>2, <1>3, <1>4, <1>5 DEF Promise!Init

\* The rest of the state, for a step that only ends the execution.
LEMMA EndsAsPromised ==
  ASSUME Promised(result) = Promise!Running, UNCHANGED <<store, buffer, served>>,
         \/ result' = [state |-> "Ok", storage |-> store.storage]
         \/ Promised(result)' = [state |-> "Failed"]
         \/ Promised(result)' = [state |-> "OutOfReads"] /\ served.reads = store.max_n_read
         \/ Promised(result)' = [state |-> "OutOfWrites"] /\ served.writes = store.max_n_write
  PROVE  Promise!Ends
<1>1. UNCHANGED <<GuestMap(store.storage), served.reads, served.writes,
                  store.max_n_read, store.max_n_write, buffer.value>>
  OBVIOUS
<1>2. result' = [state |-> "Ok", storage |-> store.storage]
        => Promised(result)' = [state |-> "Ok", storage |-> GuestMap(store.storage)]
  BY PromisedResults
<1>. QED  BY <1>1, <1>2 DEF Promise!Ends

\* A step of the execution is a step of the promise, or none.
LEMMA NextPromise ==
  ASSUME IInv, [Next]_vars
  PROVE  [Promise!Next]_Promise!vars
<1>1. /\ store \in KontractStore /\ fuel \in Nat
      /\ served.reads <= store.max_n_read /\ served.writes <= store.max_n_write
      /\ served.reads \in Nat /\ served.writes \in Nat
      /\ store.max_n_read \in Nat /\ store.max_n_write \in Nat
  BY WordType DEF IInv, TypeOK, LimitsRespected, KontractStore
<1>2. phase # "done" => Promised(result) = Promise!Running
  BY PromisedResults DEF IInv
<1>3. CASE UNCHANGED <<store, buffer, served, result>>
  BY <1>3 DEF Promise!vars
<1>4. CASE NewModule \/ Instantiate \/ GetTypedFunc \/ Returns
  <2>1. phase # "done" /\ UNCHANGED <<store, buffer, served>>
    BY <1>4 DEF NewModule, Instantiate, GetTypedFunc, Returns
  <2>2. \/ UNCHANGED result
        \/ result' = [state |-> "Ok", storage |-> store.storage]
        \/ \E e \in {"IncorrecBinary", "ImpossibleCreateInstance", "MainEntryPointNotDefined"} :
             result' = Error(e)
    BY <1>4 DEF NewModule, Instantiate, GetTypedFunc, Returns, Ends
  <2>3. CASE \E e \in {"IncorrecBinary", "ImpossibleCreateInstance", "MainEntryPointNotDefined"} :
               result' = Error(e)
    <3>1. Promised(result)' = [state |-> "Failed"]
      BY <2>3, PromisedResults
    <3>. QED  BY <1>2, <2>1, <3>1, EndsAsPromised DEF Promise!Next
  <2>. QED  BY <1>2, <1>3, <2>1, <2>2, <2>3, EndsAsPromised DEF Promise!Next
<1>5. CASE Compute
  BY <1>3, <1>5 DEF Compute
<1>6. CASE OutOfFuel \/ WasmTrap
  <2>1. phase # "done" /\ UNCHANGED <<store, buffer, served>>
    BY <1>6 DEF OutOfFuel, WasmTrap, Burns
  <2>2. Promised(result)' = [state |-> "Failed"]
    BY <1>6, TrapIsPromised DEF OutOfFuel, WasmTrap, OtherTraps
  <2>. QED  BY <1>2, <2>1, <2>2, EndsAsPromised DEF Promise!Next
<1>7. CASE ExceedsWrites \/ ExceedsReads
  <2>1. phase \in {"start", "main"} /\ fuel > 0 /\ UNCHANGED <<store, buffer, served>>
    BY <1>7 DEF ExceedsWrites, ExceedsReads, Burns
  <2>2. /\ ExceedsReads => served.reads = store.max_n_read
        /\ ExceedsWrites => served.writes = store.max_n_write
    BY <1>1, <2>1, CountedExact DEF ExceedsReads, ExceedsWrites, Allowed, IInv, CountersExact
  <2>3. \/ result' = Error("ImpossibleCreateInstance")
        \/ ExceedsReads /\ result' = Error("OutOfReads")
        \/ ExceedsWrites /\ result' = Error("OutOfWrites")
    BY <1>7 DEF ExceedsReads, ExceedsWrites, Traps, Ends, TrapError, OtherTraps
  <2>4. \/ Promised(result)' = [state |-> "Failed"]
        \/ Promised(result)' = [state |-> "OutOfReads"] /\ served.reads = store.max_n_read
        \/ Promised(result)' = [state |-> "OutOfWrites"] /\ served.writes = store.max_n_write
    BY <2>2, <2>3, PromisedResults
  <2>. QED  BY <1>2, <2>1, <2>4, EndsAsPromised DEF Promise!Next
<1>8. ASSUME NEW k \in GuestKey, NEW v \in Value, Set(k, v) \/ Remove(k)
      PROVE  Promise!Write(k, v) \/ Promise!Delete(k)
  <2>1. PICK storage : /\ Modifies(storage)
                       /\ \/ storage = Inserted(store.storage, Blake2[k], v)
                          \/ storage = Removed(store.storage, Blake2[k])
    BY <1>8 DEF Set, Remove
  <2>2. /\ phase # "done" /\ fuel > 0
        /\ Counted(store.curr_n_write) <= store.max_n_write
        /\ store' = [store EXCEPT !.curr_n_write = Counted(@), !.storage = storage]
        /\ served' = [served EXCEPT !.writes = @ + 1]
        /\ UNCHANGED <<buffer, result>>
    BY <2>1 DEF Modifies, Burns, Allowed
  <2>3. /\ store'.storage = storage
        /\ store'.max_n_read = store.max_n_read /\ store'.max_n_write = store.max_n_write
    BY <1>1, <2>2 DEF KontractStore
  <2>4. served.writes < store.max_n_write
    BY <1>1, <2>2, CountedExact DEF IInv, CountersExact
  <2>5. served'.writes = served.writes + 1 /\ served'.reads = served.reads
    BY <2>2 DEF IInv, TypeOK
  <2>6. store.storage \in Storage
    BY <1>1 DEF KontractStore
  <2>7. UNCHANGED Promised(result)
    BY <2>2
  <2>8. ASSUME NEW m, GuestMap(store.storage)' = m
        PROVE  Promise!Modify(m)
    BY <1>2, <2>2, <2>3, <2>4, <2>5, <2>7, <2>8 DEF Promise!Modify
  <2>9. GuestMap(store.storage)' = GuestMap(storage)
    BY <2>3 DEF GuestMap
  <2>10. CASE storage = Inserted(store.storage, Blake2[k], v)
    <3>1. GuestMap(store.storage)' =
            [x \in DOMAIN GuestMap(store.storage) \cup {k} |->
              IF x = k THEN v ELSE GuestMap(store.storage)[x]]
      BY <2>6, <2>9, <2>10, GuestMapChanges
    <3>. QED  BY <2>8, <3>1 DEF Promise!Write
  <2>11. CASE storage = Removed(store.storage, Blake2[k])
    <3>1. GuestMap(store.storage)' =
            [x \in DOMAIN GuestMap(store.storage) \ {k} |-> GuestMap(store.storage)[x]]
      BY <2>6, <2>9, <2>11, GuestMapChanges
    <3>. QED  BY <2>8, <3>1 DEF Promise!Delete
  <2>. QED  BY <2>1, <2>10, <2>11
<1>9. ASSUME NEW k \in GuestKey, NEW b \in Buffer, Get(k, b)
      PROVE  Promise!Read(k) \/ Promise!ReadFails
  <2>1. /\ phase # "done" /\ fuel > 0
        /\ Counted(store.curr_n_read) <= store.max_n_read
        /\ store' = [store EXCEPT !.curr_n_read = Counted(@)]
        /\ served' = [served EXCEPT !.reads = @ + 1]
    BY <1>9 DEF Get, Burns, Allowed
  <2>2. /\ store'.storage = store.storage
        /\ store'.max_n_read = store.max_n_read /\ store'.max_n_write = store.max_n_write
    BY <1>1, <2>1 DEF KontractStore
  <2>3. served.reads < store.max_n_read
    BY <1>1, <2>1, CountedExact DEF IInv, CountersExact
  <2>4. served'.reads = served.reads + 1 /\ served'.writes = served.writes
    BY <2>1 DEF IInv, TypeOK
  <2>5. GuestMap(store.storage)' = GuestMap(store.storage)
    BY <2>2 DEF GuestMap
  <2>6. \/ /\ Traps("Impossible write data in wasm memory") \/ Panics
           /\ UNCHANGED buffer
        \/ /\ buffer' = [size |-> b.size, written |-> Slice(Stored(k)), value |-> Stored(k)]
           /\ UNCHANGED result
    BY <1>9 DEF Get
  <2>7. CASE /\ Traps("Impossible write data in wasm memory") \/ Panics
             /\ UNCHANGED buffer
    <3>1. Promised(result)' = [state |-> "Failed"]
      BY <2>7, TrapIsPromised, PromisedResults DEF Panics, Ends, OtherTraps
    <3>. QED  BY <1>2, <2>1, <2>2, <2>3, <2>4, <2>5, <2>7, <3>1 DEF Promise!ReadFails
  <2>8. CASE /\ buffer' = [size |-> b.size, written |-> Slice(Stored(k)), value |-> Stored(k)]
             /\ UNCHANGED result
    <3>1. buffer'.value = IF k \in DOMAIN GuestMap(store.storage)
                          THEN GuestMap(store.storage)[k] ELSE EmptyValue
      BY <2>8 DEF Stored, GuestMap
    <3>2. UNCHANGED Promised(result)
      BY <2>8
    <3>. QED  BY <1>2, <2>1, <2>2, <2>3, <2>4, <2>5, <3>1, <3>2 DEF Promise!Read
  <2>. QED  BY <2>6, <2>7, <2>8
<1>10. CASE UNCHANGED vars
  BY <1>3, <1>10 DEF vars
<1>. QED
  BY <1>4, <1>5, <1>6, <1>7, <1>8, <1>9, <1>10, ExecutorAssumption DEF Next, Promise!Next

----------------------------------------------------------------------------
(***************************************************************************)
(* Theorems                                                                *)
(***************************************************************************)

\* The invariant holds in every state of an execution.
THEOREM Invariance == Spec => []IInv
<1>1. Init => IInv
  BY InitIInv
<1>2. IInv /\ [Next]_vars => IInv'
  BY NextIInv
<1>. QED  BY <1>1, <1>2, PTL DEF Spec

\* The state of the executor stays of its types: the counters in particular
\* stay numbers of 32 bits.
THEOREM TypeCorrect == Spec => []TypeOK
<1>1. IInv => TypeOK
  BY DEF IInv
<1>. QED  BY <1>1, Invariance, PTL

\* update_with_check never lets more reads or writes through than allowed.
THEOREM LimitsHold == Spec => []LimitsRespected
<1>1. IInv => LimitsRespected
  BY DEF IInv
<1>. QED  BY <1>1, Invariance, PTL

\* execute_code implements what it promises: each host function acts on the
\* map of the kontract as it should, and the result is the final map, or an
\* error that is true.
THEOREM PromiseIsKept == Spec => KeepsPromise
<1>1. Init => Promise!Init
  BY InitPromise
<1>2. IInv /\ [Next]_vars => [Promise!Next]_Promise!vars
  BY NextPromise
<1>. QED  BY <1>1, <1>2, Invariance, PTL DEF Spec, KeepsPromise, Promise!Spec

----------------------------------------------------------------------------
(***************************************************************************)
(* How long an execution is                                                *)
(***************************************************************************)

\* The phases still to come.
PhasesLeft ==
  CASE phase = "module"      -> 5
    [] phase = "instantiate" -> 4
    [] phase = "start"       -> 3
    [] phase = "entry"       -> 2
    [] phase = "main"        -> 1
    [] phase = "done"        -> 0

\* No execution takes more steps than this.
StepsLeft == PhasesLeft + fuel

LEMMA EveryStepCounts ==
  ASSUME IInv, Next
  PROVE  StepsLeft' \in Nat /\ StepsLeft' < StepsLeft
<1>1. phase \in {"module", "instantiate", "start", "entry", "main", "done"} /\ fuel \in Nat
  BY DEF IInv, TypeOK
<1>. USE DEF StepsLeft, PhasesLeft
<1>2. CASE NewModule
  BY <1>1, <1>2 DEF NewModule, Ends
<1>3. CASE Instantiate
  BY <1>1, <1>3 DEF Instantiate, Ends
<1>4. CASE GetTypedFunc
  BY <1>1, <1>4 DEF GetTypedFunc, Ends
<1>5. CASE Returns
  BY <1>1, <1>5 DEF Returns, Ends
<1>6. CASE OutOfFuel
  <2>1. phase \in {"start", "main"} /\ phase' = "done" /\ fuel' = fuel
    BY <1>6 DEF OutOfFuel, Traps, Ends
  <2>. QED  BY <1>1, <2>1
<1>7. ASSUME Burns, phase' = phase \/ phase' = "done"
      PROVE  StepsLeft' \in Nat /\ StepsLeft' < StepsLeft
  BY <1>1, <1>7 DEF Burns
<1>. HIDE DEF StepsLeft, PhasesLeft
<1>8. CASE Compute \/ WasmTrap \/ ExceedsWrites \/ ExceedsReads
  BY <1>7, <1>8 DEF Compute, WasmTrap, ExceedsWrites, ExceedsReads, Traps, Ends
<1>9. ASSUME NEW k \in GuestKey, NEW v \in Value, Set(k, v) \/ Remove(k)
      PROVE  StepsLeft' \in Nat /\ StepsLeft' < StepsLeft
  BY <1>7, <1>9 DEF Set, Remove, Modifies
<1>10. ASSUME NEW k \in GuestKey, NEW b \in Buffer, Get(k, b)
       PROVE  StepsLeft' \in Nat /\ StepsLeft' < StepsLeft
  <2>1. Burns /\ (phase' = phase \/ phase' = "done")
    BY <1>10 DEF Get, Traps, Panics, Ends
  <2>. QED  BY <1>7, <2>1
<1>. QED  BY <1>2, <1>3, <1>4, <1>5, <1>6, <1>8, <1>9, <1>10, ExecutorAssumption DEF Next

\* Every step takes the execution closer to its end, whatever the binary does:
\* none is longer than its fuel and five steps.
THEOREM ExecutionsAreBounded == Spec => [][StepsLeft' \in Nat /\ StepsLeft' < StepsLeft]_vars
<1>1. IInv /\ [Next]_vars => [StepsLeft' \in Nat /\ StepsLeft' < StepsLeft]_vars
  BY EveryStepCounts
<1>. QED  BY <1>1, Invariance, PTL DEF Spec
=============================================================================
