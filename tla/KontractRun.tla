---------------------------- MODULE KontractRun ----------------------------
(***************************************************************************)
(* What the execution of a kontract promises, whatever happens inside the  *)
(* wasm engine: the kontract works on a map of its own, within the number  *)
(* of reads and writes its caller allowed, and the caller gets the final   *)
(* map or an error.  Reads and writes are counted here without a width.    *)
(***************************************************************************)
EXTENDS Integers

CONSTANTS
  GuestKey,     \* the keys of the map
  Value,        \* the values of the map
  EmptyValue    \* what a read of an absent key answers

VARIABLES
  map,          \* the map of the kontract
  reads, writes,                \* how many were made
  expected_read, expected_write, \* how many the caller allows
  got,          \* the answer of the last read
  result        \* of the execution, once it has ended

vars == <<map, reads, writes, expected_read, expected_write, got, result>>

Maps == UNION {[K -> Value] : K \in SUBSET GuestKey}

Running == [state |-> "running"]

Init ==
  /\ map \in Maps
  /\ reads = 0 /\ writes = 0
  /\ expected_read \in Nat /\ expected_write \in Nat
  /\ got = EmptyValue
  /\ result = Running

Read(k) ==
  /\ result = Running
  /\ reads < expected_read
  /\ reads' = reads + 1
  /\ got' = IF k \in DOMAIN map THEN map[k] ELSE EmptyValue
  /\ UNCHANGED <<map, writes, expected_read, expected_write, result>>

\* A removal counts as a write.
Modify(newMap) ==
  /\ result = Running
  /\ writes < expected_write
  /\ writes' = writes + 1
  /\ map' = newMap
  /\ UNCHANGED <<reads, expected_read, expected_write, got, result>>

Write(k, v) == Modify([x \in DOMAIN map \cup {k} |-> IF x = k THEN v ELSE map[x]])

Delete(k) == Modify([x \in DOMAIN map \ {k} |-> map[x]])

\* A limit is reported only when it is used up, and the map is handed over
\* only as the last operation left it.
Ends ==
  /\ result = Running
  /\ \/ result' = [state |-> "Ok", storage |-> map]
     \/ result' = [state |-> "OutOfReads"] /\ reads = expected_read
     \/ result' = [state |-> "OutOfWrites"] /\ writes = expected_write
     \/ result' = [state |-> "Failed"]
  /\ UNCHANGED <<map, reads, writes, expected_read, expected_write, got>>

\* A read that is made and whose answer cannot be handed over.
ReadFails ==
  /\ result = Running
  /\ reads < expected_read
  /\ reads' = reads + 1
  /\ result' = [state |-> "Failed"]
  /\ UNCHANGED <<map, writes, expected_read, expected_write, got>>

Next ==
  \/ \E k \in GuestKey : Read(k) \/ Delete(k)
  \/ \E k \in GuestKey, v \in Value : Write(k, v)
  \/ ReadFails
  \/ Ends

Spec == Init /\ [][Next]_vars
=============================================================================
