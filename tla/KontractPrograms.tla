-------------------------- MODULE KontractPrograms --------------------------
(***************************************************************************)
(* The kontracts of the repository, as sequences of calls to the SDK and   *)
(* of what they compute in between.                                        *)
(*                                                                         *)
(* A statement writes, reads or deletes under a key, takes what the last   *)
(* read delivered, loops or panics.  What a kontract computes is a         *)
(* function on the values it handles: from the value it took last to the   *)
(* one it writes, and from the value delivered to the one it takes.        *)
(***************************************************************************)
EXTENDS Sequences, MachineIntegers

CONSTANTS
  Content,            \* values kontracts handle, the empty vector among them
  Numbers,            \* those that are the encoding of an u32: the number itself
  vec456,             \* the encoding of vec![4u32, 5u32, 6u32]
  key123, key456,     \* the encodings of vec![1u32, 2u32, 3u32] and of it
  keyOne,             \* the encoding of 1u32
  Panic               \* no value: decoding failed and the kontract panics

ASSUME ProgramsAssumption ==
  /\ Panic \notin Content
  /\ Numbers \subseteq Content /\ Numbers \subseteq Nat

Writes(k, f) == [op |-> "write", key |-> k, value |-> f]
Reads(k)     == [op |-> "read", key |-> k]
Takes(f)     == [op |-> "take", taken |-> f]
Deletes(k)   == [op |-> "delete", key |-> k]
Loops        == [op |-> "loop"]
Aborts       == [op |-> "panic"]

Always(v) == [c \in Content |-> v]
WhatWasTaken == [c \in Content |-> c]

\* Decode::decode(..).expect(..) of a Vec<u32>: of the values a kontract
\* handles, only one is the encoding of a vector.
DecodedVec == [c \in Content |-> IF c = vec456 THEN c ELSE Panic]

\* Decode::decode(..).unwrap_or(5) of an u32: 5 when there is no value.  Its
\* kontract writes nothing but numbers.
DecodedNumber == [c \in Content |-> IF c \in Numbers THEN c ELSE 5]

\* A slip: the shortcut that halves at once.
ShortcutCollatz(n) == IF n % 2 = 0 THEN n \div 2 ELSE U32(n * 3 + 1) \div 2

\* The next number of the Collatz sequence, in an u32.
NextCollatz(n) == IF n % 2 = 0 THEN n \div 2 ELSE U32(n * 3 + 1)

EmptyExecution == <<>>
Loop           == <<Loops>>
PanicKontract  == <<Aborts>>
Write8B        == <<Writes(key123, Always(vec456))>>
Delete         == <<Deletes(key123)>>
Read           == <<Reads(key123), Takes(DecodedVec)>>

WriteAndRead16B ==
  <<Writes(key123, Always(vec456)), Reads(key123), Takes(DecodedVec),
    Writes(key456, WhatWasTaken)>>

CollantzConjecture ==
  <<Reads(keyOne), Takes(DecodedNumber),
    Writes(keyOne, [c \in Content |-> IF c \in Numbers THEN NextCollatz(c) ELSE c])>>
=============================================================================
