-------------------------- MODULE MCKontractGuest --------------------------
(***************************************************************************)
(* The kontracts of the repository, and a few of the same kind that meet   *)
(* what those do not: a value of 64 bytes, two reads in a row, binaries    *)
(* that cannot be loaded.  A key stands for its hash.                      *)
(***************************************************************************)
EXTENDS KontractGuest, KontractPrograms

CONSTANTS empty, v64, v101

MCNumbers == {1, 2, 4, 5, 8, 16}

MCValue == {empty, vec456, v64, v101} \cup MCNumbers

MCLength == [v \in MCValue |-> CASE v \in MCNumbers -> 4 [] v = empty -> 0 [] v = vec456 -> 13
                                 [] v = v64 -> 64 [] v = v101 -> 101]

MCBlake2 == [g \in GuestKey |-> g]

MCProgram ==
  [empty_execution     |-> EmptyExecution,
   loop                |-> Loop,
   panic               |-> PanicKontract,
   write_8B            |-> Write8B,
   delete              |-> Delete,
   read                |-> Read,
   write_and_read_16B  |-> WriteAndRead16B,
   collantz_conjecture |-> CollantzConjecture,
   move    |-> <<Reads(key456), Reads(key123), Takes(WhatWasTaken), Writes(key456, WhatWasTaken),
                 Deletes(key123)>>,
   not_wasm       |-> <<>>,
   unknown_import |-> <<>>,
   no_main        |-> <<>>]

MCKontract == DOMAIN MCProgram

MCLoadError ==
  [not_wasm |-> "IncorrecBinary", unknown_import |-> "ImpossibleCreateInstance",
   no_main |-> "MainEntryPointNotDefined"]

\* The buffer of the SDK, with memory behind it.
MCBuffer == {[size |-> 100, room |-> 200]}

\* What may be under the key of the vectors, with or without the other one,
\* and what the Collatz kontract writes.
MCInitialStorages ==
  {EmptyStorage} \cup
  {[k \in {key123} |-> v] : v \in {empty, vec456, v64, v101}} \cup
  {[k \in {key123, key456} |-> IF k = key123 THEN v ELSE w] :
     v \in {empty, vec456}, w \in {empty, vec456, v64}} \cup
  {[k \in {key456} |-> v] : v \in {empty, vec456}} \cup
  {[k \in {keyOne} |-> n] : n \in MCNumbers}
============================================================================
