-------------------------- MODULE MCKontractSystem --------------------------
(***************************************************************************)
(* One caller, who can pay for the storage of either of two kontracts of   *)
(* the repository and not of both, and one that loops.                     *)
(***************************************************************************)
EXTENDS KontractSeries

CONSTANTS alice, root, empty

MCNumbers == {1, 2, 4, 5, 8, 16}

MCValue == {empty, vec456} \cup MCNumbers

MCLength == [v \in MCValue |-> CASE v \in MCNumbers -> 4 [] v = empty -> 0 [] v = vec456 -> 13]

MCBlake2 == [g \in GuestKey |-> g]

MCProgram ==
  [loop                |-> Loop,
   write_and_read_16B  |-> WriteAndRead16B,
   collantz_conjecture |-> CollantzConjecture]

MCKontract == DOMAIN MCProgram

MCLoadError == [b \in {} |-> b]

MCHash == [b \in Kontract |-> b]

MCBuffer == {[size |-> 100, room |-> 200]}

\* Three limits: fuel that is used up by the last statement of the Collatz
\* kontract, which has written and cannot return; one write, which stops the
\* kontract with two after the first; enough of all for both.
MCBudget == {[fuel |-> 3, read |-> 1, write |-> 1],
             [fuel |-> 4, read |-> 1, write |-> 1],
             [fuel |-> 9, read |-> 1, write |-> 2]}

MCDeclared == {0, 94}

MCInitialBalances ==
  {[a \in Account |-> [free |-> 120, reserved |-> 0]]}
============================================================================
