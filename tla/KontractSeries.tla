--------------------------- MODULE KontractSeries ---------------------------
(***************************************************************************)
(* The Collatz kontract on the chain, among any others: what the           *)
(* documentation says of a state that is kept from execution to execution. *)
(***************************************************************************)
EXTENDS KontractSystem, KontractPrograms

CONSTANT collatz    \* the binary of collantz_conjecture

\* The next number of the series.
NextOfSeries(n) == IF n % 2 = 0 THEN n \div 2 ELSE 3 * n + 1

\* The numbers that the series goes through from 5 on fit into an u32, and no
\* other kontract has the hash of this one.
ASSUME SeriesAssumption ==
  /\ collatz \in Kontract /\ Program[collatz] = CollantzConjecture
  /\ \A b \in Kontract : Hash[b] = Hash[collatz] => b = collatz
  /\ Content = Value /\ EmptyValue \notin Numbers
  /\ 5 \in Numbers
  /\ \A n \in Numbers : NextOfSeries(n) \in Numbers /\ 3 * n + 1 < Word

\* The number under the key of the Collatz kontract, 5 when there is none.
Number(s) == IF Blake2[keyOne] \in DOMAIN s THEN s[Blake2[keyOne]] ELSE 5

\* README: the Collatz kontract "will write on the storage" a representation "of
\* the next number of this series".  No limit, failure, deletion or other kontract
\* makes it skip or repeat a number.
CollatzSeries ==
  [][LET before == Storages[Hash[collatz]]
         after  == Storages'[Hash[collatz]]
     IN  after # before => Number(after) = NextOfSeries(Number(before))]_systemVars
=============================================================================
