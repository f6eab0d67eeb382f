------------------------ MODULE MCKontractExecutor ------------------------
(***************************************************************************)
(* Small instances of the executor: words of two bits, so that the counters*)
(* can reach their limit, two keys, and values on both sides of the length *)
(* at which the compact encoding takes a second byte.                      *)
(***************************************************************************)
EXTENDS KontractExecutor

CONSTANTS g1, g2, k1, k2, empty, short, long

MCBlake2 == [g \in GuestKey |-> IF g = g1 THEN k1 ELSE k2]

MCLength == [v \in Value |-> CASE v = empty -> 0 [] v = short -> 13 [] v = long -> 64]

MCInitialStorages ==
  {EmptyStorage, [k \in {k1} |-> short], [k \in {k2} |-> long]}

\* The buffer of the SDK, with memory behind it; a buffer of just the size of
\* a value; one too small; one at the very end of the memory.
MCBuffer == {[size |-> 100, room |-> 200], [size |-> 13, room |-> 200],
             [size |-> 12, room |-> 200], [size |-> 100, room |-> 13]}

\* The buffer of the SDK alone.
SDKBuffer == {[size |-> 100, room |-> 200]}
============================================================================
