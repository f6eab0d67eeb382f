---------------------------- MODULE MCKontracts ----------------------------
(***************************************************************************)
(* Small instances of the pallet.  The test kontracts write three u32: 13  *)
(* bytes, an entry of 47.  A value of 60 bytes makes an entry of 94, twice *)
(* as much, so that few different balances are reached.                    *)
(***************************************************************************)
EXTENDS Kontracts

CONSTANTS alice, bob, k1, k2, v13, v60, vBig, vHuge, root

MCValue == {v13, v60, vBig, vHuge}

MCLength == [v \in MCValue |-> CASE v = v13 -> 13 [] v = v60 -> 60
                                 [] v = vBig -> 61 [] v = vHuge -> 300]

\* Binaries are named after what they do to their storage.  A binary stands
\* for its own Blake2 hash as well: Hash is then injective.
MCHash == [b \in Binary |-> b]

MCBudget == {"none", "enough"}

MCExecutionErrors == {"OutOfWrites"}

Entry(k, v) == [x \in {k} |-> v]

\* cycle: absent, 13 bytes, 60 bytes and absent again, under one key.
\* pair:  write_and_read_16B.rs, two entries, then nothing new.
\* bloat: 13 bytes, then a second entry one byte longer than the pallet accepts.
\* huge:  a value so long that its size is negative as an i32.
Effect(b, s) ==
  CASE b = "cycle" /\ s = EmptyStorage     -> Entry(k1, v13)
    [] b = "cycle" /\ s = Entry(k1, v13)   -> Entry(k1, v60)
    [] b = "cycle" /\ s \notin {EmptyStorage, Entry(k1, v13)} -> EmptyStorage
    [] b = "pair"                          -> [k \in Key |-> v13]
    [] b = "bloat" /\ s = EmptyStorage     -> Entry(k1, v13)
    [] b = "bloat" /\ s # EmptyStorage     -> Inserted(s, k2, vBig)
    [] b = "huge"                          -> Entry(k1, vHuge)

MCHostExecute(b, s, g) ==
  IF g = "none" THEN [ok |-> FALSE, error |-> "OutOfWrites"]
                ELSE [ok |-> TRUE, storage |-> Effect(b, s)]

\* Exact, generous and too low declarations, in both directions: 95 is what the
\* second entry of bloat takes, which alice can pay.
MCDeclared == {-256, -94, 0, 95}

MCInitialBalances ==
  {[a \in Account |-> [free |-> IF a = alice THEN 100 ELSE 60, reserved |-> 0]]}
============================================================================
