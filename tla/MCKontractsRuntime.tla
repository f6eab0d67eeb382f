------------------------ MODULE MCKontractsRuntime ------------------------
(***************************************************************************)
(* The development chain with two of its accounts signing: both execute a  *)
(* kontract that grows and shrinks, one uploads it, one has the sudo key   *)
(* and one can leave with all it has not reserved.                         *)
(***************************************************************************)
EXTENDS KontractsRuntime

CONSTANTS k1, v13, v62, vBig, root

Genesis == INSTANCE ChainSpec WITH Endowment <- 150, WasmBinary <- "runtime"

Dev == Genesis!LoadSpec("dev", [error |-> "NoFile"]).genesis

MCAccount == DOMAIN Dev.balances

MCInitialBalances == {[a \in MCAccount |-> [free |-> Dev.balances[a], reserved |-> 0]]}

MCSudoKey == Dev.sudo

MCLength == [v \in {v13, v62, vBig} |-> CASE v = v13 -> 13 [] v = v62 -> 62 [] v = vBig -> 63]

MCHash == [b \in Binary |-> b]

Entry(v) == [x \in {k1} |-> v]

\* cycle: absent, 13 bytes, 62 bytes and absent again.  Allowed to read more,
\* it panics the host on an empty storage, and on another one writes a value
\* that is one byte too long.
MCHostExecute(b, s, g) ==
  CASE g = "more" /\ s = EmptyStorage -> [ok |-> FALSE, error |-> HostPanic]
    [] g = "more" /\ s # EmptyStorage -> [ok |-> TRUE, storage |-> Entry(vBig)]
    [] g = "enough" ->
         [ok |-> TRUE,
          storage |-> IF s = EmptyStorage THEN Entry(v13)
                      ELSE IF s = Entry(v13) THEN Entry(v62) ELSE EmptyStorage]

\* An entry takes 34 bytes more than its value: cycle grows by 47 and by 49, and
\* frees 96.
MCDeclared == {-97, -96, 47, 50}

MCFee == [c \in CallName |-> 5]

Execute(x, g) == [call |-> "execute_code", id |-> "cycle", expected |-> x, budget |-> g]

Transferring(dest) == [call |-> "transfer", dest |-> dest, value |-> 93]

SudoOf(c) == [call |-> "sudo", inner |-> c]

Upload == [call |-> "upload_code", code |-> "cycle"]

Deletion == [call |-> "delete_code", id |-> "cycle"]

MCCalls ==
  [Alice |-> {Upload, Execute(50, "enough"), Transferring("Bob"),
              SudoOf(Deletion), SudoOf(Upload),
              SudoOf([call |-> "update_code", id |-> "cycle", code |-> "cycle"])},
   Bob   |-> {Execute(47, "enough"), Execute(-96, "enough"), Execute(-97, "enough"),
              Execute(50, "more"), Transferring("Alice"),
              Transferring("Bob"), Deletion, SudoOf(Deletion)}]
===========================================================================
