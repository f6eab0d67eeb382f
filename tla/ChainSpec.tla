----------------------------- MODULE ChainSpec -----------------------------
(***************************************************************************)
(* The genesis of the two chains the node knows by name.  An account, an   *)
(* Aura key and a Grandpa key are told by the seed they derive from.       *)
(***************************************************************************)
EXTENDS Integers, Sequences

CONSTANTS
  Endowment,      \* of an endowed account: 1 << 60
  WasmBinary      \* the runtime built with the node, or NoBinary

NoBinary == "NoBinary"

Authorities(seeds) == [i \in DOMAIN seeds |-> [aura |-> seeds[i], grandpa |-> seeds[i]]]

TestnetGenesis(authorities, root_key, endowed) ==
  [system   |-> [code |-> WasmBinary],
   balances |-> [a \in endowed |-> Endowment],
   aura     |-> [i \in DOMAIN authorities |-> authorities[i].aura],
   grandpa  |-> [i \in DOMAIN authorities |-> <<authorities[i].grandpa, 1>>],
   sudo     |-> root_key]

Stashes(seeds) == {s \o "//stash" : s \in seeds}

DevelopmentSeeds == {"Alice", "Bob"}

LocalSeeds == {"Alice", "Bob", "Charlie", "Dave", "Eve", "Ferdie"}

\* Both chains need the runtime that is built with the node.
Available(spec) == IF WasmBinary = NoBinary THEN [error |-> "NotAvailable"] ELSE spec

DevelopmentConfig ==
  Available([id |-> "dev", type |-> "Development",
             genesis |-> TestnetGenesis(Authorities(<<"Alice">>), "Alice",
                                        DevelopmentSeeds \cup Stashes(DevelopmentSeeds))])

LocalTestnetConfig ==
  Available([id |-> "local_testnet", type |-> "Local",
             genesis |-> TestnetGenesis(Authorities(<<"Alice", "Bob">>), "Alice",
                                        LocalSeeds \cup Stashes(LocalSeeds))])

\* Any other name is the path of a file, which holds its own specification.
LoadSpec(id, file) ==
  CASE id = "dev"           -> DevelopmentConfig
    [] id \in {"", "local"} -> LocalTestnetConfig
    [] OTHER                -> file
============================================================================
