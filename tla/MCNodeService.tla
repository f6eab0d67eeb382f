--------------------------- MODULE MCNodeService ---------------------------
(***************************************************************************)
(* Every configuration of the full node, and every subcommand with and     *)
(* without a remote keystore in the configuration.                         *)
(***************************************************************************)
EXTENDS NodeService

MCConfig ==
  [command : {"run"}, authority : BOOLEAN, keystore_remote : BOOLEAN, telemetry : BOOLEAN,
   offchain_worker : BOOLEAN, disable_grandpa : BOOLEAN] \cup
  [command : Subcommand, authority : {TRUE}, keystore_remote : BOOLEAN, telemetry : {FALSE},
   offchain_worker : {TRUE}, disable_grandpa : {FALSE}]
============================================================================
