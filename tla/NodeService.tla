---------------------------- MODULE NodeService ----------------------------
(***************************************************************************)
(* A run of the node: the command line chooses a subcommand or the full    *)
(* node, whose parts are started one after the other while the tasks       *)
(* already spawned run, and may fail, on their own.                        *)
(*                                                                         *)
(* The build is the default one: runtime-benchmarks and try-runtime off.   *)
(***************************************************************************)
EXTENDS Integers, Sequences

CONSTANT Config     \* what the command line and the files ask for

Subcommand ==
  {"key", "build-spec", "check-block", "export-blocks", "export-state", "import-blocks",
   "purge-chain", "revert", "benchmark-pallet", "benchmark-block", "benchmark-storage",
   "benchmark-overhead", "benchmark-extrinsic", "benchmark-machine", "try-runtime", "chain-info"}

ASSUME ConfigAssumption ==
  Config \subseteq [command : Subcommand \cup {"run"}, authority : BOOLEAN,
                    keystore_remote : BOOLEAN, telemetry : BOOLEAN,
                    offchain_worker : BOOLEAN, disable_grandpa : BOOLEAN]

Task == {"telemetry", "txpool", "import-queue", "network-worker", "offchain-worker",
         "rpc", "aura", "grandpa-voter"}

VARIABLES
  config,     \* of this run
  at,         \* the next step of the start-up
  tasks,      \* none, running, failed or ended
  manager,    \* the TaskManager: none, held or dropped
  process,    \* starting, running, stopping or exited
  exit        \* none, Ok or Err

nodeVars == <<config, at, tasks, manager, process, exit>>

----------------------------------------------------------------------------
(***************************************************************************)
(* What is started, in the order of the code                               *)
(***************************************************************************)

Optional(condition, steps) == IF condition THEN steps ELSE <<>>

\* A slip: the keystore left to new_full, which rejects it as well.
NewPartialChecksNothing(c) ==
  Optional(c.telemetry, <<"telemetry_worker">>) \o <<"full_parts">> \o
  Optional(c.telemetry, <<"spawn_telemetry">>) \o
  <<"transaction_pool", "grandpa_block_import", "slot_duration", "import_queue">>

NewPartial(c) ==
  <<"keystore_check">> \o
  Optional(c.telemetry, <<"telemetry_worker">>) \o <<"full_parts">> \o
  Optional(c.telemetry, <<"spawn_telemetry">>) \o
  <<"transaction_pool", "grandpa_block_import", "slot_duration", "import_queue">>

\* A slip in new_full: the network started before consensus.
NewFullStartsEarly(c) ==
  NewPartial(c) \o
  Optional(c.keystore_remote, <<"keystore_hook">>) \o
  <<"build_network", "start_network">> \o
  Optional(c.offchain_worker, <<"offchain_workers">>) \o
  <<"spawn_tasks">> \o
  Optional(c.authority, <<"slot_duration", "start_aura">>) \o
  Optional(~c.disable_grandpa, <<"run_grandpa_voter">>)

NewFull(c) ==
  NewPartial(c) \o
  Optional(c.keystore_remote, <<"keystore_hook">>) \o
  <<"build_network">> \o
  Optional(c.offchain_worker, <<"offchain_workers">>) \o
  <<"spawn_tasks">> \o
  Optional(c.authority, <<"slot_duration", "start_aura">>) \o
  Optional(~c.disable_grandpa, <<"run_grandpa_voter">>) \o
  <<"start_network">>

\* Subcommands that use a client; those that keep the task manager until they
\* are done, and those that drop it with the rest of the components.
AsyncCommand == {"check-block", "export-blocks", "export-state", "import-blocks", "revert"}

ClientBenchmark == {"benchmark-block", "benchmark-overhead", "benchmark-extrinsic"}

\* Not enabled in the default build.
Disabled == {"benchmark-pallet", "benchmark-storage", "try-runtime"}

\* create_runner loads the chain specification.
Startup(c) ==
  Optional(c.command \notin {"key", "try-runtime"}, <<"create_runner">>) \o
  Optional(c.command \in Disabled, <<"not_enabled">>) \o
  Optional(c.command \in AsyncCommand \cup ClientBenchmark, NewPartial(c)) \o
  Optional(c.command = "run", NewFull(c))

\* The tasks a step spawns; those of new_full_parts and of the pool are spawned
\* by the library.
Spawned(step) ==
  CASE step = "spawn_telemetry"   -> {"telemetry"}
    [] step = "transaction_pool"  -> {"txpool"}
    [] step = "import_queue"      -> {"import-queue"}
    [] step = "build_network"     -> {"network-worker"}
    [] step = "offchain_workers"  -> {"offchain-worker"}
    [] step = "spawn_tasks"       -> {"rpc"}
    [] step = "start_aura"        -> {"aura"}
    [] step = "run_grandpa_voter" -> {"grandpa-voter"}
    [] OTHER -> {}

\* Steps with a `?` at their end.
Fallible ==
  {"create_runner", "telemetry_worker", "full_parts", "grandpa_block_import", "slot_duration",
   "import_queue", "build_network", "spawn_tasks", "start_aura", "run_grandpa_voter"}

\* Whether a step returns an error, whatever the rest of the world does.
Rejects(step, c) ==
  \/ step \in {"keystore_check", "keystore_hook"} /\ c.keystore_remote
  \/ step = "not_enabled"

\* A slip: aura spawned by the ordinary handle.
EssentialButAura == {"txpool", "import-queue", "grandpa-voter"}

\* Spawned by spawn_essential_handle.
Essential == {"txpool", "import-queue", "aura", "grandpa-voter"}

----------------------------------------------------------------------------
NodeInit ==
  /\ config \in Config
  /\ at = 1
  /\ tasks = [t \in Task |-> "none"]
  /\ manager = "none"
  /\ process = "starting"
  /\ exit = "none"

StepOf == Startup(config)[at]

StepSucceeds ==
  /\ process = "starting" /\ at <= Len(Startup(config))
  /\ ~Rejects(StepOf, config)
  /\ tasks' = [t \in Task |-> IF t \in Spawned(StepOf) THEN "running" ELSE tasks[t]]
  /\ manager' = IF StepOf = "full_parts" THEN "held" ELSE manager
  /\ at' = at + 1
  /\ UNCHANGED <<config, process, exit>>

\* A slip: the task manager outlives the error.
StepFailsLeaks ==
  /\ process = "starting" /\ at <= Len(Startup(config))
  /\ StepOf \in Fallible \/ Rejects(StepOf, config)
  /\ process' = "stopping" /\ exit' = "Err"
  /\ UNCHANGED <<config, at, tasks, manager>>

\* The error returns through every `?`, and the task manager is dropped.
StepFails ==
  /\ process = "starting" /\ at <= Len(Startup(config))
  /\ StepOf \in Fallible \/ Rejects(StepOf, config)
  /\ manager' = IF manager = "held" THEN "dropped" ELSE manager
  /\ process' = "stopping" /\ exit' = "Err"
  /\ UNCHANGED <<config, at, tasks>>

\* A slip: the components but the client dropped by every subcommand.
RunsWithClientAlone ==
  /\ process = "starting" /\ at > Len(Startup(config))
  /\ process' = "running"
  /\ manager' = IF config.command # "run" /\ manager = "held" THEN "dropped" ELSE manager
  /\ UNCHANGED <<config, at, tasks, exit>>

\* The node or the subcommand is up.
Runs ==
  /\ process = "starting" /\ at > Len(Startup(config))
  /\ process' = "running"
  /\ manager' = IF config.command \in ClientBenchmark THEN "dropped" ELSE manager
  /\ UNCHANGED <<config, at, tasks, exit>>

\* A task panics or returns, at any time after it was spawned.
TaskFails(t) ==
  /\ tasks[t] = "running" /\ manager = "held"
  /\ tasks' = [tasks EXCEPT ![t] = "failed"]
  /\ UNCHANGED <<config, at, manager, process, exit>>

\* The runner of the full node waits for an essential task to fail.
EssentialTaskFailed ==
  /\ process = "running" /\ config.command = "run"
  /\ \E t \in Essential : tasks[t] = "failed"
  /\ process' = "stopping" /\ exit' = "Err" /\ manager' = "dropped"
  /\ UNCHANGED <<config, at, tasks>>

\* The command is done, or a signal ends it or the node.
Finishes ==
  /\ process = "running"
  /\ process' = "stopping"
  /\ exit' \in IF config.command = "run" THEN {"Ok"} ELSE {"Ok", "Err"}
  /\ manager' = IF manager = "held" THEN "dropped" ELSE manager
  /\ UNCHANGED <<config, at, tasks>>

\* A task notices that its manager is gone.
TaskEnds(t) ==
  /\ tasks[t] = "running" /\ manager = "dropped"
  /\ tasks' = [tasks EXCEPT ![t] = "ended"]
  /\ UNCHANGED <<config, at, manager, process, exit>>

Exits ==
  /\ process = "stopping"
  /\ \A t \in Task : tasks[t] # "running"
  /\ process' = "exited"
  /\ UNCHANGED <<config, at, tasks, manager, exit>>

NodeNext ==
  \/ StepSucceeds \/ StepFails \/ Runs
  \/ EssentialTaskFailed \/ Finishes \/ Exits
  \/ \E t \in Task : TaskFails(t) \/ TaskEnds(t)

\* The start-up is sequential code that runs on, the runner is woken by a
\* failed task, and tasks by the exit signal.  No task has to fail, no signal
\* to come and no command to be done.
NodeSpec ==
  /\ NodeInit /\ [][NodeNext]_nodeVars
  /\ WF_nodeVars(StepSucceeds \/ StepFails \/ Runs)
  /\ WF_nodeVars(EssentialTaskFailed)
  /\ WF_nodeVars(Exits)
  /\ \A t \in Task : WF_nodeVars(TaskEnds(t))

----------------------------------------------------------------------------
(***************************************************************************)
(* Properties                                                              *)
(***************************************************************************)

\* The steps already taken.
Taken(step) == \E i \in 1 .. at - 1 : Startup(config)[i] = step

\* What the configuration asks of a node that takes part in the network.
Required ==
  {"txpool", "import-queue", "rpc"} \cup
  (IF config.authority THEN {"aura"} ELSE {}) \cup
  (IF config.disable_grandpa THEN {} ELSE {"grandpa-voter"})

\* The network is started last: no peer reaches a node that has not started all
\* that its configuration asks for.
NetworkStartsLast ==
  Taken("start_network") => \A t \in Required : tasks[t] # "none"

\* A remote keystore is refused before anything runs: the second check, in
\* new_full, is never reached.
RemoteKeystoreStartsNothing ==
  config.keystore_remote =>
    /\ \A t \in Task : tasks[t] = "none"
    /\ ~Taken("build_network")

\* A subcommand that imports blocks keeps the tasks of the import queue alive
\* until it is done.
ImportingKeepsTasks ==
  process = "running" /\ config.command \in {"check-block", "import-blocks"} =>
    tasks["import-queue"] # "ended"

\* "If it fails we take down the service with it": a node whose pool, import
\* queue, authoring or voter failed, also during the start-up, stops.
EssentialFailureStops ==
  config.command = "run" /\ (\E t \in Task : t \in {"txpool", "import-queue", "aura", "grandpa-voter"}
                                             /\ tasks[t] = "failed")
    ~> process = "exited"

\* Whatever step of the start-up fails, and however the process stops, no task
\* is left behind and the process exits.
StoppingEnds == process = "stopping" ~> process = "exited"
============================================================================
