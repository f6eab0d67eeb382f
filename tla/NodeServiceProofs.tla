------------------------- MODULE NodeServiceProofs -------------------------
(***************************************************************************)
(* What holds of the node whatever its configurations are.                 *)
(***************************************************************************)
EXTENDS NodeService, SequenceTheorems, TLAPS

----------------------------------------------------------------------------
(***************************************************************************)
(* The steps of the start-up                                               *)
(***************************************************************************)

LEMMA OptionalType ==
  ASSUME NEW S, NEW condition, NEW s, condition => s \in Seq(S)
  PROVE  Optional(condition, s) \in Seq(S)
BY DEF Optional

LEMMA ConcatType ==
  ASSUME NEW S, NEW s \in Seq(S), NEW t \in Seq(S)
  PROVE  s \o t \in Seq(S)
OBVIOUS

PartialSteps ==
  {"keystore_check", "telemetry_worker", "full_parts", "spawn_telemetry", "transaction_pool",
   "grandpa_block_import", "slot_duration", "import_queue"}

LEMMA NewPartialType ==
  ASSUME NEW c, NEW S, PartialSteps \subseteq S
  PROVE  NewPartial(c) \in Seq(S)
<1>1. /\ <<"keystore_check">> \in Seq(S)
      /\ <<"telemetry_worker">> \in Seq(S)
      /\ <<"full_parts">> \in Seq(S)
      /\ <<"spawn_telemetry">> \in Seq(S)
      /\ <<"transaction_pool", "grandpa_block_import", "slot_duration", "import_queue">> \in Seq(S)
  BY DEF PartialSteps
<1>2. /\ Optional(c.telemetry, <<"telemetry_worker">>) \in Seq(S)
      /\ Optional(c.telemetry, <<"spawn_telemetry">>) \in Seq(S)
  BY <1>1, OptionalType
<1>. QED  BY <1>1, <1>2, ConcatType DEF NewPartial

\* What new_full starts, but for the authoring.
FullSteps ==
  PartialSteps \cup
  {"keystore_hook", "build_network", "offchain_workers", "spawn_tasks", "run_grandpa_voter",
   "start_network"}

LEMMA NewFullType ==
  ASSUME NEW c, NEW S, FullSteps \subseteq S, c.authority => "start_aura" \in S
  PROVE  NewFull(c) \in Seq(S)
<1>1. /\ <<"keystore_hook">> \in Seq(S)
      /\ <<"build_network">> \in Seq(S)
      /\ <<"offchain_workers">> \in Seq(S)
      /\ <<"spawn_tasks">> \in Seq(S)
      /\ <<"run_grandpa_voter">> \in Seq(S)
      /\ <<"start_network">> \in Seq(S)
  BY DEF FullSteps
<1>2. c.authority => <<"slot_duration", "start_aura">> \in Seq(S)
  BY DEF FullSteps, PartialSteps
<1>3. /\ Optional(c.keystore_remote, <<"keystore_hook">>) \in Seq(S)
      /\ Optional(c.offchain_worker, <<"offchain_workers">>) \in Seq(S)
      /\ Optional(c.authority, <<"slot_duration", "start_aura">>) \in Seq(S)
      /\ Optional(~c.disable_grandpa, <<"run_grandpa_voter">>) \in Seq(S)
  BY <1>1, <1>2, OptionalType
<1>4. NewPartial(c) \in Seq(S)
  BY NewPartialType DEF FullSteps
<1>. QED  BY <1>1, <1>3, <1>4, ConcatType DEF NewFull

LEMMA StartupType ==
  ASSUME NEW c, NEW S, {"create_runner", "not_enabled"} \subseteq S,
         c.command \in AsyncCommand \cup ClientBenchmark => PartialSteps \subseteq S,
         c.command = "run" => FullSteps \subseteq S,
         c.command = "run" /\ c.authority => "start_aura" \in S
  PROVE  Startup(c) \in Seq(S)
<1>1. <<"create_runner">> \in Seq(S) /\ <<"not_enabled">> \in Seq(S)
  OBVIOUS
<1>2. /\ Optional(c.command \notin {"key", "try-runtime"}, <<"create_runner">>) \in Seq(S)
      /\ Optional(c.command \in Disabled, <<"not_enabled">>) \in Seq(S)
  BY <1>1, OptionalType
<1>3. Optional(c.command \in AsyncCommand \cup ClientBenchmark, NewPartial(c)) \in Seq(S)
  <2>1. c.command \in AsyncCommand \cup ClientBenchmark => NewPartial(c) \in Seq(S)
    BY NewPartialType
  <2>. QED  BY <2>1, OptionalType
<1>4. Optional(c.command = "run", NewFull(c)) \in Seq(S)
  <2>1. c.command = "run" => NewFull(c) \in Seq(S)
    BY NewFullType
  <2>. QED  BY <2>1, OptionalType
<1>. QED  BY <1>2, <1>3, <1>4, ConcatType DEF Startup

\* The step of the start-up is one of its steps.
LEMMA StepType ==
  ASSUME NEW S, Startup(config) \in Seq(S), at \in Nat \ {0}, at <= Len(Startup(config))
  PROVE  StepOf \in S
BY DEF StepOf

----------------------------------------------------------------------------
(***************************************************************************)
(* The inductive invariant                                                 *)
(***************************************************************************)

NodeTypeOK ==
  /\ config \in Config
  /\ at \in Nat \ {0}
  /\ tasks \in [Task -> {"none", "running", "failed", "ended"}]

\* Tasks end only when their manager is dropped, which the full node and the
\* commands that keep it do when they stop.
ManagerKept ==
  /\ (\E t \in Task : tasks[t] = "ended") => manager = "dropped"
  /\ process = "starting" => manager # "dropped"
  /\ process = "running" /\ config.command \notin ClientBenchmark => manager # "dropped"

NInv == NodeTypeOK /\ ManagerKept

LEMMA InitNInv ==
  ASSUME NodeInit
  PROVE  NInv
BY DEF NodeInit, NInv, NodeTypeOK, ManagerKept, Task

LEMMA NextNInv ==
  ASSUME NInv, [NodeNext]_nodeVars
  PROVE  NInv'
<1>1. /\ config \in Config /\ at \in Nat \ {0}
      /\ tasks \in [Task -> {"none", "running", "failed", "ended"}]
  BY DEF NInv, NodeTypeOK
<1>2. CASE StepSucceeds
  <2>1. /\ tasks' = [t \in Task |-> IF t \in Spawned(StepOf) THEN "running" ELSE tasks[t]]
        /\ manager' = IF StepOf = "full_parts" THEN "held" ELSE manager
        /\ at' = at + 1 /\ at <= Len(Startup(config))
        /\ process = "starting" /\ UNCHANGED <<config, process, exit>>
    BY <1>2 DEF StepSucceeds
  <2>2. NodeTypeOK'
    BY <1>1, <2>1 DEF NodeTypeOK
  <2>3. ManagerKept'
    <3>1. ASSUME NEW t \in Task
          PROVE  tasks'[t] # "ended"
      BY <2>1 DEF NInv, ManagerKept
    <3>. QED  BY <2>1, <3>1 DEF NInv, ManagerKept
  <2>. QED  BY <2>2, <2>3 DEF NInv
<1>3. CASE StepFails \/ Runs \/ EssentialTaskFailed \/ Finishes \/ Exits
  <2>1. UNCHANGED <<config, at, tasks>>
    BY <1>3 DEF StepFails, Runs, EssentialTaskFailed, Finishes, Exits
  <2>2. ManagerKept'
    BY <1>3 DEF NInv, ManagerKept, StepFails, Runs, EssentialTaskFailed, Finishes, Exits
  <2>. QED  BY <2>1, <2>2 DEF NInv, NodeTypeOK
<1>4. ASSUME NEW t \in Task, TaskFails(t) \/ TaskEnds(t)
      PROVE  NInv'
  <2>1. /\ tasks[t] # "none" /\ UNCHANGED <<config, at, manager, process>>
        /\ \E v \in {"failed", "ended"} : tasks' = [tasks EXCEPT ![t] = v]
        /\ tasks'[t] = "ended" => manager = "dropped"
    BY <1>1, <1>4 DEF TaskFails, TaskEnds
  <2>2. NodeTypeOK' /\ ManagerKept'
    BY <1>1, <2>1 DEF NInv, NodeTypeOK, ManagerKept
  <2>. QED  BY <2>2 DEF NInv
<1>5. CASE UNCHANGED nodeVars
  BY <1>5 DEF nodeVars, NInv, NodeTypeOK, ManagerKept
<1>. QED  BY <1>2, <1>3, <1>4, <1>5 DEF NodeNext

----------------------------------------------------------------------------
(***************************************************************************)
(* Theorems                                                                *)
(***************************************************************************)

\* The type of a run and the life of its task manager, together inductive over
\* the start-up, the tasks and the ways it stops.
THEOREM NodeInvariance == NodeSpec => []NInv
<1>1. NodeInit => NInv
  BY InitNInv
<1>2. NInv /\ [NodeNext]_nodeVars => NInv'
  BY NextNInv
<1>. QED  BY <1>1, <1>2, PTL DEF NodeSpec

\* check-block and import-blocks keep the task manager while they run, so the
\* import queue they feed is not ended under them.
THEOREM ImportQueueOutlivesImport == NodeSpec => []ImportingKeepsTasks
<1>1. NInv => ImportingKeepsTasks
  BY DEF NInv, ManagerKept, ImportingKeepsTasks, ClientBenchmark, Task
<1>. QED  BY <1>1, NodeInvariance, PTL

----------------------------------------------------------------------------
(***************************************************************************)
(* A remote keystore in the configuration                                  *)
(***************************************************************************)

AllSteps == {"create_runner", "not_enabled", "start_aura"} \cup FullSteps

LEMMA FirstOfConcat ==
  ASSUME NEW S, NEW s \in Seq(S), NEW t \in Seq(S), Len(s) >= 1
  PROVE  (s \o t)[1] = s[1] /\ Len(s \o t) >= 1
BY ConcatProperties

LEMMA SecondOfConcat ==
  ASSUME NEW S, NEW s \in Seq(S), NEW t \in Seq(S), Len(s) = 1, Len(t) >= 1
  PROVE  (s \o t)[1] = s[1] /\ (s \o t)[2] = t[1]
<1>1. \A i \in 1 .. Len(s) + Len(t) :
        (s \o t)[i] = IF i <= Len(s) THEN s[i] ELSE t[i - Len(s)]
  BY ConcatProperties
<1>2. Len(t) \in Nat /\ 1 \in 1 .. Len(s) + Len(t) /\ 2 \in 1 .. Len(s) + Len(t)
  OBVIOUS
<1>3. (s \o t)[2] = t[2 - Len(s)]
  BY <1>1, <1>2
<1>. QED  BY <1>1, <1>2, <1>3

\* The keystore is what new_partial and new_full look at first.
LEMMA KeystoreFirst ==
  ASSUME NEW c
  PROVE  /\ NewPartial(c) \in Seq(AllSteps) /\ Len(NewPartial(c)) >= 1
         /\ NewPartial(c)[1] = "keystore_check"
         /\ NewFull(c) \in Seq(AllSteps) /\ Len(NewFull(c)) >= 1
         /\ NewFull(c)[1] = "keystore_check"
<1> DEFINE S == AllSteps
<1>1. /\ <<"keystore_check">> \in Seq(S)
      /\ <<"telemetry_worker">> \in Seq(S)
      /\ <<"full_parts">> \in Seq(S)
      /\ <<"spawn_telemetry">> \in Seq(S)
      /\ <<"transaction_pool", "grandpa_block_import", "slot_duration", "import_queue">> \in Seq(S)
  BY DEF PartialSteps, FullSteps, AllSteps
<1>2. /\ Optional(c.telemetry, <<"telemetry_worker">>) \in Seq(S)
      /\ Optional(c.telemetry, <<"spawn_telemetry">>) \in Seq(S)
  BY <1>1, OptionalType
<1>3. Len(<<"keystore_check">>) = 1 /\ <<"keystore_check">>[1] = "keystore_check"
  OBVIOUS
<1>4. Len(NewPartial(c)) >= 1 /\ NewPartial(c)[1] = "keystore_check"
  BY <1>1, <1>2, <1>3, ConcatType, FirstOfConcat DEF NewPartial
<1>5. /\ <<"keystore_hook">> \in Seq(S)
      /\ <<"build_network">> \in Seq(S)
      /\ <<"offchain_workers">> \in Seq(S)
      /\ <<"spawn_tasks">> \in Seq(S)
      /\ <<"slot_duration", "start_aura">> \in Seq(S)
      /\ <<"run_grandpa_voter">> \in Seq(S)
      /\ <<"start_network">> \in Seq(S)
  BY DEF PartialSteps, FullSteps, AllSteps
<1>6. /\ Optional(c.keystore_remote, <<"keystore_hook">>) \in Seq(S)
      /\ Optional(c.offchain_worker, <<"offchain_workers">>) \in Seq(S)
      /\ Optional(c.authority, <<"slot_duration", "start_aura">>) \in Seq(S)
      /\ Optional(~c.disable_grandpa, <<"run_grandpa_voter">>) \in Seq(S)
  BY <1>5, OptionalType
<1>7. NewPartial(c) \in Seq(S)
  BY NewPartialType DEF FullSteps, AllSteps
<1>8. NewFull(c) \in Seq(S) /\ Len(NewFull(c)) >= 1 /\ NewFull(c)[1] = "keystore_check"
  BY <1>4, <1>5, <1>6, <1>7, ConcatType, FirstOfConcat DEF NewFull
<1>. QED  BY <1>4, <1>7, <1>8

\* The commands that use a client.
UsesClient(c) == c.command \in {"run"} \cup AsyncCommand \cup ClientBenchmark

\* They look at the keystore right after the runner is made.
LEMMA KeystoreSecond ==
  ASSUME NEW c, UsesClient(c)
  PROVE  Startup(c)[1] = "create_runner" /\ Startup(c)[2] = "keystore_check"
<1> DEFINE runner == Optional(c.command \notin {"key", "try-runtime"}, <<"create_runner">>)
           no     == Optional(c.command \in Disabled, <<"not_enabled">>)
           part   == Optional(c.command \in AsyncCommand \cup ClientBenchmark, NewPartial(c))
           full   == Optional(c.command = "run", NewFull(c))
<1>1. runner = <<"create_runner">> /\ no = <<>>
  BY DEF UsesClient, Optional, AsyncCommand, ClientBenchmark, Disabled
<1>2. (runner \o no) \in Seq(AllSteps) /\ Len(runner \o no) = 1 /\ (runner \o no)[1] = "create_runner"
  <2>1. /\ <<"create_runner">> \in Seq(AllSteps) /\ Len(<<"create_runner">>) = 1
        /\ <<"create_runner">>[1] = "create_runner"
    BY DEF AllSteps
  <2>2. <<"create_runner">> \o << >> = <<"create_runner">>
    BY <2>1, ConcatEmptySeq
  <2> HIDE DEF runner, no
  <2>. QED  BY <1>1, <2>1, <2>2
<1>3. Startup(c) = ((runner \o no) \o part) \o full
  BY DEF Startup
<1>4. CASE c.command = "run"
  <2>1. part = <<>> /\ full = NewFull(c)
    BY <1>4 DEF Optional, AsyncCommand, ClientBenchmark
  <2> HIDE DEF runner, no, part, full
  <2>2. (runner \o no) \o part = runner \o no
    BY <1>2, <2>1
  <2>. QED  BY <1>2, <1>3, <2>1, <2>2, KeystoreFirst, SecondOfConcat
<1>5. CASE c.command # "run"
  <2>1. part = NewPartial(c) /\ full = <<>>
    BY <1>5 DEF Optional, UsesClient
  <2> HIDE DEF runner, no, part, full
  <2>2. /\ (runner \o no) \o part \in Seq(AllSteps)
        /\ ((runner \o no) \o part)[1] = "create_runner"
        /\ ((runner \o no) \o part)[2] = "keystore_check"
    BY <1>2, <2>1, KeystoreFirst, ConcatType, SecondOfConcat
  <2>3. Startup(c) = (runner \o no) \o part
    BY <1>3, <2>1, <2>2
  <2>. QED  BY <2>2, <2>3
<1>. QED  BY <1>4, <1>5

\* The start-up stops at the check.
RemoteRefused ==
  /\ at <= Len(Startup(config)) + 1
  /\ config.keystore_remote =>
       /\ \A t \in Task : tasks[t] = "none"
       /\ UsesClient(config) => at <= 2

LEMMA InitRemote ==
  ASSUME NodeInit
  PROVE  RemoteRefused
<1>1. Startup(config) \in Seq(AllSteps)
  BY StartupType DEF AllSteps, FullSteps
<1>2. Len(Startup(config)) \in Nat
  BY <1>1
<1>. QED  BY <1>2 DEF NodeInit, RemoteRefused

LEMMA NextRemote ==
  ASSUME NodeTypeOK, RemoteRefused, [NodeNext]_nodeVars
  PROVE  RemoteRefused'
<1>1. Len(Startup(config)) \in Nat /\ at \in Nat \ {0}
  <2>1. Startup(config) \in Seq(AllSteps)
    BY StartupType DEF AllSteps, FullSteps
  <2>. QED  BY <2>1 DEF NodeTypeOK
<1>2. CASE StepSucceeds
  <2>1. /\ tasks' = [t \in Task |-> IF t \in Spawned(StepOf) THEN "running" ELSE tasks[t]]
        /\ at' = at + 1 /\ at <= Len(Startup(config))
        /\ ~Rejects(StepOf, config) /\ UNCHANGED config
    BY <1>2 DEF StepSucceeds
  <2>2. at' <= Len(Startup(config)) + 1
    BY <1>1, <2>1
  <2>3. ASSUME config.keystore_remote
        PROVE  StepOf \in {"create_runner", "not_enabled"} /\ (UsesClient(config) => at' <= 2)
    <3>1. CASE UsesClient(config)
      <4>1. StepOf # "keystore_check"
        BY <2>1, <2>3 DEF Rejects
      <4>2. at = 1
        BY <1>1, <2>3, <3>1, <4>1, KeystoreSecond DEF RemoteRefused, StepOf
      <4>. QED  BY <2>1, <3>1, <4>2, KeystoreSecond DEF StepOf
    <3>2. CASE ~UsesClient(config)
      <4> DEFINE S == {"create_runner", "not_enabled"}
      <4>1. Startup(config) \in Seq(S)
        BY <3>2, StartupType DEF UsesClient
      <4>. QED  BY <1>1, <2>1, <3>2, <4>1, StepType
    <3>. QED  BY <3>1, <3>2
  <2>4. \A step \in {"create_runner", "not_enabled"} : Spawned(step) = {}
    BY DEF Spawned
  <2>. QED  BY <2>1, <2>2, <2>3, <2>4 DEF RemoteRefused, UsesClient
<1>3. CASE StepFails \/ Runs \/ EssentialTaskFailed \/ Finishes \/ Exits
  BY <1>3 DEF RemoteRefused, UsesClient, StepFails, Runs, EssentialTaskFailed, Finishes, Exits
<1>4. ASSUME NEW t \in Task, TaskFails(t) \/ TaskEnds(t)
      PROVE  RemoteRefused'
  BY <1>4 DEF RemoteRefused, UsesClient, TaskFails, TaskEnds
<1>5. CASE UNCHANGED nodeVars
  BY <1>5 DEF nodeVars, RemoteRefused, UsesClient
<1>. QED  BY <1>2, <1>3, <1>4, <1>5 DEF NodeNext

\* new_partial refuses a remote keystore before it spawns a task: the second
\* refusal, in new_full, is never met.
THEOREM RemoteKeystoreIsRefused == NodeSpec => []RemoteKeystoreStartsNothing
<1>1. ASSUME NodeTypeOK, RemoteRefused
      PROVE  RemoteKeystoreStartsNothing
  <2>1. ASSUME config.keystore_remote, NEW i \in 1 .. at - 1, Startup(config)[i] = "build_network"
        PROVE  FALSE
    <3>1. CASE UsesClient(config)
      <4>1. i = 1
        BY <1>1, <2>1, <3>1 DEF RemoteRefused, NodeTypeOK
      <4>. QED  BY <2>1, <3>1, <4>1, KeystoreSecond
    <3>2. CASE ~UsesClient(config)
      <4> DEFINE S == {"create_runner", "not_enabled"}
      <4>1. Startup(config) \in Seq(S)
        BY <3>2, StartupType DEF UsesClient
      <4>2. i \in 1 .. Len(Startup(config))
        BY <1>1, <4>1 DEF RemoteRefused, NodeTypeOK
      <4>. QED  BY <2>1, <4>1, <4>2
    <3>. QED  BY <3>1, <3>2
  <2>. QED  BY <1>1, <2>1 DEF RemoteRefused, RemoteKeystoreStartsNothing, Taken
<1>2. NodeInit => RemoteRefused
  BY InitRemote
<1>3. NodeTypeOK /\ RemoteRefused /\ [NodeNext]_nodeVars => RemoteRefused'
  BY NextRemote
<1>4. NInv => NodeTypeOK
  BY DEF NInv
<1>. QED  BY <1>1, <1>2, <1>3, <1>4, NodeInvariance, PTL DEF NodeSpec

----------------------------------------------------------------------------
(***************************************************************************)
(* What is started before the network                                      *)
(***************************************************************************)

Occurs(e, s) == \E i \in 1 .. Len(s) : s[i] = e

LEMMA OccursLeft ==
  ASSUME NEW S, NEW s \in Seq(S), NEW t \in Seq(S), NEW e, Occurs(e, s)
  PROVE  Occurs(e, s \o t)
<1>1. PICK i \in 1 .. Len(s) : s[i] = e
  BY DEF Occurs
<1>2. i \in 1 .. Len(s) + Len(t) /\ (s \o t)[i] = s[i] /\ Len(s \o t) = Len(s) + Len(t)
  BY ConcatProperties
<1>. QED  BY <1>1, <1>2 DEF Occurs

LEMMA OccursRight ==
  ASSUME NEW S, NEW s \in Seq(S), NEW t \in Seq(S), NEW e, Occurs(e, t)
  PROVE  Occurs(e, s \o t)
<1>1. PICK i \in 1 .. Len(t) : t[i] = e
  BY DEF Occurs
<1>2. Len(s) \in Nat /\ Len(t) \in Nat
  OBVIOUS
<1>3. /\ Len(s) + i \in 1 .. Len(s) + Len(t)
      /\ Len(s \o t) = Len(s) + Len(t)
      /\ (s \o t)[Len(s) + i] = t[i]
  <2>1. /\ Len(s \o t) = Len(s) + Len(t)
        /\ \A k \in 1 .. Len(s) + Len(t) : (s \o t)[k] = IF k <= Len(s) THEN s[k] ELSE t[k - Len(s)]
    BY ConcatProperties
  <2>2. Len(s) + i \in 1 .. Len(s) + Len(t) /\ ~(Len(s) + i <= Len(s)) /\ Len(s) + i - Len(s) = i
    BY <1>2
  <2>. QED  BY <2>1, <2>2
<1>. QED  BY <1>1, <1>3 DEF Occurs

\* e is the last element and no other.
LastAlone(e, s) == Len(s) >= 1 /\ \A i \in 1 .. Len(s) - 1 : s[i] # e

LEMMA LastOfConcat ==
  ASSUME NEW S, NEW e, NEW s \in Seq(S \ {e}), NEW t \in Seq(S), LastAlone(e, t)
  PROVE  LastAlone(e, s \o t)
<1>1. s \in Seq(S) /\ Len(s) \in Nat /\ Len(t) \in Nat
  OBVIOUS
<1>2. /\ Len(s \o t) = Len(s) + Len(t)
      /\ \A k \in 1 .. Len(s) + Len(t) : (s \o t)[k] = IF k <= Len(s) THEN s[k] ELSE t[k - Len(s)]
  BY <1>1, ConcatProperties
<1>3. ASSUME NEW i \in 1 .. Len(s \o t) - 1
      PROVE  (s \o t)[i] # e
  <2>1. CASE i <= Len(s)
    <3>1. i \in 1 .. Len(s)
      BY <1>1, <2>1
    <3>2. s[i] \in S \ {e}
      BY <3>1
    <3>. QED  BY <1>1, <1>2, <1>3, <2>1, <3>2
  <2>2. CASE i > Len(s)
    <3>1. i - Len(s) \in 1 .. Len(t) - 1 /\ i \in 1 .. Len(s) + Len(t) /\ ~(i <= Len(s))
      BY <1>1, <1>2, <1>3, <2>2
    <3>2. t[i - Len(s)] # e
      BY <3>1 DEF LastAlone
    <3>. QED  BY <1>2, <3>1, <3>2
  <2>. QED  BY <1>1, <2>1, <2>2
<1>. QED  BY <1>1, <1>2, <1>3 DEF LastAlone

BeforeNetwork == AllSteps \ {"start_network"}

\* The full node: what starts before the network, and the network.
LEMMA NetworkIsLast ==
  ASSUME NEW c
  PROVE  /\ NewFull(c) \in Seq(AllSteps)
         /\ LastAlone("start_network", NewFull(c))
<1> DEFINE S == BeforeNetwork
           most == NewPartial(c) \o
                   Optional(c.keystore_remote, <<"keystore_hook">>) \o
                   <<"build_network">> \o
                   Optional(c.offchain_worker, <<"offchain_workers">>) \o
                   <<"spawn_tasks">> \o
                   Optional(c.authority, <<"slot_duration", "start_aura">>) \o
                   Optional(~c.disable_grandpa, <<"run_grandpa_voter">>)
<1>1. /\ <<"keystore_hook">> \in Seq(S)
      /\ <<"build_network">> \in Seq(S)
      /\ <<"offchain_workers">> \in Seq(S)
      /\ <<"spawn_tasks">> \in Seq(S)
      /\ <<"slot_duration", "start_aura">> \in Seq(S)
      /\ <<"run_grandpa_voter">> \in Seq(S)
  BY DEF PartialSteps, FullSteps, AllSteps, BeforeNetwork
<1>2. /\ Optional(c.keystore_remote, <<"keystore_hook">>) \in Seq(S)
      /\ Optional(c.offchain_worker, <<"offchain_workers">>) \in Seq(S)
      /\ Optional(c.authority, <<"slot_duration", "start_aura">>) \in Seq(S)
      /\ Optional(~c.disable_grandpa, <<"run_grandpa_voter">>) \in Seq(S)
  BY <1>1, OptionalType
<1>3. PartialSteps \subseteq S
  BY DEF PartialSteps, FullSteps, AllSteps, BeforeNetwork
<1>4. NewPartial(c) \in Seq(S)
  BY <1>3, NewPartialType
<1>5. most \in Seq(S)
  BY <1>1, <1>2, <1>4, ConcatType
<1>6. /\ <<"start_network">> \in Seq(AllSteps) /\ Len(<<"start_network">>) = 1
  BY DEF FullSteps, AllSteps
<1>7. LastAlone("start_network", <<"start_network">>)
  BY <1>6 DEF LastAlone
<1>8. NewFull(c) = most \o <<"start_network">>
  BY DEF NewFull
<1>9. most \in Seq(AllSteps \ {"start_network"})
  BY <1>5 DEF BeforeNetwork
<1> HIDE DEF most
<1>10. LastAlone("start_network", NewFull(c))
  BY <1>6, <1>7, <1>8, <1>9, LastOfConcat
<1>. QED  BY <1>10, KeystoreFirst

\* The configuration asks for the task that the step spawns.
Asks(c, step) ==
  \/ step \in {"transaction_pool", "import_queue", "spawn_tasks"}
  \/ step = "start_aura" /\ c.authority
  \/ step = "run_grandpa_voter" /\ ~c.disable_grandpa

LEMMA PartialOccurs ==
  ASSUME NEW c
  PROVE  Occurs("transaction_pool", NewPartial(c)) /\ Occurs("import_queue", NewPartial(c))
<1> DEFINE S    == AllSteps
           last == <<"transaction_pool", "grandpa_block_import", "slot_duration", "import_queue">>
<1>1. /\ <<"keystore_check">> \in Seq(S)
      /\ <<"telemetry_worker">> \in Seq(S)
      /\ <<"full_parts">> \in Seq(S)
      /\ <<"spawn_telemetry">> \in Seq(S)
      /\ last \in Seq(S)
  BY DEF PartialSteps, FullSteps, AllSteps
<1>2. /\ Optional(c.telemetry, <<"telemetry_worker">>) \in Seq(S)
      /\ Optional(c.telemetry, <<"spawn_telemetry">>) \in Seq(S)
  BY <1>1, OptionalType
<1>3. /\ Len(last) = 4 /\ last[1] = "transaction_pool" /\ last[4] = "import_queue"
  OBVIOUS
<1>4. Occurs("transaction_pool", last) /\ Occurs("import_queue", last)
  <2>1. 1 \in 1 .. 4 /\ 4 \in 1 .. 4
    OBVIOUS
  <2> HIDE DEF last
  <2>. QED  BY <1>3, <2>1 DEF Occurs
<1> HIDE DEF last, S
<1>5. <<"keystore_check">> \o Optional(c.telemetry, <<"telemetry_worker">>) \o
        <<"full_parts">> \o Optional(c.telemetry, <<"spawn_telemetry">>) \in Seq(S)
  BY <1>1, <1>2, ConcatType
<1>6. NewPartial(c) =
        (<<"keystore_check">> \o Optional(c.telemetry, <<"telemetry_worker">>) \o
         <<"full_parts">> \o Optional(c.telemetry, <<"spawn_telemetry">>)) \o last
  BY DEF NewPartial, last
<1>. QED  BY <1>1, <1>4, <1>5, <1>6, OccursRight

\* All that the configuration asks for is among the steps of new_full.
LEMMA FullOccurs ==
  ASSUME NEW c, NEW step, Asks(c, step)
  PROVE  Occurs(step, NewFull(c))
<1> DEFINE S     == AllSteps
           hook  == Optional(c.keystore_remote, <<"keystore_hook">>)
           off   == Optional(c.offchain_worker, <<"offchain_workers">>)
           aura  == Optional(c.authority, <<"slot_duration", "start_aura">>)
           voter == Optional(~c.disable_grandpa, <<"run_grandpa_voter">>)
           s1    == NewPartial(c) \o hook
           s2    == s1 \o <<"build_network">>
           s3    == s2 \o off
           s4    == s3 \o <<"spawn_tasks">>
           s5    == s4 \o aura
           s6    == s5 \o voter
<1>1. /\ <<"keystore_hook">> \in Seq(S)
      /\ <<"build_network">> \in Seq(S)
      /\ <<"offchain_workers">> \in Seq(S)
      /\ <<"spawn_tasks">> \in Seq(S)
      /\ <<"slot_duration", "start_aura">> \in Seq(S)
      /\ <<"run_grandpa_voter">> \in Seq(S)
      /\ <<"start_network">> \in Seq(S)
  BY DEF PartialSteps, FullSteps, AllSteps
<1>2. /\ NewPartial(c) \in Seq(S)
      /\ hook \in Seq(S) /\ off \in Seq(S) /\ aura \in Seq(S) /\ voter \in Seq(S)
  BY <1>1, OptionalType, KeystoreFirst
<1>3. NewFull(c) = s6 \o <<"start_network">>
  BY DEF NewFull
<1>4. \A e : Len(<<e>>) = 1 /\ <<e>>[1] = e
  OBVIOUS
<1>5. Occurs("spawn_tasks", <<"spawn_tasks">>)
  BY <1>4 DEF Occurs
<1>6. c.authority => Occurs("start_aura", aura)
  <2>1. /\ Len(<<"slot_duration", "start_aura">>) = 2
        /\ <<"slot_duration", "start_aura">>[2] = "start_aura" /\ 2 \in 1 .. 2
    OBVIOUS
  <2>. QED  BY <2>1 DEF Optional, Occurs
<1>7. ~c.disable_grandpa => Occurs("run_grandpa_voter", voter)
  BY <1>4 DEF Optional, Occurs
<1> HIDE DEF S, hook, off, aura, voter
<1>8. /\ s1 \in Seq(S) /\ s2 \in Seq(S) /\ s3 \in Seq(S)
      /\ s4 \in Seq(S) /\ s5 \in Seq(S) /\ s6 \in Seq(S)
  BY <1>1, <1>2, ConcatType
<1> HIDE DEF s1, s2, s3, s4, s5, s6
<1>9. /\ s1 = NewPartial(c) \o hook /\ s2 = s1 \o <<"build_network">> /\ s3 = s2 \o off
      /\ s4 = s3 \o <<"spawn_tasks">> /\ s5 = s4 \o aura /\ s6 = s5 \o voter
  BY DEF s1, s2, s3, s4, s5, s6
<1>10. ASSUME Occurs(step, s4)
       PROVE  Occurs(step, NewFull(c))
  BY <1>1, <1>2, <1>3, <1>8, <1>9, <1>10, OccursLeft
<1>11. CASE step \in {"transaction_pool", "import_queue"}
  <2>1. Occurs(step, NewPartial(c))
    BY <1>11, PartialOccurs
  <2>2. Occurs(step, s1)
    BY <2>1, <1>2, <1>9, OccursLeft
  <2>3. Occurs(step, s2)
    BY <2>2, <1>1, <1>8, <1>9, OccursLeft
  <2>4. Occurs(step, s3)
    BY <2>3, <1>2, <1>8, <1>9, OccursLeft
  <2>5. Occurs(step, s4)
    BY <2>4, <1>1, <1>8, <1>9, OccursLeft
  <2>. QED  BY <2>5, <1>10
<1>12. CASE step = "spawn_tasks"
  <2>1. Occurs(step, s4)
    BY <1>1, <1>5, <1>8, <1>9, <1>12, OccursRight
  <2>. QED  BY <2>1, <1>10
<1>13. CASE step = "start_aura" /\ c.authority
  <2>1. Occurs(step, s5)
    BY <1>2, <1>6, <1>8, <1>9, <1>13, OccursRight
  <2>2. Occurs(step, s6)
    BY <2>1, <1>2, <1>8, <1>9, OccursLeft
  <2>. QED  BY <2>2, <1>1, <1>3, <1>8, OccursLeft
<1>14. CASE step = "run_grandpa_voter" /\ ~c.disable_grandpa
  <2>1. Occurs(step, s6)
    BY <1>2, <1>7, <1>8, <1>9, <1>14, OccursRight
  <2>. QED  BY <2>1, <1>1, <1>3, <1>8, OccursLeft
<1>. QED  BY <1>11, <1>12, <1>13, <1>14 DEF Asks

\* The whole start-up of the full node.
LEMMA StartupOfNode ==
  ASSUME NEW c, c.command = "run"
  PROVE  /\ LastAlone("start_network", Startup(c))
         /\ \A step : Asks(c, step) => Occurs(step, Startup(c))
<1> DEFINE first == Optional(c.command \notin {"key", "try-runtime"}, <<"create_runner">>) \o
                    Optional(c.command \in Disabled, <<"not_enabled">>) \o
                    Optional(c.command \in AsyncCommand \cup ClientBenchmark, NewPartial(c))
<1>1. Startup(c) = first \o NewFull(c)
  BY DEF Startup, Optional
<1>2. first \in Seq(BeforeNetwork)
  <2>1. <<"create_runner">> \in Seq(BeforeNetwork) /\ <<"not_enabled">> \in Seq(BeforeNetwork)
    BY DEF BeforeNetwork, AllSteps
  <2>2. PartialSteps \subseteq BeforeNetwork
    BY DEF PartialSteps, FullSteps, AllSteps, BeforeNetwork
  <2>3. NewPartial(c) \in Seq(BeforeNetwork)
    BY <2>2, NewPartialType
  <2>. QED  BY <2>1, <2>3, OptionalType, ConcatType
<1>3. first \in Seq(AllSteps \ {"start_network"}) /\ first \in Seq(AllSteps)
  BY <1>2 DEF BeforeNetwork
<1> HIDE DEF first
<1>4. LastAlone("start_network", Startup(c))
  BY <1>1, <1>3, NetworkIsLast, LastOfConcat
<1>5. ASSUME NEW step, Asks(c, step)
      PROVE  Occurs(step, Startup(c))
  BY <1>1, <1>3, <1>5, FullOccurs, NetworkIsLast, OccursRight
<1>. QED  BY <1>4, <1>5

\* No task of a step already taken is missing.
StepsTaken ==
  \A i \in 1 .. at - 1 : \A t \in Spawned(Startup(config)[i]) : tasks[t] # "none"

LEMMA NextStepsTaken ==
  ASSUME NodeTypeOK, StepsTaken, [NodeNext]_nodeVars
  PROVE  StepsTaken'
<1>1. /\ at \in Nat \ {0} /\ tasks \in [Task -> {"none", "running", "failed", "ended"}]
  BY DEF NodeTypeOK
<1>2. CASE StepSucceeds
  <2>1. /\ tasks' = [t \in Task |-> IF t \in Spawned(StepOf) THEN "running" ELSE tasks[t]]
        /\ at' = at + 1 /\ UNCHANGED config
    BY <1>2 DEF StepSucceeds
  <2>2. \A step : Spawned(step) \subseteq Task
    BY DEF Spawned, Task
  <2>3. ASSUME NEW i \in 1 .. at' - 1, NEW t \in Spawned(Startup(config)[i])
        PROVE  tasks'[t] # "none"
    <3>1. t \in Task
      BY <2>2, <2>3
    <3>2. CASE i = at
      BY <2>1, <3>1, <3>2 DEF StepOf
    <3>3. CASE i # at
      <4>1. i \in 1 .. at - 1
        BY <1>1, <2>1, <3>3
      <4>2. tasks[t] # "none"
        BY <4>1, <2>3 DEF StepsTaken
      <4>. QED  BY <2>1, <3>1, <4>2
    <3>. QED  BY <3>2, <3>3
  <2>. QED  BY <2>1, <2>3 DEF StepsTaken
<1>3. CASE StepFails \/ Runs \/ EssentialTaskFailed \/ Finishes \/ Exits
  <2>1. UNCHANGED <<config, at, tasks>>
    BY <1>3 DEF StepFails, Runs, EssentialTaskFailed, Finishes, Exits
  <2>. QED  BY <2>1 DEF StepsTaken
<1>4. ASSUME NEW t \in Task, TaskFails(t) \/ TaskEnds(t)
      PROVE  StepsTaken'
  <2>1. /\ UNCHANGED <<config, at>>
        /\ \A u \in Task : tasks[u] # "none" => tasks'[u] # "none"
    BY <1>1, <1>4 DEF TaskFails, TaskEnds
  <2>2. \A step : Spawned(step) \subseteq Task
    BY DEF Spawned, Task
  <2>. QED  BY <2>1, <2>2 DEF StepsTaken
<1>5. CASE UNCHANGED nodeVars
  BY <1>5 DEF nodeVars, StepsTaken
<1>. QED  BY <1>2, <1>3, <1>4, <1>5 DEF NodeNext

\* The network is the last thing new_full starts, and all that the
\* configuration asks for is among what it starts: a node whose network is
\* started has spawned the tasks of its pool, its import queue, its RPC, and
\* of the authoring and the voting asked for.
THEOREM NetworkComesLast == NodeSpec => []NetworkStartsLast
<1>1. ASSUME NodeTypeOK, RemoteRefused, StepsTaken
      PROVE  NetworkStartsLast
  <2> DEFINE steps == Startup(config)
  <2>1. steps \in Seq(AllSteps) /\ Len(steps) \in Nat /\ at \in Nat \ {0}
    <3>1. Startup(config) \in Seq(AllSteps)
      BY StartupType DEF AllSteps, FullSteps
    <3>. QED  BY <1>1, <3>1 DEF NodeTypeOK
  <2>2. ASSUME NEW i \in 1 .. at - 1, steps[i] = "start_network", NEW t \in Required
        PROVE  tasks[t] # "none"
    <3>1. i \in 1 .. Len(steps)
      BY <1>1, <2>1 DEF RemoteRefused
    <3>2. config.command = "run"
      <4> DEFINE S == {"create_runner", "not_enabled"} \cup PartialSteps
      <4>1. ASSUME config.command # "run"
            PROVE  Startup(config) \in Seq(S)
        BY <4>1, StartupType
      <4>2. config.command # "run" => steps[i] \in S
        BY <3>1, <4>1
      <4>. QED  BY <2>2, <4>2 DEF PartialSteps
    <3>3. /\ LastAlone("start_network", steps)
          /\ \A step : Asks(config, step) => Occurs(step, steps)
      BY <3>2, StartupOfNode
    <3>4. i = Len(steps)
      BY <2>1, <2>2, <3>1, <3>3 DEF LastAlone
    <3>5. PICK step : Asks(config, step) /\ t \in Spawned(step)
      BY <2>2 DEF Required, Asks, Spawned
    <3>6. PICK j \in 1 .. Len(steps) : steps[j] = step
      BY <3>3, <3>5 DEF Occurs
    <3>7. j \in 1 .. at - 1
      BY <2>1, <3>4, <3>6
    <3>. QED  BY <1>1, <3>5, <3>6, <3>7 DEF StepsTaken
  <2>. QED  BY <2>2 DEF NetworkStartsLast, Taken
<1>2. NodeInit => RemoteRefused /\ StepsTaken
  <2>1. NodeInit => StepsTaken
    BY DEF NodeInit, StepsTaken
  <2>. QED  BY <2>1, InitRemote
<1>3. NodeTypeOK /\ RemoteRefused /\ StepsTaken /\ [NodeNext]_nodeVars
        => RemoteRefused' /\ StepsTaken'
  BY NextRemote, NextStepsTaken
<1>4. NInv => NodeTypeOK
  BY DEF NInv
<1>. QED  BY <1>1, <1>2, <1>3, <1>4, NodeInvariance, PTL DEF NodeSpec

----------------------------------------------------------------------------
(***************************************************************************)
(* Stopping                                                                *)
(***************************************************************************)

\* What is spawned is spawned by a task manager: after full_parts, which makes it.
Guarded(s) ==
  \A i \in 1 .. Len(s) : Spawned(s[i]) # {} => \E j \in 1 .. i - 1 : s[j] = "full_parts"

Opened(s) == s \in Seq(AllSteps) /\ Guarded(s) /\ Occurs("full_parts", s)

QuietSteps == {"create_runner", "not_enabled", "keystore_check", "telemetry_worker", "full_parts"}

LEMMA QuietIsGuarded ==
  ASSUME NEW s \in Seq(QuietSteps)
  PROVE  s \in Seq(AllSteps) /\ Guarded(s)
<1>1. \A step \in QuietSteps : Spawned(step) = {}
  BY DEF QuietSteps, Spawned
<1>2. \A i \in 1 .. Len(s) : s[i] \in QuietSteps
  OBVIOUS
<1>3. QuietSteps \subseteq AllSteps
  BY DEF QuietSteps, AllSteps, FullSteps, PartialSteps
<1>. QED  BY <1>1, <1>2, <1>3 DEF Guarded

LEMMA GuardedConcat ==
  ASSUME NEW s \in Seq(AllSteps), NEW t \in Seq(AllSteps), Guarded(s),
         Guarded(t) \/ Occurs("full_parts", s)
  PROVE  Guarded(s \o t)
<1>1. Len(s) \in Nat /\ Len(t) \in Nat
  OBVIOUS
<1>2. /\ Len(s \o t) = Len(s) + Len(t)
      /\ \A k \in 1 .. Len(s) + Len(t) : (s \o t)[k] = IF k <= Len(s) THEN s[k] ELSE t[k - Len(s)]
  BY ConcatProperties
<1>3. SUFFICES ASSUME NEW i \in 1 .. Len(s) + Len(t), Spawned((s \o t)[i]) # {}
               PROVE  \E j \in 1 .. i - 1 : (s \o t)[j] = "full_parts"
  BY <1>2 DEF Guarded
<1>4. CASE i <= Len(s)
  <2>1. i \in 1 .. Len(s) /\ (s \o t)[i] = s[i]
    BY <1>1, <1>2, <1>4
  <2>2. PICK j \in 1 .. i - 1 : s[j] = "full_parts"
    BY <1>3, <2>1 DEF Guarded
  <2>3. j \in 1 .. Len(s) + Len(t) /\ j <= Len(s)
    BY <1>1, <2>1, <2>2
  <2>4. (s \o t)[j] = "full_parts"
    BY <1>2, <2>2, <2>3
  <2>. QED  BY <2>2, <2>4
<1>5. CASE i > Len(s) /\ Occurs("full_parts", s)
  <2>1. PICK j \in 1 .. Len(s) : s[j] = "full_parts"
    BY <1>5 DEF Occurs
  <2>2. j \in 1 .. Len(s) + Len(t) /\ j <= Len(s) /\ j \in 1 .. i - 1
    BY <1>1, <1>5, <2>1
  <2>3. (s \o t)[j] = "full_parts"
    BY <1>2, <2>1, <2>2
  <2>. QED  BY <2>2, <2>3
<1>6. CASE i > Len(s) /\ Guarded(t)
  <2>1. i - Len(s) \in 1 .. Len(t) /\ (s \o t)[i] = t[i - Len(s)]
    BY <1>1, <1>2, <1>6
  <2>2. PICK j \in 1 .. (i - Len(s)) - 1 : t[j] = "full_parts"
    BY <1>3, <1>6, <2>1 DEF Guarded
  <2>3. /\ Len(s) + j \in 1 .. Len(s) + Len(t) /\ ~(Len(s) + j <= Len(s))
        /\ (Len(s) + j) - Len(s) = j /\ Len(s) + j \in 1 .. i - 1
    BY <1>1, <2>1, <2>2
  <2>4. (s \o t)[Len(s) + j] = "full_parts"
    BY <1>2, <2>2, <2>3
  <2>. QED  BY <2>3, <2>4
<1>. QED  BY <1>1, <1>4, <1>5, <1>6

LEMMA OpenedConcat ==
  ASSUME NEW s, Opened(s), NEW t \in Seq(AllSteps)
  PROVE  Opened(s \o t)
BY GuardedConcat, OccursLeft, ConcatType DEF Opened

LEMMA PartialOpens ==
  ASSUME NEW c
  PROVE  Opened(NewPartial(c))
<1> DEFINE worker == Optional(c.telemetry, <<"telemetry_worker">>)
           spawn  == Optional(c.telemetry, <<"spawn_telemetry">>)
           last   == <<"transaction_pool", "grandpa_block_import", "slot_duration", "import_queue">>
           quiet  == <<"keystore_check">> \o worker \o <<"full_parts">>
<1>1. /\ <<"keystore_check">> \in Seq(QuietSteps)
      /\ <<"telemetry_worker">> \in Seq(QuietSteps)
      /\ <<"full_parts">> \in Seq(QuietSteps)
      /\ <<"full_parts">> \in Seq(AllSteps)
      /\ <<"spawn_telemetry">> \in Seq(AllSteps)
      /\ last \in Seq(AllSteps)
      /\ Len(<<"full_parts">>) = 1 /\ <<"full_parts">>[1] = "full_parts"
  BY DEF QuietSteps, AllSteps, FullSteps, PartialSteps
<1>2. worker \in Seq(QuietSteps) /\ spawn \in Seq(AllSteps)
  BY <1>1, OptionalType
<1> HIDE DEF worker, spawn, last
<1>3. <<"keystore_check">> \o worker \in Seq(QuietSteps) /\ quiet \in Seq(QuietSteps)
  BY <1>1, <1>2, ConcatType
<1>4. Occurs("full_parts", <<"full_parts">>)
  BY <1>1 DEF Occurs
<1>5. Opened(quiet)
  <2>1. Occurs("full_parts", quiet)
    BY <1>1, <1>3, <1>4, OccursRight
  <2>. QED  BY <1>3, <2>1, QuietIsGuarded DEF Opened
<1>6. NewPartial(c) = (quiet \o spawn) \o last
  BY DEF NewPartial, worker, spawn, last
<1> HIDE DEF quiet
<1>. QED  BY <1>1, <1>2, <1>5, <1>6, OpenedConcat

LEMMA FullOpens ==
  ASSUME NEW c
  PROVE  Opened(NewFull(c))
<1> DEFINE S == AllSteps
<1>1. /\ <<"keystore_hook">> \in Seq(S)
      /\ <<"build_network">> \in Seq(S)
      /\ <<"offchain_workers">> \in Seq(S)
      /\ <<"spawn_tasks">> \in Seq(S)
      /\ <<"slot_duration", "start_aura">> \in Seq(S)
      /\ <<"run_grandpa_voter">> \in Seq(S)
      /\ <<"start_network">> \in Seq(S)
  BY DEF PartialSteps, FullSteps, AllSteps
<1>2. /\ Optional(c.keystore_remote, <<"keystore_hook">>) \in Seq(S)
      /\ Optional(c.offchain_worker, <<"offchain_workers">>) \in Seq(S)
      /\ Optional(c.authority, <<"slot_duration", "start_aura">>) \in Seq(S)
      /\ Optional(~c.disable_grandpa, <<"run_grandpa_voter">>) \in Seq(S)
  BY <1>1, OptionalType
<1> HIDE DEF S
<1>3. \A s, t : Opened(s) /\ t \in Seq(S) => Opened(s \o t)
  BY OpenedConcat DEF S
<1>. QED  BY <1>1, <1>2, <1>3, PartialOpens DEF NewFull

\* In every command.
LEMMA StartupGuarded ==
  ASSUME NEW c
  PROVE  Startup(c) \in Seq(AllSteps) /\ Guarded(Startup(c))
<1> DEFINE runner == Optional(c.command \notin {"key", "try-runtime"}, <<"create_runner">>)
           no     == Optional(c.command \in Disabled, <<"not_enabled">>)
           part   == Optional(c.command \in AsyncCommand \cup ClientBenchmark, NewPartial(c))
           full   == Optional(c.command = "run", NewFull(c))
<1>1. runner \o no \in Seq(QuietSteps)
  <2>1. <<"create_runner">> \in Seq(QuietSteps) /\ <<"not_enabled">> \in Seq(QuietSteps)
    BY DEF QuietSteps
  <2>. QED  BY <2>1, OptionalType, ConcatType
<1>2. << >> \in Seq(AllSteps) /\ Guarded(<< >>)
  BY DEF Guarded
<1>3. part \in Seq(AllSteps) /\ Guarded(part) /\ full \in Seq(AllSteps) /\ Guarded(full)
  BY <1>2, PartialOpens, FullOpens DEF Optional, Opened
<1>4. Startup(c) = ((runner \o no) \o part) \o full
  BY DEF Startup
<1> HIDE DEF runner, no, part, full
<1>5. (runner \o no) \o part \in Seq(AllSteps) /\ Guarded((runner \o no) \o part)
  BY <1>1, <1>3, QuietIsGuarded, GuardedConcat, ConcatType
<1>. QED  BY <1>3, <1>4, <1>5, GuardedConcat, ConcatType

\* There is a task manager once there is a task, and a node that stops has let
\* go of it.
Managed ==
  /\ (\E i \in 1 .. at - 1 : Startup(config)[i] = "full_parts") => manager # "none"
  /\ (\E t \in Task : tasks[t] # "none") => manager # "none"
  /\ manager \in {"none", "held", "dropped"}
  /\ process \in {"stopping", "exited"} => manager # "held"

LEMMA InitManaged ==
  ASSUME NodeInit
  PROVE  Managed
BY DEF NodeInit, Managed

LEMMA NextManaged ==
  ASSUME NInv, RemoteRefused, Managed, [NodeNext]_nodeVars
  PROVE  Managed'
<1>1. at \in Nat \ {0} /\ tasks \in [Task -> {"none", "running", "failed", "ended"}]
  BY DEF NInv, NodeTypeOK
<1>2. CASE StepSucceeds
  <2>1. /\ tasks' = [t \in Task |-> IF t \in Spawned(StepOf) THEN "running" ELSE tasks[t]]
        /\ manager' = IF StepOf = "full_parts" THEN "held" ELSE manager
        /\ at' = at + 1 /\ at <= Len(Startup(config))
        /\ process = "starting" /\ UNCHANGED <<config, process>>
    BY <1>2 DEF StepSucceeds
  <2>2. (\E i \in 1 .. at' - 1 : Startup(config)[i] = "full_parts") => manager' # "none"
    <3>1. ASSUME NEW i \in 1 .. at' - 1, Startup(config)[i] = "full_parts"
          PROVE  StepOf = "full_parts" \/ manager # "none"
      BY <1>1, <2>1, <3>1 DEF StepOf, Managed
    <3>. QED  BY <2>1, <3>1
  <2>3. ASSUME NEW t \in Task, tasks'[t] # "none"
        PROVE  manager' # "none"
    <3>1. CASE t \in Spawned(StepOf)
      <4>1. at \in 1 .. Len(Startup(config)) /\ Spawned(Startup(config)[at]) # {}
        BY <1>1, <2>1, <3>1, StartupGuarded DEF StepOf
      <4>2. \E j \in 1 .. at - 1 : Startup(config)[j] = "full_parts"
        BY <4>1, StartupGuarded DEF Guarded
      <4>. QED  BY <2>1, <4>2 DEF Managed
    <3>2. CASE t \notin Spawned(StepOf)
      BY <2>1, <2>3, <3>2 DEF Managed
    <3>. QED  BY <3>1, <3>2
  <2>. QED  BY <2>1, <2>2, <2>3 DEF Managed
<1>3. CASE StepFails \/ Runs \/ EssentialTaskFailed \/ Finishes \/ Exits
  <2>1. /\ UNCHANGED <<config, at, tasks>>
        /\ manager' \in {manager, "dropped"}
    BY <1>3 DEF StepFails, Runs, EssentialTaskFailed, Finishes, Exits
  <2>2. process' \in {"stopping", "exited"} => manager' # "held"
    BY <1>3 DEF StepFails, Runs, EssentialTaskFailed, Finishes, Exits, Managed
  <2>. QED  BY <2>1, <2>2 DEF Managed
<1>4. ASSUME NEW t \in Task, TaskFails(t) \/ TaskEnds(t)
      PROVE  Managed'
  BY <1>4 DEF TaskFails, TaskEnds, Managed
<1>5. CASE UNCHANGED nodeVars
  BY <1>5 DEF nodeVars, Managed
<1>. QED  BY <1>2, <1>3, <1>4, <1>5 DEF NodeNext

RunningTasks == {t \in Task : tasks[t] = "running"}

\* A node that stops, for whatever reason and at whatever step, has let go of the
\* manager of every task that still runs.
NoTaskHeld ==
  process = "stopping" => RunningTasks = {} \/ manager = "dropped"

\* And from then on nothing happens but its tasks ending, one by one, and its exit.
OnlyEnds ==
  process = "stopping" =>
    \/ process' = "exited" /\ RunningTasks = {}
    \/ process' = "stopping" /\ RunningTasks' \subseteq RunningTasks /\ RunningTasks' # RunningTasks

LEMMA StoppingEndsTasks ==
  ASSUME NInv, Managed, NodeNext, process = "stopping"
  PROVE  OnlyEnds
<1>1. tasks \in [Task -> {"none", "running", "failed", "ended"}] /\ manager # "held"
  BY DEF NInv, NodeTypeOK, Managed
<1>2. CASE Exits
  BY <1>2 DEF Exits, OnlyEnds, RunningTasks
<1>3. ASSUME NEW t \in Task, TaskEnds(t)
      PROVE  OnlyEnds
  <2>1. /\ tasks[t] = "running" /\ tasks' = [tasks EXCEPT ![t] = "ended"] /\ process' = process
    BY <1>3 DEF TaskEnds
  <2>2. t \in RunningTasks /\ t \notin RunningTasks' /\ RunningTasks' \subseteq RunningTasks
    BY <1>1, <2>1 DEF RunningTasks
  <2>. QED  BY <2>1, <2>2 DEF OnlyEnds
<1>4. ~StepSucceeds /\ ~StepFails /\ ~Runs /\ ~EssentialTaskFailed /\ ~Finishes
  BY DEF StepSucceeds, StepFails, Runs, EssentialTaskFailed, Finishes
<1>5. \A t \in Task : ~TaskFails(t)
  BY <1>1 DEF TaskFails
<1>. QED  BY <1>2, <1>3, <1>4, <1>5 DEF NodeNext

\* What StoppingEnds rests on: whatever step of the start-up fails, and however
\* the node stops, no task is left with a manager that nobody drops, and no step
\* keeps a stopping node from its exit.
THEOREM NoTaskIsLeftBehind == NodeSpec => []NoTaskHeld /\ [][OnlyEnds]_nodeVars
<1>1. NodeInit => RemoteRefused /\ Managed
  BY InitRemote, InitManaged
<1>2. NInv => NodeTypeOK
  BY DEF NInv
<1>3. NInv /\ RemoteRefused /\ Managed /\ [NodeNext]_nodeVars => RemoteRefused' /\ Managed'
  BY <1>2, NextRemote, NextManaged
<1>4. Managed => NoTaskHeld
  BY DEF Managed, NoTaskHeld, RunningTasks
<1>5. NInv /\ Managed /\ [NodeNext]_nodeVars => [OnlyEnds]_nodeVars
  <2>1. NInv /\ Managed /\ NodeNext => OnlyEnds
    BY StoppingEndsTasks DEF OnlyEnds
  <2>. QED  BY <2>1
<1>. QED  BY <1>1, <1>3, <1>4, <1>5, NodeInvariance, PTL DEF NodeSpec
=============================================================================
