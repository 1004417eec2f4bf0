---------------------------- MODULE MCSupervisedRun ----------------------------
(* What happens on the machine of a run: the supervision of its delivery      *)
(* (PipelineRunner), its startup, its containers and their environment, its   *)
(* logs, the pipelines inside one process, the sandbox, and the script that   *)
(* can take flowctl's place.  A behaviour is of one of these parts: the       *)
(* others stay in an initial state.                                           *)
EXTENDS MCPipelineRunner, ContainerOrchestrator, DagPipeline, RunStartup

CONSTANTS
  Keys, Host, EnvValues, MaxWords,  \* of ContainerEnvironment
  LogOrder, LineCount, LogCapacity,          \* of LogAggregation
  Services, MaxDepth, MaxCommands,           \* of Sandbox
  ScriptFiles, MaxEnds                       \* of LocalRunnerScript

(* Values are sequences of words, and those of the host hold no reference; *)
(* "none" stands for no variable; no two components have the same id       *)
(* (loader.go:161).                                                        *)
ASSUME MachineAssumption ==
  /\ \A value \in EnvValues : value \in Seq({value[i] : i \in DOMAIN value})
  /\ \A v \in DOMAIN Host : /\ Host[v] \in Seq({Host[v][i] : i \in DOMAIN Host[v]})
                            /\ \A i \in DOMAIN Host[v] : Host[v][i][1] # "ref"
  /\ "none" \notin Keys
  /\ LogOrder \in Seq({LogOrder[i] : i \in DOMAIN LogOrder})
  /\ \A i, j \in DOMAIN LogOrder : LogOrder[i] = LogOrder[j] => i = j
  /\ LineCount \in Nat

Parts == {"run", "startup", "containers", "environment", "logs", "dag", "linear",
          "sandbox", "script"}

VARIABLES
  part,  \* in Parts
  \* ContainerEnvironment
  setting, passing, pending, key, words, placed, joined, bare, final,
  \* LogAggregation
  logged, opened, follower, scanned, streamOpen, registered,
  logCh, printer, writer, screen, flusher, closing,
  \* LinearPipeline
  kind, source, emitted, eventChan, msgChan, processor, held, sink, output,
  linearDone, stopping, crashed,
  \* Sandbox
  dependsOn, given, sandboxPhase, servicesOnly, globalRuntime, network, inUse,
  unvisited, stack, started, answer, up,
  \* LocalRunnerScript
  file, checked, process, pids, scriptPhase, scriptNext, current, toSee, round,
  killed, ended, ends

environmentVars == <<setting, passing, pending, key, words, placed, joined, bare, final>>
logVars == <<logged, opened, follower, scanned, streamOpen, registered,
             logCh, printer, writer, screen, flusher, closing>>
linearVars == <<kind, source, emitted, eventChan, msgChan, processor, held, sink,
                output, linearDone, stopping, crashed>>
sandboxVars == <<dependsOn, given, sandboxPhase, servicesOnly, globalRuntime, network,
                 inUse, unvisited, stack, started, answer, up>>
scriptVars == <<file, checked, process, pids, scriptPhase, scriptNext, current, toSee,
                round, killed, ended, ends>>
machineVars == <<part, vars, startupVars, containerVars, environmentVars, logVars,
                 dagVars, linearVars, sandboxVars, scriptVars>>

-----------------------------------------------------------------------------
(* A chain whose source and processor set some of the variables that       *)
(* flowctl sets too, and a source with three pipeline components that      *)
(* depend on each other in every way.                                      *)
NoEnv == [v \in {} |-> <<>>]
OwnNames == [FLOWCTL_ENDPOINT |-> <<"own", 0>>, FLOWCTL_COMPONENT_ID |-> <<"own", 0>>,
             FLOWCTL_ATTEMPT |-> <<"own", 0>>]
Envs == {NoEnv, [HEALTH_PORT |-> <<"port", 18082>>],
         [FLOWCTL_ENDPOINT |-> <<"elsewhere", 1>>], OwnNames}
Chains == {[sources |-> <<"s">>, processors |-> <<"x">>, sinks |-> <<"k">>, pipelines |-> <<>>,
            depends |-> [p \in {} |-> <<>>],
            env |-> [s |-> e, x |-> f, k |-> NoEnv]] : e, f \in Envs}
Dependencies == {<<>>, <<"p">>, <<"q">>, <<"r">>, <<"p", "r">>, <<"s", "q">>}
WithPipelines == {[sources |-> <<"s">>, processors |-> <<>>, sinks |-> <<>>,
                   pipelines |-> <<"p", "q", "r">>, depends |-> d,
                   env |-> [c \in {"s", "p", "q", "r"} |-> NoEnv]] :
                    d \in [{"p", "q", "r"} -> Dependencies]}
OneChain == CHOOSE p \in Chains : p.env = [s |-> NoEnv, x |-> NoEnv, k |-> NoEnv]
AllPipelines == Chains \cup WithPipelines

(* Values of one or two words, among them references to a variable that    *)
(* only the host has and to one that nobody has; and values of several     *)
(* fields, with more white space than one blank.  The host's PATH holds    *)
(* white space too.                                                        *)
Words == {<<"ref", "A">>, <<"ref", "PATH">>, <<"ref", "TZ">>, <<"text", "x">>}
Dollar(v) == <<"dollar", v>>
Space == <<"space", " ">>
Tab == <<"space", "tab">>
Fields ==
  {<<Space, Dollar("A"), Tab, Space, <<"text", "x">>, Space>>,
   <<Dollar("PATH"), Space, <<"ref", "A">>>>,
   <<<<"ref", "PATH">>, Space, Dollar("TZ"), <<"text", "x">>>>,
   <<Dollar("PATH"), Tab, <<"text", "x">>>>,
   <<<<"ref", "TZ">>, Space>>}
UpToTwoWords == {<<w>> : w \in Words} \cup {<<w, v>> : w, v \in Words} \cup Fields
HostPath == [v \in {"PATH"} |-> <<<<"host", "bin">>, Tab, <<"host", "sbin">>>>]
Variables == INSTANCE ContainerEnvironment WITH Values <- EnvValues

TwoComponents == <<"a", "b">>
Logs == INSTANCE LogAggregation WITH Order <- LogOrder, written <- logged

(* One source, on whose events two adapters may compete, and one or two    *)
(* ways to a sink, or two ways to different sinks.                         *)
Chain == [sources |-> {"s"}, processors |-> {"p", "q"}, sinks |-> {"k"},
          inputs |-> [p |-> {"s"}, q |-> {"p"}, k |-> {"q"}],
          out |-> [s |-> {"raw"}, p |-> {"event"}, q |-> {"event"}],
          emits |-> [p |-> "event", q |-> "event"]]
Split == [Chain EXCEPT !.inputs = [p |-> {"s"}, q |-> {"s"}, k |-> {"p", "q"}]]
Widen == [Chain EXCEPT !.processors = {"p"}, !.sinks = {"k", "l"},
                       !.inputs = [p |-> {"s"}, k |-> {"p"}, l |-> {"p"}]]
TwoTypes == [Chain EXCEPT !.processors = {"p"}, !.inputs = [p |-> {"s"}, k |-> {"p"}],
                          !.out = [s |-> {"raw", "ledger"}, p |-> {"event"}]]
Fork == [Split EXCEPT !.sinks = {"k", "l"},
                      !.inputs = [p |-> {"s"}, q |-> {"s"}, k |-> {"p"}, l |-> {"q"}]]
DagGraphs == {Chain, Split, Widen, TwoTypes, Fork}

Linear == INSTANCE LinearPipeline
  WITH SourceKinds <- {"placeholder", "mock"}, Capacity <- 1, EventCount <- 3,
       ctxDone <- linearDone

Box == INSTANCE Sandbox WITH phase <- sandboxPhase

(* A source, a processor and a sink: a chain, a processor that names       *)
(* itself, components that name no inputs, a sink with two inputs; and ids *)
(* that are the same in the script.                                        *)
Files == INSTANCE PipelineFiles
ScriptComponent(id, inputs) ==
  [Files!Plain EXCEPT !.id = id, !.inputs = inputs, !.means = {"command"}]
ScriptFile(x, k) ==
  [version |-> 1, kind |-> "Pipeline", name |-> "n", driver |-> "", pipelines |-> <<>>,
   sources |-> <<ScriptComponent(<<"s">>, <<>>)>>,
   processors |-> <<ScriptComponent(<<"x">>, x)>>, sinks |-> <<ScriptComponent(<<"2">>, k)>>]
SameIds == [ScriptFile(<<>>, <<>>) EXCEPT
  !.processors = <<ScriptComponent(<<"x", "-">>, <<<<"s">>>>)>>,
  !.sinks = <<ScriptComponent(<<"x", ".">>, <<<<"s">>>>)>>]
SmallFiles ==
  {ScriptFile(x, k) : x \in {<<<<"s">>>>, <<<<"x">>>>, <<>>}, k \in {<<<<"s">>>>, <<>>}}
  \cup {ScriptFile(<<<<"s">>>>, <<<<"s">>, <<"x">>>>), SameIds}
AnyFile == ScriptFile(<<>>, <<>>)
Script == INSTANCE LocalRunnerScript
  WITH Pipelines <- ScriptFiles, pipeline <- file, phase <- scriptPhase,
       next <- scriptNext, unvisited <- round

-----------------------------------------------------------------------------
MachineInit ==
  /\ part \in Parts
  /\ Init
  /\ StartupInit
  /\ part = "startup" \/ (pipeline = OneChain /\ config = [port |-> 0, external |-> FALSE, status |-> TRUE])
  /\ ContainersInit
  /\ part = "containers" \/ restart = [c \in Managed |-> "no"]
  /\ Variables!EnvironmentInit
  /\ part = "environment" \/ setting = [k \in Keys |-> <<<<"text", "x">>>>]
  /\ Logs!LogInit
  /\ DagInit /\ (part = "dag" \/ topology = Chain)
  /\ Linear!LinearInit /\ (part = "linear" \/ kind = "mock")
  /\ Box!SandboxInit /\ (part = "sandbox" \/ dependsOn = [s \in Services |-> {}])
  /\ Script!ScriptInit /\ (part = "script" \/ (file = AnyFile /\ checked = {}))

MachineNext ==
  /\ UNCHANGED part
  /\ IF part = "run" THEN Next ELSE UNCHANGED vars
  /\ IF part = "startup" THEN StartupNext ELSE UNCHANGED startupVars
  /\ IF part = "containers" THEN ContainersNext ELSE UNCHANGED containerVars
  /\ IF part = "environment" THEN Variables!EnvironmentNext ELSE UNCHANGED environmentVars
  /\ IF part = "logs" THEN Logs!LogNext ELSE UNCHANGED logVars
  /\ IF part = "dag" THEN DagNext ELSE UNCHANGED dagVars
  /\ IF part = "linear" THEN Linear!LinearNext ELSE UNCHANGED linearVars
  /\ IF part = "sandbox" THEN Box!SandboxNext ELSE UNCHANGED sandboxVars
  /\ IF part = "script" THEN Script!ScriptNext ELSE UNCHANGED scriptVars

(* The fairness of each part, of which only the part that runs needs any. *)
MachineFairness ==
  /\ WF_vars(part = "run" /\ Runner) /\ WF_vars(part = "run" /\ VerdictArrives)
  /\ WF_vars(part = "run" /\ ControlPlane)
  /\ WF_vars(part = "run" /\ GiveVerdict /\ UNCHANGED <<flowVars, faultVars, recordVars>>)
  /\ \A o \in Operators : WF_vars(part = "run" /\ Stop(o))
  /\ WF_startupVars(part = "startup" /\ StartupStep)
  /\ WF_environmentVars(part = "environment" /\ Variables!EnvironmentStep)
  /\ \A c \in Logs!Followed : WF_logVars(part = "logs" /\ Logs!Follow(c))
  /\ WF_logVars(part = "logs" /\ Logs!PrinterStep)
  /\ WF_logVars(part = "logs" /\ Logs!PeriodicFlush)
  /\ WF_logVars(part = "logs" /\ Logs!StopStep)
  /\ WF_dagVars(part = "dag" /\ StopAdvances)
  /\ \A s \in AllSources : WF_dagVars(part = "dag" /\ s \in SourceIds /\ SourceStep(s))
  /\ \A k \in AllSinks : WF_dagVars(part = "dag" /\ k \in SinkIds /\ SinkStep(k))
  /\ \A e \in OverTopologies(AdaptersOf) :
       WF_dagVars(part = "dag" /\ e \in Adapters /\ AdapterStep(e))
  /\ \A w \in OverTopologies(InputChannelsOf) :
       WF_dagVars(part = "dag" /\ w \in InputChannels /\ WorkerStep(w))
  /\ WF_linearVars(part = "linear" /\ Linear!SourceGoroutine)
  /\ WF_linearVars(part = "linear" /\ Linear!ProcessorGoroutine)
  /\ WF_linearVars(part = "linear" /\ Linear!SinkGoroutine)
  /\ WF_linearVars(part = "linear" /\ Linear!WaitForGoroutines)
  /\ WF_sandboxVars(part = "sandbox" /\ Box!SandboxStep)
  /\ WF_scriptVars(part = "script" /\ Script!ScriptGoesOn)

MachineSpec ==
  /\ MachineInit /\ [][MachineNext]_machineVars
  /\ MachineFairness

-----------------------------------------------------------------------------
(* A run ends once it is signalled, once its delivery has a verdict and,   *)
(* where no delivery is supervised, once it is stopped                     *)
(* (pipeline_runner.go:309).                                               *)
RunEnds == SignalEndsRun /\ VerdictEndsRun /\ StopEndsUnsupervisedRun

(* What brings a component up comes to an end: startup, whatever the       *)
(* pipeline components depend on (pipeline_runner.go:408); the expansion   *)
(* of a container's environment, unless a variable refers to itself        *)
(* (env_handler.go:50); the start of a sandbox, if the dependencies are    *)
(* not circular (runtime.go:283).  And the script starts again what has    *)
(* failed, unless it waits for a dependency that has ended                 *)
(* (local_legacy.go:130).                                                  *)
StartsComeToAnEnd ==
  /\ <>[]/\ part = "startup" => StartupOver
         /\ part = "environment" => Variables!FullyExpanded
         /\ part = "script" => Script!AllRestarted
  /\ Box!StartReturns

(* What streams arrives, and Stop comes to an end: every line of the       *)
(* components is shown, up to where a scanner failed, and the goroutines   *)
(* that read them end (log_aggregator.go:115); Stop of the pipelines of    *)
(* internal/core ends or the process is taken down first (dag.go:343,      *)
(* pipeline.go:82); in the graph, which has no cycles, an event that a     *)
(* source sent reaches every sink behind one of the source's adapters,     *)
(* unless a processor failed on it or the pipeline is stopped (dag.go:190).*)
StreamsArrive ==
  <>[]/\ part = "logs" => Logs!LogsShown
      /\ part = "dag" => DagStopped /\ AllArrived
      /\ part = "linear" => Linear!LinearStopped

(* What streams keeps its order: the lines of a component from its log to  *)
(* the screen, and the events of a source on a single way to a sink.       *)
StreamsKeepOrder == Logs!LinesInOrder /\ WrittenInOrder

(* The environment of a container loses nothing in its expansion but the   *)
(* number and kind of its blanks, where a value is split into fields       *)
(* (env_handler.go:50, 81).                                                *)
EnvironmentIsWhole == Variables!EachWordReplaced

(* The services of a sandbox start after those they depend on, also in a   *)
(* start that fails halfway (runtime.go:283).                              *)
ServicesFollowDependencies == Box!DependenciesFirst

(* The script leaves nothing running when it cleans up, but what the trap  *)
(* met between its launch and the note of its pid, and components whose    *)
(* ids come to be the same (local_legacy.go:53, 355).                      *)
CleanupIsComplete == Script!CleanupReachesAll
===============================================================================
