------------------------------ MODULE RunStartup ------------------------------
(***************************************************************************)
(* How a run comes up (internal/runner/pipeline_runner.go): the control    *)
(* plane starts to listen, possibly on a port the system picks, the runner *)
(* tells the pipeline and a new orchestrator where, waits until it         *)
(* answers, and starts the components: sources, processors, sinks, and     *)
(* then the pipeline components, each after its dependencies, by a         *)
(* recursion.  Every process gets an environment of its own                *)
(* (internal/orchestrator/process.go).                                     *)
(***************************************************************************)
EXTENDS Integers, Sequences, FiniteSets

CONSTANTS
  Pipelines, \* the pipelines considered: records of the sequences of ids
             \* sources, processors, sinks and pipelines, of depends (what a
             \* pipeline component depends on) and of env (the variables the
             \* file sets for a component)
  Ports,     \* the ports a control plane may be asked to use, 0 for any
  FreePort   \* the port the system picks

Ids(s) == {s[i] : i \in DOMAIN s}
FixedOf(p) == p.sources \o p.processors \o p.sinks
AllOf(p) == FixedOf(p) \o p.pipelines

(* What the loader has made sure of: no two components of a pipeline have  *)
(* the same id (loader.go:161).                                            *)
WellFormed(p) ==
  /\ DOMAIN p = {"sources", "processors", "sinks", "pipelines", "depends", "env"}
  /\ \A list \in {"sources", "processors", "sinks", "pipelines"} : p[list] \in Seq(Ids(p[list]))
  /\ \A i, j \in DOMAIN AllOf(p) : AllOf(p)[i] = AllOf(p)[j] => i = j
  /\ \A q \in Ids(p.pipelines) : p.depends[q] \in Seq(Ids(p.depends[q]))
  /\ DOMAIN p.env = Ids(AllOf(p))

ASSUME StartupAssumption ==
  /\ \A p \in Pipelines : WellFormed(p)
  /\ Ports \subseteq Nat /\ FreePort \in Nat \ {0}

Endpoint(port) == <<"control plane", port>>
Popped(s) == SubSeq(s, 1, Len(s) - 1)

VARIABLES
  pipeline,    \* the pipeline as loaded, its variables updated by the runner
  config,      \* the control plane's port, whether it is external, whether
               \* status is shown
  phase,       \* "new", "listening", "synced", "ready", "starting",
               \* "started", "failed" or "crashed"
  announced,   \* the endpoint the orchestrator was created with
  run,         \* does the run have a record?
  next,        \* the component to start
  calls,       \* the calls of startPipeline under way: <<id, next dependency>>
  order,       \* the components started so far
  environment  \* environment[id]: the variables of the process of id

startupVars == <<pipeline, config, phase, announced, run, next, calls, order, environment>>

Fixed == FixedOf(pipeline)
All == AllOf(pipeline)
Started == Ids(order)
Set(env, changes) == [v \in DOMAIN env \cup DOMAIN changes |->
                        IF v \in DOMAIN changes THEN changes[v] ELSE env[v]]

StartupTypeOK ==
  /\ phase \in {"new", "listening", "synced", "ready", "starting", "started",
                "failed", "crashed"}
  /\ config.port \in Ports \cup {FreePort}
  /\ announced \in {Endpoint(p) : p \in Ports \cup {FreePort}}
  /\ next \in 1 .. Len(All) + 1
  /\ \A i \in DOMAIN calls : calls[i][1] \in Ids(pipeline.pipelines)
  /\ DOMAIN environment = Started /\ Started \subseteq Ids(All)

(* NewPipelineRunner: the orchestrator gets the endpoint that was asked    *)
(* for, which is not yet an address when the port is 0.                    *)
StartupInit ==
  /\ pipeline \in Pipelines
  /\ config \in [port : Ports, external : BOOLEAN, status : BOOLEAN]
  /\ config.external => config.port # 0
  /\ phase = "new" /\ announced = Endpoint(config.port)
  /\ run = FALSE /\ next = 1 /\ calls = <<>> /\ order = <<>>
  /\ environment = [id \in {} |-> <<>>]

Fail ==
  /\ phase \in {"new", "listening", "synced", "starting"}
  /\ phase' = "failed"
  /\ UNCHANGED <<pipeline, config, announced, run, next, calls, order, environment>>

(* EmbeddedControlPlane.Start: the listener's port replaces a port 0. *)
Listen ==
  /\ phase = "new" /\ ~config.external
  /\ phase' = "listening"
  /\ config' = [config EXCEPT !.port = IF @ = 0 THEN FreePort ELSE @]
  /\ UNCHANGED <<pipeline, announced, run, next, calls, order, environment>>

(* syncEmbeddedControlPlaneEndpoint: the components' variables are updated *)
(* and a new orchestrator replaces the one that was told a port 0.         *)
Retold(endpoint) == endpoint
UpdateEnv(env) == Set(env, [v \in {"FLOWCTL_ENDPOINT"} |-> Endpoint(config.port)])
SyncEndpoint ==
  /\ phase = "listening"
  /\ phase' = "synced"
  /\ announced' = Retold(Endpoint(config.port))
  /\ pipeline' = [pipeline EXCEPT !.env = [id \in DOMAIN @ |-> UpdateEnv(@[id])]]
  /\ UNCHANGED <<config, run, next, calls, order, environment>>

(* waitForControlPlaneReady: it answers within thirty seconds (or Fail). *)
Awaited_Embedded == phase = "synced"   \* mutant: only an embedded one is waited for
Awaited == phase = "synced" \/ (phase = "new" /\ config.external)
ControlPlaneReady ==
  /\ Awaited
  /\ phase' = "ready"
  /\ UNCHANGED <<pipeline, config, announced, run, next, calls, order, environment>>

(* createPipelineRun, which may fail without ending the run. *)
CreateRunRecord ==
  /\ phase = "ready"
  /\ phase' = "starting" /\ run' \in BOOLEAN
  /\ UNCHANGED <<pipeline, config, announced, next, calls, order, environment>>

-----------------------------------------------------------------------------
(* The environment of a process: what the file says, the run and the       *)
(* attempt, a health port if the file gives none, and last, so that        *)
(* nothing overrides them, the variables of the integration.               *)
ComponentEnvironment(env) ==
  Set(Set([v \in {"FLOWCTL_ATTEMPT"} |-> <<"attempt", 1>>], env),
      [v \in IF run THEN {"FLOWCTL_RUN_ID"} ELSE {} |-> <<"run", "id">>])

DefaultHealthPort_Constant == <<"port", 18081>>   \* mutant: the table is not counted
DefaultHealthPort == <<"port", 18080 + Cardinality(Started) + 1>>

Integration(id) ==
  [v \in {"FLOWCTL_ENDPOINT", "FLOWCTL_COMPONENT_ID"} |->
     IF v = "FLOWCTL_ENDPOINT" THEN announced ELSE <<"id", id>>]
BuildEnvironment_UserLast(id, env) ==   \* mutant: the file has the last word
  Set(Set([v \in {"HEALTH_PORT"} |-> DefaultHealthPort], Integration(id)), env)
BuildEnvironment(id, env) ==
  Set(Set([v \in {"HEALTH_PORT"} |-> DefaultHealthPort], env), Integration(id))

Launched(id) ==
  /\ order' = Append(order, id)
  /\ environment' = [e \in Started \cup {id} |->
       IF e = id THEN BuildEnvironment(id, ComponentEnvironment(pipeline.env[id]))
                 ELSE environment[e]]

(* startComponents: sources, processors and sinks in the file's order. *)
StartFixed ==
  /\ phase = "starting" /\ next <= Len(Fixed)
  /\ Launched(Fixed[next])
  /\ next' = next + 1
  /\ UNCHANGED <<pipeline, config, phase, announced, run, calls>>

(* The loop over the pipeline components calls startPipeline for each. *)
CallPipeline ==
  /\ phase = "starting" /\ calls = <<>> /\ next \in Len(Fixed) + 1 .. Len(All)
  /\ IF All[next] \in Started
     THEN next' = next + 1 /\ UNCHANGED calls
     ELSE calls' = <<<<All[next], 1>>>> /\ UNCHANGED next
  /\ UNCHANGED <<pipeline, config, phase, announced, run, order, environment>>

(* startPipeline: the dependencies that are pipeline components come       *)
(* first; the others are skipped, and so are those already started.        *)
CalledFor_Known(d) == FALSE   \* mutant: dependencies are taken to be started
CalledFor(d) == d \in Ids(pipeline.pipelines) /\ d \notin Started
StartDependency ==
  /\ phase = "starting" /\ calls # <<>>
  /\ LET p == calls[Len(calls)][1]
         i == calls[Len(calls)][2] IN
     /\ i <= Len(pipeline.depends[p])
     /\ Len(calls) <= Len(pipeline.pipelines)
     /\ LET advanced == Append(Popped(calls), <<p, i + 1>>)
            d == pipeline.depends[p][i] IN
        calls' = IF CalledFor(d) THEN Append(advanced, <<d, 1>>) ELSE advanced
  /\ UNCHANGED <<pipeline, config, phase, announced, run, next, order, environment>>

StartPipeline ==
  /\ phase = "starting" /\ calls # <<>>
  /\ LET p == calls[Len(calls)][1] IN
     /\ calls[Len(calls)][2] > Len(pipeline.depends[p])
     /\ Launched(p)
  /\ calls' = Popped(calls)
  /\ next' = IF Len(calls) = 1 THEN next + 1 ELSE next
  /\ UNCHANGED <<pipeline, config, phase, announced, run>>

(* More calls than pipeline components: the recursion goes round a cycle   *)
(* until the stack of the goroutine overflows, which ends the process and  *)
(* leaves the components it has started.                                   *)
StackOverflows ==
  /\ phase = "starting" /\ Len(calls) > Len(pipeline.pipelines)
  /\ phase' = "crashed"
  /\ UNCHANGED <<pipeline, config, announced, run, next, calls, order, environment>>

ComponentsStarted ==
  /\ phase = "starting" /\ calls = <<>> /\ next > Len(All)
  /\ phase' = "started"
  /\ UNCHANGED <<pipeline, config, announced, run, next, calls, order, environment>>

(* monitorPipeline: the first tick asks the embedded control plane for its *)
(* services, also when there is none.                                      *)
MonitorTicks ==
  /\ phase = "started" /\ config.status /\ config.external
  /\ phase' = "crashed"
  /\ UNCHANGED <<pipeline, config, announced, run, next, calls, order, environment>>

-----------------------------------------------------------------------------
StartupStep ==
  \/ Listen \/ SyncEndpoint \/ ControlPlaneReady \/ CreateRunRecord
  \/ StartFixed \/ CallPipeline \/ StartDependency \/ StartPipeline
  \/ StackOverflows \/ ComponentsStarted
StartupNext == StartupStep \/ Fail \/ MonitorTicks

(* The runner's goroutine goes on. *)
StartupFairness == WF_startupVars(StartupStep)
StartupSpec == StartupInit /\ [][StartupNext]_startupVars /\ StartupFairness

-----------------------------------------------------------------------------
(* Every process can be found and can find the run: it is told where the   *)
(* control plane really listens, though that port may not have been known  *)
(* when the orchestrator and the file were made and the file may say       *)
(* otherwise, and which component it is; and the health port it is given   *)
(* is not that of another process, unless the file sets one of the two     *)
(* (process.go:444 does not look at the ports the file has set).           *)
ProcessesHaveTheirPlace ==
  /\ \A id \in Started :
       /\ environment[id]["FLOWCTL_ENDPOINT"] = Endpoint(config.port) /\ config.port # 0
       /\ environment[id]["FLOWCTL_COMPONENT_ID"] = <<"id", id>>
  /\ \A a, b \in Started :
       /\ environment[a]["HEALTH_PORT"] = environment[b]["HEALTH_PORT"] /\ a # b
       => "HEALTH_PORT" \in DOMAIN pipeline.env[a] \cup DOMAIN pipeline.env[b]

(* No component starts before what it consumes or depends on: sources,     *)
(* processors, sinks and pipeline components come in this order, and a     *)
(* pipeline component after the pipeline components it depends on.         *)
Rank(id) ==
  IF id \in Ids(pipeline.sources) THEN 1
  ELSE IF id \in Ids(pipeline.processors) THEN 2
  ELSE IF id \in Ids(pipeline.sinks) THEN 3 ELSE 4
StartsInOrder ==
  \A j \in DOMAIN order :
    /\ \A i \in 1 .. j : Rank(order[i]) <= Rank(order[j])
    /\ order[j] \in Ids(pipeline.pipelines) =>
         Ids(pipeline.depends[order[j]]) \cap Ids(pipeline.pipelines)
           \subseteq {order[i] : i \in 1 .. j - 1}

(* So every component starts when its turn comes and is told what it needs *)
(* (pipeline_runner.go:408).                                               *)
StartupIsOrderly == ProcessesHaveTheirPlace /\ StartsInOrder

(* Startup ends with every component started, or with an error, if no      *)
(* pipeline component depends on itself through others: nothing checks     *)
(* that (loader.go:227), and a cycle overflows the stack.                  *)
DependsOn == {e \in Ids(pipeline.pipelines) \X Ids(pipeline.pipelines) :
                e[2] \in Ids(pipeline.depends[e[1]])}
Acyclic == \E f \in [Ids(pipeline.pipelines) -> 1 .. Len(pipeline.pipelines)] :
             \A e \in DependsOn : f[e[1]] > f[e[2]]
StartupOver ==
  Acyclic => phase \in {"started", "failed"} \/ (phase = "crashed" /\ config.external)
StartupEnds == <>[]StartupOver
===============================================================================
