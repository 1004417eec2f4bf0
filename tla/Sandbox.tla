-------------------------------- MODULE Sandbox --------------------------------
(***************************************************************************)
(* `flowctl sandbox` (cmd/sandbox, internal/sandbox/runtime): a start      *)
(* creates the network, then the service containers in the order of their  *)
(* dependencies, then the pipeline's.  Every command is a process of its   *)
(* own; what a runtime knows it keeps in a package variable.  Docker is    *)
(* external: it refuses a name that is in use, and any command may fail.   *)
(***************************************************************************)
EXTENDS Naturals, Sequences, SequencesExt

CONSTANTS
  Services,     \* the services of the configuration
  MaxDepth,     \* bound: how deep the recursion may get before the stack overflows
  MaxCommands   \* bound: the commands given

Pipeline == "flowctl-pipeline"

VARIABLES
  dependsOn,      \* depends_on of each service
  given,          \* the number of commands given so far
  phase,          \* "none" between commands, "services" or "pipeline"
  servicesOnly,   \* was start asked for the services only?
  globalRuntime,  \* does the running process have a runtime?
  network,        \* does the network exist?
  inUse,          \* the container names Docker knows
  unvisited,      \* the services StartServices has not come to yet
  stack,          \* the calls of startServiceWithDeps: [name, deps still to start]
  started,        \* the services it has started
  answer,         \* how the last command ended: "none", "ok", "error", "overflow"
  up              \* has a start succeeded?

sandboxVars == <<dependsOn, given, phase, servicesOnly, globalRuntime, network, inUse, unvisited,
                 stack, started, answer, up>>

SandboxTypeOK ==
  /\ dependsOn \in [Services -> SUBSET Services]
  /\ given \in 0..MaxCommands
  /\ phase \in {"none", "services", "pipeline"}
  /\ servicesOnly \in BOOLEAN /\ globalRuntime \in BOOLEAN /\ network \in BOOLEAN /\ up \in BOOLEAN
  /\ inUse \subseteq Services \cup {Pipeline}
  /\ unvisited \subseteq Services /\ started \subseteq Services
  /\ \A i \in DOMAIN stack : stack[i].name \in Services /\ stack[i].deps \subseteq Services
  /\ answer \in {"none", "ok", "error", "overflow"}

(* validateConfig sees to it that a dependency is a service, not that the  *)
(* dependencies are not circular.                                          *)
SandboxInit ==
  /\ dependsOn \in [Services -> SUBSET Services]
  /\ given = 0 /\ phase = "none" /\ servicesOnly = FALSE
  /\ globalRuntime = FALSE /\ network = FALSE /\ inUse = {}
  /\ unvisited = {} /\ stack = <<>> /\ started = {}
  /\ answer = "none" /\ up = FALSE

(* The process ends with its command, and its runtime with it. *)
Exit(how) ==
  /\ answer' = how
  /\ phase' = "none" /\ globalRuntime' = FALSE
  /\ unvisited' = {} /\ stack' = <<>>

-----------------------------------------------------------------------------
Command == phase = "none" /\ given < MaxCommands /\ given' = given + 1

(* NewRuntime: the checks and the network, then StartServices. *)
StartSandbox(only) ==
  /\ Command
  /\ \/ /\ phase' = "services" /\ servicesOnly' = only
        /\ globalRuntime' = TRUE /\ network' = TRUE
        /\ unvisited' = Services /\ started' = {}
        /\ UNCHANGED <<stack, answer>>
     \/ Exit("error") /\ UNCHANGED <<servicesOnly, network, started>>
  /\ UNCHANGED <<dependsOn, inUse, up>>

(* The loop of StartServices ranges over a map, in any order. *)
VisitService(s) ==
  /\ phase = "services" /\ stack = <<>> /\ s \in unvisited
  /\ unvisited' = unvisited \ {s}
  /\ stack' = IF s \in started THEN stack ELSE <<[name |-> s, deps |-> dependsOn[s]]>>
  /\ UNCHANGED <<dependsOn, given, phase, servicesOnly, globalRuntime, network, inUse, started,
                 answer, up>>

Top == Last(stack)
Waiting == phase = "services" /\ stack # <<>>
PopTo(deps) == [stack EXCEPT ![Len(stack)].deps = deps]

(* A mutant: a dependency counts as started as soon as it has been called. *)
StartedWith_Called(s) == started \cup {s}
StartedWith(s) == started

StartDependency(d) ==
  /\ Waiting /\ d \in Top.deps
  /\ IF d \in started
       THEN /\ stack' = PopTo(Top.deps \ {d})
            /\ UNCHANGED <<started, phase, globalRuntime, unvisited, answer>>
     ELSE IF Len(stack) = MaxDepth
       THEN Exit("overflow") /\ UNCHANGED started
     ELSE /\ stack' = Append(PopTo(Top.deps \ {d}), [name |-> d, deps |-> dependsOn[d]])
          /\ started' = StartedWith(d)
          /\ UNCHANGED <<phase, globalRuntime, unvisited, answer>>
  /\ UNCHANGED <<dependsOn, given, servicesOnly, network, inUse, up>>

(* docker run, which may leave a container behind though it fails. *)
Run(name) == name \notin inUse /\ inUse' = inUse \cup {name}
RunFails(name) == inUse' \in {inUse, inUse \cup {name}} /\ Exit("error")

StartService ==
  /\ Waiting /\ Top.deps = {}
  /\ \/ /\ Run(Top.name)
        /\ started' = started \cup {Top.name}
        /\ stack' = Front(stack)
        /\ UNCHANGED <<phase, globalRuntime, unvisited, answer>>
     \/ RunFails(Top.name) /\ UNCHANGED started
  /\ UNCHANGED <<dependsOn, given, servicesOnly, network, up>>

ServicesStarted ==
  /\ phase = "services" /\ stack = <<>> /\ unvisited = {}
  /\ IF servicesOnly
       THEN Exit("ok") /\ up' = TRUE
       ELSE phase' = "pipeline" /\ UNCHANGED <<globalRuntime, unvisited, stack, answer, up>>
  /\ UNCHANGED <<dependsOn, given, servicesOnly, network, inUse, started>>

StartPipeline ==
  /\ phase = "pipeline"
  /\ \/ Run(Pipeline) /\ Exit("ok") /\ up' = TRUE
     \/ RunFails(Pipeline) /\ UNCHANGED up
  /\ UNCHANGED <<dependsOn, given, servicesOnly, network, started>>

(* stop, status and logs ask for the runtime of their own process first.   *)
UseRuntime ==
  /\ Command
  /\ ~globalRuntime
  /\ Exit("error")
  /\ UNCHANGED <<dependsOn, servicesOnly, network, inUse, started, up>>

SandboxStep ==
  \/ \E s \in Services : VisitService(s) \/ StartDependency(s)
  \/ StartService \/ ServicesStarted \/ StartPipeline

SandboxNext == SandboxStep \/ UseRuntime \/ \E only \in BOOLEAN : StartSandbox(only)

SandboxSpec == SandboxInit /\ [][SandboxNext]_sandboxVars
SandboxFairness == WF_sandboxVars(SandboxStep)

-----------------------------------------------------------------------------
(* Start dependencies first, also through services that share some. *)
DependenciesFirst == \A s \in started : dependsOn[s] \subseteq started

Reaches(S) == S \cup UNION {dependsOn[s] : s \in S}
Circular == \E s \in Services : s \in Reaches(Reaches(dependsOn[s]))

(* A start comes to its end, and it overflows the stack only if the        *)
(* dependencies are circular (MaxDepth is the number of services then).    *)
StartReturns ==
  /\ <>[](phase = "none")
  /\ [](answer = "overflow" => Circular)
===============================================================================
