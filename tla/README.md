# Formal models of flowctl

flowctl runs data pipelines: `flowctl run pipeline.yaml` starts every component
of a pipeline (sources, processors, sinks) as a process or container, waits
until they have registered with an embedded control plane, connects them by
gRPC streams, supervises the delivery and records how the run ended. Other
commands validate, translate and generate pipeline files, ask the control plane
about runs and components, and start a sandbox. This directory holds TLA+
models of that program, TLC configurations that check them on small instances,
and TLAPS proofs that hold for every instance.

Paths below are relative to the repository. `runner`, `orchestrator`, `api` and the
like stand for `internal/runner`, `internal/orchestrator`, `internal/api`.

## 1. Inventory

### Components, state and operations

| Component | State | Operations | Model |
|---|---|---|---|
| stream orchestrator (`runner/stream_orchestrator.go`) | client connections, an errgroup with its context, the owner's context, one forwarding loop per edge | `WireAll`, `forwardSource`, `forward`, `fanOut`, `Wait`, `Stop` | `StreamOrchestrator`, its promise in `DeliveryPromise` |
| pipeline runner (`runner/pipeline_runner.go`) | run id, shutdown status, `terminal` channel, `stopOnce`, context | `Run`, `startComponents`, `waitForComponentsRegistered`, `enrichRegisteredComponents`, `waitForTerminalOnStop`, `markDeliveryFailure`, `updateRunStatus...`, `shutdown`, `Stop` | supervision in `PipelineRunner`, startup in `RunStartup` and `ServiceRegistry` |
| control plane: runs (`api/control_plane.go`) | run records in storage, the stop callbacks | `CreatePipelineRun`, `UpdatePipelineRun`, `StopPipelineRun`, `ListPipelineRuns`, `RegisterRunStopper` | `PipelineRunner`, `RunCommands` |
| control plane: services | services in memory and in storage, the janitor | `RegisterComponent`, `Heartbeat`, `UnregisterComponent`, `checkServiceHealth`, `loadServices` | `ServiceRegistry` |
| control plane: chunks | chunk records in storage | `UpsertChunkRun`, `mergeChunkRun` | `ChunkRuns` |
| embedded control plane (`internal/controlplane`) | server, listener | `Start`, `WaitForComponent`, `Stop` | `RunStartup`, `ServiceRegistry`, `PipelineRunner` |
| storage (`internal/storage`) | services, runs, chunks, in memory or in a bolt database | get, put, update, list, transactions | `ServiceStorage`; records also in the models of their users |
| process orchestrator (`orchestrator/process.go`) | a table of processes, a monitor and a heartbeat goroutine each | `StartComponent`, `StopComponent`, `StopAll`, `GetStatus` | `ProcessOrchestrator`; environment and ports in `RunStartup` |
| container orchestrator and its Docker client (`orchestrator/docker.go`, `pkg/runner`) | managed containers, health monitors | start, stop, monitor; environment, volumes, secrets | `ContainerOrchestrator`, `ContainerEnvironment`, `ContainerConfig` |
| component reporter (`pkg/component/reporter.go`) | connection, service id | `Register`, `Heartbeat`, `ReportChunk` | `ServiceRegistry`, `ChunkRuns` |
| in-process pipelines (`internal/core`) | channels and worker goroutines | `Start`, `Stop`, connections | `DagPipeline`, `LinearPipeline` |
| log aggregator (`runner/log_aggregator.go`) | bounded log channel, readers, buffer | follow, print, flush, stop | `LogAggregation` |
| image cache (`internal/registry`, `components/resolver.go`) | files in a cache directory | `Pull`, `Extract`, `Resolve` | `ImageCache`, `ImageLayers` |
| names and configuration of components (`registry/reference.go`, `internal/components`) | none | parse, resolve, map config to variables | `ImageReferences`, `ComponentConfig` |
| pipeline files (`runner/loader.go`, `internal/validator`, `translator/parser.go`, `internal/generator`) | none | load, validate, convert, translate | `PipelineFiles`, `ComposeFile` |
| generated runner script (`generator/local_legacy.go`) | pids, restarts | start, watch, restart, clean up | `LocalRunnerScript` |
| sandbox (`internal/sandbox`) | containers, a network, a package variable | start, stop | `Sandbox` |
| operator commands (`src/cmd`, `internal/exitcode`, `cliout/grpcerr.go`) | none that outlives a command | RPCs, errors, exit codes | `OperatorCommands`, `RunCommands` |
| dashboard, init, settings (`cmd/dashboard.go`, `init.go`, `root.go`, `config.go`) | the screen; none; layers of values | fetch and show; ask and write; look up | `Dashboard`, `InitWizard`, `Settings` |
| output, redaction, server command, generated code | - | - | not modelled (section 8) |

### How they interact

- The runner owns everything. It starts the control plane, then the components
  through the orchestrator; a component registers by RPC and beats from then on,
  and the process orchestrator beats in its name too (status UNKNOWN).
- Wiring asks the registry for every component's endpoint, opens the streams and
  starts the loops. The loops share one context: the owner cancels it, errgroup
  cancels it when a loop fails. A goroutine of the runner waits for the verdict
  and puts it into the channel `terminal`, which holds one element.
- The runner reports `RUNNING` and a terminal state with RPCs to its own control
  plane, on the context that a stop request cancels.
- An operator's `StopPipelineRun` arrives in a handler of the control plane, which
  starts the runner's stop callback in a goroutine and then writes `STOPPED`.
- A signal arrives in the channel `sigChan`, which holds one element and is read
  only while the delivery is supervised.
- By default the control plane stores in a bolt database, so registrations and
  records outlive the process that made them.
- Every flowctl process of a user shares one image cache on disk, without a lock.
- `run`, `validate` and `translate` read the same files with different code; what
  one accepts another has to run.

### What is hard

Every edge's loop, the two waits on `terminal`, signals, operators, reports and
the handlers of the control plane run concurrently; the meaning of an error
(failure, echo of a failure, echo of a cancellation) depends on what happened
before it; components may end, fail or stall at any moment; a killed run leaves
processes and registrations behind; channels of bounded size join goroutines that
end in different orders; several steps against Docker, the file system or the
control plane each may fail alone. `PROJECT.json` lists these hazards line by
line with the properties that guard each.

## 2. Modules of the run and its data path

Operators whose comment says "mutant" are deliberately wrong variants of the
definition after them: each shows that a property notices such a mistake in
the code. No behaviour of a specification uses them.

### DeliveryPromise and StreamOrchestrator

`DeliveryPromise` is the abstract specification of a delivery: wired or refused,
cancelled, first failure, settled, verdict. In `StreamOrchestrator`,
`loop[l, k]` is the goroutine that reads output stream `k` of lane `l` (0 is the
source, `k > 0` the k-th processor); the last loop of a lane is `fanOut`. `recv`,
`send` and `close` are the calls it may be blocked in, `failing` is the moment
between an error and errgroup's reaction in `launch`, which is where errors of
other loops and cancellations slip in. `Recv`, `Send`, `CloseSend`, `FanRecv`,
`FanSend`, `FanEOF`, `FanAck` are the loops' steps; `RecvError`, `SendRefused`,
`FanSendRefused` and `Interrupted` their errors. `first` is errgroup's first error,
`CtxDone` the state of the group's context. `IsEcho` is the filter of `launch`,
`IsCancellation` the one of `Wait`. Without processors the fan-out reads the source
itself and `sourceReceiver` decides what an EOF means; in `FanEOF` that is `direct`.

gRPC is modelled by what the code relies on: a stream is a queue of at most
`Window` messages, after which `Send` blocks; `Send` to a stream that is over
answers `io.EOF`; a cancelled context makes `Recv` and `CloseAndRecv` answer with the
code `Canceled` and `Send` with `io.EOF` (`"cut"`). Components are external: they
emit, transform, filter, end early, fail with a code, or acknowledge wrongly
(`Faults`). Payloads are reduced to event types, because only types decide where
an event goes. Sinks count; the events themselves are not compared, as in the
acknowledgement contract.

The refinement maps `broken` to the first failure and `settled` to "every lane
wired and every loop ended without error".

### PipelineRunner

`at` is the statement `Run` is at, from the creation of the run record to its
return. Each named place is one where another goroutine or process can act: between
the record and the stop callback (`register`), inside the RPCs (`announcing`,
`finishing`), between the `select` and what follows (`judge`, `reap`, `drain`),
between the steps of `shutdown`. The delivery proceeds as `DeliveryPromise` allows,
so every verdict the detailed orchestrator can give, and no others, reaches the
runner. `reports` are UpdatePipelineRun requests in flight: if the runner's context is
cancelled it goes on without the reply and the request may still be applied. `op[o]`
and `call[o]` are an operator's StopPipelineRun and the goroutine it starts. `Modes`
says whether `spec.delivery` may be left to supervision or be `registration`, in which
case nothing is wired.

`Embedded = TRUE` in all runs: with an external control plane no stop callback is
registered, so its server, which is code outside the runner, matters only
through `Lossy`, which allows requests and replies to get lost.

### RunStartup

What precedes: the control plane listens (possibly on a port the system picks), the
address is written into the pipeline and a new orchestrator (`SyncEndpoint`), the
components start in the file's order and the pipeline components by the recursion
over `dependsOn`, whose frames are `calls`. `environment` is what each process is given,
with the health port that the process orchestrator picks. The periodic status
print runs beside it, and with an external control plane it dereferences nil.

### ServiceRegistry

Handlers hold one mutex from beginning to end, storage writes included, so an
RPC is one step. `mem` and `store` are the services in memory and in the database;
a write may fail when `storage = "failing"` and never happens when it is
`volatile`. What is kept of a service is what decisions depend on: status, whether its
metrics name a delivery run (`marked`), whether its TTL has passed (`fresh`), whether
its event types are known (`typed`). Service id and component id are identified: no
client in the repository uses two. `phase` and `next` are the runner's startup loops
over the components; `alive` are the processes of this run, `orphans` those that
outlived an earlier one; `beat[c]` is the heartbeat goroutine of the process
orchestrator. `Exit` is the end of the flowctl process at any moment, so it covers an
orderly shutdown, a crash and a kill.

### ProcessOrchestrator

`StartComponent`, `StopComponent` and `StopAll` hold the orchestrator's lock from
beginning to end, so each is one step. `<<c, n>>` is the n-th start of a component, with
its entry (`status`), its process, the goroutine in `monitorProcess` and the one in
`heartbeatProcess`; `current[c]` is the entry in the table. A monitor writes the entry it
was started with, also when the table has moved on; a heartbeat goroutine reads whatever
entry the table has. `asked[s]` says that SIGTERM has reached the process, which may
ignore it. A start that fails changes nothing and is left out.

### ChunkRuns

A reporter numbers its calls and waits for each; a call is sent, its handler reads the
stored record (`GetExisting`), merges and validates, and writes in a second storage
transaction (`PutMerged`). Requests and replies may be lost, the control plane may
restart between the two transactions. `raced` remembers the chunks on which two
handlers overlapped; nothing else depends on it. A record is a status and the facts it has:
times, which the reporter's helpers set, and details (row counts, a verification, a failure
class), which are what the caller passes, and may be nothing (`Passed`); `DirectUpdates` are what
a component reports by `ReportChunk` itself, any status with any facts.

### ServiceStorage

The two stores behind one interface: single writes, and transactions that are open while
others read, and end in `Commit` or `Rollback`. Bolt keeps a transaction's writes in a
copy; the memory store has none and writes through. Every value carries the number of the
write that made it.

### ContainerOrchestrator, ContainerEnvironment, ContainerConfig

A start is create, start, and a health check, each of which may fail, the second also
after it took effect (`calling` is the step reached); a stop cancels the monitor first.
`told` are the components whose last call answered with an error. Docker restarts a
container by its policy. `ContainerEnvironment` performs the two expansion passes
over a map whose order is arbitrary: reference by reference (`Expand`), and then, where the
value that was set holds a blank, field by field (`Join`): a field `$v` becomes the value of
`v`, and the fields are joined again by one blank each. A value is a sequence of words:
text, `${v}`, `$v` and white space of several kinds. `ContainerConfig` is a
function: what the two conversions and the handlers make of volumes and secrets, over
a world of files that exist or cannot be read. The mounts of a container are a function from
places, of which only that they differ matters; its variables are one from names, the map the code has.

### LogAggregation, DagPipeline, LinearPipeline

Goroutines and bounded channels as in the code, one action per channel operation. In
`LogAggregation` a follower waits for its log, scans, and sends or quits; its scanner may fail
at any line (`ScanFails`: a line above a megabyte, an error of the file), which ends it; the printer's
buffer reaches the screen by flushes. In `DagPipeline` a source writes to its channel,
an adapter per (source, processor, type) takes from it, a worker per (processor, type)
processes, every sink has one channel; `Stop` cancels, closes source channels, waits for
workers, closes the rest, waits for sinks. `panicked` is a send on a closed channel.

### Sandbox, LocalRunnerScript

`Sandbox`: the recursion over services (`stack`), Docker's refusals, and later commands,
which are processes of their own with an empty `globalRuntime`. `LocalRunnerScript` is the
bash program that translation writes: start functions that wait for the pids of their
dependencies, a loop that restarts, and the trap. Ids are sequences of characters, since
`sanitizeID` is not one-to-one: components whose ids come to be the same share a start function
(bash takes the last) and an entry of `PIDS`. A process is therefore a launch, with the id it was launched as.

## 3. Modules of the operator's side

| Module | What it models |
|---|---|
| `RunCommands` | create, update, list, get and stop of runs over both stores, with an operator who resolves a prefix, then stops |
| `Dashboard` | the update loop: overlapping fetches of two RPCs each, applied in the order of arrival |
| `OperatorCommands` | for every command: its RPCs in order, how an error is wrapped, which exit code comes out |
| `Settings` | the layers of a setting and what `config show` says of it |
| `InitWizard` | from preset, flags or answers to a pipeline and a report |
| `PipelineFiles` | the loader, the validator and the translator's validator as predicates, the legacy conversion, and what wiring then does |
| `ComposeFile` | services, names and dependencies of the two Compose files |
| `ImageReferences` | parsing and printing of image and component names, as token sequences |
| `ImageCache` | resolve, pull, extract and copy by several processes over one directory |
| `ImageLayers` | the extraction of layers with files, links and whiteouts, over the operating system's path lookup, against their specified meaning |
| `ComponentConfig` | metadata (old and new names), config to variables, precedence |

`RunCommands`, `Dashboard`, `ImageCache` and `ImageLayers` are state machines; the others
are operators that are checked against a reference definition for every member of a
bounded set of inputs.

### Composition

`PipelineRunner` is composed with `DeliveryPromise`, whose actions it uses. `PipelineFiles`
is used by `ComposeFile`, `InitWizard` and `LocalRunnerScript`.

Three MC modules check components that do not share state in one run: `MCSupervisedRun`
(what happens on the machine of a run), `MCOperator` (the operator's side) and
`MCControlPlane` (what the control plane keeps). Their variable `part` picks in the
initial state which of the components a behaviour is about; the others stay in one
initial state. So nothing interleaves that does not interact, and the state spaces
add up instead of multiplying. They `EXTENDS` the parts that have theorems or assumptions on
their constants, so that a run checks the very formula that is proved and TLC evaluates the
assumptions (`MCSupervisedRun`: the runner, its startup, containers, the DAG; `MCControlPlane`:
registry, chunks, runs, storage; `MCOperator`: the runner, cache, layers and files), and
`INSTANCE` the rest. Some things follow from the composition:

- fairness is that of the part that runs: `WF_v(part = "x" /\ Action)`;
- the liveness properties that say that something ends are written
  `<>[](part = "x" => Ended)`. Each `Ended` is an implication whose premise, once
  true, stays so (a stop was asked for, a source has sent), or covers the whole run of the
  part, so this is what "leads to" would say, with one tableau for all;
- what is safety has a name of its own, `EnvironmentIsWhole`, `ServicesFollowDependencies`, `CleanupIsComplete`,
  `StreamsKeepOrder`, and is checked as an invariant; the liveness properties say only that things end or arrive;
- what is said of one component in two formulas with proofs of their own is one property of a
  run: `EndsAreEarned`, `TableIsTrue`, `StartupIsOrderly`; and `StreamsKeepOrder` says the same of two components.

`MCOperator`'s `input` is a file, a legacy file, a call of `init`, a name, a command with its
replies, a setting or a component's configuration. Every one of them is an initial state with no
steps: the property is then about an operator, not about a behaviour.

## 4. Runs

| Run | Instance | Question |
|---|---|---|
| `stream_fanout` | 1 source, 1 processor, 2 sinks (one filtering), 1 event, every gRPC code, all faults | Is a nil verdict truthful, is no failure swallowed (`VerdictIsSound`), is `DeliveryPromise` implemented? |
| `stream_chain` | 1 source, 2 processors, 1 sink, 2 events, windows of 1, components may end wrongly | Cancellation and failure unblock every loop; a bounded run completes |
| `stream_direct` | 2 sources (one unbounded), own sinks, no processor | What an EOF means when the fan-out reads the source; two lanes disturb each other in every state; when the second is refused, the loops of the first end |
| `stream_echo` | 1 source, 1 processor, 1 sink | finding: a stop during `Send` is a delivery failure |
| `stream_canceled` | 1 source, 1 sink | finding: a component's `Canceled` is a nil verdict |
| `run_supervised` | 1 operator, both modes, startup and wiring may fail, every report is served; startups of two shapes; containers, environment, logs, pipelines, sandbox, script | Do exit, record and delivery agree; do processes and services start in an order their dependencies allow; do lines and events keep theirs; is an environment whole and a cleanup complete; is what gets lost told; does every run, startup, stream, stop and restart come to its end? |
| `run_stopped` | 2 operators (symmetric), both modes, requests and replies may be lost; 2 processes on a cache; all bounded inputs | Do components outlive the delivery, do COMPLETED and FAILED mean what they say; do files, names, settings, errors and container configurations survive the code that reads them? |
| `run_unrecorded` | startup succeeds | finding: a failure that meets a stop request is not recorded |
| `run_hangs` | startup succeeds | finding: `Run` waits for a second verdict |
| `registry_runs` | 1 component over a reliable and a failing database, 2 in memory, any number of runs; 2 reporters on one chunk; both stores; 3 runs; 2 fetches | Do marks, acknowledged reports and committed transactions survive; do memory and database agree; are the dead noticed; does stop hit the named run; does the dashboard catch up? |
| `registry_stale` | 1 component, reliable database | finding: registrations of an earlier run are taken for this run's |
| `processes` | 2 components, one of them started up to twice | Does `StopAll` reach every live process, are failures shown, do heartbeats end with the processes? |

`PROJECT.json` names the properties of every run; the comment before each property says
what it means and which code it is about.

### Bounds and why they suffice

- Events (`MaxEvents`) 1 or 2 over streams that hold one message (`Window = 1`): with a
  window of one, one event in flight per edge is already backpressure, and two events
  fill every edge of the chain. The counts that acknowledgements compare
  differ by one as soon as one event is lost, sent twice or filtered.
- Two processors are the shortest chain in which a loop's next hop is itself
  fed by a loop; two lanes are the least number in which one
  failure must stop the other and wiring can fail after loops run; two sinks the least in
  which one accepts what the other filters and the order of closing matters.
- A run has no counter: only the number of operators is a bound. Two
  operators overlap each other and the runner in every order; each of them stops
  once, since a repeated call does what a second operator's does.
- The registry has no counter either: the number of runs is unbounded and only the
  components are bounded. What concerns one component (marks, heartbeats,
  database) is checked with one, what concerns their order (waiting) with two.
- Starts (`MaxStarts`): two starts of one component let an entry, a monitor and a heartbeat
  goroutine outlive the start they belong to; a third does nothing a second does not.
- Startup: a chain, with every combination of four environments for two of its
  components (the ones flowctl sets too, a health port), and three pipeline components
  with each of six dependency lists: shared, missing, circular, unknown, and a source's name.
- Chunks: two reporters on one chunk, one of which reports twice, as attempts of one range or
  of two: overlap, retry and restart between the two transactions. Every helper of the reporter without
  details, and a few bare updates: what a caller passes changes which facts a report has, not how they are merged.
- Storage: two services, three writes: a transaction of two beside another write.
- Containers: two components, two restart policies. Nothing but StopAll concerns two.
- Environments: two variables of a few words each (`MaxWords` caps the growth of one
  that refers to itself), with references to a host variable, to one nobody has and to
  each other, `$v` alone and beside other text, blanks, repeated and other white space.
- Logs: two components of two lines over a channel of one; pipelines of 2 to 3 events over
  buffers of one, in five graphs: a chain, a split that joins, a split that does not (`Fork`: two
  processors with a sink each), a widening, a source of two types.
- Sandbox: three services with every dependency relation (`MaxDepth` 3 is the longest
  acyclic path, so any deeper call is a cycle), two commands.
- Script: three components in eight wirings, one of them with two ids that are sanitized alike, two ends (`MaxEnds`): one
  failure and the failure of its restart or of its dependency.
- Cache: two processes that resolve twice each, with no disturbance, a crash, a failed
  copy, an overlap, or all. Layers: eight first layers over four paths in two directories, with a link to a directory, to a
  file, and a file of two names; every second layer of up to two entries. Symbolic links lead to the top of the tree
  (a link to a deeper path would lead to deeper ones than these four), and `Hops` is 3, where Linux follows 40: no more
  than three links are ever there.
- Runs: three ids with shared and unshared prefixes, arguments of one and two tokens, a limit of 0 to 2.
- Inputs: files of up to two components per kind with every wiring of a set of seven, and one or two
  deviations; image names of up to four tokens and seven endings; every sequence of three answers to a
  command's RPCs. One deviation more repeats what the predicates, which are conjunctions over components,
  have already seen.

### Deadlock

Checked in the registry, which never stops. A run ends (`at = "exited"`), a
delivery ends when all loops have, a startup, a stop or a command is over, so the other
configurations say `CHECK_DEADLOCK FALSE`; that they do end is what the liveness properties
say, and where they do not is `run_hangs`.

### Fairness

- `StreamOrchestrator!LoopFairness`: goroutines are scheduled, a call on a cancelled stream
  returns, `WireAll` and `Wait` return once they can. Components are not assumed to serve
  anything, so `LoopsAreReaped` holds against components that stall for ever. Only
  `BoundedRunCompletes` assumes, as its hypothesis, that components serve (`ComponentFairness`).
- `PipelineRunner!Fairness`: the runner, the verdict goroutine, the control plane's handlers
  and spawned stop callbacks are scheduled. `Wait` returns when the promise lets
  it, which `LoopsAreReaped` justifies. Signals, operators, failures and
  the settling of a delivery are not fair.
- `ServiceRegistry!FairSpec`: the janitor's ticker and the heartbeat goroutines run, and the TTL
  of a component passes when nobody beats for it. Components and the runner are not fair.
- `ProcessOrchestrator!Fairness`: the monitor and heartbeat goroutines run. Callers are not fair,
  and processes need never exit.
- Startup, sandbox and expansion: the one goroutine goes on; failures are never required.
- Logs, pipelines: every goroutine runs while its channel operation can; whoever writes a log,
  emits an event or asks for a stop need not, but for the DAG's source goroutine, which runs as the
  others do.
- Script: bash goes on. Its components end when they like, and a signal need not come.
- Dashboard: ticks come and fetches end (the dial and each RPC have a time-out); its property is
  conditional on a control plane that answers from some time on.

## 5. Findings

Each is a behaviour of the code that contradicts the text it quotes
(`PROJECT.json`, `findings`).

1. A stop request that meets a forwarding loop inside `Send` becomes a delivery failure
   (`stream_echo`): `Send` answers a bare `io.EOF`, which the filter of `launch` does not
   know as an echo. The fan-out is not affected, it asks `CloseAndRecv` for the status.
2. A component that fails with the code `Canceled` gives a nil verdict (`stream_canceled`):
   `Wait` tests a context that errgroup has cancelled by then in any case.
3. A delivery failure that meets a stop request is returned by `Run` and never recorded
   (`run_unrecorded`).
4. `Run` can hang after a stop request (`run_hangs`): `select` takes the nil verdict, the
   context is done, and `waitForTerminalOnStop` waits for a second verdict.
5. With the persistent database, a second run wires with the registrations of the first
   (`registry_stale`).

### Known divergences that no run states

Met while modelling. The models follow the code; where a property would contradict one of these, its
premise excludes exactly that case and its comment says so.

Runs and the control plane:

- `UpdatePipelineRun` has no guard on the state it replaces (`api/control_plane.go:564`),
  `StopPipelineRun` overwrites COMPLETED and FAILED (`api/control_plane.go:661`);
  `docs/CLI_APPLICATION_ROADMAP.md:238-240` plans terminal-state rules. `TerminalStatusKept`
  speaks of runs nobody stops.
- A stop request that arrives after the run record exists and before the callback is
  registered (`runner/pipeline_runner.go:1046`) is stored as STOPPED and never heard by the run.
- A live component the janitor once marked UNHEALTHY does not recover by the heartbeats that the
  process orchestrator and the reporter send, since their status is UNKNOWN
  (`api/control_plane.go:277`, `orchestrator/process.go:513`, `pkg/component/reporter.go:148`).
- Services are kept under the service id and reloaded under the component id
  (`api/control_plane.go:146`). Enrichment reads a record and registers it again
  (`runner/pipeline_runner.go:961`), so a registration in between is overwritten.
- `UpsertChunkRun` reads and writes in two transactions without a lock (`api/control_plane.go:711`): of two
  reports of one chunk that overlap, one may be lost although it was acknowledged.
- A source that is not registered or cannot be reached is reported under the name of its first processor
  (`runner/stream_orchestrator.go:91-111`, `runner/pipeline_runner.go:384`), so the healthy processor is marked UNHEALTHY; a component that is
  not registered cannot be marked at all, which is only logged. `ExitAgreesWithRecord` says that the component the failure
  *names* was marked or unknown.
- A chunk can be VERIFIED without a verification or FAILED without a class: the reporter passes on what it is given
  (`pkg/component/reporter.go:278-312`) and the control plane checks neither.
- With `--use-external-control-plane` the status print dereferences a nil control plane
  (`runner/pipeline_runner.go:279`, `:646`). `IsHealthy` compares with 1, HEALTHY is 2 (`:739`); nothing calls it.
- Circular `dependsOn` of pipeline components is not checked and overflows the stack
  (`runner/pipeline_runner.go:448`).
- The memory store has no rollback (`storage/memory.go:109`) though the interface promises one
  (`storage/interface.go:58`), and its getters return the stored records themselves.

Processes and containers:

- `StopAll` and `StopComponent` send SIGTERM and wait for nothing (`orchestrator/process.go:189`): a process
  that ignores it outlives flowctl, and its entry already says stopped. `LiveIsListed` speaks of processes
  that were never asked to stop.
- After a quick restart the heartbeat goroutine of the earlier start finds the entry of the later one
  and goes on beside that start's own (`orchestrator/process.go:530`).
- The health port flowctl picks can be one the file gives to another component (`orchestrator/process.go:444`).
- A container start that fails late leaves a running container that `StopAll` does not know
  (`orchestrator/docker.go:91`); a stop that fails leaves it listed and unwatched. The health monitor goes
  on beating for a container that has exited (`pkg/runner/health_monitor.go:66`). `GetAllStatus` takes a read
  lock twice (`orchestrator/docker.go:172`).
- Secrets of type `env` or none are dropped, also when `required`, and those of type `file` become volumes whose
  missing host path is only warned about (`runner/pipeline_runner.go:534`, `orchestrator/docker.go:243`). A volume's
  `mountPath` and a port's `hostPort` are dropped.
- `PATH=${PATH}:/bin` is expanded for ever (`pkg/runner/env_handler.go:55`); what other references become may
  depend on the order of a map.
- A value with a blank loses all its other white space: tabs, newlines and repeated blanks become one blank
  (`pkg/runner/env_handler.go:82-97`). `$VAR` is replaced only in such a value, and only between white space.
- The lines of a log after one that is longer than a megabyte are never shown (`runner/log_aggregator.go:121`).
- Two config keys with the same variable: the order of a map decides. Pipeline components are never resolved by
  `ResolveComponents`.

Pipelines inside one process: `Stop` closes channels that sources may still send on (`core/dag.go:343`,
`core/pipeline.go:82`), which takes the process down. A source whose events enter through two channels (two types, or two
processors that compete for them) may reorder them at a sink, and where two ways lead from a processor to a sink,
over a split that joins, the sink is given an event twice: the premises of `WrittenInOrder` are exactly that
one way leads there (`OneWay`, `OneEntry`). Processors of one source compete for its channel (`core/dag.go:178-202`), so sinks behind
different ones get a share of the events each: `AllArrived` promises an event to the sinks behind the one that took it.

Files and translation: the three validators disagree (a component that is its own input, the drivers `process` and
`container`, duplicate ids, a required image, pipeline components as inputs). `WireAll` refuses a two-source file that
validate accepts, and validate's "only the first source is used" (`validator/validator.go:123`) is not what
happens. With processors declared, inputs are ignored. Names of Compose services may collide. Translation for local
execution drops pipeline components. The legacy conversion gives every processor the source as its input
(`translator/parser.go:205`).

Generated script: a start function waits for ever for a dependency that has ended; the cleanup exits 0; a signal
between a launch and the note of its pid leaves that process. Of components whose ids `sanitizeID` makes the same, `a-b` and `a_b`, the last is
started as often as there are of them and the others never (`generator/local_legacy.go:116`, `:355`), and only the last launch
is in `PIDS`, so the cleanup does not reach the earlier ones.

Image cache and sandbox: a crash or another process leaves partial files that are then taken for whole
(`components/resolver.go:80`, `registry/client.go:50`), and so does, with neither, a copy or a chmod that fails
(`components/resolver.go:184`, `:324`): the next resolve returns a partial or plain file. A layer that writes a file over a link
writes through it (`registry/client.go:269`): what a symbolic link leads to, or a file's other name, is changed too, and a link over a
directory that is not empty, or a whiteout under a file (`registry/client.go:247`), ends the extraction. References without `@`, which the comment at
`components/resolver.go:66` shows, are never resolved. The component `name@:` resolves to the latest
(`components/resolver.go:236`). Circular `depends_on` overflows the stack
(`sandbox/runtime/runtime.go:305`); `sandbox stop`, `status` and `logs` look for a runtime of their own process and never
find one (`sandbox/runtime/runtime.go:122`).

Commands: several commands report every error as "not found", and `status` exits 1 in an outage; the control plane's own
"not found" has no gRPC code. `FLOWCTL_OUTPUT`, and `output` and `log-level` in files, have no effect (`cmd/root.go:77`);
`config show` names the last file read and empty variables (`cmd/config.go:23`). `pipelines runs` lists by key, not by
time (`cmd/pipelines.go:230`). `init` writes an unknown network as mainnet and may write a negative start (`cmd/init.go:173`).
The dashboard may show an old answer until the next (`cmd/dashboard.go:123`).

## 6. Proofs

TLAPS proves, for every value of the constants, in eight modules. All of it is about
operators and specifications as the runs use them; no theorem is about a simplified copy.

### StreamOrchestratorProofs

For any number of sources, processors and sinks, any routing and filter, any window, any number
of events, with or without faults:

- `TypeCorrect` (`TypeOK`), `NilVerdictIsSound` (`VerdictIsSound`),
  `EndlessSourcesEndRuns` (`EndlessSourceNeverCompletes`).
- `DirectVerdictTellsWhy` (`VerdictTellsWhy`): without processors, no cancellation comes out as a failure and an
  endless source never completes. With processors the former is false (finding 1), which the formula's premise says.
- `OrchestratorKeepsItsPromise` (`ImplementsPromise`): the refinement, an initial state and one step or stutter of
  `DeliveryPromise` for every action.

The inductive invariant is `StreamInvariant`, `TypeOK` with six parts. A nil verdict is about every edge, but the step that
gives it sees only that all loops have returned, so what a loop left behind has to be carried to that moment: `Counted`
(nothing is read that was not sent), `Wired` (the loops of the wired lanes, and only they, exist), `Recorded` (a
loop that ended with an error has left a first error behind, unless its own was the echo of a cancellation), `Carried` and `Fanned` (a loop that ended
cleanly has read its stream to the end and handed on, or had acknowledged, all of it), `Reaping` (a verdict comes after
that). The assumptions used are `TopologyAssumption` and `ChannelAssumption`.

### PipelineRunnerProofs

For any set of operators, embedded or external control plane, both
modes, lost requests and replies, any set of delivery failures: `TypeCorrect`, `DeliveryReapedFirst`
(`ComponentsOutliveDelivery`), `CompletedIsEarned`, `FailedIsEarned` and both in one, `EndsEarned`
(`EndsAreEarned`); and, where every report is served (`~Lossy`), `RecordedBeforeShutdown` (`StatusBeforeShutdown`),
`ExitIsRecorded` (`ExitAgreesWithRecord`) and the action property `TerminalStatusStays` (`TerminalStatusKept`).

None of the first is inductive. Whether COMPLETED may be stored depends on
what the runner chose, which depends on the verdict it took, on the context at that moment,
and on where the verdict came from. The inductive invariant
`IInv == TypeOK /\ Stages /\ Verdicts /\ Reporting` (theorem `Invariant`) states that chain:
`Stages` ties the place `Run` is at to the delivery (before wiring nothing is wired; until the
reaping only the runner's own context can have cancelled; after it a wired delivery has its verdict);
`Verdicts` says what a verdict means and that it travels unchanged through the channel;
`Reporting` that every status that is chosen, in flight or stored has its justification. The one
status that may be chosen without one is FAILED, when wiring was interrupted; it is never sent
because the context is done. That is why `Reporting` distinguishes chosen from sent. The
assumption used is `RunnerAssumption`.

For the last three `IInv` is joined by `Served` (theorem `RecordsInvariant`): `Origins` (only a stop request, which an operator's
handler began, or the end of `Run` cancels the context), `Orderly` (unless a stop request came, `Run` goes on only when
its report has been answered, so none is left to overtake the last, and the status chosen tells failure, signal and
plain completion apart), `Kept` (without an operator the record is what was chosen, and had no end before that) and
`Returned`.

Since `OrchestratorKeepsItsPromise` shows that the detailed orchestrator is a
`DeliveryPromise`, what these theorems say of the delivery holds of it.

### MachineProofs

*Startup*, for any set of pipelines the loader accepts (`StartupAssumption`: ids are distinct, lists are sequences),
whatever their `dependsOn` and `env` say: `StartupInOrder` (`StartsInOrder`), `PlacesAreGiven` (`ProcessesHaveTheirPlace`), in one
`StartupGoesWell` (`StartupIsOrderly`). The difficulty is the recursion over `dependsOn`, of which the model has the stack of
calls: a pipeline component starts when its loop over its dependencies is over, and that they are started by then is not visible
in that state alone. `CallsKnown` carries it: every dependency a frame is beyond is started or is the call above it; so when the
top frame has finished, all have. Cycles are included: they never start anything out of order, they overflow the stack. For the ports the
invariant says that whoever has none in the file was given one of `18081 .. 18080 + n` where `n` processes are started, so that the next, which is
given `18081 + n`, meets nobody: nothing leaves the table during a startup.

*Stop of a DAG*, for any graph, buffer size and number of events: `NobodyElsePanics` (`OnlySourcesPanic`), an action property. The strengthening,
`WorkersGone`, says that from the stage after the wait for the processors on, no worker is left that could send to a sink.

*Order in a DAG*, for any graph, buffer size and number of events: `EventsStayInOrder` (`WrittenInOrder`). What a sink has written depends
on everything still in some channel or in the hands of an adapter or worker, so the invariant, `DagInvariant`, is about that whole way. Fix a
sink to which one way leads from every processor. Each channel of that way has a content, which is what is queued in it and what its reader has
taken and not yet handed on; `SinkFlow` says that no event is in two places of the way or twice in one, and that of two events of a source with a single
entry the earlier is never behind the later: it is in the same channel and before it, or in one that the later has still to
come to. Three lemmas about such contents cover the steps: what only takes away (`FlowDrops`), what brings a new event in (`FlowEnters`), and what moves
the first that a channel holds behind all that the next one does (`FlowMoves`). Circular graphs are
not excluded: the order is along `LeadsTo`, and what one way leads to a sink cannot come back.

*Order of the log*, for any components, lines and capacity: `LinesStayInOrder` (`Logs!LinesInOrder`). For each component `LinesKnown` gives a
number `n`: what is on the way from its follower to the screen is exactly its first `n` lines, in order, and the follower has scanned these and at most the one it is
sending, whether its scanner fails later or not. `OrderIsKept` (`StreamsKeepOrder`) is the invariant of the run, from both.

*Expansion of an environment*, for any variables and values: `NothingIsLostInExpansion` (`EnvironmentIsWhole`). The property promises, of the value
before it is split into fields, a way to cut it into what each word of the original became, and of the finished one, a way to cut it into what each
word of that became: the solid words, the values of the `$v` that stand alone, and one blank where there was white space. The invariant carries that cut through the rewriting: of the value that is being
expanded the first `m` words have been replaced already and hold no reference any more (`Expanding`), so the first reference of the
value is that of word `m + 1`, and replacing it moves the later cuts by the difference of the lengths. All this is the second
pass; a value that refers to itself is expanded for ever in the first, which only validates, so that nothing is ready there.

*Services of a sandbox*, whatever depends on what: `ServicesInOrder` (`ServicesFollowDependencies`), by the argument of `CallsKnown`: a dependency that
a frame of the recursion is beyond is started or is the frame above.

*Cleanup of the script*, for any pipeline file: `CleanupLeavesNothing` (`CleanupIsComplete`). The invariant says of every launch whose process lives that
it is noted under its id, or is the one between launch and note, or has an id that several components share; and that an earlier launch of
an id that is not shared has ended (`OldHaveEnded`), since only the loop that found it dead starts that one again.

The last four are about parts of `MachineSpec`; `PartsStep` says that a step of the machine is a step of each part or leaves its variables alone, so that their
invariants are proved about the part's own next-state relation.

### OrchestratorProofs

For any set of components and any number of starts of each: `TypeCorrect`, `NoProcessIsLost` (`LiveIsListed`),
`FailuresAreShown` (`FailureIsShown`), in one `TableTellsTheTruth` (`TableIsTrue`). The strengthening common to all is
`LiveIsAwaited`: the monitor of a live process has not come back from `Wait`. Without it a stop could miss a live process
(the signal is refused once the process has been waited for), and an exit could follow the monitor's last word.
`ContainersLostAreTold` (`LossesAreTold`) for any set of containers is inductive on states of the right types.

### ServiceRegistryProofs, ChunkRunsProofs, ControlPlaneProofs

`ServiceRegistryProofs` (any number of components, any set-ups):

- `TypeCorrect`: the type invariant.
- `MarksHold`: `MarkedIsNotHealthy`. The strengthening is `BothSound`, the same for each table
  separately, with a lemma for each change of a table.
- `RestartChangesNothing`: `StoreMirrorsMemory`, inductive as it stands.
- `WaitIsSound`: `VolatileWaitIsSound`, strengthened by `Present`: without a database nobody
  is in memory who has not registered since the control plane started.
- `MarksSurvive`: the action property `MarkKept`, from the invariants above; the case split
  shows the three steps that may take a mark away.

`ChunkRunsProofs` (any reporters, ranges and numbers of reports): `StatusesAreBacked` (`StatusIsBacked`) and
`AcknowledgedSurvives` (`AcknowledgedIsKept`). The invariant `ChunkInvariant` adds to the types `Turns` (no call is in use before
its reporter has made it, and an acknowledged one has been written), `Evidence` (what is about to be written or stored has its status
and every fact of the report that set it, and no fact that no written report had) and `Exclusive` (on a chunk that is not in `raced` one handler at most is at work, what it is about
to write contains its report and everything stored, and what was written is still stored).

`ControlPlaneProofs`: `DatabaseKeepsItsPromise` (`DatabaseRollsBack`) for any services and number of writes;
`StopsHitTheNamed` (`StopHitsTheNamed`), the action property of the stop command, for any set of run ids. What it rests on is that
the command asks for all runs, so that a prefix that one run of the listing has is not another's; an id a command holds was the
one match among the runs there were (`known`).

### OperatorProofs

- `FailuresAreCleanedUp` (`CleanupSuffices`), any set of processes and tries, one after the other and not killed: nothing partial is left by a download or an
  extraction, and, where no copy and no chmod fails, what is resolved is executable. `Undisturbed` says that one process at a time is
  inside and what each place in the procedure implies for each of the three files.
- `LayersMeanWhatTheySay` (`LayerMeansWhatItSays`), any paths, images and trees below, with any links: applying the entries one by one, whiteouts
  first (`Sorted`), leaves the kinds and contents the layer means as a whole, if none of its entries met a link that led it elsewhere (`Straight`,
  remembered in `crossed`). For such an entry every path leads to itself (`NoLinksOnTheWay`), so what it does is what it says
  (`AppliedStraight`); of the others the proof needs only that a tree stays a tree (`AppliedTyped`). The invariant compares the tree with the meaning of the prefix of the entries
  applied so far; `EntryMeans` is one step, and needs that nothing the same layer brought is hidden afterwards, which the order gives.
- `ValidatedFilesRun`: of *every* pipeline file validate accepts: what it reads starts before it, the wiring takes it and makes the declared
  connections, translate does not refuse it if it has images, and what comes of it Compose can start, dependencies not circular since each
  comes before in the file. `LegacyTranslates` and `WizardWritesRunnable` say their parts of every legacy file and every call of `init`.
  `FilesRun` (`FilesAreRunnable`) is the invariant of the run, from these.
- `ImagesAreNamed` (`ImagesAreWhatIsNamed`), and `NamesMeanTheSame` for names of any tokens and any length. `PartedAt` says where the first and
  the last place of a separator are in what is joined by it, `ReferenceParts` what an accepted reference is made of: no `@` in any part, no slash in
  the host, a tag of one word or a digest. Its string is then parted at the same places: a colon of the host's port is before a slash,
  hence no tag's (`LocatedAgain`).

- `CommandsTell` (`CommandsTellTheTruth`) from two theorems. `CommandsAreRight`, about every command and every world: the three answers
  are any of the five kinds, independently of all else, and any number of runs matches. It rests on `WrappingKeepsTheCode`: `%w` changes neither that there is an
  error nor its code, however long the chain; the places of the links of each kind in the wrapped error are those in the inner one, moved by one.
  `SettingShown`, about every combination of layers: what `config show` says is what is in effect and where it is from.
- `ConfigurationIsThere` (`ConfigurationArrives`) from three. `DeclaredMounts` and `RequiredSecrets` are about a component with any volumes and
  secrets, any file system and any home and working directory; how a host path is resolved is used in neither. `ConfigReaches` is about any components and any metadata: whichever key wins a variable
  that two have, the variables a component sets itself are kept, except for flowctl's three, and a key that has its variable for itself arrives.

These proofs corrected the model five times. `InputsComeFirst` was false of a file whose *source* names an input: nobody reads it, neither the
validator nor the wiring, and the bounded inputs had no such file; the formula now leaves it aside as the code does. And the cases of
the dependencies of a Compose service overlapped where a pipeline component has the index of another kind; TLC took the first, the
meaning of `CASE` is any. The definition is now an order of conditions, as in the code.
`VersionIsTheTag` was false of the component `name@:`, whose image is `name::` with an empty tag, read as the latest
(`components/resolver.go:236`): the bounded names had no such version, now they have.
The cases of `ResolveRunID` overlapped (an error of the listing, no match, several), as those of the Compose dependencies had; so did
those of cleaning a path. They are now orders of conditions. Likewise the variables of secrets were a list of pairs, of which docker would take the last;
they are now the map they are in `pkg/runner/secret_handler.go:43`.

### Assumptions

All are named, in the module that declares the constants, and evaluated by TLC in a passing run. Two are not about constants:
`TextAssumption` and `WizardAssumption` say that certain literals are texts and ids (members of `STRING` and of `Seq(STRING)`), which
the backends cannot establish and TLC evaluates. `MachineAssumption` says that the values of variables are sequences of words, that no
variable is called `none` (which stands for no variable), that no two components whose logs are followed have one id, which the loader sees to
(`runner/loader.go:161`), and that a log has a number of lines. `WordsAssumption` says that `docker.io` has a dot and no separator is a tag
(`registry/reference.go`). `InputsAssumption` says that the bounded inputs of `MCOperator`
are members of the sets over which the theorems are stated.

### Only model-checked

- Every liveness property (`LoopsAreReaped`, `BoundedRunCompletes`, `RefusalReapsLoops`, `RunEnds`, `StartsComeToAnEnd`, `StreamsArrive`, `DeadIsNoticed`,
  `DeadStopsBeating`, `DashboardCatchesUp`): fairness and ENABLED are out of reach of the backends. Every invariant and every
  other action property of a run is a theorem.
- What a recursive definition computes for all data: the folds that clean a path or lay out a file are used in the proofs only through what they
  are applied to. Where a definition could be given as a set of places instead (the link that decides an exit code, the file that sets a value, the last secret of a
  variable), it is.
- `CancellationIsNotAFailure` and the other formulas of the findings, which are false.

## 7. What is left

1. Every invariant of a run is a theorem; every liveness property is only checked. The safety half of such an argument could be proved: that
   a step of the one goroutine of a startup, a sandbox or an expansion decreases a measure, so that
   only fairness is left to TLC.
2. That a stop request between the record of a run and the registration of its callback is lost (`runner/pipeline_runner.go:1046`), and that a live component
   which was marked once is not taken for healthy again (`api/control_plane.go:277`), are followed by the models and stated by no property, since
   no text of the repository says otherwise.
3. The network and image steps of the sandbox (`sandbox/runtime/runtime.go`), and the filters of the listings.

## 8. Not modelled, and why

- Formatting of tables and JSON, redaction and control characters (`internal/cliout`, `internal/sanitize`): character by
  character work. The text of YAML, the layout of generated files, Docker command lines.
- The server command, TLS files and flag parsing: set-up before the components above.
- The monitor (`runner/monitor.go`) is constructed only by a function nobody calls; `ProcessorResolver`,
  `translator/local.go` and `internal/drivers` are not reached either.
- The sandbox's watcher logs file events and changes nothing.
- Protocol stubs are generated, fixtures are test code. gRPC, Docker, bash, the file system and the components are external and
  modelled by the guarantees the code uses.
- Endpoints and addresses beyond the control plane's own, logging, metrics other than the one that marks a failed
  delivery, timestamps: no modelled decision depends on them. Time appears as "the TTL has passed" and "the wait has timed
  out", which may happen at any moment.
- Opening the database (time-out, file lock) and the external control plane, which is seen through its replies only.

## 9. Running

In this directory, with the TLA+ tools and TLAPS 1.4.5 installed:

    tlc -config StreamFanOut.cfg MCStreamOrchestrator.tla
    tlc -config RunSupervised.cfg MCSupervisedRun.tla
    tlapm StreamOrchestratorProofs.tla

`PROJECT.json` lists every run with its module, configuration and properties, the mutants,
the map from definitions to source lines, the findings, hazards and theorems.
