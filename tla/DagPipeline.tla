------------------------------ MODULE DagPipeline ------------------------------
(***************************************************************************)
(* A pipeline inside the flowctl process (internal/core/pipeline_dag.go,   *)
(* dag.go): goroutines joined by channels.  A source writes to its own     *)
(* channel; for every type it declares and every processor that names it   *)
(* an adapter takes events from there; a processor has one channel and one *)
(* goroutine for each type it accepts and sends its messages to the        *)
(* channels connected for their type; every sink has one channel.          *)
(*                                                                         *)
(* The sources run under the context of the caller, adapters and           *)
(* processors under the DAG's own, the sinks under none.                   *)
(***************************************************************************)
EXTENDS Naturals, Sequences

CONSTANTS
  Topologies,  \* the pipelines considered, as records
               \*   sources, processors, sinks: sets of ids,
               \*   inputs: from processor and sink ids to sets of ids,
               \*   out: from source and processor ids to the types they declare,
               \*   emits: from processor ids to the type of their messages
  BufferSize,  \* capacity of a channel (1000 in the code)
  MaxEvents    \* bound: events of a source

VARIABLES
  topology,
  made,      \* made[s]: the events source s has sent
  running,   \* the source goroutines that have not returned
  srcChan,   \* srcChan[s]: the events in the channel of s
  adapter,   \* adapter[a]: what adapter a does, and the event it holds
  inChan,    \* inChan[w]: the messages in the input channel w
  worker,    \* worker[w]: what the goroutine of channel w does
  sinkChan,  \* sinkChan[k]: the messages in the channel of sink k
  sinkGone,  \* the sinks whose goroutine has returned
  written,   \* written[k]: what sink k was given, in that order
  dropped,   \* the events a processor failed to process
  callerDone, \* is the caller's context done?
  stop,      \* the progress of Stop: "no", "cancelled", "closed", "drained",
             \* "waited", "sinksClosed", "done"
  panicked   \* has the process ended in a panic?

dagVars == <<topology, made, running, srcChan, adapter, inChan, worker, sinkChan,
             sinkGone, written, dropped, callerDone, stop, panicked>>

-----------------------------------------------------------------------------
(* buildPipelineGraph: what is connected to what.                          *)

SourceIds == topology.sources
ProcessorIds == topology.processors
SinkIds == topology.sinks

(* determineInputEventTypes, AddProcessor: the input channels. *)
InputTypes(t, p) == UNION {t.out[i] : i \in t.inputs[p]}
InputChannelsOf(t) == UNION {{p} \X InputTypes(t, p) : p \in t.processors}
InputChannels == InputChannelsOf(topology)

(* ConnectSourceToProcessor: an adapter for each processor and type. *)
AdaptersOf(t) ==
  UNION {UNION {{<<s, p, type>> : type \in t.out[s]}
                  : s \in t.inputs[p] \cap t.sources} : p \in t.processors}
Adapters == AdaptersOf(topology)

(* Connect, ConnectProcessorToSink: where the messages of p go.  A sink    *)
(* that names a source is connected to nothing.                            *)
OutputChannels(p) ==
  LET t == topology.emits[p] IN
  IF t \notin topology.out[p] THEN {}
  ELSE {<<"in", q, t>> : q \in {x \in ProcessorIds : p \in topology.inputs[x]}}
         \cup {<<"sink", k>> : k \in {x \in SinkIds : p \in topology.inputs[x]}}

Events == SourceIds \X (1 .. MaxEvents)
Idle == [state |-> "idle"]
Sending(e, left) == [state |-> "sending", event |-> e, left |-> left]
Returned == [state |-> "returned"]

(* Start, up to its success: every goroutine is there. *)
DagInit ==
  /\ topology \in Topologies
  /\ made = [s \in SourceIds |-> 0]
  /\ running = SourceIds
  /\ srcChan = [s \in SourceIds |-> <<>>]
  /\ adapter = [a \in Adapters |-> Idle]
  /\ inChan = [w \in InputChannels |-> <<>>]
  /\ worker = [w \in InputChannels |-> Idle]
  /\ sinkChan = [k \in SinkIds |-> <<>>]
  /\ sinkGone = {}
  /\ written = [k \in SinkIds |-> <<>>]
  /\ dropped = {}
  /\ callerDone = FALSE /\ stop = "no" /\ panicked = FALSE

Stages == <<"no", "cancelled", "closed", "drained", "waited", "sinksClosed", "done">>
Reached(stage) ==
  \E i, j \in DOMAIN Stages : Stages[i] = stage /\ Stages[j] = stop /\ i <= j

(* The DAG's context is done; the source channels, the sink channels are closed. *)
DagDone == Reached("cancelled")
SourcesClosed == Reached("closed")
SinksClosed == Reached("sinksClosed")

(* A panic ends the process, and everything in it. *)
NoPanic == ~panicked /\ UNCHANGED panicked

-----------------------------------------------------------------------------
(* The source: it sends on a tick, gives up on an event that finds no room *)
(* in time, and returns when the caller's context is done.  A select with  *)
(* several ready cases takes any of them, and to send on a closed channel  *)
(* is always ready.                                                        *)

SourceSends(s) ==
  /\ s \in running /\ ~SourcesClosed
  /\ made[s] < MaxEvents /\ Len(srcChan[s]) < BufferSize
  /\ made' = [made EXCEPT ![s] = @ + 1]
  /\ srcChan' = [srcChan EXCEPT ![s] = Append(@, <<s, made[s] + 1>>)]
  /\ UNCHANGED <<topology, running, adapter, inChan, worker, sinkChan, sinkGone, written,
                 dropped, callerDone, stop>> /\ NoPanic

SourceReturns(s) ==
  /\ s \in running /\ callerDone
  /\ running' = running \ {s}
  /\ UNCHANGED <<topology, made, srcChan, adapter, inChan, worker, sinkChan, sinkGone, written,
                 dropped, callerDone, stop>> /\ NoPanic

SourcePanics(s) ==
  /\ s \in running /\ SourcesClosed
  /\ ~panicked /\ panicked' = TRUE
  /\ UNCHANGED <<topology, made, running, srcChan, adapter, inChan, worker, sinkChan, sinkGone,
                 written, dropped, callerDone, stop>>

-----------------------------------------------------------------------------
(* The adapters.                                                           *)

AdapterTakes(a) ==
  /\ adapter[a] = Idle /\ srcChan[a[1]] # <<>>
  /\ adapter' = [adapter EXCEPT ![a] = Sending(Head(srcChan[a[1]]), {})]
  /\ srcChan' = [srcChan EXCEPT ![a[1]] = Tail(@)]
  /\ UNCHANGED <<topology, made, running, inChan, worker, sinkChan, sinkGone, written,
                 dropped, callerDone, stop>> /\ NoPanic

AdapterSends_Again(a) == \* mutant: the event is not forgotten when it is sent
  LET w == <<a[2], a[3]>> IN
  /\ adapter[a].state = "sending" /\ Len(inChan[w]) < BufferSize
  /\ inChan' = [inChan EXCEPT ![w] = Append(@, adapter[a].event)]
  /\ UNCHANGED <<topology, made, running, srcChan, adapter, worker, sinkChan, sinkGone, written,
                 dropped, callerDone, stop>> /\ NoPanic

AdapterSends(a) ==
  LET w == <<a[2], a[3]>> IN
  /\ adapter[a].state = "sending" /\ Len(inChan[w]) < BufferSize
  /\ inChan' = [inChan EXCEPT ![w] = Append(@, adapter[a].event)]
  /\ adapter' = [adapter EXCEPT ![a] = Idle]
  /\ UNCHANGED <<topology, made, running, srcChan, worker, sinkChan, sinkGone, written,
                 dropped, callerDone, stop>> /\ NoPanic

(* The context is done, or the channel is closed and empty. *)
AdapterReturns(a) ==
  /\ adapter[a] # Returned /\ DagDone
  /\ adapter' = [adapter EXCEPT ![a] = Returned]
  /\ UNCHANGED <<topology, made, running, srcChan, inChan, worker, sinkChan, sinkGone, written,
                 dropped, callerDone, stop>> /\ NoPanic

-----------------------------------------------------------------------------
(* runProcessor.                                                           *)

Take(w) == inChan' = [inChan EXCEPT ![w] = Tail(@)]

(* The processor makes one message of an event, for all who want its type, *)
WorkerTakes_First(w) == \* mutant: the first connected channel only
  /\ worker[w] = Idle /\ inChan[w] # <<>>
  /\ Take(w)
  /\ LET to == OutputChannels(w[1]) IN
     worker' = [worker EXCEPT ![w] =
       IF to = {} THEN Idle ELSE Sending(Head(inChan[w]), {CHOOSE c \in to : TRUE})]
  /\ UNCHANGED <<topology, made, running, srcChan, adapter, sinkChan, sinkGone, written,
                 dropped, callerDone, stop>> /\ NoPanic

WorkerTakes(w) ==
  /\ worker[w] = Idle /\ inChan[w] # <<>>
  /\ Take(w)
  /\ worker' = [worker EXCEPT ![w] =
       IF OutputChannels(w[1]) = {} THEN Idle
       ELSE Sending(Head(inChan[w]), OutputChannels(w[1]))]
  /\ UNCHANGED <<topology, made, running, srcChan, adapter, sinkChan, sinkGone, written,
                 dropped, callerDone, stop>> /\ NoPanic

(* or fails, and the event is logged and forgotten. *)
ProcessFails(w) ==
  /\ worker[w] = Idle /\ inChan[w] # <<>>
  /\ Take(w)
  /\ dropped' = dropped \cup {Head(inChan[w])}
  /\ UNCHANGED <<topology, made, running, srcChan, adapter, worker, sinkChan, sinkGone, written,
                 callerDone, stop>> /\ NoPanic

(* One channel after the other, waiting for room in each. *)
WorkerSends(w) ==
  /\ worker[w].state = "sending" /\ ~panicked
  /\ \E c \in worker[w].left :
       /\ LET rest == worker[w].left \ {c} IN
          worker' = [worker EXCEPT ![w] = IF rest = {} THEN Idle ELSE Sending(@.event, rest)]
       /\ \/ /\ c[1] = "in" /\ Len(inChan[<<c[2], c[3]>>]) < BufferSize
             /\ inChan' = [inChan EXCEPT ![<<c[2], c[3]>>] = Append(@, worker[w].event)]
             /\ UNCHANGED <<sinkChan, panicked>>
          \/ /\ c[1] = "sink" /\ ~SinksClosed /\ Len(sinkChan[c[2]]) < BufferSize
             /\ sinkChan' = [sinkChan EXCEPT ![c[2]] = Append(@, worker[w].event)]
             /\ UNCHANGED <<inChan, panicked>>
          \/ /\ c[1] = "sink" /\ SinksClosed
             /\ panicked' = TRUE
             /\ UNCHANGED <<inChan, sinkChan>>
  /\ UNCHANGED <<topology, made, running, srcChan, adapter, sinkGone, written,
                 dropped, callerDone, stop>>

WorkerReturns(w) ==
  /\ worker[w] # Returned /\ DagDone
  /\ worker' = [worker EXCEPT ![w] = Returned]
  /\ UNCHANGED <<topology, made, running, srcChan, adapter, inChan, sinkChan, sinkGone, written,
                 dropped, callerDone, stop>> /\ NoPanic

-----------------------------------------------------------------------------
(* The sinks: until their channel is closed and empty.  An error of Write  *)
(* is logged.                                                              *)

SinkWrites(k) ==
  /\ k \notin sinkGone /\ sinkChan[k] # <<>>
  /\ sinkChan' = [sinkChan EXCEPT ![k] = Tail(@)]
  /\ written' = [written EXCEPT ![k] = Append(@, Head(sinkChan[k]))]
  /\ UNCHANGED <<topology, made, running, srcChan, adapter, inChan, worker, sinkGone,
                 dropped, callerDone, stop>> /\ NoPanic

SinkReturns(k) ==
  /\ k \notin sinkGone /\ sinkChan[k] = <<>> /\ SinksClosed
  /\ sinkGone' = sinkGone \cup {k}
  /\ UNCHANGED <<topology, made, running, srcChan, adapter, inChan, worker, sinkChan, written,
                 dropped, callerDone, stop>> /\ NoPanic

-----------------------------------------------------------------------------
(* The caller cancels its context, and calls Stop, in this order or the    *)
(* other.                                                                  *)

CancelCaller ==
  /\ ~callerDone
  /\ callerDone' = TRUE
  /\ UNCHANGED <<topology, made, running, srcChan, adapter, inChan, worker, sinkChan, sinkGone,
                 written, dropped, stop>> /\ NoPanic

StageAfter(stage) ==
  LET i == CHOOSE j \in DOMAIN Stages : Stages[j] = stage IN Stages[i + 1]

(* What Stop waits for: the sources and adapters before it closes the      *)
(* sources, the processors before it closes the sink channels.             *)
WaitsFor_NoProcessors(stage) == \* mutant: the node wait groups are forgotten
  stage = "closed" => running = {} /\ \A a \in Adapters : adapter[a] = Returned
WaitsFor(stage) ==
  /\ stage = "closed" => running = {} /\ \A a \in Adapters : adapter[a] = Returned
  /\ stage = "drained" => \A w \in InputChannels : worker[w] = Returned

CallStop ==
  /\ stop = "no"
  /\ stop' = "cancelled"
  /\ UNCHANGED <<topology, made, running, srcChan, adapter, inChan, worker, sinkChan, sinkGone,
                 written, dropped, callerDone>> /\ NoPanic

StopAdvances ==
  /\ stop \notin {"no", "done"}
  /\ WaitsFor(stop)
  /\ stop' = StageAfter(stop)
  /\ UNCHANGED <<topology, made, running, srcChan, adapter, inChan, worker, sinkChan, sinkGone,
                 written, dropped, callerDone>> /\ NoPanic

-----------------------------------------------------------------------------
SourceStep(s) == SourceSends(s) \/ SourceReturns(s) \/ SourcePanics(s)
AdapterStep(a) == AdapterTakes(a) \/ AdapterSends(a) \/ AdapterReturns(a)
WorkerStep(w) == WorkerTakes(w) \/ ProcessFails(w) \/ WorkerSends(w) \/ WorkerReturns(w)
SinkStep(k) == SinkWrites(k) \/ SinkReturns(k)

DagNext ==
  \/ \E s \in SourceIds : SourceStep(s)
  \/ \E a \in Adapters : AdapterStep(a)
  \/ \E w \in InputChannels : WorkerStep(w)
  \/ \E k \in SinkIds : SinkStep(k)
  \/ CancelCaller \/ CallStop \/ StopAdvances

DagSpec == DagInit /\ [][DagNext]_dagVars

(* Every goroutine runs; the caller may never cancel and never stop. *)
OverTopologies(F(_)) == UNION {F(t) : t \in Topologies}
AllSources == UNION {t.sources : t \in Topologies}
AllSinks == UNION {t.sinks : t \in Topologies}

DagFairness ==
  /\ WF_dagVars(StopAdvances)
  /\ \A s \in AllSources : WF_dagVars(s \in SourceIds /\ SourceStep(s))
  /\ \A k \in AllSinks : WF_dagVars(k \in SinkIds /\ SinkStep(k))
  /\ \A a \in OverTopologies(AdaptersOf) : WF_dagVars(a \in Adapters /\ AdapterStep(a))
  /\ \A w \in OverTopologies(InputChannelsOf) : WF_dagVars(w \in InputChannels /\ WorkerStep(w))

DagFairSpec == DagSpec /\ DagFairness

-----------------------------------------------------------------------------
(* Stop closes a channel only when those who send on it are gone: but for  *)
(* a source, which Stop does not wait for before it closes its channel, no *)
(* goroutine can panic.                                                    *)
OnlySourcesPanic ==
  [][panicked' # panicked => \E s \in SourceIds : SourcePanics(s)]_dagVars

(* Stop comes to an end, or a source takes the process down first          *)
(* (dag_test.go waits for it after every test).                            *)
DagStopped == stop # "no" => stop = "done" \/ panicked
StopEnds == <>[]DagStopped

(* Where the messages in a channel may come to, in one step and at last.   *)
Channels ==
  {<<"in", w[1], w[2]>> : w \in InputChannels} \cup {<<"sink", k>> : k \in SinkIds}
After(c) == IF c[1] = "in" THEN OutputChannels(c[2]) ELSE {}
LeadsTo(c) ==
  {d \in Channels : \A D \in SUBSET Channels :
     c \in D /\ (\A x \in D : After(x) \subseteq D) => d \in D}

(* One way from every channel to the sink k, and one from source s to it.  *)
OnTheWay(c, k) == <<"sink", k>> \in LeadsTo(c)
OneWay(k) ==
  \A w \in InputChannels : \A c, d \in OutputChannels(w[1]) :
    OnTheWay(c, k) /\ OnTheWay(d, k) => c = d
Entry(a) == <<"in", a[2], a[3]>>
OneEntry(s, k) ==
  \A a, b \in Adapters :
    a[1] = s /\ b[1] = s /\ OnTheWay(Entry(a), k) /\ OnTheWay(Entry(b), k) => a = b

(* A sink to which one way leads from every processor is given no event    *)
(* twice, though others may have copies of it and several adapters compete *)
(* for the events of a source; and the events of a source from which only  *)
(* one way leads to it come in the order in which they were sent           *)
(* (dag.go:190).                                                           *)
InOrder(e, f, k) ==
  e[1] # f[1] \/ e[2] < f[2] \/ (e # f /\ ~OneEntry(e[1], k))
WrittenInOrder ==
  \A k \in SinkIds : \A i, j \in DOMAIN written[k] :
    i < j => InOrder(written[k][i], written[k][j], k) \/ ~OneWay(k)

(* Without a stop, and if no messages go round in a cycle, an event that   *)
(* was sent is in the end written by every sink that one of the adapters   *)
(* of its source leads to, the one that took it, unless a processor failed *)
(* on it.  Behind the other adapters it need not arrive: where they lead   *)
(* to sinks of their own, each of these gets only its share of the events. *)
Ways(s) == {a \in Adapters : a[1] = s}
AllArrived ==
  stop = "no" => \A s \in SourceIds : Ways(s) # {} => \A n \in 1 .. made[s] :
    \/ <<s, n>> \in dropped
    \/ \E a \in Ways(s) : \A k \in SinkIds :
         OnTheWay(Entry(a), k) => \E j \in DOMAIN written[k] : written[k][j] = <<s, n>>
EventsArrive == <>[]AllArrived
===============================================================================
