----------------------------- MODULE LinearPipeline -----------------------------
(***************************************************************************)
(* The simple pipeline (internal/core/pipeline.go), which                  *)
(* FLOWCTL_PIPELINE_TYPE selects: one goroutine each for the source, the   *)
(* processors and the sink, joined by two channels that Stop closes at     *)
(* once.  A source is the placeholder of the production build, which sends *)
(* nothing, or one that sends (internal/testfixtures).                     *)
(***************************************************************************)
EXTENDS Naturals, Sequences

CONSTANTS
  SourceKinds,  \* a subset of {"placeholder", "mock"}
  Capacity,     \* of the channels (100 in the code)
  EventCount    \* bound: the events of the source

VARIABLES
  kind,
  source,     \* the source goroutine: "waiting", "sending", "gone"
  emitted,    \* the events it has taken up, numbered from 1
  eventChan, msgChan,
  processor,  \* the processor goroutine: "idle", "gone", or "sending" what it holds
  held,
  sink,       \* the sink goroutine: "idle" or "gone"
  output,     \* what the sink has written
  ctxDone,    \* is the context given to Start done?
  stopping,   \* the progress of Stop: "no", "closed", "waited"
  crashed     \* has the process ended in a panic?

linearVars == <<kind, source, emitted, eventChan, msgChan, processor, held, sink, output,
                ctxDone, stopping, crashed>>

(* NewPipeline and a successful Start. *)
LinearInit ==
  /\ kind \in SourceKinds
  /\ source = "waiting" /\ emitted = 0
  /\ eventChan = <<>> /\ msgChan = <<>>
  /\ processor = "idle" /\ held = 0
  /\ sink = "idle" /\ output = <<>>
  /\ ctxDone = FALSE /\ stopping = "no" /\ crashed = FALSE

Closed == stopping # "no"
Intact == ~crashed /\ UNCHANGED <<kind, crashed>>
Crash == ~crashed /\ crashed' = TRUE

-----------------------------------------------------------------------------
(* Events: the context is looked at between two events, not while one is   *)
(* sent.                                                                   *)
TakeUp ==
  /\ source = "waiting" /\ kind = "mock" /\ emitted < EventCount
  /\ source' = "sending" /\ emitted' = emitted + 1
  /\ Intact /\ UNCHANGED <<eventChan, msgChan, processor, held, sink, output, ctxDone, stopping>>

SendEvent ==
  /\ source = "sending" /\ ~Closed /\ Len(eventChan) < Capacity
  /\ eventChan' = Append(eventChan, emitted)
  /\ source' = "waiting"
  /\ Intact /\ UNCHANGED <<emitted, msgChan, processor, held, sink, output, ctxDone, stopping>>

SendOnClosed ==
  /\ source = "sending" /\ Closed
  /\ Crash
  /\ UNCHANGED <<kind, source, emitted, eventChan, msgChan, processor, held, sink, output,
                 ctxDone, stopping>>

SourceEnds ==
  /\ source = "waiting" /\ ctxDone
  /\ source' = "gone"
  /\ Intact
  /\ UNCHANGED <<emitted, eventChan, msgChan, processor, held, sink, output, ctxDone, stopping>>

(* runProcessors: every processor is given the event, and what the last of *)
(* them returns, if anything, is sent.                                     *)
ProcessEvent ==
  /\ processor = "idle" /\ eventChan # <<>>
  /\ eventChan' = Tail(eventChan)
  /\ \/ processor' = "sending" /\ held' = Head(eventChan)
     \/ UNCHANGED <<processor, held>>
  /\ Intact /\ UNCHANGED <<source, emitted, msgChan, sink, output, ctxDone, stopping>>

SendMessage ==
  /\ processor = "sending" /\ ~Closed /\ Len(msgChan) < Capacity
  /\ msgChan' = Append(msgChan, held)
  /\ processor' = "idle"
  /\ Intact /\ UNCHANGED <<source, emitted, eventChan, held, sink, output, ctxDone, stopping>>

SendMessageOnClosed ==
  /\ processor = "sending" /\ Closed
  /\ Crash
  /\ UNCHANGED <<kind, source, emitted, eventChan, msgChan, processor, held, sink, output,
                 ctxDone, stopping>>

ProcessorEnds ==
  /\ processor = "idle" /\ (ctxDone \/ (Closed /\ eventChan = <<>>))
  /\ processor' = "gone"
  /\ Intact
  /\ UNCHANGED <<source, emitted, eventChan, msgChan, held, sink, output, ctxDone, stopping>>

(* runSink. *)
WriteMessage ==
  /\ sink = "idle" /\ msgChan # <<>>
  /\ msgChan' = Tail(msgChan)
  /\ output' = Append(output, Head(msgChan))
  /\ Intact
  /\ UNCHANGED <<source, emitted, eventChan, processor, held, sink, ctxDone, stopping>>

SinkEnds ==
  /\ sink = "idle" /\ (ctxDone \/ (Closed /\ msgChan = <<>>))
  /\ sink' = "gone"
  /\ Intact
  /\ UNCHANGED <<source, emitted, eventChan, msgChan, processor, held, output, ctxDone, stopping>>

-----------------------------------------------------------------------------
CancelContext ==
  /\ ~ctxDone /\ ctxDone' = TRUE
  /\ Intact
  /\ UNCHANGED <<source, emitted, eventChan, msgChan, processor, held, sink, output, stopping>>

CloseChannels ==
  /\ stopping = "no" /\ stopping' = "closed"
  /\ Intact
  /\ UNCHANGED <<source, emitted, eventChan, msgChan, processor, held, sink, output, ctxDone>>

WaitForGoroutines ==
  /\ stopping = "closed" /\ source = "gone" /\ processor = "gone" /\ sink = "gone"
  /\ stopping' = "waited"
  /\ Intact
  /\ UNCHANGED <<source, emitted, eventChan, msgChan, processor, held, sink, output, ctxDone>>

SourceGoroutine == SendEvent \/ SendOnClosed \/ SourceEnds
ProcessorGoroutine == ProcessEvent \/ SendMessage \/ SendMessageOnClosed \/ ProcessorEnds
SinkGoroutine == WriteMessage \/ SinkEnds

LinearNext ==
  \/ TakeUp \/ SourceGoroutine \/ ProcessorGoroutine \/ SinkGoroutine
  \/ CancelContext \/ CloseChannels \/ WaitForGoroutines

LinearSpec == LinearInit /\ [][LinearNext]_linearVars

LinearFairness ==
  /\ WF_linearVars(SourceGoroutine) /\ WF_linearVars(ProcessorGoroutine)
  /\ WF_linearVars(SinkGoroutine) /\ WF_linearVars(WaitForGoroutines)

-----------------------------------------------------------------------------
(* Once the context is done, Stop returns or a send on a closed channel    *)
(* ends the process: no goroutine is left waiting for room that nobody     *)
(* makes.                                                                  *)
LinearStopped == Closed /\ ctxDone => stopping = "waited" \/ crashed
LinearStopEnds == <>[]LinearStopped
===============================================================================
