---------------------------- MODULE PipelineRunner ----------------------------
(***************************************************************************)
(* One `flowctl run`: PipelineRunner.Run (internal/runner/                 *)
(* pipeline_runner.go) from the creation of the run record to its return,  *)
(* together with the actors it races with: the delivery it supervises      *)
(* (DeliveryPromise), the signal handler, operators that call              *)
(* StopPipelineRun, and the control plane that stores the run record       *)
(* (internal/api/control_plane.go).                                        *)
(*                                                                         *)
(* The runner reports through RPCs made with its own context: once that    *)
(* context is cancelled it can neither send a report nor wait for one, but *)
(* a report already sent may still be applied.                             *)
(***************************************************************************)
EXTENDS DeliveryPromise, FiniteSets

CONSTANTS
  Operators,         \* operators, each of which may stop the run once
  Embedded,          \* does the runner own its control plane?
  Modes,             \* may the pipeline ask for "supervised" delivery, or opt out
                     \* of it ("registration")?
  Startable,         \* does startup always succeed?
  Kinds,             \* the delivery failures considered
  Lossy              \* may the control plane fail to serve a report?

ASSUME RunnerAssumption ==
  /\ Embedded \in BOOLEAN
  /\ Modes \subseteq {"supervised", "registration"}
  /\ Startable \in BOOLEAN /\ Lossy \in BOOLEAN
  /\ Kinds \subseteq {"error", "canceled", "echo"}

Terminal == {"COMPLETED", "FAILED", "STOPPED"}
RunStatus == {"STARTING", "RUNNING"} \cup Terminal

(* A report to the control plane: the new status, and whether it carries   *)
(* the record of a delivery failure.                                       *)
Reports == [status : RunStatus, failure : BOOLEAN]

VARIABLES
  at,           \* where Run is
  ctxDone,      \* has r.ctx been cancelled?
  stopRequested,
  signal,       \* "none", "pending" in sigChan, or "taken"
  waiter,       \* the goroutine that waits for the delivery: "none", "waiting", "sent"
  terminal,     \* its one-element channel: "empty", "nil" or "error"
  chosen,       \* shutdownStatus
  failure,      \* is there a DeliveryError to report?
  startupError, \* Run returns the error of a failed startup
  refusal,      \* "none", or why wiring was refused: one of Refusals
  components,   \* "none", "running" or "stopped"
  marked,       \* what the report of a delivery failure did: see Marks
  exit,         \* what Run returned: "none", "nil", "error" or "signal"
  cpUp,         \* does the control plane serve?
  runStatus, runError,  \* the stored run record; "none" before it exists
  reports,      \* UpdatePipelineRun requests in flight
  stopper,      \* is the run's stop callback registered?
  op,           \* op[o]: operator o's StopPipelineRun: "idle", "writing", "done"
  call          \* call[o]: the goroutine it spawned: "none", "spawned", "ran"

flowVars == <<at, ctxDone, stopRequested, signal, waiter, terminal, chosen>>
faultVars == <<failure, startupError, refusal, components, marked, exit>>
recordVars == <<cpUp, runStatus, runError, reports, stopper, op, call>>
vars == <<deliveryVars, flowVars, faultVars, recordVars>>

(* A stream to a processor or a sink cannot be opened, one from a source;  *)
(* a source has no sink; the context is done.                              *)
Refusals == {"edge", "source", "config", "canceled"}

Places ==
  {"create", "register", "launch", "await", "wire", "wiring", "unwire", "announce",
   "announcing", "select", "judge", "reap", "drain", "mark", "final", "finishing",
   "stopall", "cancel", "stopcp", "unregister", "leave", "exited"}

TypeOK ==
  /\ DeliveryTypeOK
  /\ at \in Places
  /\ ctxDone \in BOOLEAN /\ stopRequested \in BOOLEAN
  /\ signal \in {"none", "pending", "taken"}
  /\ waiter \in {"none", "waiting", "sent"}
  /\ terminal \in {"empty", "nil", "error"}
  /\ chosen \in RunStatus
  /\ failure \in BOOLEAN /\ startupError \in BOOLEAN
  /\ refusal \in {"none"} \cup Refusals
  /\ components \in {"none", "running", "stopped"}
  /\ marked \in {"nobody", "unknown", "culprit", "neighbour"}
  /\ exit \in {"none", "nil", "error", "signal"}
  /\ cpUp \in BOOLEAN
  /\ runStatus \in RunStatus \cup {"none"}
  /\ runError \in BOOLEAN
  /\ reports \subseteq Reports
  /\ stopper \in BOOLEAN
  /\ op \in [Operators -> {"idle", "writing", "done"}]
  /\ call \in [Operators -> {"none", "spawned", "ran"}]

Init ==
  /\ DeliveryInit /\ cancelled = FALSE
  /\ at = "create"
  /\ ctxDone = FALSE /\ stopRequested = FALSE
  /\ signal = "none"
  /\ waiter = "none" /\ terminal = "empty"
  /\ chosen = "STARTING"
  /\ failure = FALSE /\ startupError = FALSE /\ refusal = "none"
  /\ components = "none" /\ marked = "nobody"
  /\ exit = "none"
  /\ cpUp = TRUE
  /\ runStatus = "none" /\ runError = FALSE
  /\ reports = {}
  /\ stopper = FALSE
  /\ op = [o \in Operators |-> "idle"]
  /\ call = [o \in Operators |-> "none"]

-----------------------------------------------------------------------------
Goto(from, to) == at = from /\ at' = to

(* The rest of flowVars stays, but for the context. *)
KeepFlow == UNCHANGED <<stopRequested, signal, waiter, terminal, chosen>>

-----------------------------------------------------------------------------
(* Startup.                                                                *)

(* createPipelineRun: the record first, the stop callback afterwards, and  *)
(* only if the call succeeded.                                             *)
CreateRun ==
  /\ Goto("create", "register")
  /\ runStatus' = "STARTING"
  /\ KeepFlow /\ UNCHANGED <<deliveryVars, ctxDone, faultVars, cpUp, runError, reports, stopper, op, call>>

(* The request is lost, or only its reply. *)
CreateRunFails ==
  /\ Lossy
  /\ Goto("create", "launch")
  /\ runStatus' \in {"none", "STARTING"}
  /\ KeepFlow /\ UNCHANGED <<deliveryVars, ctxDone, faultVars, cpUp, runError, reports, stopper, op, call>>

RegisterRunStopper ==
  /\ Goto("register", "launch")
  /\ stopper' = Embedded
  /\ KeepFlow /\ UNCHANGED <<deliveryVars, ctxDone, faultVars, cpUp, runStatus, runError, reports, op, call>>

StartComponents ==
  /\ Goto("launch", "await")
  /\ components' = "running"
  /\ KeepFlow
  /\ UNCHANGED <<deliveryVars, ctxDone, failure, startupError, refusal, marked, exit, recordVars>>

WaitForRegistration ==
  /\ Goto("await", "wire")
  /\ KeepFlow /\ UNCHANGED <<deliveryVars, ctxDone, faultVars, recordVars>>

(* A component does not start, or does not register in time: the run is    *)
(* reported FAILED, without a delivery error, and shut down.               *)
StartupFails ==
  /\ ~Startable \/ ctxDone
  /\ at \in {"launch", "await"} /\ at' = "final"
  /\ chosen' = "FAILED"
  /\ startupError' = TRUE
  /\ \/ UNCHANGED components
     \/ at = "launch" /\ components' = "running"
  /\ UNCHANGED <<deliveryVars, ctxDone, stopRequested, signal, waiter, terminal,
                 failure, refusal, marked, exit, recordVars>>

WireAll ==
  /\ "supervised" \in Modes
  /\ Goto("wire", "wiring")
  /\ BeginWiring
  /\ KeepFlow /\ UNCHANGED <<ctxDone, faultVars, recordVars>>

SkipWiring ==
  /\ "registration" \in Modes
  /\ Goto("wire", "announce")
  /\ KeepFlow /\ UNCHANGED <<deliveryVars, ctxDone, faultVars, recordVars>>

(* The goroutine that will report the delivery's verdict is started. *)
WireSucceeds ==
  /\ Goto("wiring", "announce")
  /\ Opened
  /\ waiter' = "waiting"
  /\ UNCHANGED <<ctxDone, stopRequested, signal, terminal, chosen, faultVars, recordVars>>

(* A component is not registered (any longer) or its stream cannot be      *)
(* opened, a source has no sink (no DeliveryError then), or the context is *)
(* done: the runner's, or the group's after an edge already failed.        *)
WireFails(why) ==
  /\ \/ why \in Refusals \ {"canceled"} /\ ~Startable
     \/ why = "canceled" /\ (ctxDone \/ broken # "no")
  /\ Goto("wiring", "unwire")
  /\ Refused
  /\ refusal' = why
  /\ KeepFlow
  /\ UNCHANGED <<ctxDone, failure, startupError, components, marked, exit, recordVars>>

(* streamOrch.Stop() reaps the edges already started. *)
Unwire ==
  /\ verdict # "pending"
  /\ Goto("unwire", "mark")
  /\ chosen' = "FAILED"
  /\ failure' = (refusal # "config")
  /\ startupError' = TRUE
  /\ UNCHANGED <<deliveryVars, ctxDone, stopRequested, signal, waiter, terminal,
                 refusal, components, marked, exit, recordVars>>

-----------------------------------------------------------------------------
(* Reports: updateRunStatusWithError dials and calls with r.ctx, waits for *)
(* the reply, and only logs what goes wrong.                               *)

CanReport == ~ctxDone

SendReport(from, waiting, next, report) ==
  /\ at = from
  /\ \/ ~CanReport /\ at' = next /\ UNCHANGED reports
     \/ CanReport /\ at' = waiting /\ reports' = reports \cup {report}
  /\ KeepFlow
  /\ UNCHANGED <<deliveryVars, ctxDone, faultVars, cpUp, runStatus, runError, stopper, op, call>>

Answered_Async == TRUE \* mutant: the runner does not wait for the reply
Answered == reports = {} \/ ctxDone

ReportAnswered(waiting, next) ==
  /\ Answered
  /\ Goto(waiting, next)
  /\ KeepFlow /\ UNCHANGED <<deliveryVars, ctxDone, faultVars, recordVars>>

ReportRunning ==
  SendReport("announce", "announcing", "select", [status |-> "RUNNING", failure |-> FALSE])
RunningReported == ReportAnswered("announcing", "select")

ReportFinal ==
  SendReport("final", "finishing", "stopall", [status |-> chosen, failure |-> failure])
FinalReported == ReportAnswered("finishing", "stopall")

(* UpdatePipelineRun: no guard on the status it replaces; the first error  *)
(* record is kept.  A run that was never created is not found.             *)
UpdatePipelineRun(r) ==
  /\ cpUp /\ r \in reports
  /\ reports' = reports \ {r}
  /\ IF runStatus = "none" THEN UNCHANGED <<runStatus, runError>>
     ELSE runStatus' = r.status /\ runError' = (runError \/ r.failure)
  /\ UNCHANGED <<deliveryVars, flowVars, faultVars, cpUp, stopper, op, call>>

LoseReport(r) ==
  /\ r \in reports
  /\ ctxDone \/ Lossy
  /\ reports' = reports \ {r}
  /\ UNCHANGED <<deliveryVars, flowVars, faultVars, cpUp, runStatus, runError, stopper, op, call>>

-----------------------------------------------------------------------------
(* Waiting for the end.                                                    *)

(* The goroutine `terminal <- streamOrch.Wait()`. *)
VerdictReady_Early == waiter = "waiting" \* mutant: does not wait for the loops
VerdictReady_Silent == waiter = "waiting" /\ verdict = "nil" \* mutant: errors are not sent
VerdictReady == waiter = "waiting" /\ verdict # "pending"

VerdictArrives ==
  /\ VerdictReady
  /\ waiter' = "sent"
  /\ terminal' = verdict
  /\ UNCHANGED <<deliveryVars, at, ctxDone, stopRequested, signal, chosen, faultVars, recordVars>>

TakeVerdict ==
  /\ terminal # "empty"
  /\ terminal' = "empty"
  /\ failure' = (terminal = "error")
  /\ UNCHANGED <<startupError, refusal, components, marked, exit>>

SelectTerminal ==
  /\ Goto("select", "judge")
  /\ TakeVerdict
  /\ UNCHANGED <<deliveryVars, ctxDone, stopRequested, signal, waiter, chosen, recordVars>>

(* r.ctx.Err() is read after the verdict was received. *)
Outcome == IF failure THEN "FAILED" ELSE IF ctxDone THEN "STOPPED" ELSE "COMPLETED"

Judge ==
  /\ at = "judge"
  /\ chosen' = Outcome
  /\ at' = IF Outcome = "STOPPED" THEN "reap" ELSE "mark"
  /\ UNCHANGED <<deliveryVars, ctxDone, stopRequested, signal, waiter, terminal, faultVars, recordVars>>

(* Interrupted, the delivery is reaped first, unless Spec.RegistrationOnly *)
(* left it unwired.                                                        *)
AfterInterrupt_Hasty == "final" \* mutant: stops without reaping
AfterInterrupt == IF wire = "idle" THEN "final" ELSE "reap"

SelectSignal ==
  /\ Goto("select", AfterInterrupt)
  /\ signal = "pending"
  /\ signal' = "taken"
  /\ chosen' = "STOPPED"
  /\ UNCHANGED <<deliveryVars, ctxDone, stopRequested, waiter, terminal, faultVars, recordVars>>

SelectCancelled ==
  /\ Goto("select", AfterInterrupt)
  /\ ctxDone
  /\ chosen' = "STOPPED"
  /\ UNCHANGED <<deliveryVars, ctxDone, stopRequested, signal, waiter, terminal, faultVars, recordVars>>

(* waitForTerminalOnStop: take a verdict that is already there; otherwise  *)
(* cancel the delivery and wait for one.                                   *)
ReapedStatus_Interrupt == "STOPPED" \* mutant: the interrupt hides the failure
ReapedStatus_Optimistic == IF terminal = "error" THEN "FAILED" ELSE "COMPLETED" \* mutant
ReapedStatus == IF terminal = "error" THEN "FAILED" ELSE "STOPPED"

FinishReaping ==
  /\ TakeVerdict
  /\ chosen' = ReapedStatus
  /\ UNCHANGED <<deliveryVars, ctxDone, stopRequested, signal, waiter, recordVars>>

Reap_NoCancel == \* mutant: waits without cancelling
  \/ Goto("reap", "mark") /\ FinishReaping
  \/ /\ terminal = "empty"
     /\ Goto("reap", "drain")
     /\ KeepFlow /\ UNCHANGED <<deliveryVars, ctxDone, faultVars, recordVars>>

Reap ==
  \/ Goto("reap", "mark") /\ FinishReaping
  \/ /\ terminal = "empty"
     /\ Goto("reap", "drain")
     /\ CancelDelivery
     /\ KeepFlow /\ UNCHANGED <<ctxDone, faultVars, recordVars>>

Drain == Goto("drain", "mark") /\ FinishReaping

(* Whom the heartbeat marks: the component the DeliveryError names, unless *)
(* the registry does not know it.  For an edge that failed that is the     *)
(* component on which the operation failed.  But a source that cannot be   *)
(* reached is reported under its target, and so is an edge that only felt  *)
(* the cancellation.                                                       *)
Marks ==
  IF refusal \in {"none", "edge"} /\ broken # "echo" THEN {"culprit", "unknown"}
  ELSE {"culprit", "neighbour", "unknown"}

(* markDeliveryFailure dials with r.ctx, and only logs what goes wrong. *)
MarkDeliveryFailure ==
  /\ Goto("mark", "final")
  /\ \/ failure /\ ~ctxDone /\ marked' \in Marks
     \/ (~failure \/ ctxDone \/ Lossy) /\ UNCHANGED marked
  /\ KeepFlow
  /\ UNCHANGED <<deliveryVars, ctxDone, failure, startupError, refusal, components, exit, recordVars>>

-----------------------------------------------------------------------------
(* shutdown, and the deferred streamOrch.Stop.                             *)

StopAll ==
  /\ Goto("stopall", "cancel")
  /\ components' = "stopped"
  /\ KeepFlow
  /\ UNCHANGED <<deliveryVars, ctxDone, failure, startupError, refusal, marked, exit, recordVars>>

CancelContext ==
  /\ Goto("cancel", "stopcp")
  /\ ctxDone' = TRUE
  /\ CancelDelivery
  /\ KeepFlow /\ UNCHANGED <<faultVars, recordVars>>

(* GracefulStop lets the handlers that are running finish. *)
NoHandlerRuns == reports = {} /\ \A o \in Operators : op[o] # "writing"

StopControlPlane ==
  /\ Goto("stopcp", "unregister")
  /\ Embedded => NoHandlerRuns
  /\ cpUp' = ~Embedded
  /\ KeepFlow
  /\ UNCHANGED <<deliveryVars, ctxDone, faultVars, runStatus, runError, reports, stopper, op, call>>

UnregisterRunStopper ==
  /\ Goto("unregister", "leave")
  /\ stopper' = FALSE
  /\ KeepFlow
  /\ UNCHANGED <<deliveryVars, ctxDone, faultVars, cpUp, runStatus, runError, reports, op, call>>

ReturnValue ==
  IF failure \/ startupError THEN "error"
  ELSE IF signal = "taken" THEN "signal" ELSE "nil"

DeliveryReaped_Strict == verdict # "pending" \* mutant: waits for a verdict nobody gives
DeliveryReaped == wire = "idle" \/ verdict # "pending"

Leave ==
  /\ Goto("leave", "exited")
  /\ DeliveryReaped
  /\ exit' = ReturnValue
  /\ KeepFlow
  /\ UNCHANGED <<deliveryVars, ctxDone, failure, startupError, refusal, components, marked, recordVars>>

-----------------------------------------------------------------------------
(* The other actors.                                                       *)

SendSignal ==
  /\ signal = "none" /\ at # "exited"
  /\ signal' = "pending"
  /\ UNCHANGED <<deliveryVars, at, ctxDone, stopRequested, waiter, terminal, chosen, faultVars, recordVars>>

(* StopPipelineRun: look the callback up under the read lock and start it  *)
(* in a goroutine; then, whatever the run's state, store STOPPED.          *)
StopLookup(o) ==
  /\ cpUp /\ runStatus # "none"
  /\ op[o] = "idle"
  /\ op' = [op EXCEPT ![o] = "writing"]
  /\ call' = [call EXCEPT ![o] = IF stopper THEN "spawned" ELSE "none"]
  /\ UNCHANGED <<deliveryVars, flowVars, faultVars, cpUp, runStatus, runError, reports, stopper>>

StopWrite(o) ==
  /\ op[o] = "writing"
  /\ op' = [op EXCEPT ![o] = "done"]
  /\ runStatus' = "STOPPED"
  /\ UNCHANGED <<deliveryVars, flowVars, faultVars, cpUp, runError, reports, stopper, call>>

(* PipelineRunner.Stop, once. *)
Stop(o) ==
  /\ call[o] = "spawned"
  /\ call' = [call EXCEPT ![o] = "ran"]
  /\ stopRequested' = TRUE
  /\ IF stopRequested THEN UNCHANGED <<ctxDone, deliveryVars>>
     ELSE ctxDone' = TRUE /\ CancelDelivery
  /\ UNCHANGED <<at, signal, waiter, terminal, chosen, faultVars, cpUp, runStatus, runError,
                 reports, stopper, op>>

(* Delivery goes on by itself. *)
DeliveryStep ==
  /\ (\E kind \in Kinds : Break(kind)) \/ Settle \/ GiveVerdict
  /\ UNCHANGED <<flowVars, faultVars, recordVars>>

-----------------------------------------------------------------------------
Startup ==
  \/ CreateRun \/ CreateRunFails \/ RegisterRunStopper \/ StartComponents
  \/ WaitForRegistration \/ StartupFails \/ WireAll \/ SkipWiring \/ WireSucceeds
  \/ (\E why \in Refusals : WireFails(why)) \/ Unwire

Supervise ==
  \/ ReportRunning \/ RunningReported \/ SelectTerminal \/ Judge \/ SelectSignal
  \/ SelectCancelled \/ Reap \/ Drain \/ MarkDeliveryFailure \/ ReportFinal \/ FinalReported

Shutdown == StopAll \/ CancelContext \/ StopControlPlane \/ UnregisterRunStopper \/ Leave

Runner == Startup \/ Supervise \/ Shutdown

ControlPlane ==
  \/ \E r \in reports : UpdatePipelineRun(r) \/ LoseReport(r)
  \/ \E o \in Operators : StopWrite(o)

Next ==
  \/ Runner \/ VerdictArrives \/ DeliveryStep \/ ControlPlane \/ SendSignal
  \/ \E o \in Operators : StopLookup(o) \/ Stop(o)

Spec == Init /\ [][Next]_vars

(* Goroutines run and RPC handlers finish; Wait returns once it can, as    *)
(* StreamOrchestrator shows it does after a cancellation or a failure.     *)
(* Signals, operators, and what the delivery meets are not fair.           *)
Fairness ==
  /\ WF_vars(Runner) /\ WF_vars(VerdictArrives) /\ WF_vars(ControlPlane)
  /\ WF_vars(GiveVerdict /\ UNCHANGED <<flowVars, faultVars, recordVars>>)
  /\ \A o \in Operators : WF_vars(Stop(o))

FairSpec == Spec /\ Fairness

-----------------------------------------------------------------------------
(* "never stop components with delivery workers still running"             *)
(* (pipeline_runner.go:373): on every path to shutdown, StopAll comes      *)
(* after all forwarding loops have been reaped.                            *)
ComponentsOutliveDelivery ==
  components = "stopped" /\ wire # "idle" => verdict # "pending"

(* COMPLETED is stored only for a delivery that settled: every edge closed *)
(* and every sink acknowledged what it was sent.  The exception is a       *)
(* component that reports the gRPC code Canceled (StreamOrchestrator,      *)
(* NilMeansDelivered).                                                     *)
CompletedMeansSettled == runStatus = "COMPLETED" => settled \/ broken = "canceled"

(* FAILED is stored only for a failure: "On interruption or `pipelines     *)
(* stop`, the run is stopped rather than failed" (README.md:116).  Wiring  *)
(* that a stop request interrupts ends in the FAILED branch of Run, whose  *)
(* report the cancelled context then suppresses.                           *)
FailedMeansFailure ==
  runStatus = "FAILED" => broken # "no" \/ (startupError /\ refusal # "canceled")

(* So what the record says of an end is what happened to the delivery      *)
(* (pipeline_runner.go:345).                                               *)
EndsAreEarned == CompletedMeansSettled /\ FailedMeansFailure

(* "Update run status before shutdown" (pipeline_runner.go:345): when the  *)
(* components stop, the record is in a terminal state, unless a stop       *)
(* request took away the context the report needs.                         *)
StatusBeforeShutdown ==
  components = "stopped" /\ runStatus # "none" /\ ~stopRequested => runStatus \in Terminal

(* Without operators, what Run returns and what the record says agree.  A  *)
(* delivery failure has been recorded, and the control plane has been told *)
(* of the component it names: it marked that one or did not know it.  That *)
(* one need not be the one that failed (Marks).                            *)
ExitAgreesWithRecord ==
  at = "exited" /\ runStatus # "none" /\ (\A o \in Operators : op[o] = "idle") =>
    /\ exit = "nil" => runStatus = "COMPLETED"
    /\ exit = "signal" => runStatus = "STOPPED"
    /\ exit = "error" => runStatus = "FAILED"
    /\ failure => runError /\ marked # "nobody"

(* No report overtakes another: as long as no operator stops the run, a    *)
(* terminal status is the last one stored.                                 *)
TerminalStatusKept ==
  [][(runStatus \in Terminal /\ \A o \in Operators : op'[o] = "idle")
       => runStatus' = runStatus]_vars

(* A signal, at whatever moment of the run, ends it, unless a stop request *)
(* interferes (StopEndsRun).                                               *)
SignalEndsRun == signal = "pending" ~> (at = "exited" \/ stopRequested)

(* So does the delivery's verdict.                                         *)
VerdictEndsRun == verdict # "pending" ~> at = "exited" \/ stopRequested

(* "A source, processor, or sink delivery failure marks the run failed and *)
(* exits nonzero" (README.md:113).                                         *)
FailureIsRecorded == at = "exited" /\ verdict = "error" => runError

(* A stop request whose callback ran ends the run: "Stop requests graceful *)
(* shutdown of the running pipeline" (pipeline_runner.go:1055).            *)
StopEndsRun == (\E o \in Operators : call[o] = "ran") ~> at = "exited"

(* The same where no delivery is supervised.                               *)
StopEndsUnsupervisedRun ==
  (\E o \in Operators : call[o] = "ran") ~> at = "exited" \/ wire # "idle"
===============================================================================
