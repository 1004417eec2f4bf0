------------------------- MODULE PipelineRunnerProofs -------------------------
(***************************************************************************)
(* Proofs about PipelineRunner, for any set of operators and any choice of *)
(* the other constants.  The argument: the places Run goes through         *)
(* determine what has become of the delivery (Stages of a run), and what   *)
(* Run chooses to report is tied to what the delivery did (Reporting).     *)
(***************************************************************************)
EXTENDS PipelineRunner, TLAPS

(* Every step keeps the types.                                             *)
LEMMA TypeStep == TypeOK /\ [Next]_vars => TypeOK'
<1> SUFFICES ASSUME TypeOK, [Next]_vars PROVE TypeOK'
  OBVIOUS
<1> USE DEF TypeOK, DeliveryTypeOK, Places, Refusals
<1> USE DEF deliveryVars, flowVars, faultVars, recordVars, Goto, KeepFlow
<1>1. CASE Startup
  <2>1. CASE CreateRun BY <2>1 DEF CreateRun, RunStatus
  <2>2. CASE CreateRunFails BY <2>2 DEF CreateRunFails, RunStatus
  <2>3. CASE RegisterRunStopper BY <2>3, RunnerAssumption DEF RegisterRunStopper
  <2>4. CASE StartComponents BY <2>4 DEF StartComponents
  <2>5. CASE WaitForRegistration BY <2>5 DEF WaitForRegistration
  <2>6. CASE StartupFails BY <2>6 DEF StartupFails, RunStatus, Terminal
  <2>7. CASE WireAll BY <2>7 DEF WireAll, BeginWiring
  <2>8. CASE SkipWiring BY <2>8 DEF SkipWiring
  <2>9. CASE WireSucceeds BY <2>9 DEF WireSucceeds, Opened
  <2>10. CASE \E why \in Refusals : WireFails(why)
    BY <2>10 DEF WireFails, Refused
  <2>11. CASE Unwire BY <2>11 DEF Unwire, RunStatus, Terminal
  <2> QED BY <1>1, <2>1, <2>2, <2>3, <2>4, <2>5, <2>6, <2>7, <2>8, <2>9, <2>10, <2>11 DEF Startup
<1>2. CASE Supervise
  <2>1. CASE ReportRunning
    <3>1. [status |-> "RUNNING", failure |-> FALSE] \in Reports BY DEF Reports, RunStatus
    <3>2. PICK r \in Reports : SendReport("announce", "announcing", "select", r)
      BY <2>1, <3>1 DEF ReportRunning
    <3> QED BY <3>2 DEF SendReport
  <2>2. CASE RunningReported BY <2>2 DEF RunningReported, ReportAnswered
  <2>3. CASE SelectTerminal BY <2>3 DEF SelectTerminal, TakeVerdict
  <2>4. CASE Judge BY <2>4 DEF Judge, Outcome, RunStatus, Terminal
  <2>5. CASE SelectSignal BY <2>5 DEF SelectSignal, RunStatus, Terminal, AfterInterrupt
  <2>6. CASE SelectCancelled BY <2>6 DEF SelectCancelled, RunStatus, Terminal, AfterInterrupt
  <2>7. CASE Reap BY <2>7 DEF Reap, FinishReaping, TakeVerdict, ReapedStatus, RunStatus, Terminal, CancelDelivery
  <2>8. CASE Drain BY <2>8 DEF Drain, FinishReaping, TakeVerdict, ReapedStatus, RunStatus, Terminal
  <2>9. CASE MarkDeliveryFailure
    <3>1. marked' \in {"nobody", "unknown", "culprit", "neighbour"}
      BY <2>9 DEF MarkDeliveryFailure, Marks
    <3> QED BY <2>9, <3>1 DEF MarkDeliveryFailure
  <2>10. CASE ReportFinal BY <2>10 DEF ReportFinal, SendReport, Reports
  <2>11. CASE FinalReported BY <2>11 DEF FinalReported, ReportAnswered
  <2> QED BY <1>2, <2>1, <2>2, <2>3, <2>4, <2>5, <2>6, <2>7, <2>8, <2>9, <2>10, <2>11 DEF Supervise
<1>3. CASE Shutdown
  <2>1. CASE StopAll BY <2>1 DEF StopAll
  <2>2. CASE CancelContext BY <2>2 DEF CancelContext, CancelDelivery
  <2>3. CASE StopControlPlane BY <2>3, RunnerAssumption DEF StopControlPlane, NoHandlerRuns
  <2>4. CASE UnregisterRunStopper
    <3>1. stopper' \in BOOLEAN BY <2>4 DEF UnregisterRunStopper
    <3> QED BY <2>4, <3>1 DEF UnregisterRunStopper
  <2>5. CASE Leave BY <2>5 DEF Leave, ReturnValue
  <2> QED BY <1>3, <2>1, <2>2, <2>3, <2>4, <2>5 DEF Shutdown
<1>4. CASE VerdictArrives BY <1>4 DEF VerdictArrives, VerdictReady
<1>5. CASE DeliveryStep
  <2>1. ASSUME NEW kind \in Kinds, Break(kind) PROVE DeliveryTypeOK'
    BY <2>1, RunnerAssumption DEF Break
  <2>2. ASSUME Settle PROVE DeliveryTypeOK'
    <3>1. settled' \in BOOLEAN BY <2>2 DEF Settle
    <3> QED BY <2>2, <3>1 DEF Settle
  <2>3. ASSUME GiveVerdict PROVE DeliveryTypeOK'
    BY <2>3 DEF GiveVerdict
  <2>4. DeliveryTypeOK'
    BY <1>5, <2>1, <2>2, <2>3 DEF DeliveryStep
  <2> QED BY <1>5, <2>4 DEF DeliveryStep
<1>6. CASE ControlPlane
  <2>1. ASSUME NEW r \in reports, UpdatePipelineRun(r) PROVE TypeOK'
    BY <2>1 DEF UpdatePipelineRun, Reports
  <2>2. ASSUME NEW r \in reports, LoseReport(r) PROVE TypeOK'
    BY <2>2 DEF LoseReport
  <2>3. ASSUME NEW o \in Operators, StopWrite(o) PROVE TypeOK'
    BY <2>3 DEF StopWrite, RunStatus, Terminal
  <2> QED BY <1>6, <2>1, <2>2, <2>3 DEF ControlPlane
<1>7. CASE SendSignal BY <1>7 DEF SendSignal
<1>8. ASSUME NEW o \in Operators, StopLookup(o) PROVE TypeOK'
  BY <1>8 DEF StopLookup
<1>9. ASSUME NEW o \in Operators, Stop(o) PROVE TypeOK'
  <2>1. ctxDone' \in BOOLEAN /\ stopRequested' \in BOOLEAN /\ cancelled' \in BOOLEAN
    BY <1>9 DEF Stop, CancelDelivery
  <2> QED BY <1>9, <2>1 DEF Stop, CancelDelivery
<1>10. CASE UNCHANGED vars BY <1>10 DEF vars
<1> QED BY <1>1, <1>2, <1>3, <1>4, <1>5, <1>6, <1>7, <1>8, <1>9, <1>10 DEF Next, Runner

(* The runner is typed: no step takes a value the code's own types and     *)
(* enumerations do not have, in particular no undecided verdict is ever    *)
(* put into the one-element channel `terminal`.                            *)
THEOREM TypeCorrect == Spec => []TypeOK
<1>1. Init => TypeOK
  BY DEF Init, DeliveryInit, TypeOK, DeliveryTypeOK, Places, RunStatus
<1> QED BY <1>1, TypeStep, PTL DEF Spec

-----------------------------------------------------------------------------
(***************************************************************************)
(* The inductive invariant.                                                *)
(***************************************************************************)

(* Places before the delivery exists, places where nobody but the run's    *)
(* own context can have cancelled it, places that are reached only once    *)
(* the delivery is reaped, and places after the components were stopped.   *)
Before == {"create", "register", "launch", "await", "wire"}
Alive == Before \cup {"wiring", "announce", "announcing", "select", "judge", "reap"}
AfterStop == {"cancel", "stopcp", "unregister", "leave", "exited"}
AfterReap == AfterStop \cup {"mark", "final", "finishing", "stopall"}

(* Where Run is tells what has become of the delivery. *)
Stages ==
  /\ at \in Before => wire = "idle"
  /\ at \in Before \cup {"wiring"} => refusal = "none" /\ ~startupError
  /\ at \in Alive /\ cancelled => ctxDone
  /\ at \in AfterReap /\ wire # "idle" => verdict # "pending"
  /\ components = "stopped" => at \in AfterStop

(* What a verdict says of the delivery, and where it travels unchanged. *)
Verdicts ==
  /\ verdict = "nil" => settled \/ cancelled \/ broken = "canceled"
  /\ verdict = "error" => broken # "no"
  /\ terminal # "empty" => terminal = verdict
  /\ at = "judge" => verdict # "pending" /\ (failure <=> verdict = "error")
  /\ refusal = "canceled" => ctxDone \/ broken # "no"

(* What justifies the two statuses that judge the delivery. *)
Complete == settled \/ broken = "canceled"
Genuine == broken # "no" \/ (startupError /\ refusal # "canceled")

(* A status is chosen, sent and stored only with its justification; a      *)
(* FAILED without one is never sent, because the context is gone.          *)
Reporting ==
  /\ chosen = "COMPLETED" => Complete
  /\ chosen = "FAILED" => Genuine \/ ctxDone
  /\ \A r \in reports :
       /\ r.status = "COMPLETED" => Complete
       /\ r.status = "FAILED" => Genuine
  /\ runStatus = "COMPLETED" => Complete
  /\ runStatus = "FAILED" => Genuine

IInv == TypeOK /\ Stages /\ Verdicts /\ Reporting

(* Every step leaves Run at a place that fits the delivery's state.        *)
LEMMA StagesStep == IInv /\ [Next]_vars => Stages'
<1> SUFFICES ASSUME IInv, [Next]_vars PROVE Stages'
  OBVIOUS
<1> USE DEF IInv, Stages, Verdicts, Before, Alive, AfterReap, AfterStop, TypeOK,
      DeliveryTypeOK, deliveryVars, flowVars, faultVars, recordVars, Goto, KeepFlow
<1>1. CASE Startup
  <2>1. CASE CreateRun BY <2>1 DEF CreateRun
  <2>2. CASE CreateRunFails BY <2>2 DEF CreateRunFails
  <2>3. CASE RegisterRunStopper BY <2>3 DEF RegisterRunStopper
  <2>4. CASE StartComponents BY <2>4 DEF StartComponents
  <2>5. CASE WaitForRegistration BY <2>5 DEF WaitForRegistration
  <2>6. CASE StartupFails BY <2>6 DEF StartupFails
  <2>7. CASE WireAll BY <2>7 DEF WireAll, BeginWiring
  <2>8. CASE SkipWiring BY <2>8 DEF SkipWiring
  <2>9. CASE WireSucceeds BY <2>9 DEF WireSucceeds, Opened
  <2>10. ASSUME NEW why \in Refusals, WireFails(why) PROVE Stages'
    BY <2>10 DEF WireFails, Refused
  <2>11. CASE Unwire BY <2>11 DEF Unwire
  <2> QED BY <1>1, <2>1, <2>2, <2>3, <2>4, <2>5, <2>6, <2>7, <2>8, <2>9, <2>10, <2>11 DEF Startup
<1>2. CASE Supervise
  <2>1. CASE ReportRunning BY <2>1 DEF ReportRunning, SendReport
  <2>2. CASE RunningReported BY <2>2 DEF RunningReported, ReportAnswered
  <2>3. CASE SelectTerminal BY <2>3 DEF SelectTerminal, TakeVerdict
  <2>4. CASE Judge BY <2>4 DEF Judge, Outcome
  <2>5. CASE SelectSignal BY <2>5 DEF SelectSignal, AfterInterrupt
  <2>6. CASE SelectCancelled BY <2>6 DEF SelectCancelled, AfterInterrupt
  <2>7. CASE Reap BY <2>7 DEF Reap, FinishReaping, TakeVerdict, ReapedStatus, CancelDelivery
  <2>8. CASE Drain BY <2>8 DEF Drain, FinishReaping, TakeVerdict, ReapedStatus
  <2>9. CASE MarkDeliveryFailure BY <2>9 DEF MarkDeliveryFailure, Marks
  <2>10. CASE ReportFinal BY <2>10 DEF ReportFinal, SendReport, CanReport
  <2>11. CASE FinalReported BY <2>11 DEF FinalReported, ReportAnswered
  <2> QED BY <1>2, <2>1, <2>2, <2>3, <2>4, <2>5, <2>6, <2>7, <2>8, <2>9, <2>10, <2>11 DEF Supervise
<1>3. CASE Shutdown
  <2>1. CASE StopAll BY <2>1 DEF StopAll
  <2>2. CASE CancelContext BY <2>2 DEF CancelContext, CancelDelivery
  <2>3. CASE StopControlPlane BY <2>3 DEF StopControlPlane
  <2>4. CASE UnregisterRunStopper BY <2>4 DEF UnregisterRunStopper
  <2>5. CASE Leave BY <2>5 DEF Leave
  <2> QED BY <1>3, <2>1, <2>2, <2>3, <2>4, <2>5 DEF Shutdown
<1>4. CASE VerdictArrives BY <1>4 DEF VerdictArrives, VerdictReady
<1>5. CASE DeliveryStep BY <1>5 DEF DeliveryStep, Break, Settle, GiveVerdict
<1>6. CASE ControlPlane BY <1>6 DEF ControlPlane, UpdatePipelineRun, LoseReport, StopWrite
<1>7. CASE SendSignal BY <1>7 DEF SendSignal
<1>8. ASSUME NEW o \in Operators, StopLookup(o) PROVE Stages'
  BY <1>8 DEF StopLookup
<1>9. ASSUME NEW o \in Operators, Stop(o) PROVE Stages'
  BY <1>9 DEF Stop, CancelDelivery
<1>10. CASE UNCHANGED vars BY <1>10 DEF vars
<1> QED BY <1>1, <1>2, <1>3, <1>4, <1>5, <1>6, <1>7, <1>8, <1>9, <1>10 DEF Next, Runner

(* Every step keeps what a verdict says.                                   *)
LEMMA VerdictsStep == IInv /\ [Next]_vars => Verdicts'
<1> SUFFICES ASSUME IInv, [Next]_vars PROVE Verdicts'
  OBVIOUS
<1> USE DEF IInv, Stages, Verdicts, Before, Alive, TypeOK, DeliveryTypeOK, deliveryVars,
      flowVars, faultVars, recordVars, Goto, KeepFlow
<1>1. CASE Startup
  <2>1. CASE CreateRun BY <2>1 DEF CreateRun
  <2>2. CASE CreateRunFails BY <2>2 DEF CreateRunFails
  <2>3. CASE RegisterRunStopper BY <2>3 DEF RegisterRunStopper
  <2>4. CASE StartComponents BY <2>4 DEF StartComponents
  <2>5. CASE WaitForRegistration BY <2>5 DEF WaitForRegistration
  <2>6. CASE StartupFails BY <2>6 DEF StartupFails
  <2>7. CASE WireAll BY <2>7 DEF WireAll, BeginWiring
  <2>8. CASE SkipWiring BY <2>8 DEF SkipWiring
  <2>9. CASE WireSucceeds BY <2>9 DEF WireSucceeds, Opened
  <2>10. ASSUME NEW why \in Refusals, WireFails(why) PROVE Verdicts'
    BY <2>10 DEF WireFails, Refused
  <2>11. CASE Unwire BY <2>11 DEF Unwire
  <2> QED BY <1>1, <2>1, <2>2, <2>3, <2>4, <2>5, <2>6, <2>7, <2>8, <2>9, <2>10, <2>11 DEF Startup
<1>2. CASE Supervise
  <2>1. CASE ReportRunning BY <2>1 DEF ReportRunning, SendReport
  <2>2. CASE RunningReported BY <2>2 DEF RunningReported, ReportAnswered
  <2>3. CASE SelectTerminal BY <2>3 DEF SelectTerminal, TakeVerdict
  <2>4. CASE Judge BY <2>4 DEF Judge, Outcome
  <2>5. CASE SelectSignal BY <2>5 DEF SelectSignal, AfterInterrupt
  <2>6. CASE SelectCancelled BY <2>6 DEF SelectCancelled, AfterInterrupt
  <2>7. CASE Reap BY <2>7 DEF Reap, FinishReaping, TakeVerdict, ReapedStatus, CancelDelivery
  <2>8. CASE Drain BY <2>8 DEF Drain, FinishReaping, TakeVerdict, ReapedStatus
  <2>9. CASE MarkDeliveryFailure BY <2>9 DEF MarkDeliveryFailure, Marks
  <2>10. CASE ReportFinal BY <2>10 DEF ReportFinal, SendReport, CanReport
  <2>11. CASE FinalReported BY <2>11 DEF FinalReported, ReportAnswered
  <2> QED BY <1>2, <2>1, <2>2, <2>3, <2>4, <2>5, <2>6, <2>7, <2>8, <2>9, <2>10, <2>11 DEF Supervise
<1>3. CASE Shutdown
  <2>1. CASE StopAll BY <2>1 DEF StopAll
  <2>2. CASE CancelContext BY <2>2 DEF CancelContext, CancelDelivery
  <2>3. CASE StopControlPlane BY <2>3 DEF StopControlPlane
  <2>4. CASE UnregisterRunStopper BY <2>4 DEF UnregisterRunStopper
  <2>5. CASE Leave BY <2>5 DEF Leave
  <2> QED BY <1>3, <2>1, <2>2, <2>3, <2>4, <2>5 DEF Shutdown
<1>4. CASE VerdictArrives BY <1>4 DEF VerdictArrives, VerdictReady
<1>5. CASE DeliveryStep BY <1>5 DEF DeliveryStep, Break, Settle, GiveVerdict
<1>6. CASE ControlPlane BY <1>6 DEF ControlPlane, UpdatePipelineRun, LoseReport, StopWrite
<1>7. CASE SendSignal BY <1>7 DEF SendSignal
<1>8. ASSUME NEW o \in Operators, StopLookup(o) PROVE Verdicts'
  BY <1>8 DEF StopLookup
<1>9. ASSUME NEW o \in Operators, Stop(o) PROVE Verdicts'
  BY <1>9 DEF Stop, CancelDelivery
<1>10. CASE UNCHANGED vars BY <1>10 DEF vars
<1> QED BY <1>1, <1>2, <1>3, <1>4, <1>5, <1>6, <1>7, <1>8, <1>9, <1>10 DEF Next, Runner

(* Every step keeps the justification of what is chosen, sent and stored.  *)
LEMMA ReportingStep == IInv /\ [Next]_vars => Reporting'
<1> SUFFICES ASSUME IInv, [Next]_vars PROVE Reporting'
  OBVIOUS
<1> USE DEF IInv, Stages, Verdicts, Reporting, Complete, Genuine, Before, Alive, TypeOK,
      DeliveryTypeOK, deliveryVars, flowVars, faultVars, recordVars, Goto, KeepFlow
<1>1. CASE Startup
  <2>1. CASE CreateRun BY <2>1 DEF CreateRun
  <2>2. CASE CreateRunFails BY <2>2 DEF CreateRunFails
  <2>3. CASE RegisterRunStopper BY <2>3 DEF RegisterRunStopper
  <2>4. CASE StartComponents BY <2>4 DEF StartComponents
  <2>5. CASE WaitForRegistration BY <2>5 DEF WaitForRegistration
  <2>6. CASE StartupFails BY <2>6 DEF StartupFails
  <2>7. CASE WireAll BY <2>7 DEF WireAll, BeginWiring
  <2>8. CASE SkipWiring BY <2>8 DEF SkipWiring
  <2>9. CASE WireSucceeds BY <2>9 DEF WireSucceeds, Opened
  <2>10. ASSUME NEW why \in Refusals, WireFails(why) PROVE Reporting'
    BY <2>10 DEF WireFails, Refused
  <2>11. CASE Unwire BY <2>11 DEF Unwire
  <2> QED BY <1>1, <2>1, <2>2, <2>3, <2>4, <2>5, <2>6, <2>7, <2>8, <2>9, <2>10, <2>11 DEF Startup
<1>2. CASE Supervise
  <2>1. CASE ReportRunning BY <2>1 DEF ReportRunning, SendReport
  <2>2. CASE RunningReported BY <2>2 DEF RunningReported, ReportAnswered
  <2>3. CASE SelectTerminal BY <2>3 DEF SelectTerminal, TakeVerdict
  <2>4. CASE Judge BY <2>4 DEF Judge, Outcome
  <2>5. CASE SelectSignal BY <2>5 DEF SelectSignal, AfterInterrupt
  <2>6. CASE SelectCancelled BY <2>6 DEF SelectCancelled, AfterInterrupt
  <2>7. CASE Reap BY <2>7 DEF Reap, FinishReaping, TakeVerdict, ReapedStatus, CancelDelivery
  <2>8. CASE Drain BY <2>8 DEF Drain, FinishReaping, TakeVerdict, ReapedStatus
  <2>9. CASE MarkDeliveryFailure BY <2>9 DEF MarkDeliveryFailure, Marks
  <2>10. CASE ReportFinal BY <2>10 DEF ReportFinal, SendReport, CanReport
  <2>11. CASE FinalReported BY <2>11 DEF FinalReported, ReportAnswered
  <2> QED BY <1>2, <2>1, <2>2, <2>3, <2>4, <2>5, <2>6, <2>7, <2>8, <2>9, <2>10, <2>11 DEF Supervise
<1>3. CASE Shutdown
  <2>1. CASE StopAll BY <2>1 DEF StopAll
  <2>2. CASE CancelContext BY <2>2 DEF CancelContext, CancelDelivery
  <2>3. CASE StopControlPlane BY <2>3 DEF StopControlPlane
  <2>4. CASE UnregisterRunStopper BY <2>4 DEF UnregisterRunStopper
  <2>5. CASE Leave BY <2>5 DEF Leave
  <2> QED BY <1>3, <2>1, <2>2, <2>3, <2>4, <2>5 DEF Shutdown
<1>4. CASE VerdictArrives BY <1>4 DEF VerdictArrives, VerdictReady
<1>5. CASE DeliveryStep BY <1>5 DEF DeliveryStep, Break, Settle, GiveVerdict
<1>6. CASE ControlPlane BY <1>6 DEF ControlPlane, UpdatePipelineRun, LoseReport, StopWrite
<1>7. CASE SendSignal BY <1>7 DEF SendSignal
<1>8. ASSUME NEW o \in Operators, StopLookup(o) PROVE Reporting'
  BY <1>8 DEF StopLookup
<1>9. ASSUME NEW o \in Operators, Stop(o) PROVE Reporting'
  BY <1>9 DEF Stop, CancelDelivery
<1>10. CASE UNCHANGED vars BY <1>10 DEF vars
<1> QED BY <1>1, <1>2, <1>3, <1>4, <1>5, <1>6, <1>7, <1>8, <1>9, <1>10 DEF Next, Runner

(* A run starts in the invariant: nothing is wired, chosen or stored.      *)
LEMMA InitIInv == Init => IInv
BY DEF Init, DeliveryInit, IInv, Stages, Verdicts, Reporting, Before, Alive, AfterReap,
       AfterStop, TypeOK, DeliveryTypeOK, Places, RunStatus

(* The invariant is inductive. *)
THEOREM Invariant == Spec => []IInv
<1>1. IInv /\ [Next]_vars => IInv'
  BY TypeStep, StagesStep, VerdictsStep, ReportingStep DEF IInv
<1> QED BY InitIInv, <1>1, PTL DEF Spec

(* On every path to shutdown (a verdict, a signal, a stop request, a       *)
(* failed startup, refused wiring) Run stops its components only after all *)
(* forwarding loops were reaped (waitForTerminalOnStop).                   *)
THEOREM DeliveryReapedFirst == Spec => []ComponentsOutliveDelivery
<1>1. IInv => ComponentsOutliveDelivery
  BY DEF IInv, Stages, AfterReap, ComponentsOutliveDelivery
<1> QED BY Invariant, <1>1, PTL

(* The control plane stores COMPLETED only for a delivery that settled, or *)
(* that a component ended with the gRPC code Canceled.                     *)
THEOREM CompletedIsEarned == Spec => []CompletedMeansSettled
<1>1. IInv => CompletedMeansSettled
  BY DEF IInv, Reporting, Complete, CompletedMeansSettled
<1> QED BY Invariant, <1>1, PTL

(* The control plane stores FAILED only for a failure of the delivery or   *)
(* of the startup, never for an interruption alone.                        *)
THEOREM FailedIsEarned == Spec => []FailedMeansFailure
<1>1. IInv => FailedMeansFailure
  BY DEF IInv, Reporting, Genuine, FailedMeansFailure
<1> QED BY Invariant, <1>1, PTL

(* What the record says of the end of a run is what happened to it.        *)
THEOREM EndsEarned == Spec => []EndsAreEarned
<1>1. CompletedMeansSettled /\ FailedMeansFailure => EndsAreEarned
  BY DEF EndsAreEarned
<1> QED BY CompletedIsEarned, FailedIsEarned, <1>1, PTL
-----------------------------------------------------------------------------
(***************************************************************************)
(* What a control plane that serves every report (~Lossy) stores.          *)
(***************************************************************************)

(* Places Run reaches without having taken a verdict or a signal, and      *)
(* those it reaches once its last report has been sent.                    *)
Undecided == Before \cup {"wiring", "unwire", "announce", "announcing", "select"}
AfterReport == AfterStop \cup {"stopall"}
Recorded == at \in AfterReport \/ (at = "finishing" /\ reports = {})

(* No operator has stopped the run. *)
Quiet == \A o \in Operators : op[o] = "idle"

(* The record exists from the start; only a stop request, or Run itself at *)
(* its end, cancels the context; a stop request comes from an operator.    *)
Origins ==
  /\ runStatus = "none" <=> at = "create"
  /\ runStatus = "none" => Quiet
  /\ ctxDone => stopRequested \/ at \in AfterStop \ {"cancel"}
  /\ \A o \in Operators : call[o] # "none" => op[o] # "idle"
  /\ stopRequested => ~Quiet

(* Unless a stop request took the context away, each report is answered    *)
(* before Run goes on, and the last one is of the end that was chosen: by  *)
(* a failure, by a signal, or by a verdict without either.                 *)
Orderly ==
  /\ reports # {} => at \in {"announcing", "finishing"}
  /\ at = "announcing" => \A r \in reports : r.status = "RUNNING"
  /\ at = "finishing" => \A r \in reports : r.status = chosen /\ r.failure = failure
  /\ Recorded => runStatus \in Terminal
  /\ at \in Undecided => ~failure
  /\ at \in Undecided \cup {"judge"} => signal # "taken"
  /\ at \in {"reap", "drain"} => signal = "taken"
  /\ at \in Undecided \cup {"judge", "reap", "drain"} => ~startupError
  /\ at \in AfterReap =>
       /\ chosen \in Terminal
       /\ chosen = "FAILED" <=> failure \/ startupError
       /\ chosen = "STOPPED" => signal = "taken"
       /\ chosen = "COMPLETED" => signal # "taken"
  /\ at \in AfterReap \ {"mark"} => (failure => marked # "nobody")

(* Without an operator the record keeps what Run chose, and had no end     *)
(* before that.                                                            *)
Kept ==
  /\ Recorded => runStatus = chosen /\ (failure => runError)
  /\ ~Recorded => runStatus \notin Terminal

Returned == at = "exited" => exit = ReturnValue

Served == Origins /\ (~stopRequested => Orderly) /\ (Quiet => Kept) /\ Returned

(* Where the record, the context and stop requests come from.              *)
LEMMA OriginsStep ==
  ASSUME ~Lossy, IInv, Origins, [Next]_vars PROVE Origins'
<1> USE ~Lossy, IInv, Origins
<1> USE DEF IInv, Stages, Origins, Quiet, RunStatus, Terminal, Reports, Before, Alive,
      AfterReap, AfterStop, TypeOK, DeliveryTypeOK, deliveryVars, flowVars, faultVars,
      recordVars, Goto, KeepFlow
<1>1. CASE Startup
  <2>1. CASE CreateRun BY <2>1 DEF CreateRun
  <2>2. CASE CreateRunFails BY <2>2 DEF CreateRunFails
  <2>3. CASE RegisterRunStopper BY <2>3 DEF RegisterRunStopper
  <2>4. CASE StartComponents BY <2>4 DEF StartComponents
  <2>5. CASE WaitForRegistration BY <2>5 DEF WaitForRegistration
  <2>6. CASE StartupFails BY <2>6 DEF StartupFails
  <2>7. CASE WireAll BY <2>7 DEF WireAll, BeginWiring
  <2>8. CASE SkipWiring BY <2>8 DEF SkipWiring
  <2>9. CASE WireSucceeds BY <2>9 DEF WireSucceeds, Opened
  <2>10. ASSUME NEW why \in Refusals, WireFails(why) PROVE Origins'
    BY <2>10 DEF WireFails, Refused
  <2>11. CASE Unwire BY <2>11 DEF Unwire
  <2> QED BY <1>1, <2>1, <2>2, <2>3, <2>4, <2>5, <2>6, <2>7, <2>8, <2>9, <2>10, <2>11 DEF Startup
<1>2. CASE Supervise
  <2>1. CASE ReportRunning BY <2>1 DEF ReportRunning, SendReport, CanReport
  <2>2. CASE RunningReported BY <2>2 DEF RunningReported, ReportAnswered, Answered
  <2>3. CASE SelectTerminal BY <2>3 DEF SelectTerminal, TakeVerdict
  <2>4. CASE Judge BY <2>4 DEF Judge, Outcome
  <2>5. CASE SelectSignal BY <2>5 DEF SelectSignal, AfterInterrupt
  <2>6. CASE SelectCancelled BY <2>6 DEF SelectCancelled, AfterInterrupt
  <2>7. CASE Reap BY <2>7 DEF Reap, FinishReaping, TakeVerdict, ReapedStatus, CancelDelivery
  <2>8. CASE Drain BY <2>8 DEF Drain, FinishReaping, TakeVerdict, ReapedStatus
  <2>9. CASE MarkDeliveryFailure BY <2>9 DEF MarkDeliveryFailure, Marks
  <2>10. CASE ReportFinal BY <2>10 DEF ReportFinal, SendReport, CanReport
  <2>11. CASE FinalReported BY <2>11 DEF FinalReported, ReportAnswered, Answered
  <2> QED BY <1>2, <2>1, <2>2, <2>3, <2>4, <2>5, <2>6, <2>7, <2>8, <2>9, <2>10, <2>11 DEF Supervise
<1>3. CASE Shutdown
  <2>1. CASE StopAll BY <2>1 DEF StopAll
  <2>2. CASE CancelContext BY <2>2 DEF CancelContext, CancelDelivery
  <2>3. CASE StopControlPlane BY <2>3 DEF StopControlPlane
  <2>4. CASE UnregisterRunStopper BY <2>4 DEF UnregisterRunStopper
  <2>5. CASE Leave BY <2>5 DEF Leave, ReturnValue
  <2> QED BY <1>3, <2>1, <2>2, <2>3, <2>4, <2>5 DEF Shutdown
<1>4. CASE VerdictArrives BY <1>4 DEF VerdictArrives, VerdictReady
<1>5. CASE DeliveryStep BY <1>5 DEF DeliveryStep, Break, Settle, GiveVerdict
<1>6. CASE ControlPlane
  <2>1. ASSUME NEW r \in reports, UpdatePipelineRun(r) PROVE Origins'
    BY <2>1 DEF UpdatePipelineRun
  <2>2. ASSUME NEW r \in reports, LoseReport(r) PROVE Origins'
    BY <2>2 DEF LoseReport
  <2>3. ASSUME NEW o \in Operators, StopWrite(o) PROVE Origins'
    BY <2>3 DEF StopWrite
  <2> QED BY <1>6, <2>1, <2>2, <2>3 DEF ControlPlane
<1>7. CASE SendSignal BY <1>7 DEF SendSignal
<1>8. ASSUME NEW o \in Operators, StopLookup(o) PROVE Origins'
  BY <1>8 DEF StopLookup
<1>9. ASSUME NEW o \in Operators, Stop(o) PROVE Origins'
  BY <1>9 DEF Stop, CancelDelivery
<1>10. CASE UNCHANGED vars BY <1>10 DEF vars
<1> QED BY <1>1, <1>2, <1>3, <1>4, <1>5, <1>6, <1>7, <1>8, <1>9, <1>10 DEF Next, Runner

(* An operator's stop, once begun, is not forgotten.                       *)
LEMMA QuietStays == TypeOK /\ [Next]_vars /\ Quiet' => Quiet
<1> SUFFICES ASSUME TypeOK, [Next]_vars PROVE op' = op \/ \E o \in Operators : op'[o] # "idle"
  BY DEF Quiet
<1> USE DEF TypeOK, recordVars
<1>1. CASE Startup
  BY <1>1 DEF Startup, CreateRun, CreateRunFails, RegisterRunStopper, StartComponents,
    WaitForRegistration, StartupFails, WireAll, SkipWiring, WireSucceeds, WireFails, Unwire
<1>2. CASE Supervise
  BY <1>2 DEF Supervise, ReportRunning, SendReport, RunningReported, ReportAnswered, SelectTerminal,
    Judge, SelectSignal, SelectCancelled, Reap, FinishReaping, Drain, MarkDeliveryFailure,
    ReportFinal, FinalReported
<1>3. CASE Shutdown
  BY <1>3 DEF Shutdown, StopAll, CancelContext, StopControlPlane, UnregisterRunStopper, Leave
<1>4. CASE VerdictArrives \/ DeliveryStep \/ SendSignal \/ UNCHANGED vars
  BY <1>4 DEF VerdictArrives, DeliveryStep, SendSignal, vars
<1>5. CASE ControlPlane BY <1>5 DEF ControlPlane, UpdatePipelineRun, LoseReport, StopWrite
<1>6. ASSUME NEW o \in Operators, StopLookup(o) \/ Stop(o)
      PROVE op' = op \/ \E p \in Operators : op'[p] # "idle"
  BY <1>6 DEF StopLookup, Stop
<1> QED BY <1>1, <1>2, <1>3, <1>4, <1>5, <1>6 DEF Next, Runner

(* Every step keeps the order of the reports.                              *)
LEMMA OrderlyStep ==
  ASSUME ~Lossy, IInv, Served, [Next]_vars PROVE (~stopRequested => Orderly)'
<1> USE ~Lossy, IInv, Served
<1> USE DEF IInv, Stages, Verdicts, Served, Origins, Orderly, Recorded, AfterReport,
      Undecided, Terminal, Before, Alive, AfterReap, AfterStop, TypeOK, DeliveryTypeOK,
      deliveryVars, flowVars, faultVars, recordVars, Goto, KeepFlow
<1>1. CASE Startup
  <2>1. CASE CreateRun BY <2>1 DEF CreateRun
  <2>2. CASE CreateRunFails BY <2>2 DEF CreateRunFails
  <2>3. CASE RegisterRunStopper BY <2>3 DEF RegisterRunStopper
  <2>4. CASE StartComponents BY <2>4 DEF StartComponents
  <2>5. CASE WaitForRegistration BY <2>5 DEF WaitForRegistration
  <2>6. CASE StartupFails BY <2>6 DEF StartupFails
  <2>7. CASE WireAll BY <2>7 DEF WireAll, BeginWiring
  <2>8. CASE SkipWiring BY <2>8 DEF SkipWiring
  <2>9. CASE WireSucceeds BY <2>9 DEF WireSucceeds, Opened
  <2>10. ASSUME NEW why \in Refusals, WireFails(why) PROVE (~stopRequested => Orderly)'
    BY <2>10 DEF WireFails, Refused
  <2>11. CASE Unwire BY <2>11 DEF Unwire
  <2> QED BY <1>1, <2>1, <2>2, <2>3, <2>4, <2>5, <2>6, <2>7, <2>8, <2>9, <2>10, <2>11 DEF Startup
<1>2. CASE Supervise
  <2>1. CASE ReportRunning BY <2>1 DEF ReportRunning, SendReport, CanReport
  <2>2. CASE RunningReported BY <2>2 DEF RunningReported, ReportAnswered, Answered
  <2>3. CASE SelectTerminal BY <2>3 DEF SelectTerminal, TakeVerdict
  <2>4. CASE Judge BY <2>4 DEF Judge, Outcome
  <2>5. CASE SelectSignal BY <2>5 DEF SelectSignal, AfterInterrupt
  <2>6. CASE SelectCancelled BY <2>6 DEF SelectCancelled, AfterInterrupt
  <2>7. CASE Reap BY <2>7 DEF Reap, FinishReaping, TakeVerdict, ReapedStatus, CancelDelivery
  <2>8. CASE Drain BY <2>8 DEF Drain, FinishReaping, TakeVerdict, ReapedStatus
  <2>9. CASE MarkDeliveryFailure BY <2>9 DEF MarkDeliveryFailure, Marks
  <2>10. CASE ReportFinal
    <3> DEFINE last == [status |-> chosen, failure |-> failure]
    <3> SUFFICES ASSUME ~stopRequested PROVE Orderly'
      BY <2>10 DEF ReportFinal, SendReport
    <3>1. at = "final" /\ ~ctxDone /\ reports = {} BY <2>10 DEF ReportFinal, SendReport
    <3>2. at' = "finishing" /\ reports' = {last} BY <2>10, <3>1 DEF ReportFinal, SendReport, CanReport
    <3>3. \A r \in reports' : r.status = chosen /\ r.failure = failure BY <3>2
    <3>4. ~Recorded' BY <3>2
    <3> HIDE DEF last
    <3> QED BY <2>10, <3>1, <3>2, <3>3, <3>4 DEF ReportFinal, SendReport
  <2>11. CASE FinalReported BY <2>11 DEF FinalReported, ReportAnswered, Answered
  <2> QED BY <1>2, <2>1, <2>2, <2>3, <2>4, <2>5, <2>6, <2>7, <2>8, <2>9, <2>10, <2>11 DEF Supervise
<1>3. CASE Shutdown
  <2>1. CASE StopAll BY <2>1 DEF StopAll
  <2>2. CASE CancelContext BY <2>2 DEF CancelContext, CancelDelivery
  <2>3. CASE StopControlPlane BY <2>3 DEF StopControlPlane
  <2>4. CASE UnregisterRunStopper BY <2>4 DEF UnregisterRunStopper
  <2>5. CASE Leave BY <2>5 DEF Leave, ReturnValue
  <2> QED BY <1>3, <2>1, <2>2, <2>3, <2>4, <2>5 DEF Shutdown
<1>4. CASE VerdictArrives BY <1>4 DEF VerdictArrives, VerdictReady
<1>5. CASE DeliveryStep BY <1>5 DEF DeliveryStep, Break, Settle, GiveVerdict
<1>6. CASE ControlPlane
  <2>1. ASSUME NEW r \in reports, UpdatePipelineRun(r) PROVE (~stopRequested => Orderly)'
    BY <2>1 DEF UpdatePipelineRun
  <2>2. ASSUME NEW r \in reports, LoseReport(r) PROVE (~stopRequested => Orderly)'
    BY <2>2 DEF LoseReport
  <2>3. ASSUME NEW o \in Operators, StopWrite(o) PROVE (~stopRequested => Orderly)'
    BY <2>3 DEF StopWrite
  <2> QED BY <1>6, <2>1, <2>2, <2>3 DEF ControlPlane
<1>7. CASE SendSignal BY <1>7 DEF SendSignal
<1>8. ASSUME NEW o \in Operators, StopLookup(o) PROVE (~stopRequested => Orderly)'
  BY <1>8 DEF StopLookup
<1>9. ASSUME NEW o \in Operators, Stop(o) PROVE (~stopRequested => Orderly)'
  BY <1>9 DEF Stop, CancelDelivery
<1>10. CASE UNCHANGED vars BY <1>10 DEF vars
<1> QED BY <1>1, <1>2, <1>3, <1>4, <1>5, <1>6, <1>7, <1>8, <1>9, <1>10 DEF Next, Runner

(* Every step keeps the record of a run that nobody stops.                 *)
LEMMA KeptStep ==
  ASSUME ~Lossy, IInv, Served, [Next]_vars PROVE (Quiet => Kept)'
<1> USE ~Lossy, IInv, Served
<1> USE DEF IInv, Stages, Served, Origins, Orderly, Kept, Quiet, Recorded, AfterReport,
      Undecided, RunStatus, Terminal, Reports, Before, Alive, AfterReap, AfterStop, TypeOK,
      DeliveryTypeOK, deliveryVars, flowVars, faultVars, recordVars, Goto, KeepFlow
<1>1. CASE Startup
  <2>1. CASE CreateRun BY <2>1 DEF CreateRun
  <2>2. CASE CreateRunFails BY <2>2 DEF CreateRunFails
  <2>3. CASE RegisterRunStopper BY <2>3 DEF RegisterRunStopper
  <2>4. CASE StartComponents BY <2>4 DEF StartComponents
  <2>5. CASE WaitForRegistration BY <2>5 DEF WaitForRegistration
  <2>6. CASE StartupFails BY <2>6 DEF StartupFails
  <2>7. CASE WireAll BY <2>7 DEF WireAll, BeginWiring
  <2>8. CASE SkipWiring BY <2>8 DEF SkipWiring
  <2>9. CASE WireSucceeds BY <2>9 DEF WireSucceeds, Opened
  <2>10. ASSUME NEW why \in Refusals, WireFails(why) PROVE (Quiet => Kept)'
    BY <2>10 DEF WireFails, Refused
  <2>11. CASE Unwire BY <2>11 DEF Unwire
  <2> QED BY <1>1, <2>1, <2>2, <2>3, <2>4, <2>5, <2>6, <2>7, <2>8, <2>9, <2>10, <2>11 DEF Startup
<1>2. CASE Supervise
  <2>1. CASE ReportRunning BY <2>1 DEF ReportRunning, SendReport, CanReport
  <2>2. CASE RunningReported BY <2>2 DEF RunningReported, ReportAnswered, Answered
  <2>3. CASE SelectTerminal BY <2>3 DEF SelectTerminal, TakeVerdict
  <2>4. CASE Judge BY <2>4 DEF Judge, Outcome
  <2>5. CASE SelectSignal BY <2>5 DEF SelectSignal, AfterInterrupt
  <2>6. CASE SelectCancelled BY <2>6 DEF SelectCancelled, AfterInterrupt
  <2>7. CASE Reap BY <2>7 DEF Reap, FinishReaping, TakeVerdict, ReapedStatus, CancelDelivery
  <2>8. CASE Drain BY <2>8 DEF Drain, FinishReaping, TakeVerdict, ReapedStatus
  <2>9. CASE MarkDeliveryFailure BY <2>9 DEF MarkDeliveryFailure, Marks
  <2>10. CASE ReportFinal BY <2>10 DEF ReportFinal, SendReport, CanReport
  <2>11. CASE FinalReported BY <2>11 DEF FinalReported, ReportAnswered, Answered
  <2> QED BY <1>2, <2>1, <2>2, <2>3, <2>4, <2>5, <2>6, <2>7, <2>8, <2>9, <2>10, <2>11 DEF Supervise
<1>3. CASE Shutdown
  <2>1. CASE StopAll BY <2>1 DEF StopAll
  <2>2. CASE CancelContext BY <2>2 DEF CancelContext, CancelDelivery
  <2>3. CASE StopControlPlane BY <2>3 DEF StopControlPlane
  <2>4. CASE UnregisterRunStopper BY <2>4 DEF UnregisterRunStopper
  <2>5. CASE Leave BY <2>5 DEF Leave, ReturnValue
  <2> QED BY <1>3, <2>1, <2>2, <2>3, <2>4, <2>5 DEF Shutdown
<1>4. CASE VerdictArrives BY <1>4 DEF VerdictArrives, VerdictReady
<1>5. CASE DeliveryStep BY <1>5 DEF DeliveryStep, Break, Settle, GiveVerdict
<1>6. CASE ControlPlane
  <2>1. ASSUME NEW r \in reports, UpdatePipelineRun(r) PROVE (Quiet => Kept)'
    BY <2>1 DEF UpdatePipelineRun
  <2>2. ASSUME NEW r \in reports, LoseReport(r) PROVE (Quiet => Kept)'
    BY <2>2 DEF LoseReport
  <2>3. ASSUME NEW o \in Operators, StopWrite(o) PROVE (Quiet => Kept)'
    BY <2>3 DEF StopWrite
  <2> QED BY <1>6, <2>1, <2>2, <2>3 DEF ControlPlane
<1>7. CASE SendSignal BY <1>7 DEF SendSignal
<1>8. ASSUME NEW o \in Operators, StopLookup(o) PROVE (Quiet => Kept)'
  BY <1>8 DEF StopLookup
<1>9. ASSUME NEW o \in Operators, Stop(o) PROVE (Quiet => Kept)'
  BY <1>9 DEF Stop, CancelDelivery
<1>10. CASE UNCHANGED vars BY <1>10 DEF vars
<1> QED BY <1>1, <1>2, <1>3, <1>4, <1>5, <1>6, <1>7, <1>8, <1>9, <1>10 DEF Next, Runner

(* What Run has returned stays what it was.                                *)
LEMMA ReturnedStep ==
  ASSUME IInv, Returned, [Next]_vars PROVE Returned'
<1> USE IInv, Returned
<1> USE DEF IInv, Stages, Verdicts, Returned, ReturnValue, Before, Alive, AfterReap,
      AfterStop, TypeOK, DeliveryTypeOK, deliveryVars, flowVars, faultVars, recordVars,
      Goto, KeepFlow
<1>1. CASE Startup
  <2>1. CASE CreateRun BY <2>1 DEF CreateRun
  <2>2. CASE CreateRunFails BY <2>2 DEF CreateRunFails
  <2>3. CASE RegisterRunStopper BY <2>3 DEF RegisterRunStopper
  <2>4. CASE StartComponents BY <2>4 DEF StartComponents
  <2>5. CASE WaitForRegistration BY <2>5 DEF WaitForRegistration
  <2>6. CASE StartupFails BY <2>6 DEF StartupFails
  <2>7. CASE WireAll BY <2>7 DEF WireAll, BeginWiring
  <2>8. CASE SkipWiring BY <2>8 DEF SkipWiring
  <2>9. CASE WireSucceeds BY <2>9 DEF WireSucceeds, Opened
  <2>10. ASSUME NEW why \in Refusals, WireFails(why) PROVE Returned'
    BY <2>10 DEF WireFails, Refused
  <2>11. CASE Unwire BY <2>11 DEF Unwire
  <2> QED BY <1>1, <2>1, <2>2, <2>3, <2>4, <2>5, <2>6, <2>7, <2>8, <2>9, <2>10, <2>11 DEF Startup
<1>2. CASE Supervise
  <2>1. CASE ReportRunning BY <2>1 DEF ReportRunning, SendReport, CanReport
  <2>2. CASE RunningReported BY <2>2 DEF RunningReported, ReportAnswered, Answered
  <2>3. CASE SelectTerminal BY <2>3 DEF SelectTerminal, TakeVerdict
  <2>4. CASE Judge BY <2>4 DEF Judge, Outcome
  <2>5. CASE SelectSignal BY <2>5 DEF SelectSignal, AfterInterrupt
  <2>6. CASE SelectCancelled BY <2>6 DEF SelectCancelled, AfterInterrupt
  <2>7. CASE Reap BY <2>7 DEF Reap, FinishReaping, TakeVerdict, ReapedStatus, CancelDelivery
  <2>8. CASE Drain BY <2>8 DEF Drain, FinishReaping, TakeVerdict, ReapedStatus
  <2>9. CASE MarkDeliveryFailure BY <2>9 DEF MarkDeliveryFailure, Marks
  <2>10. CASE ReportFinal BY <2>10 DEF ReportFinal, SendReport, CanReport
  <2>11. CASE FinalReported BY <2>11 DEF FinalReported, ReportAnswered, Answered
  <2> QED BY <1>2, <2>1, <2>2, <2>3, <2>4, <2>5, <2>6, <2>7, <2>8, <2>9, <2>10, <2>11 DEF Supervise
<1>3. CASE Shutdown
  <2>1. CASE StopAll BY <2>1 DEF StopAll
  <2>2. CASE CancelContext BY <2>2 DEF CancelContext, CancelDelivery
  <2>3. CASE StopControlPlane BY <2>3 DEF StopControlPlane
  <2>4. CASE UnregisterRunStopper BY <2>4 DEF UnregisterRunStopper
  <2>5. CASE Leave BY <2>5 DEF Leave, ReturnValue
  <2> QED BY <1>3, <2>1, <2>2, <2>3, <2>4, <2>5 DEF Shutdown
<1>4. CASE VerdictArrives BY <1>4 DEF VerdictArrives, VerdictReady
<1>5. CASE DeliveryStep BY <1>5 DEF DeliveryStep, Break, Settle, GiveVerdict
<1>6. CASE ControlPlane
  <2>1. ASSUME NEW r \in reports, UpdatePipelineRun(r) PROVE Returned'
    BY <2>1 DEF UpdatePipelineRun
  <2>2. ASSUME NEW r \in reports, LoseReport(r) PROVE Returned'
    BY <2>2 DEF LoseReport
  <2>3. ASSUME NEW o \in Operators, StopWrite(o) PROVE Returned'
    BY <2>3 DEF StopWrite
  <2> QED BY <1>6, <2>1, <2>2, <2>3 DEF ControlPlane
<1>7. CASE SendSignal BY <1>7 DEF SendSignal
<1>8. ASSUME NEW o \in Operators, StopLookup(o) PROVE Returned'
  BY <1>8 DEF StopLookup
<1>9. ASSUME NEW o \in Operators, Stop(o) PROVE Returned'
  BY <1>9 DEF Stop, CancelDelivery
<1>10. CASE UNCHANGED vars BY <1>10 DEF vars
<1> QED BY <1>1, <1>2, <1>3, <1>4, <1>5, <1>6, <1>7, <1>8, <1>9, <1>10 DEF Next, Runner

LEMMA InitServed == Init => Served
BY DEF Init, DeliveryInit, Served, Origins, Orderly, Kept, Returned, Quiet, Recorded, AfterReport,
       Undecided, Before, AfterReap, AfterStop, Terminal

(* A control plane that serves every report stores the reports of Run in   *)
(* their order, and with it what Run has chosen.                           *)
THEOREM RecordsInvariant == ASSUME ~Lossy PROVE Spec => [](IInv /\ Served)
<1>1. Init => IInv /\ Served BY InitIInv, InitServed
<1>2. IInv /\ Served /\ [Next]_vars => (IInv /\ Served)'
  <2> SUFFICES ASSUME IInv, Served, [Next]_vars PROVE IInv' /\ Served' OBVIOUS
  <2>1. IInv' BY TypeStep, StagesStep, VerdictsStep, ReportingStep DEF IInv
  <2>2. Origins' BY OriginsStep DEF Served
  <2>3. (~stopRequested => Orderly)' BY OrderlyStep
  <2>4. (Quiet => Kept)' BY KeptStep
  <2>5. Returned' BY ReturnedStep DEF Served
  <2> QED BY <2>1, <2>2, <2>3, <2>4, <2>5 DEF Served
<1> QED BY <1>1, <1>2, PTL DEF Spec

(* When components are stopped, the record of a run that was not stopped   *)
(* from outside is in a terminal state (pipeline_runner.go:345).           *)
THEOREM RecordedBeforeShutdown == ASSUME ~Lossy PROVE Spec => []StatusBeforeShutdown
<1>1. IInv /\ Served => StatusBeforeShutdown
  BY DEF IInv, Stages, Served, Orderly, Recorded, AfterReport, StatusBeforeShutdown
<1> QED BY RecordsInvariant, <1>1, PTL

(* What Run returns is what the record says, a delivery failure has been   *)
(* recorded and the control plane told of the component it names, unless   *)
(* an operator stops the run.                                              *)
THEOREM ExitIsRecorded == ASSUME ~Lossy PROVE Spec => []ExitAgreesWithRecord
<1>1. IInv /\ Served => ExitAgreesWithRecord
  <2> SUFFICES ASSUME IInv, Served, at = "exited", Quiet
      PROVE /\ exit = "nil" => runStatus = "COMPLETED"
            /\ exit = "signal" => runStatus = "STOPPED"
            /\ exit = "error" => runStatus = "FAILED"
            /\ failure => runError /\ marked # "nobody"
    BY DEF ExitAgreesWithRecord, Quiet
  <2>1. ~stopRequested BY DEF Served, Origins
  <2>2. runStatus = chosen /\ (failure => runError)
    BY DEF Served, Kept, Recorded, AfterReport, AfterStop
  <2>3. /\ chosen \in Terminal
        /\ chosen = "FAILED" <=> failure \/ startupError
        /\ chosen = "STOPPED" => signal = "taken"
        /\ chosen = "COMPLETED" => signal # "taken"
        /\ failure => marked # "nobody"
    BY <2>1 DEF Served, Orderly, AfterReap, AfterStop
  <2>4. exit = ReturnValue BY DEF Served, Returned
  <2> QED BY <2>2, <2>3, <2>4 DEF ReturnValue, Terminal
<1> QED BY RecordsInvariant, <1>1, PTL

(* As long as no operator stops the run, no report overtakes another: a    *)
(* terminal status is the last one stored.                                 *)
THEOREM TerminalStatusStays == ASSUME ~Lossy PROVE Spec => TerminalStatusKept
<1>1. IInv /\ Served /\ [Next]_vars =>
        [(runStatus \in Terminal /\ \A o \in Operators : op'[o] = "idle")
           => runStatus' = runStatus]_vars
  <2> SUFFICES ASSUME IInv, Served, [Next]_vars, runStatus \in Terminal,
                      \A o \in Operators : op'[o] = "idle"
               PROVE runStatus' = runStatus
    OBVIOUS
  <2> USE DEF Served, Origins, deliveryVars, flowVars, faultVars, recordVars, Goto, KeepFlow
  <2>1. Quiet BY QuietStays DEF IInv, Quiet
  <2>2. Recorded /\ reports = {}
    BY <2>1 DEF Kept, Orderly, Recorded, AfterReport, AfterStop
  <2>3. ~CreateRun /\ ~CreateRunFails BY DEF CreateRun, CreateRunFails, Terminal
  <2>4. \A r \in reports : ~UpdatePipelineRun(r) BY <2>2
  <2>5. \A o \in Operators : ~StopWrite(o) BY <2>1 DEF StopWrite, Quiet
  <2> QED BY <2>3, <2>4, <2>5
    DEF Next, Runner, Startup, Supervise, Shutdown, ControlPlane, DeliveryStep, vars,
        RegisterRunStopper, StartComponents, WaitForRegistration, StartupFails, WireAll, SkipWiring,
        WireSucceeds, WireFails, Unwire, ReportRunning, SendReport, RunningReported, ReportAnswered,
        SelectTerminal, Judge, SelectSignal, SelectCancelled, Reap, FinishReaping, Drain,
        MarkDeliveryFailure, ReportFinal, FinalReported, StopAll, CancelContext, StopControlPlane,
        UnregisterRunStopper, Leave, VerdictArrives, LoseReport, SendSignal, StopLookup, Stop
<1> QED BY RecordsInvariant, <1>1, PTL DEF Spec, TerminalStatusKept
===============================================================================
