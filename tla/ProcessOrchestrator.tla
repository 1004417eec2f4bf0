------------------------- MODULE ProcessOrchestrator -------------------------
(***************************************************************************)
(* Components as local processes (internal/orchestrator/process.go): the   *)
(* table of processes behind a lock, and for every start a process, a      *)
(* goroutine that waits for it and one that sends heartbeats in its name.  *)
(*                                                                         *)
(* A start is a pair <<c, n>>: the n-th start of component c.  It stands   *)
(* for the ProcessInfo that the monitor keeps a pointer to, also when the  *)
(* table has moved on.  StartComponent, StopComponent and StopAll hold the *)
(* lock from beginning to end, so each is one step.                        *)
(***************************************************************************)
EXTENDS Naturals

CONSTANTS
  Components,
  MaxStarts     \* bound: MaxStarts[c] is the number of starts of component c

ASSUME StartsAssumption == MaxStarts \in [Components -> Nat \ {0}]

Starts == UNION {{c} \X (1 .. MaxStarts[c]) : c \in Components}

VARIABLES
  current,  \* current[c]: the start in the table; 0 if there is none
  status,   \* status[s]: info.Status; "none" before the start
  proc,     \* proc[s]: the process: "none", "alive", or how it exited, "clean" or "error"
  asked,    \* asked[s]: has SIGTERM reached the process?
  monitor,  \* monitor[s]: "none", "waiting" for the process, "returned", "done"
  beat      \* beat[s]: the heartbeat goroutine: "none", "sleeping", "ticking", "gone"

vars == <<current, status, proc, asked, monitor, beat>>

TypeOK ==
  /\ current \in [Components -> Nat] /\ \A c \in Components : current[c] <= MaxStarts[c]
  /\ status \in [Starts -> {"none", "running", "stopped", "failed"}]
  /\ proc \in [Starts -> {"none", "alive", "clean", "error"}]
  /\ asked \in [Starts -> BOOLEAN]
  /\ monitor \in [Starts -> {"none", "waiting", "returned", "done"}]
  /\ beat \in [Starts -> {"none", "sleeping", "ticking", "gone"}]

Init ==
  /\ current = [c \in Components |-> 0]
  /\ status = [s \in Starts |-> "none"]
  /\ proc = [s \in Starts |-> "none"]
  /\ asked = [s \in Starts |-> FALSE]
  /\ monitor = [s \in Starts |-> "none"]
  /\ beat = [s \in Starts |-> "none"]

-----------------------------------------------------------------------------
(* The calls.                                                              *)

Info(c) == <<c, current[c]>>
Listed(c) == current[c] # 0

(* StartComponent refuses a component that is running.  If the process     *)
(* does not start, nothing changes.                                        *)
MayStart_Always(c) == TRUE \* mutant: the status is not looked at
MayStart(c) == Listed(c) => status[Info(c)] # "running"

StartComponent(c) ==
  LET s == <<c, current[c] + 1>> IN
  /\ current[c] < MaxStarts[c]
  /\ MayStart(c)
  /\ current' = [current EXCEPT ![c] = @ + 1]
  /\ status' = [status EXCEPT ![s] = "running"]
  /\ proc' = [proc EXCEPT ![s] = "alive"]
  /\ monitor' = [monitor EXCEPT ![s] = "waiting"]
  /\ beat' = [beat EXCEPT ![s] = "sleeping"]
  /\ UNCHANGED asked

(* Stopped and failed components are left alone.  SIGTERM reaches a        *)
(* process that has not been waited for; nobody waits for its effect.      *)
Stoppable(c) == Listed(c) /\ status[Info(c)] \notin {"stopped", "failed"}

StatusAfterStop_Interim == "stopping" \* mutant: the last assignment is missing
StatusAfterStop == "stopped"

Terminate(S) ==
  /\ status' = [s \in Starts |-> IF s \in S THEN StatusAfterStop ELSE status[s]]
  /\ asked' = [s \in Starts |-> asked[s] \/ (s \in S /\ monitor[s] = "waiting")]
  /\ UNCHANGED <<current, proc, monitor, beat>>

StopComponent(c) == Stoppable(c) /\ Terminate({Info(c)})

StopAll == Terminate({Info(c) : c \in {d \in Components : Stoppable(d)}})

-----------------------------------------------------------------------------
(* The goroutines and the processes.                                       *)

(* A process ends by itself or because it was asked to, in time or never.  *)
ProcessExits(s) ==
  /\ proc[s] = "alive"
  /\ \E how \in {"clean", "error"} : proc' = [proc EXCEPT ![s] = how]
  /\ UNCHANGED <<current, status, asked, monitor, beat>>

(* monitorProcess: Wait returns, and later the lock is free. *)
MonitorReturns(s) ==
  /\ monitor[s] = "waiting" /\ proc[s] # "alive"
  /\ monitor' = [monitor EXCEPT ![s] = "returned"]
  /\ UNCHANGED <<current, status, proc, asked, beat>>

ExitStatus(s) == IF proc[s] = "error" THEN "failed" ELSE "stopped"

MonitorRecords(s) ==
  /\ monitor[s] = "returned"
  /\ monitor' = [monitor EXCEPT ![s] = "done"]
  /\ status' = [status EXCEPT ![s] = ExitStatus(s)]
  /\ UNCHANGED <<current, proc, asked, beat>>

(* heartbeatProcess: gone at once if there is no connection, else a first  *)
(* heartbeat after a pause; from then on every tick looks at the           *)
(* component's entry, whichever start that is by now.                      *)
Ended_Stopped(c) == Listed(c) => status[Info(c)] = "stopped" \* mutant: failures beat on
Ended(c) == Listed(c) => status[Info(c)] \in {"stopped", "failed"}

FirstBeat(s) ==
  /\ beat[s] = "sleeping"
  /\ \E next \in {"ticking", "gone"} : beat' = [beat EXCEPT ![s] = next]
  /\ UNCHANGED <<current, status, proc, asked, monitor>>

LastTick(s) ==
  /\ beat[s] = "ticking" /\ Ended(s[1])
  /\ beat' = [beat EXCEPT ![s] = "gone"]
  /\ UNCHANGED <<current, status, proc, asked, monitor>>

-----------------------------------------------------------------------------
Next ==
  \/ \E c \in Components : StartComponent(c) \/ StopComponent(c)
  \/ StopAll
  \/ \E s \in Starts :
       ProcessExits(s) \/ MonitorReturns(s) \/ MonitorRecords(s) \/ FirstBeat(s) \/ LastTick(s)

Spec == Init /\ [][Next]_vars

(* The goroutines run.  Callers and processes are not fair: a process may  *)
(* ignore SIGTERM for ever.                                                *)
Fairness ==
  \A s \in Starts :
    /\ WF_vars(MonitorReturns(s)) /\ WF_vars(MonitorRecords(s))
    /\ WF_vars(FirstBeat(s)) /\ WF_vars(LastTick(s))

FairSpec == Spec /\ Fairness

-----------------------------------------------------------------------------
(* Whatever the order of starts, stops and exits, StopAll reaches every    *)
(* process: one that is alive and was never asked to stop is in the table, *)
(* as running ("StopAll stops all managed components", interface.go:76).   *)
LiveIsListed ==
  \A s \in Starts : proc[s] = "alive" /\ ~asked[s] => s = Info(s[1]) /\ status[s] = "running"

(* The failure of a process is not covered up: once it was waited for, its *)
(* status is failed, though a stop came before, between or after.          *)
FailureIsShown ==
  \A s \in Starts : monitor[s] = "done" /\ proc[s] = "error" => status[s] = "failed"

(* So the table tells the truth about the processes, dead and alive        *)
(* (process.go:189).                                                       *)
TableIsTrue == LiveIsListed /\ FailureIsShown

(* Heartbeats in the name of a component end when its processes have, so   *)
(* that the control plane can notice (ServiceRegistry, DeadIsNoticed):     *)
(* "This keeps control plane liveness accurate" (process.go:484).          *)
AllDead(c) == \A n \in 1 .. MaxStarts[c] : proc[c, n] # "alive"
Quiet(c) == \A n \in 1 .. MaxStarts[c] : beat[c, n] \in {"none", "gone"}
DeadStopsBeating == \A c \in Components : AllDead(c) ~> Quiet(c) \/ ~AllDead(c)
===============================================================================
