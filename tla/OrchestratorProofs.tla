--------------------------- MODULE OrchestratorProofs ---------------------------
(***************************************************************************)
(* Proofs about the two back ends that start components: ProcessOrchestra- *)
(* tor, for any set of components and any number of starts, and Container- *)
(* Orchestrator, for any set of components and any restart policies.       *)
(***************************************************************************)
EXTENDS ProcessOrchestrator, ContainerOrchestrator, TLAPS

(***************************************************************************)
(* Processes.  One invariant carries them all: LiveIsListed and            *)
(* FailureIsShown need to know that a process that is alive is still being *)
(* waited for, so that a signal reaches it and its exit comes before its   *)
(* monitor is done.                                                        *)
(***************************************************************************)
USE StartsAssumption

(* The monitor of a process that is alive has not come back from Wait. *)
LiveIsAwaited == \A s \in Starts : proc[s] = "alive" => monitor[s] = "waiting"

IInv == TypeOK /\ LiveIsAwaited /\ LiveIsListed /\ FailureIsShown

-----------------------------------------------------------------------------
(* A start is a component with a number within its bound. *)
LEMMA StartsMembership ==
  \A s : s \in Starts <=>
    \E c \in Components : \E n \in 1 .. MaxStarts[c] : s = <<c, n>>
  BY DEF Starts

(* The parts of a start. *)
LEMMA StartParts ==
  ASSUME NEW s \in Starts
  PROVE  s[1] \in Components /\ s[2] \in 1 .. MaxStarts[s[1]] /\ s = <<s[1], s[2]>>
  BY StartsMembership

(* The entry of a listed component is a start, and belongs to it. *)
LEMMA InfoIsStart ==
  ASSUME TypeOK, NEW c \in Components, Listed(c)
  PROVE  Info(c) \in Starts /\ Info(c)[1] = c
  <1>1. current[c] \in 1 .. MaxStarts[c]
    BY DEF TypeOK, Listed
  <1> QED BY <1>1, StartsMembership DEF Info

-----------------------------------------------------------------------------
LEMMA InitIInv == Init => IInv
  <1> SUFFICES ASSUME Init PROVE IInv
    OBVIOUS
  <1>1. TypeOK
    BY DEF Init, TypeOK
  <1>2. LiveIsAwaited /\ LiveIsListed /\ FailureIsShown
    BY DEF Init, LiveIsAwaited, LiveIsListed, FailureIsShown
  <1> QED BY <1>1, <1>2 DEF IInv

(* StartComponent: the entry it replaces is not running, so every process  *)
(* that is alive has been asked to stop.                                   *)
LEMMA StartIInv ==
  ASSUME IInv, NEW c \in Components, StartComponent(c)
  PROVE  IInv'
  <1> DEFINE t == <<c, current[c] + 1>>
  <1>1. /\ current[c] \in Nat /\ current[c] < MaxStarts[c] /\ MaxStarts[c] \in Nat
        /\ current' = [current EXCEPT ![c] = current[c] + 1]
    BY DEF IInv, TypeOK, StartComponent
  <1>2. t \in Starts
    BY <1>1, StartsMembership
  <1>3. /\ status' = [status EXCEPT ![t] = "running"]
        /\ proc' = [proc EXCEPT ![t] = "alive"]
        /\ monitor' = [monitor EXCEPT ![t] = "waiting"]
        /\ beat' = [beat EXCEPT ![t] = "sleeping"]
        /\ asked' = asked
    BY DEF StartComponent
  <1> HIDE DEF t
  <1>4. TypeOK'
    BY <1>1, <1>2, <1>3 DEF IInv, TypeOK
  <1>5. LiveIsAwaited'
    BY <1>2, <1>3 DEF IInv, TypeOK, LiveIsAwaited
  <1>6. FailureIsShown'
    BY <1>2, <1>3 DEF IInv, TypeOK, FailureIsShown
  <1>7. LiveIsListed'
    <2> SUFFICES ASSUME NEW s \in Starts, proc'[s] = "alive", ~asked'[s]
                 PROVE  s = Info(s[1])' /\ status'[s] = "running"
      BY DEF LiveIsListed
    <2>1. CASE s = t
      BY <1>1, <1>2, <1>3, <2>1 DEF IInv, TypeOK, Info, t
    <2>2. CASE s # t
      <3>1. proc[s] = "alive" /\ ~asked[s] /\ status'[s] = status[s]
        BY <1>2, <1>3, <2>2 DEF IInv, TypeOK
      <3>2. s = Info(s[1]) /\ status[s] = "running"
        BY <3>1 DEF IInv, LiveIsListed
      <3>3. s[1] # c
        <4> SUFFICES ASSUME s[1] = c PROVE FALSE
          OBVIOUS
        <4>1. Listed(c)
          BY <3>2, StartParts, <1>1 DEF Info, Listed
        <4> QED BY <4>1, <3>2 DEF StartComponent, MayStart
      <3>4. current'[s[1]] = current[s[1]]
        BY <1>1, <3>3, StartParts DEF IInv, TypeOK
      <3> QED BY <3>1, <3>2, <3>4 DEF Info
    <2> QED BY <2>1, <2>2
  <1> QED BY <1>4, <1>5, <1>6, <1>7 DEF IInv

(* Stopping any set of entries that have not ended: each process that is   *)
(* alive among them is waited for, hence asked; and none has failed yet.   *)
LEMMA TerminateIInv ==
  ASSUME IInv, NEW S, \A s \in S : status[s] \notin {"stopped", "failed"}, Terminate(S)
  PROVE  IInv'
  <1>1. /\ status' = [s \in Starts |-> IF s \in S THEN "stopped" ELSE status[s]]
        /\ asked' = [s \in Starts |-> asked[s] \/ (s \in S /\ monitor[s] = "waiting")]
        /\ current' = current /\ proc' = proc /\ monitor' = monitor /\ beat' = beat
    BY DEF Terminate, StatusAfterStop
  <1>2. TypeOK'
    <2>1. status' \in [Starts -> {"none", "running", "stopped", "failed"}]
      BY <1>1 DEF IInv, TypeOK
    <2>2. asked' \in [Starts -> BOOLEAN]
      BY <1>1 DEF IInv, TypeOK
    <2> QED BY <1>1, <2>1, <2>2 DEF IInv, TypeOK
  <1>3. LiveIsAwaited'
    BY <1>1 DEF IInv, LiveIsAwaited
  <1>4. LiveIsListed'
    <2> SUFFICES ASSUME NEW s \in Starts, proc[s] = "alive", ~asked'[s]
                 PROVE  s = Info(s[1]) /\ status'[s] = "running"
      BY <1>1 DEF LiveIsListed, Info
    <2>1. monitor[s] = "waiting"
      BY DEF IInv, LiveIsAwaited
    <2>2. s \notin S /\ ~asked[s]
      BY <1>1, <2>1
    <2> QED BY <1>1, <2>2 DEF IInv, LiveIsListed
  <1>5. FailureIsShown'
    BY <1>1 DEF IInv, FailureIsShown
  <1> QED BY <1>2, <1>3, <1>4, <1>5 DEF IInv

(* The processes and the goroutines. *)
LEMMA BackgroundIInv ==
  ASSUME IInv, NEW s \in Starts,
         \/ ProcessExits(s) \/ MonitorReturns(s) \/ MonitorRecords(s)
         \/ FirstBeat(s) \/ LastTick(s)
  PROVE  IInv'
  <1>1. CASE ProcessExits(s)
    <2>1. PICK how \in {"clean", "error"} : proc' = [proc EXCEPT ![s] = how]
      BY <1>1 DEF ProcessExits
    <2>2. monitor[s] = "waiting"
      BY <1>1 DEF ProcessExits, IInv, LiveIsAwaited
    <2>3. TypeOK'
      BY <1>1, <2>1 DEF ProcessExits, IInv, TypeOK
    <2>4. LiveIsAwaited' /\ LiveIsListed' /\ FailureIsShown'
      BY <1>1, <2>1, <2>2 DEF ProcessExits, IInv, TypeOK, LiveIsAwaited, LiveIsListed,
         FailureIsShown, Info
    <2> QED BY <2>3, <2>4 DEF IInv
  <1>2. CASE MonitorReturns(s)
    <2>1. TypeOK'
      BY <1>2 DEF MonitorReturns, IInv, TypeOK
    <2>2. LiveIsAwaited' /\ LiveIsListed' /\ FailureIsShown'
      BY <1>2 DEF MonitorReturns, IInv, TypeOK, LiveIsAwaited, LiveIsListed,
         FailureIsShown, Info
    <2> QED BY <2>1, <2>2 DEF IInv
  <1>3. CASE MonitorRecords(s)
    <2>1. proc[s] # "alive"
      BY <1>3 DEF MonitorRecords, IInv, LiveIsAwaited
    <2>2. TypeOK'
      BY <1>3 DEF MonitorRecords, ExitStatus, IInv, TypeOK
    <2>3. LiveIsAwaited' /\ LiveIsListed' /\ FailureIsShown'
      BY <1>3, <2>1 DEF MonitorRecords, ExitStatus, IInv, TypeOK, LiveIsAwaited,
         LiveIsListed, FailureIsShown, Info
    <2> QED BY <2>2, <2>3 DEF IInv
  <1>4. CASE FirstBeat(s) \/ LastTick(s)
    <2>1. TypeOK'
      BY <1>4 DEF FirstBeat, LastTick, IInv, TypeOK
    <2>2. LiveIsAwaited' /\ LiveIsListed' /\ FailureIsShown'
      BY <1>4 DEF FirstBeat, LastTick, IInv, LiveIsAwaited, LiveIsListed,
         FailureIsShown, Info
    <2> QED BY <2>1, <2>2 DEF IInv
  <1> QED BY <1>1, <1>2, <1>3, <1>4

LEMMA NextIInv == IInv /\ [Next]_vars => IInv'
  <1> SUFFICES ASSUME IInv, [Next]_vars PROVE IInv'
    OBVIOUS
  <1>1. CASE \E c \in Components : StartComponent(c)
    BY <1>1, StartIInv
  <1>2. ASSUME NEW c \in Components, StopComponent(c)
        PROVE  IInv'
    <2>1. \A s \in {Info(c)} : status[s] \notin {"stopped", "failed"}
      BY <1>2 DEF StopComponent, Stoppable
    <2> QED BY <1>2, <2>1, TerminateIInv DEF StopComponent
  <1>3. CASE StopAll
    <2> DEFINE S == {Info(c) : c \in {d \in Components : Stoppable(d)}}
    <2>1. \A s \in S : status[s] \notin {"stopped", "failed"}
      BY DEF Stoppable
    <2>2. Terminate(S)
      BY <1>3 DEF StopAll
    <2> HIDE DEF S
    <2> QED BY <2>1, <2>2, TerminateIInv
  <1>4. CASE \E s \in Starts :
               \/ ProcessExits(s) \/ MonitorReturns(s) \/ MonitorRecords(s)
               \/ FirstBeat(s) \/ LastTick(s)
    BY <1>4, BackgroundIInv
  <1>5. CASE UNCHANGED vars
    BY <1>5 DEF vars, IInv, TypeOK, LiveIsAwaited, LiveIsListed, FailureIsShown, Info
  <1> QED BY <1>1, <1>2, <1>3, <1>4, <1>5 DEF Next

LEMMA InvariantHolds == Spec => []IInv
  <1> QED BY InitIInv, NextIInv, PTL DEF Spec

-----------------------------------------------------------------------------
(* The types; among them, that no caller ever sees an entry in the interim *)
(* status "stopping", which is set and replaced under one lock.            *)
THEOREM TypeCorrect == Spec => []TypeOK
  <1>1. IInv => TypeOK
    BY DEF IInv
  <1> QED BY <1>1, InvariantHolds, PTL

(* A process that is alive and was never asked to stop is in the table as  *)
(* running: no order of starts, stops and exits lets StopAll miss one.     *)
THEOREM NoProcessIsLost == Spec => []LiveIsListed
  <1>1. IInv => LiveIsListed
    BY DEF IInv
  <1> QED BY <1>1, InvariantHolds, PTL

(* A process that ended with an error is shown as failed as soon as it has *)
(* been waited for, also if it was being stopped.                          *)
THEOREM FailuresAreShown == Spec => []FailureIsShown
  <1>1. IInv => FailureIsShown
    BY DEF IInv
  <1> QED BY <1>1, InvariantHolds, PTL

(* The table tells the truth about the processes, dead and alive.          *)
THEOREM TableTellsTheTruth == Spec => []TableIsTrue
  <1>1. LiveIsListed /\ FailureIsShown => TableIsTrue
    BY DEF TableIsTrue
  <1> QED BY NoProcessIsLost, FailuresAreShown, <1>1, PTL
-----------------------------------------------------------------------------
(***************************************************************************)
(* Containers.  LossesAreTold is inductive on states of the right types:   *)
(* an action that could lose a container either ends the call about it     *)
(* with an error, or leaves it listed or in the hands of the call.         *)
(***************************************************************************)
ContainersInvariant == ContainersTypeOK /\ LossesAreTold

(* The call in progress is about one component. *)
LEMMA StartingShape ==
  ASSUME NEW s \in Steps, NEW c \in Managed, calling = <<s, c>>
  PROVE \A d \in Managed : Starting(d) <=> d = c
BY DEF Starting

LEMMA NotStarting ==
  ASSUME calling = NoCall PROVE \A d \in Managed : ~Starting(d)
BY DEF Starting, NoCall, Steps

LEMMA ContainersInitial == ContainersInit => ContainersInvariant
BY DEF ContainersInit, ContainersInvariant, ContainersTypeOK, LossesAreTold, MayRun

(* Every step keeps the types. *)
LEMMA ContainersTyped == ContainersTypeOK /\ [ContainersNext]_containerVars => ContainersTypeOK'
<1> SUFFICES ASSUME ContainersTypeOK, [ContainersNext]_containerVars PROVE ContainersTypeOK'
  OBVIOUS
<1> USE DEF ContainersTypeOK, Refuse, Proceed, Steps
<1>1. ASSUME NEW c \in Managed, StartContainerComponent(c) PROVE ContainersTypeOK'
  BY <1>1 DEF StartContainerComponent
<1>2. ASSUME NEW c \in Managed, CreateContainer(c) PROVE ContainersTypeOK'
  BY <1>2 DEF CreateContainer
<1>3. ASSUME NEW c \in Managed, StartContainer(c) PROVE ContainersTypeOK'
  BY <1>3 DEF StartContainer
<1>4. ASSUME NEW c \in Managed, HandleRegistration(c) PROVE ContainersTypeOK'
  BY <1>4 DEF HandleRegistration
<1>5. ASSUME NEW c \in Managed, StopContainerComponent(c) PROVE ContainersTypeOK'
  BY <1>5 DEF StopContainerComponent, StopContainers, Told
<1>6. ASSUME NEW c \in Managed, ContainerExits(c) \/ DockerRestarts(c) PROVE ContainersTypeOK'
  BY <1>6 DEF ContainerExits, DockerRestarts
<1>7. CASE StopAllContainers
  BY <1>7 DEF StopAllContainers, StopContainers, Told
<1>8. CASE CancelRun
  BY <1>8 DEF CancelRun
<1>9. CASE UNCHANGED containerVars
  BY <1>9 DEF containerVars
<1> QED BY <1>1, <1>2, <1>3, <1>4, <1>5, <1>6, <1>7, <1>8, <1>9 DEF ContainersNext

(* A component whose container, place in the list, monitor and error an    *)
(* action leaves alone is as safe as it was, unless its call ended.        *)
Untouched(d) ==
  /\ restart' = restart /\ (runDone => runDone')
  /\ container'[d] = container[d]
  /\ (d \in listed') <=> (d \in listed)
  /\ d \in watched => d \in watched' \/ runDone'
  /\ d \in told => d \in told'
Safe(d) ==
  d \notin told =>
    /\ MayRun(d) => d \in listed \/ Starting(d)
    /\ d \in listed => d \in watched \/ runDone

LEMMA UntouchedIsSafe ==
  ASSUME NEW d \in Managed, Safe(d), Untouched(d), Starting(d) => Starting(d)' PROVE Safe(d)'
BY DEF Safe, Untouched, MayRun

-----------------------------------------------------------------------------
LEMMA ContainersStep == ContainersInvariant /\ [ContainersNext]_containerVars => ContainersInvariant'
<1> SUFFICES ASSUME ContainersTypeOK, \A d \in Managed : Safe(d), [ContainersNext]_containerVars
             PROVE ContainersTypeOK' /\ \A d \in Managed : Safe(d)'
  BY DEF ContainersInvariant, LossesAreTold, Safe
<1>0. ContainersTypeOK' BY ContainersTyped
<1> SUFFICES ASSUME NEW d \in Managed PROVE Safe(d)' BY <1>0
<1>1. ASSUME NEW c \in Managed, StartContainerComponent(c) PROVE Safe(d)'
  <2>1. ~Starting(d) BY <1>1, NotStarting DEF StartContainerComponent
  <2>2. Untouched(d)
    BY <1>1 DEF StartContainerComponent, Refuse, Proceed, Untouched
  <2> QED BY <2>1, <2>2, UntouchedIsSafe
<1>2. ASSUME NEW c \in Managed, CreateContainer(c) PROVE Safe(d)'
  <2>1. Starting(d) <=> d = c BY <1>2, StartingShape DEF CreateContainer, Steps
  <2>2. CASE d # c
    <3>1. Untouched(d)
      BY <1>2, <2>2 DEF CreateContainer, Refuse, Proceed, Untouched, ContainersTypeOK
    <3> QED BY <2>1, <2>2, <3>1, UntouchedIsSafe
  <2>3. CASE d = c /\ calling' = <<"start", c>>
    <3>1. Starting(d)' BY <2>3 DEF Starting, Steps
    <3>2. listed' = listed /\ watched' = watched /\ told' = told /\ runDone' = runDone
      BY <1>2, <2>3 DEF CreateContainer, Refuse, Proceed, NoCall
    <3> QED BY <3>1, <3>2 DEF Safe
  <2>4. CASE d = c /\ d \in told'
    BY <2>4 DEF Safe
  <2> QED BY <1>2, <2>2, <2>3, <2>4 DEF CreateContainer, Refuse, Proceed
<1>3. ASSUME NEW c \in Managed, StartContainer(c) PROVE Safe(d)'
  <2>1. Starting(d) <=> d = c BY <1>3, StartingShape DEF StartContainer, Steps
  <2>2. CASE d # c
    <3>1. Untouched(d)
      BY <1>3, <2>2 DEF StartContainer, Refuse, Proceed, Untouched, ContainersTypeOK
    <3> QED BY <2>1, <2>2, <3>1, UntouchedIsSafe
  <2>3. CASE d = c /\ calling' = <<"register", c>>
    <3>1. Starting(d)' BY <2>3 DEF Starting, Steps
    <3>2. listed' = listed /\ watched' = watched /\ told' = told /\ runDone' = runDone
      BY <1>3, <2>3 DEF StartContainer, Refuse, Proceed, NoCall
    <3> QED BY <3>1, <3>2 DEF Safe
  <2>4. CASE d = c /\ d \in told'
    BY <2>4 DEF Safe
  <2> QED BY <1>3, <2>2, <2>3, <2>4 DEF StartContainer, Refuse, Proceed
<1>4. ASSUME NEW c \in Managed, HandleRegistration(c) PROVE Safe(d)'
  <2>1. Starting(d) <=> d = c BY <1>4, StartingShape DEF HandleRegistration, Steps
  <2>2. CASE d # c
    <3>1. Untouched(d)
      BY <1>4, <2>2 DEF HandleRegistration, Refuse, Untouched
    <3> QED BY <2>1, <2>2, <3>1, UntouchedIsSafe
  <2>3. CASE d = c
    <3>1. d \in told' \/ (d \in listed' /\ d \in watched')
      BY <1>4, <2>3 DEF HandleRegistration, Refuse
    <3> QED BY <3>1 DEF Safe
  <2> QED BY <2>2, <2>3
<1>5. ASSUME NEW c \in Managed, StopContainerComponent(c) PROVE Safe(d)'
  <2>1. ~Starting(d) BY <1>5, NotStarting DEF StopContainerComponent
  <2>2. CASE d # c
    <3>1. container'[d] = container[d]
      BY <1>5, <2>2 DEF StopContainerComponent, StopContainers
    <3>2. Untouched(d)
      BY <1>5, <2>2, <3>1 DEF StopContainerComponent, StopContainers, Untouched, Told
    <3> QED BY <2>1, <3>2, UntouchedIsSafe
  <2>3. CASE d = c
    <3>1. PICK F \in SUBSET {c} : /\ StopContainers({c}, F)
                                  /\ listed' = listed \ ({c} \ F)
                                  /\ told' = (told \ {c}) \cup F
      BY <1>5 DEF StopContainerComponent, Told
    <3>2. CASE d \in F BY <3>1, <3>2 DEF Safe
    <3>3. CASE d \notin F
      <4>1. container'[d] \in {"none", "stopped"}
        BY <2>3, <3>1, <3>3 DEF StopContainers, AfterStop
      <4>2. d \notin listed' BY <2>3, <3>1, <3>3
      <4> QED BY <4>1, <4>2 DEF Safe, MayRun
    <3> QED BY <3>2, <3>3
  <2> QED BY <2>2, <2>3
<1>6. CASE StopAllContainers
  <2>1. ~Starting(d) BY <1>6, NotStarting DEF StopAllContainers
  <2>2. PICK F \in SUBSET listed : /\ StopContainers(listed, F)
                                   /\ listed' = {}
                                   /\ told' = (told \ listed) \cup F
    BY <1>6 DEF StopAllContainers, Told
  <2>3. CASE d \in F BY <2>2, <2>3 DEF Safe
  <2>4. CASE d \in listed /\ d \notin F
    <3>1. container'[d] \in {"none", "stopped"} BY <2>2, <2>4 DEF StopContainers, AfterStop
    <3> QED BY <2>2, <3>1 DEF Safe, MayRun
  <2>5. CASE d \notin listed
    <3>1. container'[d] = container[d] BY <2>2, <2>5 DEF StopContainers
    <3>2. (d \in told => d \in told') /\ d \notin listed' BY <2>2, <2>5
    <3>3. restart' = restart BY <1>6 DEF StopAllContainers
    <3> QED BY <2>1, <2>5, <3>1, <3>2, <3>3 DEF Safe, MayRun
  <2> QED BY <2>3, <2>4, <2>5
<1>7. ASSUME NEW c \in Managed, ContainerExits(c) PROVE Safe(d)'
  <2>1. Starting(d)' <=> Starting(d) BY <1>7 DEF ContainerExits, Starting
  <2>2. MayRun(d)' => MayRun(d) BY <1>7 DEF ContainerExits, MayRun, ContainersTypeOK
  <2> QED BY <1>7, <2>1, <2>2 DEF ContainerExits, Safe
<1>8. ASSUME NEW c \in Managed, DockerRestarts(c) PROVE Safe(d)'
  <2>1. Starting(d)' <=> Starting(d) BY <1>8 DEF DockerRestarts, Starting
  <2>2. MayRun(d)' => MayRun(d) BY <1>8 DEF DockerRestarts, MayRun, ContainersTypeOK
  <2> QED BY <1>8, <2>1, <2>2 DEF DockerRestarts, Safe
<1>9. CASE CancelRun
  BY <1>9, UntouchedIsSafe DEF CancelRun, Untouched, Starting
<1>10. CASE UNCHANGED containerVars
  BY <1>10, UntouchedIsSafe DEF containerVars, Untouched, Starting
<1> QED BY <1>1, <1>2, <1>3, <1>4, <1>5, <1>6, <1>7, <1>8, <1>9, <1>10 DEF ContainersNext

(* Whatever Docker refuses, and however containers end and come back, one  *)
(* that escapes StopAll or that nobody watches was reported by an error    *)
(* (docker.go:56, 102, 125).                                               *)
THEOREM ContainersLostAreTold == ContainersSpec => []LossesAreTold
<1>1. ContainersInvariant => LossesAreTold BY DEF ContainersInvariant
<1> QED BY <1>1, ContainersInitial, ContainersStep, PTL DEF ContainersSpec
===============================================================================
