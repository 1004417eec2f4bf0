------------------------- MODULE ContainerOrchestrator -------------------------
(***************************************************************************)
(* Components as Docker containers: DockerOrchestrator                     *)
(* (internal/orchestrator/docker.go) and the runner of one container       *)
(* (pkg/runner).  A call holds the orchestrator's lock from its first step *)
(* to its return; containers, the monitors and the context of the run go   *)
(* on meanwhile.  Docker is external: every command may fail, and one that *)
(* fails may have done its work.                                           *)
(***************************************************************************)
EXTENDS Naturals

CONSTANTS
  Managed,         \* the component ids
  Policies         \* restart[c] in {"no", "unless-stopped"}: the policies to consider

NoCall == <<"free">>
Steps == {"create", "start", "register"}

VARIABLES
  restart,    \* the restart policy of each component
  listed,     \* o.pipelines
  calling,    \* the StartComponent in progress: NoCall or <<step, component>>
  container,  \* "none", "created", "running", "exited", or "stopped" by docker stop
  watched,    \* the components whose health monitor runs
  told,       \* the components about which the last call answered with an error
  runDone     \* is the context of the run cancelled?

containerVars == <<restart, listed, calling, container, watched, told, runDone>>

ContainersTypeOK ==
  /\ restart \in [Managed -> Policies]
  /\ listed \subseteq Managed /\ watched \subseteq Managed /\ told \subseteq Managed
  /\ calling \in {NoCall} \cup (Steps \X Managed)
  /\ container \in [Managed -> {"none", "created", "running", "exited", "stopped"}]
  /\ runDone \in BOOLEAN

ContainersInit ==
  /\ restart \in [Managed -> Policies]
  /\ listed = {} /\ watched = {} /\ told = {}
  /\ calling = NoCall
  /\ container = [c \in Managed |-> "none"]
  /\ runDone = FALSE

-----------------------------------------------------------------------------
(* StartComponent, step by step.  An error ends it where it is: nothing of *)
(* what was done before is undone.                                         *)
Refuse(c) == calling' = NoCall /\ told' = told \cup {c}
Proceed(step, c) == calling' = <<step, c>> /\ UNCHANGED told

(* A component that is listed is refused, without a change; so is one      *)
(* whose configuration cannot be built.                                    *)
StartContainerComponent(c) ==
  /\ calling = NoCall /\ c \notin listed
  /\ Proceed("create", c) \/ Refuse(c)
  /\ UNCHANGED <<restart, listed, container, watched, runDone>>

(* The container's name is the component's, so Docker refuses a second one.*)
CreateContainer(c) ==
  /\ calling = <<"create", c>>
  /\ \/ /\ container[c] = "none" /\ ~runDone
        /\ container' = [container EXCEPT ![c] = "created"]
        /\ Proceed("start", c)
     \/ /\ \/ UNCHANGED container
           \/ container[c] = "none" /\ container' = [container EXCEPT ![c] = "created"]
        /\ Refuse(c)
  /\ UNCHANGED <<restart, listed, watched, runDone>>

StartContainer(c) ==
  /\ calling = <<"start", c>>
  /\ \/ /\ ~runDone
        /\ container' = [container EXCEPT ![c] = "running"]
        /\ Proceed("register", c)
     \/ /\ UNCHANGED container \/ container' = [container EXCEPT ![c] = "running"]
        /\ Refuse(c)
  /\ UNCHANGED <<restart, listed, watched, runDone>>

(* handleRegistration waits for the component to register itself, or       *)
(* registers it; then the monitor starts and the component is listed.      *)
HandleRegistration(c) ==
  /\ calling = <<"register", c>>
  /\ \/ /\ ~runDone
        /\ calling' = NoCall /\ told' = told \ {c}
        /\ listed' = listed \cup {c} /\ watched' = watched \cup {c}
     \/ Refuse(c) /\ UNCHANGED <<listed, watched>>
  /\ UNCHANGED <<restart, container, runDone>>

-----------------------------------------------------------------------------
(* PipelineRunner.Stop of the components of S, of which those of F fail:   *)
(* every monitor is cancelled; docker stop and docker rm follow.  When     *)
(* docker stop fails, with whatever effect, the container is not removed.  *)
AfterStop(c, failed) ==
  IF failed THEN {container[c], "stopped"} ELSE {"none", "stopped"}

StopContainers(S, F) ==
  /\ watched' = watched \ S
  /\ container' \in [Managed -> {"none", "created", "running", "exited", "stopped"}]
  /\ \A c \in Managed :
       container'[c] \in IF c \in S THEN AfterStop(c, c \in F) ELSE {container[c]}

(* A mutant: a docker stop that fails is only logged. *)
Told_Logged(F) == {}
Told(F) == F

StopContainerComponent(c) ==
  /\ calling = NoCall /\ c \in listed
  /\ \E F \in SUBSET {c} :
       /\ StopContainers({c}, F)
       /\ listed' = listed \ ({c} \ F)
       /\ told' = (told \ {c}) \cup Told(F)
  /\ UNCHANGED <<restart, calling, runDone>>

StopAllContainers ==
  /\ calling = NoCall
  /\ \E F \in SUBSET listed :
       /\ StopContainers(listed, F)
       /\ listed' = {}
       /\ told' = (told \ listed) \cup Told(F)
  /\ UNCHANGED <<restart, calling, runDone>>

-----------------------------------------------------------------------------
ContainerExits(c) ==
  /\ container[c] = "running"
  /\ container' = [container EXCEPT ![c] = "exited"]
  /\ UNCHANGED <<restart, listed, calling, watched, told, runDone>>

DockerRestarts(c) ==
  /\ container[c] = "exited" /\ restart[c] = "unless-stopped"
  /\ container' = [container EXCEPT ![c] = "running"]
  /\ UNCHANGED <<restart, listed, calling, watched, told, runDone>>

CancelRun ==
  /\ ~runDone /\ runDone' = TRUE
  /\ watched' = {}
  /\ UNCHANGED <<restart, listed, calling, container, told>>

ContainersNext ==
  \/ \E c \in Managed :
       \/ StartContainerComponent(c) \/ CreateContainer(c) \/ StartContainer(c)
       \/ HandleRegistration(c) \/ StopContainerComponent(c)
       \/ ContainerExits(c) \/ DockerRestarts(c)
  \/ StopAllContainers \/ CancelRun

ContainersSpec == ContainersInit /\ [][ContainersNext]_containerVars

-----------------------------------------------------------------------------
(* A container that may run though StopAll does not reach it, and one that *)
(* is listed but whose health nobody looks at, are never left without a    *)
(* word: the last call about them answered with an error.  Without an      *)
(* error, "StopAll stops all managed components" (interface.go:76).        *)
Starting(c) == calling \in Steps \X {c}
MayRun(c) == container[c] = "running" \/ (container[c] = "exited" /\ restart[c] = "unless-stopped")
LossesAreTold ==
  \A c \in Managed \ told :
    /\ MayRun(c) => c \in listed \/ Starting(c)
    /\ c \in listed => c \in watched \/ runDone
===============================================================================
