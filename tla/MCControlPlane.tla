---------------------------- MODULE MCControlPlane ----------------------------
(* What the control plane keeps, and who asks it: the services it registers    *)
(* (ServiceRegistry), the chunks that components report (ChunkRuns), the runs  *)
(* an operator's commands look up (RunCommands), the transactions of its       *)
(* storage (ServiceStorage) and the dashboard (Dashboard).  A behaviour is of  *)
(* one of these parts: the others stay in an initial state.                    *)
EXTENDS MCServiceRegistry, ChunkRuns, RunCommands, ServiceStorage

VARIABLES
  part,
  \* Dashboard
  version, reachable, fetches, displayed, quitting

dashboardVars == <<version, reachable, fetches, displayed, quitting>>
idleVars == <<part, vars, chunkVars, runVars, storageVars, dashboardVars>>

(* Two workers on one range of ledgers, the first twice; over a database the   *)
(* second of them may be a retry of the first, with an attempt of its own.     *)
TwoReporters == {"r1", "r2"}
OneRange == {"range"}
SameRange == [r \in TwoReporters |-> "range"]
ReportCounts == [r \in TwoReporters |-> IF r = "r1" THEN 2 ELSE 1]
Attempts == {[r \in TwoReporters |-> IF r = "r1" THEN 0 ELSE 1],
             [r \in TwoReporters |-> IF r = "r1" THEN 1 ELSE 2]}

(* The helpers are called with empty maps; a component reports its details by  *)
(* itself, and says "verified" without any evidence.                           *)
NoDetails == {{}}
BareUpdates == {[status |-> "running", facts |-> {"details"}], [status |-> "verified", facts |-> {}]}

(* Three runs, two of which have a prefix in common; one prefix is a whole id. *)
ThreeRuns == <<<<1, 1>>, <<1, 2>>, <<2, 1>>>>
Typed == {<<1>>, <<2>>, <<2, 1>>}

Screen == INSTANCE Dashboard WITH Slots <- {1, 2}, MaxChanges <- 2, shown <- displayed

-----------------------------------------------------------------------------
ControlPlaneInit ==
  /\ part \in {"registry", "chunks", "commands", "storage", "dashboard"}
  /\ Init /\ (part = "registry" \/ (size = 1 /\ storage = "reliable"))
  /\ ChunkInit /\ (part = "chunks" \/ attempt["r1"] = 0) /\ (attempt["r1"] = 0 \/ durable)
  /\ part = "chunks" \/ durable
  /\ RunInit /\ (part = "commands" \/ database)
  /\ StorageInit /\ (part = "storage" \/ backend = "bolt")
  /\ Screen!DashboardInit
  /\ part = "dashboard" \/ (reachable /\ fetches[1] = Screen!Dialing)

ControlPlaneNext ==
  \/ /\ UNCHANGED part
     /\ IF part = "registry" THEN Next ELSE UNCHANGED vars
     /\ IF part = "chunks" THEN ChunkNext ELSE UNCHANGED chunkVars
     /\ IF part = "commands" THEN RunNext ELSE UNCHANGED runVars
     /\ IF part = "storage" THEN StorageNext ELSE UNCHANGED storageVars
     /\ IF part = "dashboard" THEN Screen!DashboardNext ELSE UNCHANGED dashboardVars
  \* The other parts come to an end; only the registry must never block.
  \/ part # "registry" /\ UNCHANGED idleVars

(* As in FairSpec, and the dashboard's ticks and fetches go on. *)
ControlPlaneFairness ==
  /\ WF_vars(CheckServiceHealth)
  /\ \A c \in Comps :
       WF_vars(Tick(c)) /\ WF_vars(SyntheticHeartbeat(c)) /\ WF_vars(Silent(c) /\ Expire(c))
  /\ WF_dashboardVars(part = "dashboard" /\ \E f \in {1, 2} : Screen!StartFetch(f))
  /\ \A f \in {1, 2} :
       /\ WF_dashboardVars(part = "dashboard" /\ Screen!FetchAdvances(f))
       /\ WF_dashboardVars(part = "dashboard" /\ Screen!ShowFetched(f))

ControlPlaneSpec ==
  ControlPlaneInit /\ [][ControlPlaneNext]_idleVars /\ ControlPlaneFairness

-----------------------------------------------------------------------------
(* The dashboard comes to show what the control plane answers, and stays   *)
(* so, however its fetches overtake each other (dashboard.go:104).         *)
DashboardCatchesUp ==
  <>[]reachable => <>[](part = "dashboard" => Screen!Current \/ quitting)
===============================================================================
