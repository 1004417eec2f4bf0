------------------------------- MODULE Dashboard -------------------------------
(***************************************************************************)
(* `flowctl dashboard` (cmd/dashboard.go): every tick, and every r the     *)
(* operator types, starts a fetch of its own connection and two RPCs,      *)
(* whether or not the last one is done; the results are shown in the order *)
(* in which they arrive.  What the control plane would answer is a number  *)
(* that changes: its version.                                              *)
(***************************************************************************)
EXTENDS Naturals

CONSTANTS
  Slots,       \* bound: fetches under way (a fetch takes two seconds at most, a
               \* tick comes every second)
  MaxChanges   \* bound: changes of the control plane's answer

VARIABLES
  version,   \* of what the control plane would answer
  reachable, \* does it answer?
  fetches,   \* of each slot: what the fetch does ("free", "dial", "runs",
             \* "components", "done", "failed") and the versions it was told
  shown,     \* what the screen shows: the versions, and whether it is an error
  quitting

dashboardVars == <<version, reachable, fetches, shown, quitting>>

Versions == 0 .. MaxChanges
Free == [at |-> "free", runs |-> 0, components |-> 0]
Dialing == [Free EXCEPT !.at = "dial"]

DashboardTypeOK ==
  /\ version \in Versions /\ reachable \in BOOLEAN /\ quitting \in BOOLEAN
  /\ fetches \in [Slots -> [at : {"free", "dial", "runs", "components", "done", "failed"},
                            runs : Versions, components : Versions]]
  /\ shown \in [runs : Versions, components : Versions, err : BOOLEAN]

(* initialModel and Init: nothing is shown, a fetch starts. *)
DashboardInit ==
  /\ version = 0 /\ reachable \in BOOLEAN /\ quitting = FALSE
  /\ \E first \in Slots : fetches = [f \in Slots |-> IF f = first THEN Dialing ELSE Free]
  /\ shown = [runs |-> 0, components |-> 0, err |-> FALSE]

-----------------------------------------------------------------------------
(* A tick, which also starts the next one, or a key. *)
StartFetch(f) ==
  /\ ~quitting /\ fetches[f] = Free
  /\ fetches' = [fetches EXCEPT ![f] = Dialing]
  /\ UNCHANGED <<version, reachable, shown, quitting>>

(* fetchDataCmd: the connection, the runs, the components; an error of any *)
(* of them, or two seconds, and the fetch has failed.                      *)
FetchAdvances(f) ==
  /\ fetches[f].at \in {"dial", "runs", "components"}
  /\ IF ~reachable
     THEN fetches' = [fetches EXCEPT ![f].at = "failed"]
     ELSE fetches' = [fetches EXCEPT ![f] =
            CASE @.at = "dial" -> [@ EXCEPT !.at = "runs"]
              [] @.at = "runs" -> [@ EXCEPT !.at = "components", !.runs = version]
              [] OTHER -> [@ EXCEPT !.at = "done", !.components = version]]
  /\ UNCHANGED <<version, reachable, shown, quitting>>

(* Update: the newest message replaces what was shown, data and error. *)
Updated_KeepsError(fetch) ==   \* mutant: an error stays until the program ends
  [runs |-> fetch.runs, components |-> fetch.components,
   err |-> shown.err \/ fetch.at = "failed"]
Updated(fetch) ==
  [runs |-> fetch.runs, components |-> fetch.components, err |-> fetch.at = "failed"]

ShowFetched(f) ==
  /\ ~quitting /\ fetches[f].at \in {"done", "failed"}
  /\ shown' = Updated(fetches[f])
  /\ fetches' = [fetches EXCEPT ![f] = Free]
  /\ UNCHANGED <<version, reachable, quitting>>

QuitDashboard ==
  /\ ~quitting /\ quitting' = TRUE
  /\ UNCHANGED <<version, reachable, fetches, shown>>

(* The control plane: external. *)
AnswerChanges ==
  /\ version < MaxChanges /\ version' = version + 1
  /\ UNCHANGED <<reachable, fetches, shown, quitting>>
ConnectionChanges ==
  /\ reachable' = ~reachable
  /\ UNCHANGED <<version, fetches, shown, quitting>>

DashboardNext ==
  \/ \E f \in Slots : StartFetch(f) \/ FetchAdvances(f) \/ ShowFetched(f)
  \/ QuitDashboard \/ AnswerChanges \/ ConnectionChanges

DashboardSpec == DashboardInit /\ [][DashboardNext]_dashboardVars

(* Ticks come, fetches end, their messages are delivered. *)
DashboardFairness ==
  /\ WF_dashboardVars(\E f \in Slots : StartFetch(f))
  /\ \A f \in Slots : WF_dashboardVars(FetchAdvances(f)) /\ WF_dashboardVars(ShowFetched(f))

-----------------------------------------------------------------------------
(* A fetch that took long may put back on the screen what a later one has  *)
(* replaced; but when the control plane answers from some time on, and its *)
(* answer no longer changes, the screen comes to show that answer and no   *)
(* error, and stays so: no old result is left that could arrive later.     *)
Current == shown = [runs |-> version, components |-> version, err |-> FALSE]
DashboardCatchesUp == <>[]reachable => <>[](Current \/ quitting)
===============================================================================
