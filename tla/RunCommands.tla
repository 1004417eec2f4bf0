------------------------------ MODULE RunCommands ------------------------------
(***************************************************************************)
(* The run API of the control plane (internal/api/control_plane.go) over   *)
(* its two stores (internal/storage), and the commands of an operator who  *)
(* uses it from another terminal (cmd/pipelines.go): runs are created and  *)
(* finished by flowctl processes while the operator looks one up by the    *)
(* abbreviated id of a table and stops it, each RPC a step of its own.     *)
(***************************************************************************)
EXTENDS Naturals, FiniteSets, SequencesExt

CONSTANTS
  Keys,          \* run ids, sequences of symbols, in the order of the database's keys
  Arguments,     \* what the operator may type
  DefaultLimit   \* the limit of a list request that states none (10 in the code)

RunIds == Range(Keys)

VARIABLES
  database,  \* is the store a database, or a map in memory?
  runs,      \* the stored runs: their status, and the order in which they started
  command,   \* the command the operator runs: "none", "stop", "run-info", or "runs"
  asked,     \* its argument
  step,      \* "idle", "lookup", "missed", "resolved"
  target,    \* the run id it was resolved to
  known,     \* the runs there were when the command began
  shown      \* the runs the last listing showed

runVars == <<database, runs, command, asked, step, target, known, shown>>

RunInit ==
  /\ database \in BOOLEAN
  /\ runs = [id \in {} |-> <<>>]
  /\ command = "none" /\ asked = <<>> /\ step = "idle" /\ target = <<>>
  /\ known = {} /\ shown = {}

operator == <<command, asked, step, target, known, shown>>

(* The command is over. *)
Done ==
  /\ command' = "none" /\ step' = "idle"
  /\ asked' = <<>> /\ target' = <<>> /\ known' = {}

-----------------------------------------------------------------------------
(* The handlers.  Each is one transaction of the store.                    *)

CreatePipelineRun(id) ==
  /\ id \notin DOMAIN runs
  /\ runs' = [r \in DOMAIN runs \cup {id} |->
       IF r = id THEN [status |-> "starting", started |-> Cardinality(DOMAIN runs)]
                 ELSE runs[r]]
  /\ UNCHANGED <<database, operator>>

UpdatePipelineRun(id, status) ==
  /\ id \in DOMAIN runs
  /\ runs' = [runs EXCEPT ![id].status = status]
  /\ UNCHANGED <<database, operator>>

(* ListPipelineRuns: the database is walked in the order of its keys, the  *)
(* map in any order, until the limit is reached; a negative limit is none. *)
Matching(status) == {id \in DOMAIN runs : status = "unknown" \/ runs[id].status = status}

Listed(S, limit) == \* the results there may be
  LET Size(T) == Cardinality(T) = IF Cardinality(S) < limit THEN Cardinality(S) ELSE limit
      InOrder(T) == \A i, j \in DOMAIN Keys :
                      i < j /\ {Keys[i], Keys[j]} \subseteq S /\ Keys[j] \in T => Keys[i] \in T
  IN  IF limit < 0 THEN {S} ELSE {T \in SUBSET S : Size(T) /\ (database => InOrder(T))}

ListPipelineRuns(status, limit) ==
  Listed(Matching(status), IF limit = 0 THEN DefaultLimit ELSE limit)

-----------------------------------------------------------------------------
(* The commands.                                                           *)

Begin(c) ==
  /\ step = "idle"
  /\ command' = c
  /\ asked' \in Arguments
  /\ step' = "lookup"
  /\ known' = DOMAIN runs
  /\ shown' = {}
  /\ UNCHANGED <<database, runs, target>>

(* resolveRunID: an exact id is found at once, unless the request fails. *)
LookUp ==
  /\ step = "lookup" /\ command \in {"stop", "run-info"}
  /\ \/ asked \in DOMAIN runs /\ step' = "resolved" /\ target' = asked
     \/ step' = "missed" /\ UNCHANGED target
  /\ UNCHANGED <<database, runs, command, asked, known, shown>>

(* After any error it may be the prefix of one; of none or several, or a   *)
(* list that fails as well (CommandFails), ends the command.               *)
AllRuns_Default == ListPipelineRuns("unknown", 0) \* mutant: the request states no limit
AllRuns == ListPipelineRuns("unknown", -1)

ResolveByPrefix ==
  /\ step = "missed"
  /\ \E listed \in AllRuns :
       LET matches == {id \in listed : IsPrefix(asked, id)}
       IN  IF Cardinality(matches) = 1
           THEN step' = "resolved" /\ target' \in matches /\ UNCHANGED <<command, asked, known>>
           ELSE Done
  /\ UNCHANGED <<database, runs, shown>>

(* StopPipelineRun stores the outcome whatever it was before. *)
StopResolved ==
  /\ step = "resolved" /\ command = "stop"
  /\ runs' = [runs EXCEPT ![target].status = "stopped"]
  /\ Done
  /\ UNCHANGED <<database, shown>>

(* GetPipelineRun, shown in detail. *)
ShowResolved ==
  /\ step = "resolved" /\ command = "run-info"
  /\ shown' = {target}
  /\ Done
  /\ UNCHANGED <<database, runs>>

(* `pipelines runs`: the history of a pipeline, of --limit runs. *)
ShowRuns(limit) ==
  /\ step = "lookup" /\ command = "runs"
  /\ shown' \in ListPipelineRuns("unknown", limit)
  /\ Done
  /\ UNCHANGED <<database, runs>>

(* An RPC fails or takes longer than five seconds. *)
CommandFails ==
  /\ step # "idle"
  /\ Done
  /\ UNCHANGED <<database, runs, shown>>

RunNext ==
  \/ \E id \in RunIds :
       CreatePipelineRun(id) \/ \E status \in {"running", "completed"} : UpdatePipelineRun(id, status)
  \/ \E c \in {"stop", "run-info", "runs"} : Begin(c)
  \/ LookUp \/ ResolveByPrefix \/ StopResolved \/ ShowResolved \/ CommandFails
  \/ \E limit \in 0 .. 2 : ShowRuns(limit)

RunSpec == RunInit /\ [][RunNext]_runVars

-----------------------------------------------------------------------------
(* The operator stops the run the argument names and no other: that very   *)
(* id, or the only run it is a prefix of among those there were when the   *)
(* command began ("allow a unique prefix", pipelines.go:473), though runs  *)
(* are created and finished between the three RPCs.                        *)
Names(id) ==
  \/ id = asked
  \/ IsPrefix(asked, id) /\ \A other \in known \ {id} : ~IsPrefix(asked, other)
StopHitsTheNamed == [][StopResolved => Names(target)]_runVars
===============================================================================
