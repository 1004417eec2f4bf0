--------------------------- MODULE LocalRunnerScript ---------------------------
(***************************************************************************)
(* The bash script `flowctl translate` writes for local execution when     *)
(* FLOWCTL_LOCAL_GENERATOR_TYPE is bash (internal/generator/               *)
(* local_legacy.go): it starts the components in the file's order, each    *)
(* once the pids of its dependencies answer, then looks once a second for  *)
(* components that have ended and starts those that failed again (the      *)
(* restart policy is always on-failure).  Its components are external.     *)
(***************************************************************************)
EXTENDS PipelineFiles

CONSTANTS
  Pipelines,    \* the pipeline files the script may be made from
  MaxEnds       \* bound: how often a component ends by itself

VARIABLES
  pipeline,     \* the file
  checked,      \* the ids with a health check
  process,      \* what has been launched: of which id, and its state
  pids,         \* of each id: its entry in PIDS, 0 for none
  phase,        \* "top", "waiting", "launched", "recorded" or "looping"
  next,         \* the component the script starts next
  current,      \* the id a start function is running for
  toSee,        \* the dependencies it has not seen alive yet
  unvisited,    \* the ids this round of the loop has not come to
  killed,       \* the processes cleanup has sent a signal
  ended,        \* how the script ended: "no", "signal", "health" or "error"
  ends          \* how often components have ended

scriptVars == <<pipeline, checked, process, pids, phase, next, current, toSee, unvisited, killed,
                ended, ends>>

(* The ids of the script: what is neither a letter nor a digit becomes an  *)
(* underscore, so that ids of the file may come to be the same.            *)
Letters == {"a", "b", "c", "d", "e", "f", "g", "h", "i", "j", "k", "l", "m", "n", "o", "p", "q",
            "r", "s", "t", "u", "v", "w", "x", "y", "z", "A", "B", "C", "D", "E", "F", "G", "H",
            "I", "J", "K", "L", "M", "N", "O", "P", "Q", "R", "S", "T", "U", "V", "W", "X", "Y", "Z"}
Digits == {"0", "1", "2", "3", "4", "5", "6", "7", "8", "9"}
Sanitized(id) ==
  LET name == [i \in DOMAIN id |-> IF id[i] \in Letters \cup Digits THEN id[i] ELSE "_"]
  IN  IF name = <<>> \/ Head(name) \in Letters THEN name
      ELSE <<"c", "o", "m", "p", "o", "n", "e", "n", "t", "_">> \o name
AllSanitized(ids) == [i \in DOMAIN ids |-> Sanitized(ids[i])]

Order == [i \in DOMAIN Wired(pipeline) |-> Sanitized(Wired(pipeline)[i].id)]
Ids == ToSet(Order)

(* Validate asks for a source, and a command for every component; Generate *)
(* makes a component wait for its inputs or, if it names none, for all of  *)
(* the list before it.  Of two start functions of one id bash has the last.*)
ScriptAccepts(f) ==
  f.sources # <<>> /\ \A c \in ToSet(Wired(f)) : c.id # <<>> /\ "command" \in c.means
IdSequence(list) == [i \in DOMAIN list |-> list[i].id]
DependenciesOf(c) ==
  CASE c \in ToSet(pipeline.sources) -> <<>>
    [] c.inputs # <<>> -> AllSanitized(c.inputs)
    [] c \in ToSet(pipeline.sinks) /\ pipeline.processors # <<>> ->
         AllSanitized(IdSequence(pipeline.processors))
    [] OTHER -> AllSanitized(IdSequence(pipeline.sources))
LastOf(id) == CHOOSE i \in DOMAIN Order :
                Order[i] = id /\ \A j \in DOMAIN Order : Order[j] = id => j <= i
Dependencies(id) == DependenciesOf(Wired(pipeline)[LastOf(id)])

Alive(p) == p # 0 /\ process[p].state = "live"

ScriptTypeOK ==
  /\ pipeline \in Pipelines /\ checked \subseteq Ids
  /\ process \in Seq([of : Ids, state : {"live", "clean", "failed"}])
  /\ pids \in [Ids -> 0 .. Len(process)]
  /\ unvisited \subseteq Ids /\ killed \subseteq DOMAIN process
  /\ phase \in {"top", "waiting", "launched", "recorded", "looping"}
  /\ next \in 1 .. Len(Order) + 1 /\ current \in Ids \cup {<<>>}
  /\ toSee \in Seq(Ids)
  /\ ended \in {"no", "signal", "health", "error"} /\ ends \in 0 .. MaxEnds

ScriptInit ==
  /\ pipeline \in {f \in Pipelines : ScriptAccepts(f)}
  /\ checked \in {{}, {Order[Len(Order)]}}
  /\ process = <<>> /\ pids = [c \in Ids |-> 0] /\ phase = "top" /\ next = 1
  /\ current = <<>> /\ toSee = <<>> /\ unvisited = {} /\ killed = {}
  /\ ended = "no" /\ ends = 0

-----------------------------------------------------------------------------
Running == ended = "no"

(* start_<id>: wait for the dependencies, one after the other; launch; note *)
(* the pid; wait for the health check.                                      *)
CallStart(c) == /\ phase' = "waiting" /\ current' = c /\ toSee' = Dependencies(c)

SeeDependency ==
  /\ Running /\ phase = "waiting" /\ toSee # <<>>
  /\ Alive(pids[Head(toSee)])
  /\ toSee' = Tail(toSee)
  /\ UNCHANGED <<pipeline, checked, process, pids, phase, next, current, unvisited, killed, ended, ends>>

Launch ==
  /\ Running /\ phase = "waiting" /\ toSee = <<>>
  /\ process' = Append(process, [of |-> current, state |-> "live"])
  /\ phase' = "launched"
  /\ UNCHANGED <<pipeline, checked, pids, next, current, toSee, unvisited, killed, ended, ends>>

(* `set -e`: no log file can be created, so the script ends where it is. *)
TouchFails ==
  /\ Running /\ phase = "waiting" /\ toSee = <<>>
  /\ ended' = "error"
  /\ UNCHANGED <<pipeline, checked, process, pids, phase, next, current, toSee, unvisited, killed, ends>>

Noted_Local(c) == pids   \* mutant: the pid stays in the function's local variable
Noted(c) == [pids EXCEPT ![c] = Len(process)]
Record ==
  /\ Running /\ phase = "launched"
  /\ pids' = Noted(current) /\ phase' = "recorded"
  /\ UNCHANGED <<pipeline, checked, process, next, current, toSee, unvisited, killed, ended, ends>>

(* cleanup: whatever is recorded and alive is sent a signal. *)
Cleanup(why) ==
  /\ ended' = why
  /\ killed' = {p \in {pids[c] : c \in Ids} : Alive(p)}
  /\ UNCHANGED <<pipeline, checked, process, pids, phase, next, current, toSee, unvisited, ends>>

HealthCheckFails == Running /\ phase = "recorded" /\ current \in checked /\ Cleanup("health")

Return ==
  /\ Running /\ phase = "recorded"
  /\ current \in checked => [of |-> current, state |-> "live"] \in ToSet(process)
  /\ IF next \in DOMAIN Order THEN phase' = "top" /\ next' = next + 1
                              ELSE phase' = "looping" /\ UNCHANGED next
  /\ current' = <<>>
  /\ UNCHANGED <<pipeline, checked, process, pids, toSee, unvisited, killed, ended, ends>>

-----------------------------------------------------------------------------
(* The main part: start all, then look after them. *)
StartNext ==
  /\ Running /\ phase = "top" /\ next \in DOMAIN Order
  /\ CallStart(Order[next])
  /\ UNCHANGED <<pipeline, checked, process, pids, next, unvisited, killed, ended, ends>>

EnterLoop ==
  /\ Running /\ phase = "top" /\ next \notin DOMAIN Order
  /\ phase' = "looping"
  /\ UNCHANGED <<pipeline, checked, process, pids, next, current, toSee, unvisited, killed, ended, ends>>

NextRound ==
  /\ Running /\ phase = "looping" /\ unvisited = {}
  /\ unvisited' = Ids
  /\ UNCHANGED <<pipeline, checked, process, pids, phase, next, current, toSee, killed, ended, ends>>

(* The keys of an associative array come in no order.  `wait` gives the     *)
(* status a component ended with, however often it is asked.                *)
WaitFails_Succeeds(p) == process[p].state = "clean"   \* mutant: && instead of ||
WaitFails(p) == process[p].state = "failed"
Visit(c) ==
  /\ Running /\ phase = "looping" /\ c \in unvisited
  /\ unvisited' = unvisited \ {c}
  /\ IF ~Alive(pids[c]) /\ WaitFails(pids[c])
     THEN CallStart(c)
     ELSE UNCHANGED <<phase, current, toSee>>
  /\ UNCHANGED <<pipeline, checked, process, pids, next, killed, ended, ends>>

(* SIGINT or SIGTERM: the trap runs between any two commands. *)
Interrupt == Running /\ Cleanup("signal")

(* A component ends, well or badly. *)
ComponentEnds(p, how) ==
  /\ Running /\ Alive(p) /\ ends < MaxEnds
  /\ process' = [process EXCEPT ![p].state = how] /\ ends' = ends + 1
  /\ UNCHANGED <<pipeline, checked, pids, phase, next, current, toSee, unvisited, killed, ended>>

ScriptGoesOn ==
  \/ SeeDependency \/ Launch \/ Record \/ HealthCheckFails \/ Return
  \/ StartNext \/ EnterLoop \/ NextRound \/ \E c \in Ids : Visit(c)
ScriptNext ==
  \/ ScriptGoesOn \/ TouchFails \/ Interrupt
  \/ \E p \in DOMAIN process, how \in {"clean", "failed"} : ComponentEnds(p, how)
ScriptSpec == ScriptInit /\ [][ScriptNext]_scriptVars

(* bash goes on; curl gives up after 30 tries. *)
ScriptFairness == WF_scriptVars(ScriptGoesOn)

-----------------------------------------------------------------------------
(* A script that has cleaned up has sent a signal to every process it has  *)
(* launched that is running, but for one the signal met between its launch *)
(* and the note of its pid, and but for those of an id that several        *)
(* components of the file have come to share: the launch of the next takes *)
(* the entry of the one before.                                            *)
Shared(id) == \E i, j \in DOMAIN Order : i # j /\ Order[i] = id /\ Order[j] = id
CleanupReachesAll ==
  ended \in {"signal", "health"} =>
    \A p \in DOMAIN process : Alive(p) /\ p \notin killed =>
      \/ ended = "signal" /\ phase = "launched" /\ p = Len(process)
      \/ Shared(process[p].of)

(* In the end every process in PIDS that failed is started again, unless   *)
(* the script ends or is stuck in a start function, waiting for a          *)
(* dependency that has ended: the loop that would start that one again is  *)
(* the one that waits.                                                     *)
Stuck == phase = "waiting" /\ toSee # <<>> /\ ~Alive(pids[Head(toSee)])
AllRestarted ==
  ~Running \/ Stuck \/ \A c \in Ids : pids[c] = 0 \/ process[pids[c]].state # "failed"
FailedIsRestarted == <>[]AllRestarted
===============================================================================
