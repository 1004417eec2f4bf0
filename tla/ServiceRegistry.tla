---------------------------- MODULE ServiceRegistry ----------------------------
(***************************************************************************)
(* The service registry of the embedded control plane (internal/api/       *)
(* control_plane.go): registrations and heartbeats kept in memory and in   *)
(* a store that outlives the process, the janitor that gives up on silent  *)
(* services, and the ones that use it during successive `flowctl run`s:    *)
(* the runner (startup, waiting, enrichment, wiring, delivery failures),   *)
(* the heartbeats the process orchestrator sends for a component, and the  *)
(* components, which may outlive the run that started them.                *)
(*                                                                         *)
(* Every handler holds the server's lock from beginning to end, so one RPC *)
(* is one step.  Time is what happens between two heartbeats: a service is *)
(* fresh until its TTL has passed.                                         *)
(***************************************************************************)
EXTENDS Naturals

CONSTANTS
  MaxComponents,  \* bound: components of the pipeline
  Setups          \* the pairs of a number of components and a kind of storage
                  \* considered: "volatile" (NoPersistence), "reliable", or
                  \* "failing": the database may refuse a write

Storages == {"volatile", "reliable", "failing"}

ASSUME RegistryAssumption ==
  /\ MaxComponents \in Nat \ {0}
  /\ Setups \subseteq (1 .. MaxComponents) \X Storages

Comps == 1 .. MaxComponents
HealthStatus == {"UNKNOWN", "HEALTHY", "UNHEALTHY"}

(* What is kept of a service: marked when its metrics name a delivery run  *)
(* that it failed, typed when it declares event types.                     *)
Service == [status : {"HEALTHY", "UNHEALTHY"}, marked : BOOLEAN,
            fresh : BOOLEAN, typed : BOOLEAN]
Services == UNION {[S -> Service] : S \in SUBSET Comps}

VARIABLES
  size, storage,  \* the number of components, in the order of the pipeline's
            \* spec, and the kind of storage
  up,       \* does the control plane serve?
  mem,      \* the services in memory
  store,    \* the services in the database
  heard,    \* the components that registered with this control plane
  phase,    \* the runner: "idle", "launch", "wait", "enrich", "reading",
            \* "wire", "supervise" or "shutdown"
  next,     \* the component it is concerned with
  alive,    \* the components whose process, started by this run, is alive
  orphans,  \* the components of which an earlier process is still alive
  beat      \* beat[c]: the heartbeat goroutine: "none", "waiting", "sending"

setup == <<size, storage>>
registry == <<up, mem, store, heard>>
runner == <<phase, next>>
processes == <<alive, orphans, beat>>
vars == <<setup, registry, runner, processes>>

TypeOK ==
  /\ <<size, storage>> \in Setups
  /\ up \in BOOLEAN
  /\ mem \in Services /\ store \in Services
  /\ heard \in SUBSET Comps
  /\ phase \in {"idle", "launch", "wait", "enrich", "reading", "wire", "supervise", "shutdown"}
  /\ next \in Comps
  /\ alive \in SUBSET Comps /\ orphans \in SUBSET Comps
  /\ beat \in [Comps -> {"none", "waiting", "sending"}]

NoServices == [c \in {} |-> {}]

Init ==
  /\ \E s \in Setups : size = s[1] /\ storage = s[2]
  /\ up = FALSE
  /\ mem = NoServices /\ store = NoServices
  /\ heard = {}
  /\ phase = "idle" /\ next = 1
  /\ alive = {} /\ orphans = {}
  /\ beat = [c \in Comps |-> "none"]

-----------------------------------------------------------------------------
(* The registry.                                                           *)

(* A write to the database; an error is logged and ignored. *)
Stored(services) ==
  \/ storage # "volatile" /\ store' = services
  \/ storage # "reliable" /\ UNCHANGED store

Registered(services, c, typed) ==
  [d \in DOMAIN services \cup {c} |->
     IF d = c THEN [status |-> "HEALTHY", marked |-> FALSE, fresh |-> TRUE, typed |-> typed]
              ELSE services[d]]

RegisterComponent(c, typed) ==
  /\ up
  /\ mem' = Registered(mem, c, typed)
  /\ Stored(Registered(store, c, typed))
  /\ UNCHANGED up

(* The status after a heartbeat that reports `status`: HEALTHY does not    *)
(* undo a delivery failure, and UNKNOWN claims nothing.                    *)
StatusAfter_Unguarded(s, marked, status) == \* mutant: a heartbeat heals everything
  IF status # "UNKNOWN" THEN status ELSE s.status
StatusAfter_Raw(s, marked, status) == \* mutant: the reported status as it is
  IF ~(marked /\ status = "HEALTHY") THEN status ELSE s.status
StatusAfter(s, marked, status) ==
  IF status # "UNKNOWN" /\ ~(marked /\ status = "HEALTHY") THEN status
  ELSE IF s.status = "UNKNOWN" THEN "HEALTHY" ELSE s.status

Beaten_Upsert(services, c, status, mark) == \* mutant: registers whom it does not know
  [d \in DOMAIN services \cup {c} |->
     IF d # c THEN services[d]
     ELSE [status |-> "HEALTHY", marked |-> mark, fresh |-> TRUE, typed |-> FALSE]]
Beaten(services, c, status, mark) ==
  [d \in DOMAIN services |->
     IF d # c THEN services[d]
     ELSE [services[d] EXCEPT !.fresh = TRUE, !.marked = @ \/ mark,
             !.status = StatusAfter(services[d], services[d].marked \/ mark, status)]]

(* A service that is not registered is an error for the sender. *)
Heartbeat(c, status, mark) ==
  /\ up
  /\ mem' = Beaten(mem, c, status, mark)
  /\ Stored(Beaten(store, c, status, mark))
  /\ UNCHANGED <<up, heard>>

Without(services, c) == [d \in DOMAIN services \ {c} |-> services[d]]

UnregisterComponent(c) ==
  /\ up
  /\ mem' = Without(mem, c)
  /\ Stored(Without(store, c))
  /\ UNCHANGED <<setup, up, heard, runner, processes>>

(* checkServiceHealth, under one lock for all services. *)
Swept(services, stale) ==
  [d \in DOMAIN services |->
     IF d \in stale THEN [services[d] EXCEPT !.status = "UNHEALTHY"] ELSE services[d]]

Stale == {c \in DOMAIN mem : ~mem[c].fresh /\ mem[c].status = "HEALTHY"}

CheckServiceHealth_MemoryOnly == \* mutant: the database is forgotten
  /\ up /\ Stale # {}
  /\ mem' = Swept(mem, Stale)
  /\ UNCHANGED <<setup, up, store, heard, runner, processes>>

CheckServiceHealth ==
  /\ up /\ Stale # {}
  /\ mem' = Swept(mem, Stale)
  /\ \E written \in SUBSET Stale :
       /\ storage = "reliable" => written = Stale
       /\ storage = "volatile" => written = {}
       /\ store' = Swept(store, written)
  /\ UNCHANGED <<setup, up, heard, runner, processes>>

(* The TTL of c passes.  After a failed write the database holds an older  *)
(* time than memory.                                                       *)
Aged(services, c) ==
  [d \in DOMAIN services |->
     IF d = c THEN [services[d] EXCEPT !.fresh = FALSE] ELSE services[d]]

Expire(c) ==
  /\ \/ mem' = Aged(mem, c)
     \/ storage = "failing" /\ UNCHANGED mem
  /\ store' = Aged(store, c)
  /\ UNCHANGED <<setup, up, heard, runner, processes>>

-----------------------------------------------------------------------------
(* The runner of one `flowctl run` after another.                          *)

LoadServices_Unmarked == \* mutant: the metrics are not read back
  [c \in DOMAIN store |-> [store[c] EXCEPT !.marked = FALSE]]
LoadServices == store

StartControlPlane ==
  /\ phase = "idle"
  /\ up' = TRUE
  /\ mem' = LoadServices
  /\ heard' = {}
  /\ phase' = "launch" /\ next' = 1
  /\ UNCHANGED <<setup, store, processes>>

(* On to the next component, or with the first one to the next phase. *)
Advance(from, to) ==
  /\ phase = from
  /\ IF next < size
     THEN next' = next + 1 /\ UNCHANGED phase
     ELSE next' = 1 /\ phase' = to

StartComponent ==
  /\ Advance("launch", "wait")
  /\ alive' = alive \cup {next}
  /\ beat' = [beat EXCEPT ![next] = "sending"]
  /\ UNCHANGED <<setup, registry, orphans>>

(* WaitForComponent sees healthy services only. *)
Healthy(c) == c \in DOMAIN mem /\ mem[c].status = "HEALTHY"

WaitForComponent ==
  /\ Healthy(next)
  /\ Advance("wait", "enrich")
  /\ UNCHANGED <<setup, registry, processes>>

(* A component cannot be started or is not seen in time, the delivery      *)
(* completes, or a signal arrives.                                         *)
GiveUp ==
  /\ phase \in {"launch", "wait", "supervise"}
  /\ phase' = "shutdown"
  /\ UNCHANGED <<setup, registry, next, processes>>

(* enrichRegisteredComponents reads a component's status, and registers it *)
(* again if it did not declare its event types.                            *)
EnrichRead ==
  /\ phase = "enrich"
  /\ next \in DOMAIN mem /\ ~mem[next].typed
  /\ phase' = "reading"
  /\ UNCHANGED <<setup, registry, next, processes>>

EnrichSkip ==
  /\ next \in DOMAIN mem => mem[next].typed
  /\ Advance("enrich", "wire")
  /\ UNCHANGED <<setup, registry, processes>>

EnrichWrite ==
  /\ phase = "reading"
  /\ RegisterComponent(next, TRUE)
  /\ IF next < size
     THEN next' = next + 1 /\ phase' = "enrich"
     ELSE next' = 1 /\ phase' = "wire"
  /\ UNCHANGED <<setup, heard, processes>>

(* An RPC fails: the rest is skipped with a warning. *)
EnrichFails ==
  /\ phase \in {"enrich", "reading"}
  /\ phase' = "wire" /\ next' = 1
  /\ UNCHANGED <<setup, registry, processes>>

(* WireAll looks every component up again. *)
Wire ==
  /\ Healthy(next)
  /\ Advance("wire", "supervise")
  /\ UNCHANGED <<setup, registry, processes>>

(* markDeliveryFailure: a component cannot be wired, or fails later; the   *)
(* heartbeat that tells so may not arrive.                                 *)
DeliveryFails(c) ==
  /\ phase \in {"wire", "supervise"}
  /\ phase' = "shutdown"
  /\ Heartbeat(c, "UNHEALTHY", TRUE) \/ UNCHANGED registry
  /\ UNCHANGED <<setup, next, processes>>

(* The flowctl process ends, orderly or at any other moment.  Its          *)
(* goroutines and its memory go; the components, at best sent SIGTERM, end *)
(* when they end.                                                          *)
Exit ==
  /\ phase # "idle"
  /\ phase' = "idle" /\ next' = 1
  /\ up' = FALSE
  /\ mem' = NoServices
  /\ heard' = {}
  /\ orphans' = orphans \cup alive
  /\ alive' = {}
  /\ beat' = [c \in Comps |-> "none"]
  /\ UNCHANGED <<setup, store>>

-----------------------------------------------------------------------------
(* heartbeatProcess: one heartbeat at once; from then on one per tick, as  *)
(* long as the orchestrator believes the process to run.                   *)

Tick_Blind(c) == \* mutant: beats for processes that are gone
  /\ beat[c] = "waiting"
  /\ beat' = [beat EXCEPT ![c] = "sending"]
  /\ UNCHANGED <<setup, registry, runner, alive, orphans>>

Tick(c) ==
  /\ beat[c] = "waiting"
  /\ beat' = [beat EXCEPT ![c] = IF c \in alive /\ phase # "shutdown" THEN "sending" ELSE "none"]
  /\ UNCHANGED <<setup, registry, runner, alive, orphans>>

SyntheticHeartbeat(c) ==
  /\ beat[c] = "sending"
  /\ beat' = [beat EXCEPT ![c] = "waiting"]
  /\ Heartbeat(c, "UNKNOWN", FALSE) \/ UNCHANGED registry
  /\ UNCHANGED <<setup, runner, alive, orphans>>

-----------------------------------------------------------------------------
(* The components: they register once with the control plane they find and *)
(* send heartbeats of their own.                                           *)

Running(c) == c \in alive \cup orphans

Register(c) ==
  /\ Running(c) /\ c \notin heard
  /\ \E typed \in BOOLEAN : RegisterComponent(c, typed)
  /\ heard' = heard \cup {c}
  /\ UNCHANGED <<setup, runner, processes>>

OwnHeartbeat(c) ==
  /\ Running(c)
  /\ \E status \in HealthStatus : Heartbeat(c, status, FALSE)
  /\ UNCHANGED <<setup, runner, processes>>

Unregister(c) == c \in heard /\ UnregisterComponent(c)

Die(c) ==
  /\ \/ c \in alive /\ alive' = alive \ {c} /\ UNCHANGED orphans
     \/ c \in orphans /\ orphans' = orphans \ {c} /\ UNCHANGED alive
  /\ UNCHANGED <<setup, registry, runner, beat>>

-----------------------------------------------------------------------------
Runner ==
  \/ StartControlPlane \/ StartComponent \/ WaitForComponent \/ GiveUp
  \/ EnrichRead \/ EnrichSkip \/ EnrichWrite \/ EnrichFails
  \/ Wire \/ (\E c \in 1 .. size : DeliveryFails(c)) \/ Exit

Next ==
  \/ Runner \/ CheckServiceHealth
  \/ \E c \in Comps :
       \/ Expire(c) \/ Tick(c) \/ SyntheticHeartbeat(c)
       \/ Register(c) \/ OwnHeartbeat(c) \/ Unregister(c) \/ Die(c)

Spec == Init /\ [][Next]_vars

(* The janitor and the heartbeat goroutines run, and the TTL of a          *)
(* component passes once nobody is left to send a heartbeat for it.        *)
Silent(c) == ~Running(c) /\ beat[c] = "none"

FairSpec ==
  /\ Spec
  /\ WF_vars(CheckServiceHealth)
  /\ \A c \in Comps :
       WF_vars(Tick(c)) /\ WF_vars(SyntheticHeartbeat(c)) /\ WF_vars(Silent(c) /\ Expire(c))

-----------------------------------------------------------------------------
(* Delivery failure health survives heartbeats (delivery_health_test.go,   *)
(* which sends one): whatever arrives, in whatever order, a service marked *)
(* for a delivery failure is not listed as healthy, neither now nor after  *)
(* a restart, even when the database refused some of the writes.           *)
MarkedIsNotHealthy ==
  \A services \in {mem, store} : \A c \in DOMAIN services :
    services[c].marked => services[c].status = "UNHEALTHY"

(* A delivery failure is remembered, across the end of the run, until the  *)
(* component itself registers or leaves, or is registered again.           *)
Known == IF up THEN mem ELSE store
Marked(services, c) == c \in DOMAIN services /\ services[c].marked
MarkKept ==
  [][\A c \in Comps :
       (storage = "reliable" /\ Marked(Known, c) /\ ~Marked(Known', c))
         => Register(c) \/ Unregister(c) \/ (phase = "reading" /\ next = c)]_vars

(* With a database that works, a restart would change nothing: what would  *)
(* be loaded is what is known.                                             *)
StoreMirrorsMemory == storage = "reliable" /\ up => mem = store

(* "Wait for all components to register" (pipeline_runner.go:233): who was *)
(* waited for has registered with this control plane.                      *)
Awaited(c) ==
  phase \in {"enrich", "reading", "wire", "supervise"} \/ (phase = "wait" /\ c < next)
WaitedMeansRegistered == \A c \in 1 .. size : Awaited(c) => c \in heard

(* The same where nothing is left over from earlier runs.                  *)
VolatileWaitIsSound == storage = "volatile" => WaitedMeansRegistered

(* The janitor: a component whose processes are gone does not stay healthy *)
(* ("marks them as unhealthy", control_plane.go:428).                      *)
DeadIsNoticed ==
  \A c \in Comps : (up /\ Healthy(c) /\ ~Running(c)) ~> (~up \/ ~Healthy(c) \/ Running(c))
===============================================================================
