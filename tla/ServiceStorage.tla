----------------------------- MODULE ServiceStorage -----------------------------
(***************************************************************************)
(* The stores of the control plane (internal/storage): a database of which *)
(* every write is a transaction (bolt.go), and a map behind a lock         *)
(* (memory.go), both with WithTransaction for several operations at once   *)
(* (interface.go).  The database has one writer at a time, who works on a  *)
(* copy; the transactions of the map take no lock and work on the map.     *)
(*                                                                         *)
(* A service is its last write: a number that names the call or the        *)
(* transaction, and whether the service is there.                          *)
(***************************************************************************)
EXTENDS Naturals, FiniteSets

CONSTANTS
  Ids,
  Backends,  \* a subset of {"bolt", "memory"}
  MaxWrites  \* bound: single writes and transactions

Writes == 1 .. MaxWrites
Entry == [there : BOOLEAN, by : {0} \cup Writes]

VARIABLES
  backend,
  services,  \* what is stored
  copy,      \* the database's open transaction: what it would store
  outcome    \* outcome[w]: "none", "open", "committed" or "failed"

storageVars == <<backend, services, copy, outcome>>

StorageInit ==
  /\ backend \in Backends
  /\ services = [id \in Ids |-> [there |-> FALSE, by |-> 0]]
  /\ copy = services
  /\ outcome = [w \in Writes |-> "none"]

-----------------------------------------------------------------------------
(* The operations, on a table of services: their results, in a set that is *)
(* empty where the operation is an error.                                  *)

PutService(table, id, w) == {[table EXCEPT ![id] = [there |-> TRUE, by |-> w]]}
UpdateService(table, id, w) == IF table[id].there THEN PutService(table, id, w) ELSE {}
DeleteService(table, id, w) ==
  IF table[id].there THEN {[table EXCEPT ![id] = [there |-> FALSE, by |-> w]]} ELSE {}
Operations(table, id, w) ==
  PutService(table, id, w) \cup UpdateService(table, id, w) \cup DeleteService(table, id, w)

Open == {w \in Writes : outcome[w] = "open"}
Fresh(w) == outcome[w] = "none" /\ \A v \in 1 .. w - 1 : outcome[v] # "none"
MayWrite == backend = "bolt" => Open = {}

(* A single operation, committed at once; one that is an error does nothing. *)
WriteOne(w) ==
  /\ Fresh(w) /\ MayWrite
  /\ \E id \in Ids : services' \in Operations(services, id, w)
  /\ outcome' = [outcome EXCEPT ![w] = "committed"]
  /\ copy' = services'
  /\ UNCHANGED backend

(* WithTransaction: the caller's function works on the copy or on the map. *)
BeginTransaction(w) ==
  /\ Fresh(w) /\ MayWrite
  /\ outcome' = [outcome EXCEPT ![w] = "open"]
  /\ UNCHANGED <<backend, services, copy>>

StepOnCopy(w) ==
  /\ backend = "bolt" /\ outcome[w] = "open"
  /\ \E id \in Ids : copy' \in Operations(copy, id, w)
  /\ UNCHANGED <<backend, services, outcome>>

StepOnMap(w) ==
  /\ backend = "memory" /\ outcome[w] = "open"
  /\ \E id \in Ids : services' \in Operations(services, id, w)
  /\ copy' = services'
  /\ UNCHANGED <<backend, outcome>>

(* The function returns nil, *)
Commit(w) ==
  /\ outcome[w] = "open"
  /\ outcome' = [outcome EXCEPT ![w] = "committed"]
  /\ services' = IF backend = "bolt" THEN copy ELSE services
  /\ copy' = services'
  /\ UNCHANGED backend

(* or an error: its own, an operation's, or that of the database, which    *)
(* also a crash leaves as it was.                                          *)
RolledBack_Kept == copy \* mutant: the error is returned and the copy is stored
RolledBack == services

Rollback(w) ==
  /\ outcome[w] = "open"
  /\ outcome' = [outcome EXCEPT ![w] = "failed"]
  /\ services' = RolledBack
  /\ copy' = services'
  /\ UNCHANGED backend

StorageNext ==
  \E w \in Writes :
    \/ WriteOne(w) \/ BeginTransaction(w) \/ StepOnCopy(w) \/ StepOnMap(w)
    \/ Commit(w) \/ Rollback(w)

StorageSpec == StorageInit /\ [][StorageNext]_storageVars

-----------------------------------------------------------------------------
(* "The transaction is committed if the function returns nil, or rolled    *)
(* back if it returns an error" (interface.go:56): nobody reads, then or   *)
(* later, what a transaction wrote that is open or has failed.             *)
CommittedOnly ==
  \A id \in Ids : services[id].by # 0 => outcome[services[id].by] = "committed"

(* The database keeps that promise. *)
DatabaseRollsBack == backend = "bolt" => CommittedOnly
===============================================================================
