------------------------- MODULE MCStreamOrchestrator -------------------------
(* Topologies and bounds for model checking StreamOrchestrator. *)
EXTENDS StreamOrchestrator

CONSTANTS a, b  \* two event types

AllCodes == {"canceled", "deadline", "unavailable"}
OneCode == {"deadline"}

(* Every sink names every source. *)
AllInputs == [i \in Sinks |-> Lanes]

(* Sink i names source i only. *)
OwnInputs == [i \in Sinks |-> {i}]

(* Sink 1 accepts everything, every other sink only type a. *)
FilteredTypes == [i \in Sinks |-> IF i = 1 THEN {} ELSE {a}]
===============================================================================
