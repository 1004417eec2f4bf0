------------------------- MODULE MCProcessOrchestrator -------------------------
(* An instance of ProcessOrchestrator for model checking: a source that is    *)
(* started twice beside a consumer that is started once.                      *)
EXTENDS ProcessOrchestrator

MCComponents == {"source", "consumer"}
MCMaxStarts == [c \in MCComponents |-> IF c = "source" THEN 2 ELSE 1]
===============================================================================
