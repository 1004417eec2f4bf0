--------------------------- MODULE MCPipelineRunner ---------------------------
(* Instances of PipelineRunner for model checking. *)
EXTENDS PipelineRunner, TLC

AllKinds == {"error", "canceled", "echo"}
RealKinds == {"error"}
OperatorSymmetry == Permutations(Operators)
===============================================================================
