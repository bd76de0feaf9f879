------------------------------ MODULE MCPipeline ------------------------------
(* Model values and bounds for Pipeline.                                       *)
EXTENDS Pipeline

CONSTANTS f1, f2

TwoFlows == {f1, f2}
===============================================================================
