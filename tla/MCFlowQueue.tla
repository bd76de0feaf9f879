----------------------------- MODULE MCFlowQueue -----------------------------
(* Model values and bounds for FlowQueue.                                      *)
EXTENDS FlowQueue, TLC

CONSTANTS p1, p2, c1, c2, i1, i2, i3, i4

\* Two items in the high band and two in the low one: enough for an eviction, a
\* refusal, and two items of one band whose order can go wrong.
MCItems == {i1, i2, i3, i4}
MCPriority == i1 :> 1 @@ i2 :> 1 @@ i3 :> 2 @@ i4 :> 2

===============================================================================
