--------------------------- MODULE MCEventBridge ---------------------------
(* Bounds for EventBridge: alerts overflow a queue of three and exceed the two   *)
(* batches of the final drain, the other channels have one event.              *)
EXTENDS EventBridge, TLC

MCBatch == "alerts" :> 1 @@ "flows" :> 2 @@ "logs" :> 2
MCEvents == "alerts" :> 5 @@ "flows" :> 1 @@ "logs" :> 1
=============================================================================
