---------------------------- MODULE PipelineProofs ----------------------------
(* Machine-checked proofs about Pipeline for any number of flows, callers,     *)
(* starts and stops and any capacity.                                          *)
EXTENDS Pipeline, FiniteSetTheorems, TLAPS

LEMMA OneMore ==
  ASSUME NEW S, NEW x, NEW y, IsFiniteSet(S), y \in S \cup {x}
  PROVE  /\ IsFiniteSet(S \cup {x})
         /\ Cardinality(S \cup {x}) \in Nat
         /\ Cardinality(S \cup {x}) <= Cardinality(S) + 1
         /\ Cardinality((S \cup {x}) \ {y}) <= Cardinality(S)
<1> DEFINE T == S \cup {x}
<1>1. Cardinality(S) \in Nat
  BY FS_CardinalityType
<1>2. IsFiniteSet(T) /\ Cardinality(T) = IF x \in S THEN Cardinality(S) ELSE Cardinality(S) + 1
  BY FS_AddElement
<1>3. y \in T
  OBVIOUS
<1> HIDE DEF T
<1>4. Cardinality(T \ {y}) = Cardinality(T) - 1
  BY <1>2, <1>3, FS_RemoveElement
<1>5. Cardinality(T) \in Nat /\ Cardinality(T) <= Cardinality(S) + 1
  BY <1>1, <1>2
<1>6. Cardinality(T \ {y}) <= Cardinality(S)
  BY <1>1, <1>4, <1>5
<1> QED
  BY <1>2, <1>5, <1>6 DEF T

(* What a push makes of a queue: its capacity is kept, and the flow and what   *)
(* was queued end up queued or lost, never both.                               *)
LEMMA PushKeeps ==
  ASSUME NEW queue \in Queue, NEW f \in Flows,
         NEW victims \in SUBSET (queue.items \cup {f}),
         NEW out \in PushOutcomes(queue, f, victims)
  PROVE  /\ out.items \in SUBSET Flows /\ Cardinality(out.items) <= Capacity
         /\ out.lost \in SUBSET Flows
         /\ out.items \cup out.lost = queue.items \cup {f}
         /\ out.items \cap out.lost = {}
         /\ queue.blocking /\ ~queue.done => out.lost = {}
<1> DEFINE held == queue.items
<1>1. /\ held \in SUBSET Flows /\ IsFiniteSet(held) /\ Cardinality(held) \in Nat
      /\ Cardinality(held) <= Capacity /\ Capacity \in Nat \ {0}
  BY PipelineAssumption, FS_Subset, FS_CardinalityType DEF Queue
<1>2. /\ Cardinality(held \cup {f}) \in Nat
      /\ Cardinality(held \cup {f}) <= Cardinality(held) + 1
  BY <1>1, OneMore
<1>3. CASE ~Full(queue)
  BY <1>1, <1>2, <1>3 DEF PushOutcomes, Full
<1>4. CASE Full(queue)
  <2>1. PICK x \in victims : out = [items |-> (held \cup {f}) \ {x}, lost |-> {x}]
    BY <1>4 DEF PushOutcomes
  <2>2. ~(queue.blocking /\ ~queue.done)
    BY <1>4 DEF PushOutcomes
  <2>3. Cardinality((held \cup {f}) \ {x}) <= Cardinality(held)
    BY <1>1, OneMore
  <2>4. Cardinality(out.items) <= Cardinality(held)
    BY <2>1, <2>3
  <2>5. Cardinality(out.items) \in Nat
    <3>1. IsFiniteSet(held \cup {f})
      BY <1>1, FS_AddElement
    <3>2. IsFiniteSet((held \cup {f}) \ {x})
      BY <3>1, FS_RemoveElement, Zenon
    <3> QED
      BY <2>1, <3>2, FS_CardinalityType
  <2>6. Cardinality(out.items) <= Capacity
    BY <1>1, <2>4, <2>5
  <2> QED
    BY <1>1, <2>1, <2>2, <2>6
<1> QED
  BY <1>3, <1>4

-------------------------------------------------------------------------------
(* Types                                                                       *)

LEMMA InitTypes == Init => TypeOK
<1> SUFFICES ASSUME Init PROVE TypeOK
  OBVIOUS
<1>1. NewQueue(FALSE) \in Queue
  BY PipelineAssumption, FS_EmptySet DEF NewQueue, Queue
<1>2. q1 \in Queue /\ q2 \in Queue
  BY <1>1 DEF Init
<1>3. client \in [Clients -> {"idle", "clear", "join", "test", "call"}]
  BY DEF Init
<1>4. sample \in (0 .. Capacity) \X (0 .. Capacity)
  BY PipelineAssumption DEF Init
<1>5. starts \in 0 .. MaxStarts /\ stops \in 0 .. MaxStops
  BY PipelineAssumption DEF Init
<1>6. {shutdown_requested, capture_finished, reassembler, running, broken, flushing,
       fRunning, lRunning, dangling} \subseteq BOOLEAN
  BY DEF Init
<1>7. {unread, table, batch, fFlow, lFlow, filtered, analysed, dropped}
        \subseteq SUBSET Flows
  BY DEF Init
<1> QED
  BY <1>2, <1>3, <1>4, <1>5, <1>6, <1>7 DEF Init, TypeOK, PipelineState

LEMMA StartTypes == TypeOK /\ Start => TypeOK'
<1> SUFFICES ASSUME TypeOK, Start PROVE TypeOK'
  OBVIOUS
<1> USE PipelineAssumption DEF TypeOK, PipelineState, At, callerVars, controlVars,
        stopFlags, captureVars, filterVars, llmVars, fates, workVars, Clients
<1>1. CASE StartCheck
  BY <1>1 DEF StartCheck
<1>2. CASE StartClear
  <2>1. client' \in [Clients -> {"idle", "clear", "join", "test", "call"}]
    BY <1>2 DEF StartClear
  <2>2. shutdown_requested' = FALSE /\ state' \in PipelineState
    BY <1>2 DEF StartClear
  <2>3. {shutdown_requested', capture_finished', reassembler', running', broken',
         flushing', fRunning', lRunning', dangling'} \subseteq BOOLEAN
    BY <1>2, <2>2 DEF StartClear
  <2> QED
    BY <1>2, <2>1, <2>2, <2>3 DEF StartClear
<1>3. CASE StartSpawn
  BY <1>3 DEF StartSpawn
<1> QED
  BY <1>1, <1>2, <1>3 DEF Start

LEMMA StopTypes == \A c \in Clients : TypeOK /\ Stop(c) => TypeOK'
<1> SUFFICES ASSUME NEW c \in Clients, TypeOK, Stop(c) PROVE TypeOK'
  OBVIOUS
<1> USE PipelineAssumption DEF TypeOK, PipelineState, At, callerVars, controlVars,
        stopFlags, captureVars, filterVars, llmVars, fates, workVars
<1>1. CASE StopRequest(c)
  BY <1>1 DEF StopRequest
<1>2. CASE StopTest(c)
  BY <1>2 DEF StopTest
<1>3. CASE StopCall(c)
  <2>1. \/ running' = FALSE /\ broken' = TRUE /\ dangling' = dangling
        \/ dangling' = TRUE /\ running' = running /\ broken' = broken
    BY <1>3, Zenon DEF StopCall
  <2>2. client' \in [Clients -> {"idle", "clear", "join", "test", "call"}]
    BY <1>3 DEF StopCall
  <2>3. {shutdown_requested', capture_finished', reassembler', running', broken',
         flushing', fRunning', lRunning', dangling'} \subseteq BOOLEAN
    BY <1>3, <2>1 DEF StopCall
  <2> QED
    BY <1>3, <2>2, <2>3 DEF StopCall
<1> QED
  BY <1>1, <1>2, <1>3 DEF Stop

LEMMA QueueFacts ==
  /\ \A block \in BOOLEAN : NewQueue(block) \in Queue
  /\ \A queue \in Queue : /\ [queue EXCEPT !.blocking = FALSE] \in Queue
                          /\ [queue EXCEPT !.done = TRUE] \in Queue
                          /\ \A f : [queue EXCEPT !.items = @ \ {f}] \in Queue
                          /\ Cardinality(queue.items) \in 0 .. Capacity
<1>1. \A block \in BOOLEAN : NewQueue(block) \in Queue
  BY PipelineAssumption, FS_EmptySet DEF NewQueue, Queue
<1>2. ASSUME NEW queue \in Queue
      PROVE  /\ [queue EXCEPT !.blocking = FALSE] \in Queue
             /\ [queue EXCEPT !.done = TRUE] \in Queue
             /\ \A f : [queue EXCEPT !.items = @ \ {f}] \in Queue
             /\ Cardinality(queue.items) \in 0 .. Capacity
  <2>1. /\ IsFiniteSet(queue.items) /\ Cardinality(queue.items) \in Nat
        /\ Cardinality(queue.items) <= Capacity
    BY PipelineAssumption, FS_Subset, FS_CardinalityType DEF Queue
  <2>2. ASSUME NEW f
        PROVE  [queue EXCEPT !.items = @ \ {f}] \in Queue
    <3>1. /\ IsFiniteSet(queue.items \ {f})
          /\ Cardinality(queue.items \ {f}) <= Cardinality(queue.items)
      BY <2>1, FS_Subset
    <3>2. Cardinality(queue.items \ {f}) \in Nat
      BY <3>1, FS_CardinalityType
    <3> QED
      BY <2>1, <3>1, <3>2, PipelineAssumption DEF Queue
  <2>3. /\ [queue EXCEPT !.blocking = FALSE] \in Queue
        /\ [queue EXCEPT !.done = TRUE] \in Queue
    BY DEF Queue
  <2> QED
    BY <2>1, <2>2, <2>3, PipelineAssumption
<1> QED
  BY <1>1, <1>2

LEMMA PipelineTypes == TypeOK /\ PipelineThread => TypeOK'
<1> SUFFICES ASSUME TypeOK, PipelineThread PROVE TypeOK'
  OBVIOUS
<1> USE PipelineAssumption DEF TypeOK, PipelineState, Goto, callerVars,
        controlVars, stopFlags, captureVars, filterVars, llmVars, fates, workVars
<1>1. CASE Create
  <2>1. q1' \in Queue /\ q2' \in Queue
    <3>1. (mode = "offline") \in BOOLEAN
      OBVIOUS
    <3> QED
      BY <1>1, <3>1, QueueFacts, Zenon DEF Create
  <2>2. {shutdown_requested', capture_finished', reassembler', running', broken',
         flushing', fRunning', lRunning', dangling'} \subseteq BOOLEAN
    BY <1>1 DEF Create
  <2>3. {unread', table', batch', fFlow', lFlow', filtered', analysed', dropped'}
          \subseteq SUBSET Flows
    BY <1>1 DEF Create
  <2> QED
    BY <1>1, <2>1, <2>2, <2>3 DEF Create
<1>2. CASE CreateFails
  BY <1>2 DEF CreateFails
<1>3. CASE Launch
  BY <1>3 DEF Launch
<1>4. CASE MonitorCheck
  BY <1>4 DEF MonitorCheck
<1>5. CASE MonitorSample1
  <2>1. Cardinality(q1.items) \in 0 .. Capacity
    BY QueueFacts
  <2>2. sample' \in (0 .. Capacity) \X (0 .. Capacity)
    BY <1>5, <2>1 DEF MonitorSample1
  <2> QED
    BY <1>5, <2>2 DEF MonitorSample1
<1>6. CASE MonitorSample2
  <2>1. Cardinality(q2.items) \in 0 .. Capacity
    BY QueueFacts
  <2>2. sample' \in (0 .. Capacity) \X (0 .. Capacity)
    BY <1>6, <2>1 DEF MonitorSample2
  <2> QED
    BY <1>6, <2>2 DEF MonitorSample2
<1>7. CASE MonitorDecide
  BY <1>7 DEF MonitorDecide
<1>8. CASE ShutStopping
  BY <1>8 DEF ShutStopping
<1>9. CASE ShutHalt
  <2>1. {shutdown_requested', capture_finished', reassembler', running', broken',
         flushing', fRunning', lRunning', dangling'} \subseteq BOOLEAN
    BY <1>9 DEF ShutHalt
  <2> QED
    BY <1>9, <2>1 DEF ShutHalt
<1>10. CASE ShutUnblock
  <2>1. q1' \in Queue /\ q2' \in Queue
    BY <1>10, QueueFacts DEF ShutUnblock
  <2> QED
    BY <1>10, <2>1 DEF ShutUnblock
<1>11. CASE ShutJoinCapture
  <2>1. q1' \in Queue /\ q2' \in Queue
    BY <1>11, QueueFacts DEF ShutJoinCapture
  <2> QED
    BY <1>11, <2>1 DEF ShutJoinCapture
<1>12. CASE ShutHaltFilter
  <2>1. {shutdown_requested', capture_finished', reassembler', running', broken',
         flushing', fRunning', lRunning', dangling'} \subseteq BOOLEAN
    BY <1>12 DEF ShutHaltFilter
  <2> QED
    BY <1>12, <2>1 DEF ShutHaltFilter
<1>13. CASE ShutJoinFilter
  <2>1. q1' \in Queue /\ q2' \in Queue
    BY <1>13, QueueFacts DEF ShutJoinFilter
  <2> QED
    BY <1>13, <2>1 DEF ShutJoinFilter
<1>14. CASE ShutHaltLlm
  <2>1. {shutdown_requested', capture_finished', reassembler', running', broken',
         flushing', fRunning', lRunning', dangling'} \subseteq BOOLEAN
    BY <1>14 DEF ShutHaltLlm
  <2> QED
    BY <1>14, <2>1 DEF ShutHaltLlm
<1>15. CASE ShutReset
  <2>1. q1' \in Queue /\ q2' \in Queue
    BY <1>15, QueueFacts DEF ShutReset
  <2> QED
    BY <1>15, <2>1 DEF ShutReset
<1>16. CASE ShutStopped
  BY <1>16 DEF ShutStopped
<1> QED
  BY <1>1, <1>2, <1>3, <1>4, <1>5, <1>6, <1>7, <1>8, <1>9, <1>10, <1>11, <1>12, <1>13,
     <1>14, <1>15, <1>16 DEF PipelineThread, Monitor, Shutdown

LEMMA CaptureTypes == TypeOK /\ CaptureThread => TypeOK'
<1> SUFFICES ASSUME TypeOK, CaptureThread PROVE TypeOK'
  OBVIOUS
<1> USE PipelineAssumption DEF TypeOK, PipelineState, callerVars, controlVars,
        stopFlags, filterVars, llmVars
<1>1. CASE CaptureStart
  BY <1>1 DEF CaptureStart, fates
<1>2. CASE CaptureBreak
  BY <1>2 DEF CaptureBreak, fates
<1>3. CASE CaptureDispatch
  BY <1>3 DEF CaptureDispatch, fates
<1>4. CASE CaptureEndOfFile
  BY <1>4 DEF CaptureEndOfFile, fates
<1>5. CASE CapturePush
  <2>1. PICK f \in batch : \E out \in PushOutcomes(q1, f, {f}) :
          /\ q1' = [q1 EXCEPT !.items = out.items]
          /\ dropped' = dropped \cup out.lost
          /\ batch' = batch \ {f}
    BY <1>5 DEF CapturePush
  <2>2. PICK out \in PushOutcomes(q1, f, {f}) :
          q1' = [q1 EXCEPT !.items = out.items] /\ dropped' = dropped \cup out.lost
    BY <2>1
  <2>3. /\ out.items \in SUBSET Flows /\ Cardinality(out.items) <= Capacity
        /\ out.lost \in SUBSET Flows
    BY PushKeeps
  <2>4. q1' \in Queue /\ dropped' \in SUBSET Flows /\ batch' \in SUBSET Flows
    BY <2>1, <2>2, <2>3 DEF Queue
  <2> QED
    BY <1>5, <2>4 DEF CapturePush
<1>6. CASE CapturePushed
  BY <1>6 DEF CapturePushed, fates
<1>7. CASE CaptureExit
  BY <1>7 DEF CaptureExit, fates
<1> QED
  BY <1>1, <1>2, <1>3, <1>4, <1>5, <1>6, <1>7 DEF CaptureThread

LEMMA FilterTypes == TypeOK /\ FilterThread => TypeOK'
<1> SUFFICES ASSUME TypeOK, FilterThread PROVE TypeOK'
  OBVIOUS
<1> USE PipelineAssumption, QueueFacts DEF TypeOK, PipelineState, callerVars,
        controlVars, stopFlags, captureVars, llmVars
<1>1. CASE FilterTop
  BY <1>1 DEF FilterTop, fates
<1>2. CASE FilterPop
  <2>1. q1' \in Queue /\ fFlow' \in SUBSET Flows /\ fpc' \in {"decide", "top"}
    <3>1. CASE \E f \in q1.items : /\ q1' = [q1 EXCEPT !.items = @ \ {f}]
                                   /\ fFlow' = {f} /\ fpc' = "decide"
      <4>1. PICK f \in q1.items : /\ q1' = [q1 EXCEPT !.items = @ \ {f}]
                                  /\ fFlow' = {f} /\ fpc' = "decide"
        BY <3>1
      <4>2. f \in Flows
        BY DEF Queue
      <4> QED
        BY <4>1, <4>2
    <3> QED
      BY <1>2, <3>1 DEF FilterPop
  <2> QED
    BY <1>2, <2>1 DEF FilterPop, fates
<1>3. CASE FilterDecide
  BY <1>3 DEF FilterDecide
<1>4. CASE FilterPush
  <2>1. PICK f \in fFlow : \E out \in PushOutcomes(q2, f, q2.items \cup {f}) :
          q2' = [q2 EXCEPT !.items = out.items] /\ dropped' = dropped \cup out.lost
    BY <1>4 DEF FilterPush
  <2>2. PICK out \in PushOutcomes(q2, f, q2.items \cup {f}) :
          q2' = [q2 EXCEPT !.items = out.items] /\ dropped' = dropped \cup out.lost
    BY <2>1
  <2>3. /\ out.items \in SUBSET Flows /\ Cardinality(out.items) <= Capacity
        /\ out.lost \in SUBSET Flows
    BY PushKeeps
  <2>4. q2' \in Queue /\ dropped' \in SUBSET Flows
    BY <2>2, <2>3 DEF Queue
  <2> QED
    BY <1>4, <2>4 DEF FilterPush
<1> QED
  BY <1>1, <1>2, <1>3, <1>4 DEF FilterThread

LEMMA LlmTypes == TypeOK /\ LlmThread => TypeOK'
<1> SUFFICES ASSUME TypeOK, LlmThread PROVE TypeOK'
  OBVIOUS
<1> USE PipelineAssumption, QueueFacts DEF TypeOK, PipelineState, callerVars,
        controlVars, stopFlags, captureVars, filterVars
<1>1. CASE LlmTop
  BY <1>1 DEF LlmTop, fates
<1>2. CASE LlmPop
  <2>1. q2' \in Queue /\ lFlow' \in SUBSET Flows /\ lpc' \in {"analyse", "top"}
    <3>1. CASE \E f \in q2.items : /\ q2' = [q2 EXCEPT !.items = @ \ {f}]
                                   /\ lFlow' = {f} /\ lpc' = "analyse"
      <4>1. PICK f \in q2.items : /\ q2' = [q2 EXCEPT !.items = @ \ {f}]
                                  /\ lFlow' = {f} /\ lpc' = "analyse"
        BY <3>1
      <4>2. f \in Flows
        BY DEF Queue
      <4> QED
        BY <4>1, <4>2
    <3> QED
      BY <1>2, <3>1 DEF LlmPop
  <2> QED
    BY <1>2, <2>1 DEF LlmPop, fates
<1>3. CASE LlmAnalyse
  BY <1>3 DEF LlmAnalyse
<1> QED
  BY <1>1, <1>2, <1>3 DEF LlmThread

LEMMA StutterTypes == TypeOK /\ UNCHANGED vars => TypeOK'
  BY DEF TypeOK, vars, callerVars, controlVars, stopFlags, workVars, captureVars,
         filterVars, llmVars, fates

LEMMA NextTypes == TypeOK /\ [Next]_vars => TypeOK'
  BY StartTypes, StopTypes, PipelineTypes, CaptureTypes, FilterTypes, LlmTypes,
     StutterTypes DEF Next, Quiescent

\* The threads, queues and flags of the pipeline keep their types, and no queue ever
\* holds more than its capacity.
THEOREM PipelineTypeCorrect == Spec => []TypeOK
  BY InitTypes, NextTypes, PTL DEF Spec

-------------------------------------------------------------------------------
(* The teardown                                                                *)

Alive == {"launch", "check", "sample1", "sample2", "decide", "stopping", "halt",
          "unblock", "joinCapture", "haltFilter", "joinFilter", "haltLlm", "joinLlm"}
CaptureJoined == {"haltFilter", "joinFilter", "haltLlm", "joinLlm"}
FilterJoined == {"haltLlm", "joinLlm"}
Bare == {"none", "create", "launch", "stopped", "ended"}

\* Where the pipeline thread is decides which objects exist, which threads may run and
\* which queues are finished.
PhaseInv ==
  /\ tpc \in Alive => reassembler
  /\ tpc \in Bare => /\ Idle(cpc) /\ Idle(fpc) /\ Idle(lpc)
                     /\ ~q1.done /\ ~q2.done
  /\ tpc \in CaptureJoined => cpc = "ended"
  /\ tpc \in FilterJoined => fpc = "ended"
  /\ q1.done => tpc \in CaptureJoined
  /\ q2.done => tpc \in FilterJoined
  /\ ~fRunning /\ fpc # "off" => cpc = "ended"

LEMMA PhaseInvSuffices == TypeOK /\ PhaseInv => TeardownInOrder
  BY DEF TypeOK, PhaseInv, TeardownInOrder, WorkersSeeLiveComponents, UpstreamFirst,
         Alive, Bare, CaptureJoined, FilterJoined, Idle

LEMMA InitPhase == Init => PhaseInv
  BY DEF Init, PhaseInv, Alive, Bare, CaptureJoined, FilterJoined, Idle, NewQueue

LEMMA QueueFields ==
  \A queue \in Queue :
    /\ [queue EXCEPT !.done = TRUE].done
    /\ [queue EXCEPT !.blocking = FALSE].done = queue.done
    /\ ~[queue EXCEPT !.blocking = FALSE].blocking
    /\ [queue EXCEPT !.done = TRUE].blocking = queue.blocking
    /\ [queue EXCEPT !.done = TRUE].items = queue.items
    /\ [queue EXCEPT !.blocking = FALSE].items = queue.items
    /\ \A items : /\ [queue EXCEPT !.items = items].done = queue.done
                  /\ [queue EXCEPT !.items = items].blocking = queue.blocking
                  /\ [queue EXCEPT !.items = items].items = items
  BY DEF Queue

LEMMA CallerPhase ==
  TypeOK /\ PhaseInv /\ (Start \/ (\E c \in Clients : Stop(c)) \/ UNCHANGED vars)
    => PhaseInv'
<1> SUFFICES ASSUME TypeOK, PhaseInv,
                    Start \/ (\E c \in Clients : Stop(c)) \/ UNCHANGED vars
             PROVE  PhaseInv'
  OBVIOUS
<1>1. /\ UNCHANGED <<reassembler, cpc, fpc, lpc, q1, q2, fRunning>>
      /\ tpc' = tpc \/ (tpc \in {"none", "ended"} /\ tpc' = "create")
  <2> USE DEF workVars, captureVars, filterVars, llmVars
  <2>1. CASE StartCheck
    BY <2>1 DEF StartCheck
  <2>2. CASE StartClear
    BY <2>2 DEF StartClear
  <2>3. CASE StartSpawn
    BY <2>3 DEF StartSpawn
  <2>4. ASSUME NEW c \in Clients, Stop(c)
        PROVE  UNCHANGED <<reassembler, cpc, fpc, lpc, q1, q2, fRunning, tpc>>
    <3>1. CASE StopRequest(c)
      BY <3>1 DEF StopRequest
    <3>2. CASE StopTest(c)
      BY <3>2 DEF StopTest
    <3>3. CASE StopCall(c)
      BY <3>3 DEF StopCall
    <3> QED
      BY <2>4, <3>1, <3>2, <3>3 DEF Stop
  <2>5. CASE UNCHANGED vars
    BY <2>5 DEF vars
  <2> QED
    BY <2>1, <2>2, <2>3, <2>4, <2>5 DEF Start
<1> QED
  BY <1>1 DEF PhaseInv, Alive, Bare, CaptureJoined, FilterJoined, Idle

LEMMA PipelinePhase == TypeOK /\ PhaseInv /\ PipelineThread => PhaseInv'
<1> SUFFICES ASSUME TypeOK, PhaseInv, PipelineThread PROVE PhaseInv'
  OBVIOUS
<1>0. q1 \in Queue /\ q2 \in Queue
  BY DEF TypeOK
<1> USE <1>0, QueueFields DEF PhaseInv, Alive, Bare, CaptureJoined, FilterJoined, Idle, Goto,
        NewQueue, stopFlags, captureVars, filterVars, llmVars, workVars
<1>1. CASE Create
  BY <1>1 DEF Create
<1>2. CASE CreateFails
  BY <1>2 DEF CreateFails
<1>3. CASE Launch
  BY <1>3 DEF Launch
<1>4. CASE Monitor
  BY <1>4 DEF Monitor, MonitorCheck, MonitorSample1, MonitorSample2, MonitorDecide
<1>5. CASE ShutStopping \/ ShutHalt
  BY <1>5 DEF ShutStopping, ShutHalt
<1>6. CASE ShutUnblock
  BY <1>6 DEF ShutUnblock
<1>7. CASE ShutJoinCapture
  BY <1>7 DEF ShutJoinCapture
<1>8. CASE ShutHaltFilter
  BY <1>8 DEF ShutHaltFilter
<1>9. CASE ShutJoinFilter
  BY <1>9 DEF ShutJoinFilter
<1>10. CASE ShutHaltLlm
  BY <1>10 DEF ShutHaltLlm
<1>11. CASE ShutReset
  BY <1>11 DEF ShutReset
<1>12. CASE ShutStopped
  BY <1>12 DEF ShutStopped
<1> QED
  BY <1>1, <1>2, <1>3, <1>4, <1>5, <1>6, <1>7, <1>8, <1>9, <1>10, <1>11, <1>12
     DEF PipelineThread, Shutdown

LEMMA StagePhase ==
  TypeOK /\ PhaseInv /\ (CaptureThread \/ FilterThread \/ LlmThread) => PhaseInv'
<1> SUFFICES ASSUME TypeOK, PhaseInv, CaptureThread \/ FilterThread \/ LlmThread
             PROVE  PhaseInv'
  OBVIOUS
<1>0. q1 \in Queue /\ q2 \in Queue
  BY DEF TypeOK
\* No stage starts, or finishes a queue; it may only come to its end.
<1>1. CASE CaptureThread
  <2>1. /\ cpc \notin {"off", "ended"} /\ q1'.done = q1.done
        /\ UNCHANGED <<tpc, reassembler, fpc, lpc, fRunning, q2>>
    <3>1. CASE CapturePush
      BY <1>0, <3>1, QueueFields DEF CapturePush, filterVars, llmVars
    <3>2. CASE CaptureThread /\ ~CapturePush
      BY <3>2 DEF CaptureThread, CaptureStart, CaptureBreak, CaptureDispatch,
                  CaptureEndOfFile, CapturePushed, CaptureExit, filterVars, llmVars
    <3> QED
      BY <1>1, <3>1, <3>2
  <2> QED
    BY <2>1 DEF PhaseInv, Alive, Bare, CaptureJoined, FilterJoined, Idle
<1>2. CASE FilterThread
  <2>1. /\ fpc \notin {"off", "ended"} /\ q1'.done = q1.done /\ q2'.done = q2.done
        /\ UNCHANGED <<tpc, reassembler, cpc, lpc, fRunning>>
    <3>1. CASE FilterTop \/ FilterDecide
      BY <3>1 DEF FilterTop, FilterDecide, captureVars, llmVars
    <3>2. CASE FilterPop
      <4>1. q1'.done = q1.done
        <5>1. ASSUME NEW f, q1' = [q1 EXCEPT !.items = @ \ {f}]
              PROVE  q1'.done = q1.done
          BY <1>0, <5>1 DEF Queue
        <5> QED
          BY <3>2, <5>1 DEF FilterPop
      <4> QED
        BY <3>2, <4>1 DEF FilterPop, captureVars, llmVars
    <3>3. CASE FilterPush
      BY <1>0, <3>3, QueueFields DEF FilterPush, captureVars, llmVars
    <3> QED
      BY <1>2, <3>1, <3>2, <3>3 DEF FilterThread
  <2>2. fpc' # "off"
    BY <1>2 DEF FilterThread, FilterTop, FilterPop, FilterDecide, FilterPush
  <2> QED
    BY <2>1, <2>2 DEF PhaseInv, Alive, Bare, CaptureJoined, FilterJoined, Idle
<1>3. CASE LlmThread
  <2>1. /\ lpc \notin {"off", "ended"} /\ q2'.done = q2.done
        /\ UNCHANGED <<tpc, reassembler, cpc, fpc, fRunning, q1>>
    <3>1. CASE LlmTop \/ LlmAnalyse
      BY <3>1 DEF LlmTop, LlmAnalyse, captureVars, filterVars
    <3>2. CASE LlmPop
      <4>1. q2'.done = q2.done
        <5>1. ASSUME NEW f, q2' = [q2 EXCEPT !.items = @ \ {f}]
              PROVE  q2'.done = q2.done
          BY <1>0, <5>1 DEF Queue
        <5> QED
          BY <3>2, <5>1 DEF LlmPop
      <4> QED
        BY <3>2, <4>1 DEF LlmPop, captureVars, filterVars
    <3> QED
      BY <1>3, <3>1, <3>2 DEF LlmThread
  <2> QED
    BY <2>1 DEF PhaseInv, Alive, Bare, CaptureJoined, FilterJoined, Idle
<1> QED
  BY <1>1, <1>2, <1>3

LEMMA NextPhase == TypeOK /\ PhaseInv /\ [Next]_vars => PhaseInv'
  BY CallerPhase, PipelinePhase, StagePhase DEF Next, Quiescent

\* The stages are torn down front to back, and no component or queue is destroyed
\* under a thread that uses it, whenever stop() is called and however runs follow one
\* another.
THEOREM TeardownIsOrdered == Spec => []TeardownInOrder
  BY InitTypes, NextTypes, InitPhase, NextPhase, PhaseInvSuffices, PTL DEF Spec

-------------------------------------------------------------------------------
(* Backpressure                                                                *)

Started == {"check", "sample1", "sample2", "decide", "stopping"}
Filling == Started \cup {"launch", "halt", "unblock"}
Joining == {"joinCapture", "haltFilter", "joinFilter"}
AtRest == {"none", "ended"}

\* How the state and the mode go with where the pipeline thread is, and what the queues
\* do to those who push there.
RoomInv ==
  /\ client[Owner] \in {"clear", "join"} => tpc \in AtRest
  /\ client[Owner] = "join" => state = "Starting"
  /\ state \in {"Stopped", "Error"} => tpc \in AtRest
  /\ state = "Running" => tpc \in Started
  /\ mode = "offline" /\ tpc \in Filling => q1.blocking /\ q2.blocking /\ dropped = {}
  /\ tpc \in Joining => ~q1.blocking /\ ~q2.blocking

LEMMA RoomInvSuffices == RoomInv => ZeroDropOffline /\ JoinsDoNotWaitForRoom
<1> SUFFICES ASSUME RoomInv PROVE ZeroDropOffline /\ JoinsDoNotWaitForRoom
  OBVIOUS
<1>1. ZeroDropOffline
  BY DEF RoomInv, ZeroDropOffline, Filling, Started
<1>2. ASSUME NEW queue, NEW f, NEW victims, ~queue.blocking, f \in victims
      PROVE  PushOutcomes(queue, f, victims) # {}
  <2>1. CASE Full(queue)
    <3>1. [items |-> (queue.items \cup {f}) \ {f}, lost |-> {f}]
            \in PushOutcomes(queue, f, victims)
      BY <1>2, <2>1 DEF PushOutcomes
    <3> QED
      BY <3>1
  <2>2. CASE ~Full(queue)
    BY <2>2 DEF PushOutcomes
  <2> QED
    BY <2>1, <2>2
<1>3. JoinsDoNotWaitForRoom
  BY <1>2 DEF RoomInv, JoinsDoNotWaitForRoom, Joining
<1> QED
  BY <1>1, <1>3

LEMMA InitRoom == Init => RoomInv
  BY DEF Init, RoomInv, AtRest, Started, Filling, Joining, Clients

LEMMA CallerRoom ==
  TypeOK /\ RoomInv /\ (Start \/ (\E c \in Clients : Stop(c)) \/ UNCHANGED vars)
    => RoomInv'
<1> SUFFICES ASSUME TypeOK, RoomInv,
                    Start \/ (\E c \in Clients : Stop(c)) \/ UNCHANGED vars
             PROVE  RoomInv'
  OBVIOUS
<1>0. Owner \in Clients /\ client \in [Clients -> {"idle", "clear", "join", "test", "call"}]
  BY DEF TypeOK, Clients
<1> USE <1>0 DEF RoomInv, AtRest, Started, Filling, Joining, At, workVars, fates,
        controlVars
<1>1. CASE StartCheck
  BY <1>1 DEF StartCheck
<1>2. CASE StartClear
  BY <1>2 DEF StartClear
<1>3. CASE StartSpawn
  BY <1>3 DEF StartSpawn
<1>4. ASSUME NEW c \in Clients, Stop(c)
      PROVE  RoomInv'
  <2>1. /\ UNCHANGED <<tpc, state, mode, q1, q2, dropped>>
        /\ client'[Owner] = client[Owner] \/ client'[Owner] \in {"test", "call", "idle"}
    <3>1. CASE StopRequest(c)
      BY <3>1 DEF StopRequest
    <3>2. CASE StopTest(c)
      BY <3>2 DEF StopTest
    <3>3. CASE StopCall(c)
      BY <3>3 DEF StopCall
    <3> QED
      BY <1>4, <3>1, <3>2, <3>3 DEF Stop
  <2> QED
    BY <2>1
<1>5. CASE UNCHANGED vars
  BY <1>5 DEF vars, callerVars
<1> QED
  BY <1>1, <1>2, <1>3, <1>4, <1>5 DEF Start

LEMMA PipelineRoom == TypeOK /\ RoomInv /\ PipelineThread => RoomInv'
<1> SUFFICES ASSUME TypeOK, RoomInv, PipelineThread PROVE RoomInv'
  OBVIOUS
<1>0. q1 \in Queue /\ q2 \in Queue
  BY DEF TypeOK
<1> USE <1>0, QueueFields DEF RoomInv, AtRest, Started, Filling, Joining, Goto, NewQueue,
        callerVars, controlVars, workVars, fates
<1>1. CASE Create
  BY <1>1 DEF Create
<1>2. CASE CreateFails
  BY <1>2 DEF CreateFails
<1>3. CASE Launch
  BY <1>3 DEF Launch
<1>4. CASE MonitorCheck
  BY <1>4 DEF MonitorCheck
<1>5. CASE MonitorSample1 \/ MonitorSample2
  BY <1>5 DEF MonitorSample1, MonitorSample2
<1>6. CASE MonitorDecide
  BY <1>6 DEF MonitorDecide
<1>7. CASE ShutStopping
  BY <1>7 DEF ShutStopping
<1>8. CASE ShutHalt
  BY <1>8 DEF ShutHalt
<1>9. CASE ShutUnblock
  BY <1>9 DEF ShutUnblock
<1>10. CASE ShutJoinCapture
  BY <1>10 DEF ShutJoinCapture
<1>11. CASE ShutHaltFilter
  BY <1>11 DEF ShutHaltFilter
<1>12. CASE ShutJoinFilter
  BY <1>12 DEF ShutJoinFilter
<1>13. CASE ShutHaltLlm
  BY <1>13 DEF ShutHaltLlm
<1>14. CASE ShutReset
  BY <1>14 DEF ShutReset
<1>15. CASE ShutStopped
  BY <1>15 DEF ShutStopped
<1> QED
  BY <1>1, <1>2, <1>3, <1>4, <1>5, <1>6, <1>7, <1>8, <1>9, <1>10, <1>11, <1>12, <1>13,
     <1>14, <1>15 DEF PipelineThread, Monitor, Shutdown

(* A stage pushes without changing the mode of a queue, and loses nothing while it    *)
(* holds its pushers back and is not finished.                                        *)
LEMMA StageRoom ==
  TypeOK /\ PhaseInv /\ RoomInv /\ (CaptureThread \/ FilterThread \/ LlmThread)
    => RoomInv'
<1> SUFFICES ASSUME TypeOK, PhaseInv, RoomInv,
                    CaptureThread \/ FilterThread \/ LlmThread
             PROVE  RoomInv'
  OBVIOUS
<1>0. q1 \in Queue /\ q2 \in Queue /\ batch \subseteq Flows /\ fFlow \subseteq Flows
  BY DEF TypeOK
<1>1. UNCHANGED <<tpc, state, mode, client>>
  <2>1. CASE CaptureThread
    BY <2>1 DEF CaptureThread, CaptureStart, CaptureBreak, CaptureDispatch,
       CaptureEndOfFile, CapturePush, CapturePushed, CaptureExit, callerVars, controlVars
  <2>2. CASE FilterThread
    BY <2>2 DEF FilterThread, FilterTop, FilterPop, FilterDecide, FilterPush, callerVars,
       controlVars
  <2>3. CASE LlmThread
    BY <2>3 DEF LlmThread, LlmTop, LlmPop, LlmAnalyse, callerVars, controlVars
  <2> QED
    BY <2>1, <2>2, <2>3
<1>2. /\ q1'.blocking = q1.blocking /\ q2'.blocking = q2.blocking
      /\ q1.blocking /\ ~q1.done /\ q2.blocking /\ ~q2.done => dropped' = dropped
  <2>1. CASE CapturePush
    <3>1. PICK f \in batch : \E out \in PushOutcomes(q1, f, {f}) :
            q1' = [q1 EXCEPT !.items = out.items] /\ dropped' = dropped \cup out.lost
      BY <2>1 DEF CapturePush
    <3>2. PICK out \in PushOutcomes(q1, f, {f}) :
            q1' = [q1 EXCEPT !.items = out.items] /\ dropped' = dropped \cup out.lost
      BY <3>1
    <3>3. q1.blocking /\ ~q1.done => out.lost = {}
      BY <1>0, PushKeeps
    <3>4. q2' = q2
      BY <2>1 DEF CapturePush
    <3> QED
      BY <1>0, <3>2, <3>3, <3>4, QueueFields
  <2>2. CASE CaptureThread /\ ~CapturePush
    BY <2>2 DEF CaptureThread, CaptureStart, CaptureBreak, CaptureDispatch,
                CaptureEndOfFile, CapturePushed, CaptureExit, fates
  <2>3. CASE FilterPush
    <3>1. PICK f \in fFlow : \E out \in PushOutcomes(q2, f, q2.items \cup {f}) :
            q2' = [q2 EXCEPT !.items = out.items] /\ dropped' = dropped \cup out.lost
      BY <2>3 DEF FilterPush
    <3>2. PICK out \in PushOutcomes(q2, f, q2.items \cup {f}) :
            q2' = [q2 EXCEPT !.items = out.items] /\ dropped' = dropped \cup out.lost
      BY <3>1
    <3>3. q2.blocking /\ ~q2.done => out.lost = {}
      BY <1>0, PushKeeps
    <3>4. q1' = q1
      BY <2>3 DEF FilterPush
    <3> QED
      BY <1>0, <3>2, <3>3, <3>4, QueueFields
  <2>4. CASE FilterTop \/ FilterDecide
    BY <2>4 DEF FilterTop, FilterDecide, fates
  <2>5. CASE FilterPop
    <3>1. q1'.blocking = q1.blocking
      <4>1. ASSUME NEW f, q1' = [q1 EXCEPT !.items = @ \ {f}]
            PROVE  q1'.blocking = q1.blocking
        BY <1>0, <4>1 DEF Queue
      <4> QED
        BY <2>5, <4>1 DEF FilterPop
    <3> QED
      BY <2>5, <3>1 DEF FilterPop, fates
  <2>6. CASE LlmTop \/ LlmAnalyse
    BY <2>6 DEF LlmTop, LlmAnalyse, fates
  <2>7. CASE LlmPop
    <3>1. q2'.blocking = q2.blocking
      <4>1. ASSUME NEW f, q2' = [q2 EXCEPT !.items = @ \ {f}]
            PROVE  q2'.blocking = q2.blocking
        BY <1>0, <4>1 DEF Queue
      <4> QED
        BY <2>7, <4>1 DEF LlmPop
    <3> QED
      BY <2>7, <3>1 DEF LlmPop, fates
  <2> QED
    BY <2>1, <2>2, <2>3, <2>4, <2>5, <2>6, <2>7 DEF FilterThread, LlmThread
<1>3. tpc \in Filling => ~q1.done /\ ~q2.done
  BY DEF PhaseInv, Filling, Started, CaptureJoined, FilterJoined
<1> QED
  BY <1>1, <1>2, <1>3 DEF RoomInv

LEMMA NextRoom == TypeOK /\ PhaseInv /\ RoomInv /\ [Next]_vars => RoomInv'
  BY CallerRoom, PipelineRoom, StageRoom DEF Next, Quiescent

\* An offline run drops no flow before its shutdown begins: queues are created blocking,
\* nobody else changes that, and none is finished yet.
THEOREM NothingDroppedOffline == Spec => []ZeroDropOffline
<1>1. RoomInv => ZeroDropOffline
  BY RoomInvSuffices
<1> QED
  BY <1>1, InitTypes, NextTypes, InitPhase, NextPhase, InitRoom, NextRoom, PTL DEF Spec

\* Once the shutdown joins a stage, no push of it waits for room.
THEOREM JoinsNeverWait == Spec => []JoinsDoNotWaitForRoom
<1>1. RoomInv => JoinsDoNotWaitForRoom
  BY RoomInvSuffices
<1> QED
  BY <1>1, InitTypes, NextTypes, InitPhase, NextPhase, InitRoom, NextRoom, PTL DEF Spec

-------------------------------------------------------------------------------
(* Custody                                                                     *)

\* FlowCustody, place by place.
Apart ==
  /\ unread \cup table \cup batch \cup q1.items \cup fFlow \cup q2.items \cup lFlow
       \cup filtered \cup analysed \cup dropped = Flows
  /\ unread \cap (table \cup batch \cup q1.items \cup fFlow \cup q2.items \cup lFlow
                  \cup filtered \cup analysed \cup dropped) = {}
  /\ table \cap (batch \cup q1.items \cup fFlow \cup q2.items \cup lFlow
                 \cup filtered \cup analysed \cup dropped) = {}
  /\ batch \cap (q1.items \cup fFlow \cup q2.items \cup lFlow
                 \cup filtered \cup analysed \cup dropped) = {}
  /\ q1.items \cap (fFlow \cup q2.items \cup lFlow \cup filtered \cup analysed
                    \cup dropped) = {}
  /\ fFlow \cap (q2.items \cup lFlow \cup filtered \cup analysed \cup dropped) = {}
  /\ q2.items \cap (lFlow \cup filtered \cup analysed \cup dropped) = {}
  /\ lFlow \cap (filtered \cup analysed \cup dropped) = {}
  /\ filtered \cap (analysed \cup dropped) = {}
  /\ analysed \cap dropped = {}

\* The workers hold one flow at a time, and between two batches the capture thread none:
\* what their next step overwrites is empty.
HandsInv ==
  /\ IF fpc \in {"decide", "push"} THEN \E f \in Flows : fFlow = {f} ELSE fFlow = {}
  /\ IF lpc = "analyse" THEN \E f \in Flows : lFlow = {f} ELSE lFlow = {}
  /\ cpc # "push" => batch = {}

CustodyInv == HandsInv /\ (tpc \in Alive => Apart)

LEMMA CustodyInvSuffices == TypeOK /\ CustodyInv => FlowCustody
<1> SUFFICES ASSUME TypeOK, CustodyInv PROVE FlowCustody
  OBVIOUS
<1>1. SUFFICES ASSUME tpc \notin {"none", "create", "stopped", "ended"}
               PROVE  /\ UNION {Places[k] : k \in DOMAIN Places} = Flows
                      /\ \A j, k \in DOMAIN Places : j # k => Places[j] \cap Places[k] = {}
  BY DEF FlowCustody
<1>2. Apart
  BY <1>1 DEF TypeOK, CustodyInv, Alive
<1>3. /\ DOMAIN Places = 1 .. 10
      /\ Places[1] = unread /\ Places[2] = table /\ Places[3] = batch
      /\ Places[4] = q1.items /\ Places[5] = fFlow /\ Places[6] = q2.items
      /\ Places[7] = lFlow /\ Places[8] = filtered /\ Places[9] = analysed
      /\ Places[10] = dropped
  BY DEF Places
<1>4. \A j, k \in DOMAIN Places : j # k => Places[j] \cap Places[k] = {}
  BY <1>2, <1>3 DEF Apart
<1>5. UNION {Places[k] : k \in DOMAIN Places} = Flows
  BY <1>2, <1>3 DEF Apart
<1> QED
  BY <1>4, <1>5

LEMMA InitCustody == Init => CustodyInv
  BY DEF Init, CustodyInv, HandsInv, Alive

LEMMA CallerCustody ==
  TypeOK /\ CustodyInv /\ (Start \/ (\E c \in Clients : Stop(c)) \/ UNCHANGED vars)
    => CustodyInv'
<1> SUFFICES ASSUME CustodyInv,
                    Start \/ (\E c \in Clients : Stop(c)) \/ UNCHANGED vars
             PROVE  CustodyInv'
  OBVIOUS
<1>1. /\ UNCHANGED workVars
      /\ tpc' = tpc \/ tpc' = "create"
  <2>1. CASE Start
    BY <2>1 DEF Start, StartCheck, StartClear, StartSpawn
  <2>2. CASE \E c \in Clients : Stop(c)
    BY <2>2 DEF Stop, StopRequest, StopTest, StopCall
  <2>3. CASE UNCHANGED vars
    BY <2>3 DEF vars
  <2> QED
    BY <2>1, <2>2, <2>3
<1> QED
  BY <1>1 DEF CustodyInv, HandsInv, Apart, Alive, workVars, captureVars, filterVars,
              llmVars, fates

LEMMA PipelineCustody == TypeOK /\ PhaseInv /\ CustodyInv /\ PipelineThread => CustodyInv'
<1> SUFFICES ASSUME TypeOK, PhaseInv, CustodyInv, PipelineThread PROVE CustodyInv'
  OBVIOUS
<1>0. q1 \in Queue /\ q2 \in Queue
  BY DEF TypeOK
<1>1. CASE Create
  <2>1. fFlow = {} /\ lFlow = {} /\ cpc # "push"
    BY <1>1 DEF Create, Goto, PhaseInv, Bare, Idle, CustodyInv, HandsInv
  <2>2. HandsInv'
    BY <1>1, <2>1 DEF Create, CustodyInv, HandsInv, filterVars, llmVars
  <2>3. Apart'
    BY <1>1, <2>1 DEF Create, Apart, NewQueue, filterVars, llmVars
  <2> QED
    BY <2>2, <2>3 DEF CustodyInv
<1>2. CASE Launch
  <2>1. fFlow = {} /\ lFlow = {} /\ batch = {} /\ tpc \in Alive
    BY <1>2 DEF Launch, Goto, PhaseInv, Bare, Alive, Idle, CustodyInv, HandsInv
  <2> QED
    BY <1>2, <2>1 DEF Launch, CustodyInv, HandsInv, Apart, fates
\* Of the later steps only ShutReset, after which nothing is running, moves a flow.
<1>3. CASE PipelineThread /\ ~Create /\ ~Launch
  <2>1. UNCHANGED <<fpc, fFlow, lpc, lFlow, cpc, batch>>
    BY <1>3 DEF PipelineThread, CreateFails, Monitor, MonitorCheck, MonitorSample1,
       MonitorSample2, MonitorDecide, Shutdown, ShutStopping, ShutHalt, ShutUnblock,
       ShutJoinCapture, ShutHaltFilter, ShutJoinFilter, ShutHaltLlm, ShutReset,
       ShutStopped, workVars, captureVars, filterVars, llmVars
  <2>2. HandsInv'
    BY <2>1 DEF CustodyInv, HandsInv
  <2>3. ASSUME tpc' \in Alive
        PROVE  Apart'
    <3>1. tpc \in Alive /\ ~ShutReset
      BY <1>3, <2>3 DEF PipelineThread, CreateFails, Monitor, MonitorCheck,
         MonitorSample1, MonitorSample2, MonitorDecide, Shutdown, ShutStopping, ShutHalt,
         ShutUnblock, ShutJoinCapture, ShutHaltFilter, ShutJoinFilter, ShutHaltLlm,
         ShutReset, ShutStopped, Goto, Alive
    <3>2. /\ UNCHANGED <<unread, table, filtered, analysed, dropped>>
          /\ q1'.items = q1.items /\ q2'.items = q2.items
      <4>1. CASE ShutUnblock
        BY <1>0, <4>1, QueueFields DEF ShutUnblock, captureVars, fates
      <4>2. CASE ShutJoinCapture
        BY <1>0, <4>2, QueueFields DEF ShutJoinCapture, captureVars, fates
      <4>3. CASE ShutJoinFilter
        BY <1>0, <4>3, QueueFields DEF ShutJoinFilter, captureVars, fates
      <4>4. CASE ShutHaltFilter \/ ShutHaltLlm
        BY <4>4 DEF ShutHaltFilter, ShutHaltLlm, captureVars, fates
      <4>5. CASE CreateFails \/ Monitor \/ ShutStopping \/ ShutHalt \/ ShutStopped
        BY <4>5 DEF CreateFails, Monitor, MonitorCheck, MonitorSample1, MonitorSample2,
           MonitorDecide, ShutStopping, ShutHalt, ShutStopped, workVars, captureVars, fates
      <4> QED
        BY <1>3, <3>1, <4>1, <4>2, <4>3, <4>4, <4>5 DEF PipelineThread, Shutdown
    <3> QED
      BY <2>1, <3>1, <3>2 DEF CustodyInv, Apart
  <2> QED
    BY <2>2, <2>3 DEF CustodyInv
<1> QED
  BY <1>1, <1>2, <1>3

LEMMA CaptureCustody == TypeOK /\ CustodyInv /\ CaptureThread => CustodyInv'
<1> SUFFICES ASSUME TypeOK, CustodyInv, CaptureThread PROVE CustodyInv'
  OBVIOUS
<1>0. q1 \in Queue /\ q2 \in Queue /\ batch \subseteq Flows
  BY DEF TypeOK
<1> USE DEF CustodyInv, HandsInv, filterVars, llmVars
<1>1. CASE CaptureStart \/ CaptureBreak \/ CapturePushed \/ CaptureExit
  BY <1>1 DEF CaptureStart, CaptureBreak, CapturePushed, CaptureExit, Apart, fates
<1>2. CASE CaptureDispatch
  <2>1. batch = {} /\ HandsInv'
    BY <1>2 DEF CaptureDispatch
  <2>2. Apart => Apart'
    BY <1>2, <2>1 DEF CaptureDispatch, Apart, fates
  <2> QED
    BY <1>2, <2>1, <2>2 DEF CaptureDispatch
<1>3. CASE CaptureEndOfFile
  BY <1>3 DEF CaptureEndOfFile, Apart, fates
<1>4. CASE CapturePush
  <2>1. PICK f \in batch : \E out \in PushOutcomes(q1, f, {f}) :
          /\ q1' = [q1 EXCEPT !.items = out.items]
          /\ dropped' = dropped \cup out.lost
          /\ batch' = batch \ {f}
    BY <1>4 DEF CapturePush
  <2>2. PICK out \in PushOutcomes(q1, f, {f}) :
          q1' = [q1 EXCEPT !.items = out.items] /\ dropped' = dropped \cup out.lost
    BY <2>1
  <2>3. out.items \cup out.lost = q1.items \cup {f} /\ out.items \cap out.lost = {}
    BY <1>0, PushKeeps
  <2>4. q1'.items = out.items
    BY <1>0, <2>2, QueueFields
  <2>5. Apart => Apart'
    BY <1>4, <2>1, <2>2, <2>3, <2>4 DEF CapturePush, Apart
  <2> QED
    BY <1>4, <2>5 DEF CapturePush
<1> QED
  BY <1>1, <1>2, <1>3, <1>4 DEF CaptureThread

LEMMA FilterCustody == TypeOK /\ CustodyInv /\ FilterThread => CustodyInv'
<1> SUFFICES ASSUME TypeOK, CustodyInv, FilterThread PROVE CustodyInv'
  OBVIOUS
<1>0. q1 \in Queue /\ q2 \in Queue /\ fFlow \subseteq Flows
  BY DEF TypeOK
<1> USE DEF CustodyInv, HandsInv, captureVars, llmVars
<1>1. CASE FilterTop
  BY <1>1 DEF FilterTop, Apart, fates
<1>2. CASE FilterPop
  <2>1. CASE fpc' = "top"
    BY <1>2, <2>1 DEF FilterPop, Apart, fates
  <2>2. CASE fpc' # "top"
    <3>1. PICK f \in q1.items : q1' = [q1 EXCEPT !.items = @ \ {f}] /\ fFlow' = {f}
      BY <1>2, <2>2 DEF FilterPop
    <3>2. fpc' = "decide" /\ fFlow = {} /\ f \in Flows
      BY <1>0, <1>2, <2>2 DEF FilterPop, Queue
    <3>3. q1'.items = q1.items \ {f}
      BY <1>0, <3>1 DEF Queue
    <3>4. Apart => Apart'
      BY <1>2, <3>1, <3>2, <3>3 DEF FilterPop, Apart, fates
    <3> QED
      BY <1>2, <3>1, <3>2, <3>4 DEF FilterPop
  <2> QED
    BY <2>1, <2>2
<1>3. CASE FilterDecide
  BY <1>3 DEF FilterDecide, Apart
<1>4. CASE FilterPush
  <2>1. PICK f \in Flows : fFlow = {f}
    BY <1>4 DEF FilterPush
  <2>2. PICK out \in PushOutcomes(q2, f, q2.items \cup {f}) :
          q2' = [q2 EXCEPT !.items = out.items] /\ dropped' = dropped \cup out.lost
    BY <1>4, <2>1 DEF FilterPush
  <2>3. out.items \cup out.lost = q2.items \cup {f} /\ out.items \cap out.lost = {}
    BY <1>0, PushKeeps
  <2>4. q2'.items = out.items
    BY <1>0, <2>2, QueueFields
  <2>5. Apart => Apart'
    BY <1>4, <2>1, <2>2, <2>3, <2>4 DEF FilterPush, Apart
  <2> QED
    BY <1>4, <2>5 DEF FilterPush
<1> QED
  BY <1>1, <1>2, <1>3, <1>4 DEF FilterThread

LEMMA LlmCustody == TypeOK /\ CustodyInv /\ LlmThread => CustodyInv'
<1> SUFFICES ASSUME TypeOK, CustodyInv, LlmThread PROVE CustodyInv'
  OBVIOUS
<1>0. q1 \in Queue /\ q2 \in Queue
  BY DEF TypeOK
<1> USE DEF CustodyInv, HandsInv, captureVars, filterVars
<1>1. CASE LlmTop
  BY <1>1 DEF LlmTop, Apart, fates
<1>2. CASE LlmPop
  <2>1. CASE lpc' = "top"
    BY <1>2, <2>1 DEF LlmPop, Apart, fates
  <2>2. CASE lpc' # "top"
    <3>1. PICK f \in q2.items : q2' = [q2 EXCEPT !.items = @ \ {f}] /\ lFlow' = {f}
      BY <1>2, <2>2 DEF LlmPop
    <3>2. lpc' = "analyse" /\ lFlow = {} /\ f \in Flows
      BY <1>0, <1>2, <2>2 DEF LlmPop, Queue
    <3>3. q2'.items = q2.items \ {f}
      BY <1>0, <3>1 DEF Queue
    <3>4. Apart => Apart'
      BY <1>2, <3>1, <3>2, <3>3 DEF LlmPop, Apart, fates
    <3> QED
      BY <1>2, <3>1, <3>2, <3>4 DEF LlmPop
  <2> QED
    BY <2>1, <2>2
<1>3. CASE LlmAnalyse
  BY <1>3 DEF LlmAnalyse, Apart
<1> QED
  BY <1>1, <1>2, <1>3 DEF LlmThread

LEMMA NextCustody == TypeOK /\ PhaseInv /\ CustodyInv /\ [Next]_vars => CustodyInv'
  BY CallerCustody, PipelineCustody, CaptureCustody, FilterCustody, LlmCustody
     DEF Next, Quiescent

\* From its first packet to its verdict or its counted drop, every flow is in the hands
\* of exactly one stage or queue, as long as the run lasts.
THEOREM CustodyHolds == Spec => []FlowCustody
  BY InitTypes, NextTypes, InitPhase, NextPhase, InitCustody, NextCustody,
     CustodyInvSuffices, PTL DEF Spec
-------------------------------------------------------------------------------
(* The end of a run                                                            *)

Watching == {"check", "sample1", "sample2", "decide"}
Ending == {"halt", "unblock", "joinCapture", "haltFilter", "joinFilter", "haltLlm",
           "joinLlm", "stopped"}
Finishing == Ending \cup {"stopping"}

\* What capture_finished and a flush say of the capture thread.
CaptureRecord ==
  /\ capture_finished => cpc = "ended"
  /\ flushing => cpc \in {"push", "exit", "ended"} /\ unread = {} /\ table = {}
  /\ tpc = "launch" => ~flushing

\* While nobody asks for a stop nothing breaks the capture, so that it ends by reaching
\* the end of the file, and the monitor leaves its loop only after that.
Undisturbed ==
  /\ tpc \in Watching \cup {"launch"} => ~broken /\ (cpc \in {"loop", "push"} => running)
  /\ tpc \in Finishing => cpc = "ended"
  /\ tpc \in Watching \cup Finishing /\ ~CaptureMayFail /\ cpc \in {"exit", "ended"} =>
       flushing /\ batch = {}

EndInv ==
  /\ client[Owner] \in {"test", "call"} => shutdown_requested
  /\ state = "Stopping" => tpc \in Ending
  /\ CaptureRecord
  /\ ~shutdown_requested => Undisturbed

LEMMA EndInvSuffices == EndInv => CompletionAfterCapture
  BY DEF EndInv, CaptureRecord, Undisturbed, CompletionAfterCapture, Finishing

LEMMA InitEnd == Init => EndInv
  BY DEF Init, EndInv, CaptureRecord, Undisturbed, Watching, Finishing, Ending, Clients

LEMMA CallerEnd ==
  ASSUME Signals = {}, TypeOK, RoomInv, EndInv,
         Start \/ (\E c \in Clients : Stop(c)) \/ UNCHANGED vars
  PROVE  EndInv'
<1>0. /\ Clients = {Owner}
      /\ client \in [Clients -> {"idle", "clear", "join", "test", "call"}]
  BY DEF TypeOK, Clients
<1> USE <1>0 DEF EndInv, CaptureRecord, Undisturbed, Watching, Finishing, Ending, At,
        workVars, captureVars, controlVars, stopFlags
<1>1. CASE StartCheck
  BY <1>1 DEF StartCheck
<1>2. CASE StartClear
  <2>1. tpc \in {"none", "ended"} /\ tpc' = tpc
    BY <1>2 DEF StartClear, RoomInv, AtRest
  <2> QED
    BY <1>2, <2>1 DEF StartClear
<1>3. CASE StartSpawn
  <2>1. state = "Starting"
    BY <1>3 DEF StartSpawn, RoomInv
  <2> QED
    BY <1>3, <2>1 DEF StartSpawn
<1>4. CASE StopRequest(Owner)
  BY <1>4 DEF StopRequest
<1>5. CASE StopTest(Owner)
  BY <1>5 DEF StopTest
<1>6. CASE StopCall(Owner)
  BY <1>6 DEF StopCall
<1>7. CASE UNCHANGED vars
  BY <1>7 DEF vars, callerVars
<1> QED
  BY <1>1, <1>2, <1>3, <1>4, <1>5, <1>6, <1>7 DEF Start, Stop

LEMMA PipelineEnd ==
  TypeOK /\ PhaseInv /\ EndInv /\ PipelineThread => EndInv'
<1> SUFFICES ASSUME TypeOK, PhaseInv, EndInv, PipelineThread PROVE EndInv'
  OBVIOUS
<1> USE DEF EndInv, CaptureRecord, Undisturbed, Watching, Finishing, Ending, Goto,
        callerVars, controlVars, stopFlags, workVars, captureVars
<1>1. CASE Create
  <2>1. Idle(cpc)
    BY <1>1 DEF Create, PhaseInv, Bare
  <2> QED
    BY <1>1, <2>1 DEF Create, Idle
<1>2. CASE CreateFails
  BY <1>2 DEF CreateFails
<1>3. CASE Launch
  BY <1>3 DEF Launch
<1>4. CASE MonitorCheck
  BY <1>4 DEF MonitorCheck
<1>5. CASE MonitorSample1 \/ MonitorSample2
  BY <1>5 DEF MonitorSample1, MonitorSample2
<1>6. CASE MonitorDecide
  BY <1>6 DEF MonitorDecide
<1>7. CASE ShutStopping
  BY <1>7 DEF ShutStopping
<1>8. CASE ShutHalt
  BY <1>8 DEF ShutHalt
<1>9. CASE ShutUnblock
  BY <1>9 DEF ShutUnblock
<1>10. CASE ShutJoinCapture
  BY <1>10 DEF ShutJoinCapture
<1>11. CASE ShutHaltFilter
  BY <1>11 DEF ShutHaltFilter
<1>12. CASE ShutJoinFilter
  BY <1>12 DEF ShutJoinFilter
<1>13. CASE ShutHaltLlm
  BY <1>13 DEF ShutHaltLlm
<1>14. CASE ShutReset
  BY <1>14 DEF ShutReset
<1>15. CASE ShutStopped
  BY <1>15 DEF ShutStopped
<1> QED
  BY <1>1, <1>2, <1>3, <1>4, <1>5, <1>6, <1>7, <1>8, <1>9, <1>10, <1>11, <1>12, <1>13,
     <1>14, <1>15 DEF PipelineThread, Monitor, Shutdown

LEMMA StageEnd ==
  TypeOK /\ PhaseInv /\ EndInv /\ (CaptureThread \/ FilterThread \/ LlmThread)
    => EndInv'
<1> SUFFICES ASSUME TypeOK, PhaseInv, EndInv,
                    CaptureThread \/ FilterThread \/ LlmThread
             PROVE  EndInv'
  OBVIOUS
<1> USE DEF EndInv, CaptureRecord, Undisturbed, Watching, Finishing, Ending,
        callerVars, controlVars, stopFlags, captureVars
<1>1. CASE CaptureStart
  BY <1>1 DEF CaptureStart
<1>2. CASE CaptureBreak
  <2>1. tpc # "launch"
    BY <1>2 DEF CaptureBreak, PhaseInv, Bare, Idle
  <2> QED
    BY <1>2, <2>1 DEF CaptureBreak
<1>3. CASE CaptureDispatch
  BY <1>3 DEF CaptureDispatch
<1>4. CASE CaptureEndOfFile
  <2>1. tpc # "launch"
    BY <1>4 DEF CaptureEndOfFile, PhaseInv, Bare, Idle
  <2> QED
    BY <1>4, <2>1 DEF CaptureEndOfFile
<1>5. CASE CapturePush
  BY <1>5 DEF CapturePush
<1>6. CASE CapturePushed
  BY <1>6 DEF CapturePushed
<1>7. CASE CaptureExit
  BY <1>7 DEF CaptureExit
<1>8. CASE FilterThread
  BY <1>8 DEF FilterThread, FilterTop, FilterPop, FilterDecide, FilterPush
<1>9. CASE LlmThread
  BY <1>9 DEF LlmThread, LlmTop, LlmPop, LlmAnalyse
<1> QED
  BY <1>1, <1>2, <1>3, <1>4, <1>5, <1>6, <1>7, <1>8, <1>9 DEF CaptureThread

LEMMA NextEnd ==
  ASSUME Signals = {}
  PROVE  TypeOK /\ PhaseInv /\ RoomInv /\ EndInv /\ [Next]_vars => EndInv'
  BY CallerEnd, PipelineEnd, StageEnd DEF Next, Quiescent

\* With one thread that calls start() and stop(), as the dashboards do, a run that stops
\* by itself has read and flushed the whole capture, whatever runs came before it.
THEOREM CompletesAfterCapture == Signals = {} => (Spec => []CompletionAfterCapture)
<1> SUFFICES ASSUME Signals = {} PROVE Spec => []CompletionAfterCapture
  OBVIOUS
<1>1. TypeOK /\ PhaseInv /\ RoomInv /\ EndInv /\ [Next]_vars => EndInv'
  BY NextEnd
<1> QED
  BY <1>1, InitTypes, NextTypes, InitPhase, NextPhase, InitRoom, NextRoom, InitEnd,
     EndInvSuffices, PTL DEF Spec
===============================================================================
