------------------------------- MODULE Pipeline -------------------------------
(* PipelineController and the threads it runs: the pipeline (monitor) thread,  *)
(* the capture thread in TcpReassembler::start, the NpuFilter worker, the      *)
(* LlmInference worker, and the callers of start() and stop().  A queue is a   *)
(* set here: its order, and that its blocking operations lose no wakeup, are   *)
(* FlowQueue's business.                                                       *)
EXTENDS Integers, FiniteSets

CONSTANTS Flows,           \* the flows in the traffic of one run
          Capacity,        \* queue_capacity
          Owner,           \* the thread that calls start() and stop()
          Signals,         \* other threads that may call stop()
          Modes,           \* the kinds of configuration start() is given
          CaptureMayFail,  \* may pcap_dispatch return PCAP_ERROR
          MaxStarts,       \* bound: calls of start()
          MaxStops         \* bound: calls of stop()

ASSUME PipelineAssumption ==
  /\ IsFiniteSet(Flows)
  /\ Capacity \in Nat \ {0}
  /\ Owner \notin Signals
  /\ Modes \subseteq {"offline", "live"}
  /\ CaptureMayFail \in BOOLEAN
  /\ MaxStarts \in Nat /\ MaxStops \in Nat

VARIABLES
  \* PipelineController
  state, shutdown_requested, capture_finished, mode,
  reassembler,       \* reassembler_ points to a live object
  tpc,               \* where pipeline_thread_func is
  sample,            \* the queue depths the monitor read, q1 and q2
  client,            \* where each caller is in start() or stop()
  \* TcpReassembler and the capture thread
  running, broken,   \* running, and pcap_breakloop's sticky flag
  cpc,               \* where the capture thread is
  unread, table,     \* flows still in the traffic; flows in connections
  batch,             \* completed or flushed flows not pushed yet
  flushing,          \* batch comes from flush_all_flows()
  \* the queues and the workers
  q1, q2,
  fpc, fFlow, fRunning,
  lpc, lFlow, lRunning,
  \* history
  filtered, analysed, dropped,
  dangling,          \* a stop() reached a destroyed reassembler
  starts, stops

callerVars == <<client, starts, stops, dangling>>
controlVars == <<state, shutdown_requested, mode>>
stopFlags == <<running, broken>>
captureVars == <<cpc, unread, table, batch, flushing>>
filterVars == <<fpc, fFlow, fRunning>>
llmVars == <<lpc, lFlow, lRunning>>
fates == <<filtered, analysed, dropped>>
workVars == <<captureVars, capture_finished, filterVars, llmVars, q1, q2, fates>>
vars == <<callerVars, controlVars, stopFlags, reassembler, tpc, sample, workVars>>

Clients == {Owner} \cup Signals
PipelineState == {"Stopped", "Starting", "Running", "Stopping", "Error"}

NewQueue(block) == [items |-> {}, blocking |-> block, done |-> FALSE]
Full(queue) == Cardinality(queue.items) >= Capacity

Init ==
  /\ state = "Stopped" /\ shutdown_requested = FALSE /\ capture_finished = FALSE
  /\ mode \in Modes
  /\ reassembler = FALSE /\ tpc = "none" /\ sample = <<0, 0>>
  /\ client = [c \in Clients |-> "idle"]
  /\ running = FALSE /\ broken = FALSE
  /\ cpc = "off" /\ unread = Flows /\ table = {} /\ batch = {} /\ flushing = FALSE
  /\ q1 = NewQueue(FALSE) /\ q2 = NewQueue(FALSE)
  /\ fpc = "off" /\ fFlow = {} /\ fRunning = FALSE
  /\ lpc = "off" /\ lFlow = {} /\ lRunning = FALSE
  /\ filtered = {} /\ analysed = {} /\ dropped = {}
  /\ dangling = FALSE /\ starts = 0 /\ stops = 0

-------------------------------------------------------------------------------
(* start() and stop()                                                          *)

At(c, pc, next) == client[c] = pc /\ client' = [client EXCEPT ![c] = next]

\* The state is read under state_mutex_, which is then released.
StartCheck ==
  /\ starts < MaxStarts
  /\ state \in {"Stopped", "Error"}
  /\ At(Owner, "idle", "clear")
  /\ starts' = starts + 1
  /\ UNCHANGED <<stops, dangling, controlVars, stopFlags, reassembler, tpc, sample,
                 workVars>>

StartClear ==
  /\ At(Owner, "clear", "join")
  /\ shutdown_requested' = FALSE
  /\ state' = "Starting"
  /\ UNCHANGED <<starts, stops, dangling, mode, stopFlags, reassembler, tpc, sample,
                 workVars>>

\* The previous pipeline thread, if any, is joined and a new one spawned.
StartSpawn ==
  /\ At(Owner, "join", "idle")
  /\ tpc \in {"none", "ended"}
  /\ tpc' = "create"
  /\ mode' \in Modes
  /\ UNCHANGED <<starts, stops, dangling, state, shutdown_requested, stopFlags,
                 reassembler, sample, workVars>>

StopRequest(c) ==
  /\ stops < MaxStops
  /\ At(c, "idle", "test")
  /\ stops' = stops + 1
  /\ shutdown_requested' = TRUE
  /\ UNCHANGED <<starts, dangling, state, mode, stopFlags, reassembler, tpc, sample,
                 workVars>>

\* if (reassembler_) ...
StopTest(c) ==
  /\ client[c] = "test"
  /\ client' = [client EXCEPT ![c] = IF reassembler THEN "call" ELSE "idle"]
  /\ UNCHANGED <<starts, stops, dangling, controlVars, stopFlags, reassembler, tpc,
                 sample, workVars>>

\* ... reassembler_->stop(): nothing keeps the object alive in between.
StopCall(c) ==
  /\ At(c, "call", "idle")
  /\ IF reassembler
       THEN running' = FALSE /\ broken' = TRUE /\ UNCHANGED dangling
       ELSE dangling' = TRUE /\ UNCHANGED stopFlags
  /\ UNCHANGED <<starts, stops, controlVars, reassembler, tpc, sample, workVars>>

-------------------------------------------------------------------------------
(* pipeline_thread_func                                                        *)

Goto(from, to) == tpc = from /\ tpc' = to

Bug_Create ==
  /\ Goto("create", "launch")
  /\ q1' = NewQueue(mode = "offline") /\ q2' = NewQueue(FALSE)
  /\ reassembler' = TRUE /\ running' = FALSE /\ broken' = FALSE
  /\ unread' = Flows /\ table' = {} /\ batch' = {} /\ flushing' = FALSE
  /\ filtered' = {} /\ analysed' = {} /\ dropped' = {}
  /\ UNCHANGED <<callerVars, controlVars, sample, cpc, capture_finished, filterVars,
                 llmVars>>

\* Queues, reassembler, filter and LLM are created; offline enables backpressure.
Create ==
  /\ Goto("create", "launch")
  /\ q1' = NewQueue(mode = "offline") /\ q2' = NewQueue(mode = "offline")
  /\ reassembler' = TRUE /\ running' = FALSE /\ broken' = FALSE
  /\ unread' = Flows /\ table' = {} /\ batch' = {} /\ flushing' = FALSE
  /\ filtered' = {} /\ analysed' = {} /\ dropped' = {}
  /\ UNCHANGED <<callerVars, controlVars, sample, cpc, capture_finished, filterVars,
                 llmVars>>

\* The capture cannot be opened, or a model cannot be loaded: the catch block.
CreateFails ==
  /\ Goto("create", "ended")
  /\ state' = "Error"
  /\ reassembler' = FALSE
  /\ UNCHANGED <<callerVars, shutdown_requested, mode, stopFlags, sample, workVars>>

Bug_Launch ==
  /\ Goto("launch", "check")
  /\ lRunning' = TRUE /\ lpc' = "top" /\ fRunning' = TRUE /\ fpc' = "top"
  /\ cpc' = "start"
  /\ state' = "Running"
  /\ UNCHANGED <<callerVars, shutdown_requested, mode, stopFlags, reassembler, sample,
                 unread, table, batch, flushing, capture_finished, fFlow, lFlow, q1, q2,
                 fates>>

\* llm_->start(), filter_->start(), the capture thread, set_state(Running).
Launch ==
  /\ Goto("launch", "check")
  /\ lRunning' = TRUE /\ lpc' = "top" /\ fRunning' = TRUE /\ fpc' = "top"
  /\ capture_finished' = FALSE
  /\ cpc' = "start"
  /\ state' = "Running"
  /\ UNCHANGED <<callerVars, shutdown_requested, mode, stopFlags, reassembler, sample,
                 unread, table, batch, flushing, fFlow, lFlow, q1, q2, fates>>

\* while (!shutdown_requested_)
MonitorCheck ==
  /\ tpc = "check"
  /\ tpc' = IF shutdown_requested THEN "stopping" ELSE "sample1"
  /\ UNCHANGED <<callerVars, controlVars, stopFlags, reassembler, sample, workVars>>

\* The two depths are read one after the other, each under its own queue's lock...
MonitorSample1 ==
  /\ Goto("sample1", "sample2")
  /\ sample' = [sample EXCEPT ![1] = Cardinality(q1.items)]
  /\ UNCHANGED <<callerVars, controlVars, stopFlags, reassembler, workVars>>

MonitorSample2 ==
  /\ Goto("sample2", "decide")
  /\ sample' = [sample EXCEPT ![2] = Cardinality(q2.items)]
  /\ UNCHANGED <<callerVars, controlVars, stopFlags, reassembler, workVars>>

\* ...and capture_finished_ after them, when the depths may be out of date.  The
\* two second grace is a step of its own: anything may happen before it ends.
MonitorDecide ==
  /\ tpc = "decide"
  /\ tpc' = IF mode = "offline" /\ capture_finished /\ sample = <<0, 0>>
              THEN "stopping" ELSE "check"
  /\ UNCHANGED <<callerVars, controlVars, stopFlags, reassembler, sample, workVars>>

ShutStopping ==
  /\ Goto("stopping", "halt")
  /\ state' = "Stopping"
  /\ UNCHANGED <<callerVars, shutdown_requested, mode, stopFlags, reassembler, sample,
                 workVars>>

\* reassembler_->stop()
ShutHalt ==
  /\ Goto("halt", "unblock")
  /\ running' = FALSE /\ broken' = TRUE
  /\ UNCHANGED <<callerVars, controlVars, reassembler, sample, workVars>>

Bug_ShutUnblock ==
  /\ Goto("unblock", "joinCapture")
  /\ UNCHANGED <<callerVars, controlVars, stopFlags, reassembler, sample, workVars>>

\* set_blocking(false) on both queues releases the pushers they hold back.
ShutUnblock ==
  /\ Goto("unblock", "joinCapture")
  /\ q1' = [q1 EXCEPT !.blocking = FALSE]
  /\ q2' = [q2 EXCEPT !.blocking = FALSE]
  /\ UNCHANGED <<callerVars, controlVars, stopFlags, reassembler, sample, captureVars,
                 capture_finished, filterVars, llmVars, fates>>

\* pcap_thread.join(), then finish() of the first queue...
ShutJoinCapture ==
  /\ Goto("joinCapture", "haltFilter")
  /\ cpc = "ended"
  /\ q1' = [q1 EXCEPT !.done = TRUE]
  /\ UNCHANGED <<callerVars, controlVars, stopFlags, reassembler, sample, captureVars,
                 capture_finished, filterVars, llmVars, q2, fates>>

\* ...and filter_->stop(): running is cleared while items may still be queued.
ShutHaltFilter ==
  /\ Goto("haltFilter", "joinFilter")
  /\ fRunning' = FALSE
  /\ UNCHANGED <<callerVars, controlVars, stopFlags, reassembler, sample, captureVars,
                 capture_finished, fpc, fFlow, llmVars, q1, q2, fates>>

Bug_ShutJoinFilter ==
  /\ Goto("joinFilter", "haltLlm")
  /\ q2' = [q2 EXCEPT !.done = TRUE]
  /\ UNCHANGED <<callerVars, controlVars, stopFlags, reassembler, sample, captureVars,
                 capture_finished, filterVars, llmVars, q1, fates>>

ShutJoinFilter ==
  /\ Goto("joinFilter", "haltLlm")
  /\ fpc = "ended"
  /\ q2' = [q2 EXCEPT !.done = TRUE]
  /\ UNCHANGED <<callerVars, controlVars, stopFlags, reassembler, sample, captureVars,
                 capture_finished, filterVars, llmVars, q1, fates>>

ShutHaltLlm ==
  /\ Goto("haltLlm", "joinLlm")
  /\ lRunning' = FALSE
  /\ UNCHANGED <<callerVars, controlVars, stopFlags, reassembler, sample, captureVars,
                 capture_finished, filterVars, lpc, lFlow, q1, q2, fates>>

\* llm_->stop() joins the worker, then every component and queue is destroyed,
\* with whatever the queues still hold.
ShutReset ==
  /\ Goto("joinLlm", "stopped")
  /\ lpc = "ended"
  /\ reassembler' = FALSE
  /\ q1' = NewQueue(FALSE) /\ q2' = NewQueue(FALSE)
  /\ UNCHANGED <<callerVars, controlVars, stopFlags, sample, captureVars,
                 capture_finished, filterVars, llmVars, fates>>

ShutStopped ==
  /\ Goto("stopped", "ended")
  /\ state' = "Stopped"
  /\ UNCHANGED <<callerVars, shutdown_requested, mode, stopFlags, reassembler, sample,
                 workVars>>

-------------------------------------------------------------------------------
(* Queue operations of the workers                                             *)

\* What a push of f makes of a queue, with what it loses; no outcome: it waits.
PushOutcomes(queue, f, victims) ==
  IF ~Full(queue)
    THEN {[items |-> queue.items \cup {f}, lost |-> {}]}
  ELSE IF queue.blocking /\ ~queue.done THEN {}
  ELSE {[items |-> (queue.items \cup {f}) \ {x}, lost |-> {x}] : x \in victims}

-------------------------------------------------------------------------------
(* The capture thread: TcpReassembler::start, run_pcap                         *)

CaptureStart ==
  /\ cpc = "start" /\ cpc' = "loop"
  /\ running' = TRUE
  /\ UNCHANGED <<callerVars, controlVars, broken, reassembler, tpc, sample, unread,
                 table, batch, flushing, capture_finished, filterVars, llmVars, q1, q2,
                 fates>>

\* while (running), and pcap_dispatch returning PCAP_ERROR_BREAK or PCAP_ERROR:
\* the loop ends without a flush.
CaptureBreak ==
  /\ cpc = "loop" /\ cpc' = "exit"
  /\ ~running \/ broken \/ CaptureMayFail
  /\ UNCHANGED <<callerVars, controlVars, stopFlags, reassembler, tpc, sample, unread,
                 table, batch, flushing, capture_finished, filterVars, llmVars, q1, q2,
                 fates>>

\* pcap_dispatch delivers packets: some flows appear in the table, and
\* check_complete_flows() or evict_stale_state() takes some out for pushing.
CaptureDispatch ==
  /\ cpc = "loop" /\ running /\ ~broken
  /\ \E new \in SUBSET unread :
       /\ mode = "offline" => new # {}
       /\ unread' = unread \ new
       /\ \E complete \in SUBSET (table \cup new) :
            /\ table' = (table \cup new) \ complete
            /\ batch' = complete
  /\ cpc' = "push"
  /\ UNCHANGED <<callerVars, controlVars, stopFlags, reassembler, tpc, sample, flushing,
                 capture_finished, filterVars, llmVars, q1, q2, fates>>

\* The end of an offline capture: flush_all_flows(), then the loop ends.
CaptureEndOfFile ==
  /\ cpc = "loop" /\ running /\ ~broken
  /\ mode = "offline" /\ unread = {}
  /\ batch' = table /\ table' = {}
  /\ flushing' = TRUE
  /\ cpc' = "push"
  /\ UNCHANGED <<callerVars, controlVars, stopFlags, reassembler, tpc, sample, unread,
                 capture_finished, filterVars, llmVars, q1, q2, fates>>

\* output_queue.push() with the default priority: a full queue refuses the newcomer.
\* The loop over the connections does not look at running.
CapturePush ==
  /\ cpc = "push"
  /\ \E f \in batch : \E out \in PushOutcomes(q1, f, {f}) :
       /\ q1' = [q1 EXCEPT !.items = out.items]
       /\ dropped' = dropped \cup out.lost
       /\ batch' = batch \ {f}
  /\ UNCHANGED <<callerVars, controlVars, stopFlags, reassembler, tpc, sample, cpc,
                 unread, table, flushing, capture_finished, filterVars, llmVars, q2,
                 filtered, analysed>>

CapturePushed ==
  /\ cpc = "push" /\ batch = {}
  /\ cpc' = IF flushing THEN "exit" ELSE "loop"
  /\ UNCHANGED <<callerVars, controlVars, stopFlags, reassembler, tpc, sample, unread,
                 table, batch, flushing, capture_finished, filterVars, llmVars, q1, q2,
                 fates>>

Bug_CaptureExit ==
  /\ cpc = "exit" /\ cpc' = "ended"
  /\ capture_finished' = ~flushing
  /\ UNCHANGED <<callerVars, controlVars, stopFlags, reassembler, tpc, sample, unread,
                 table, batch, flushing, filterVars, llmVars, q1, q2, fates>>

\* capture_finished_ = true, and the thread ends.
CaptureExit ==
  /\ cpc = "exit" /\ cpc' = "ended"
  /\ capture_finished' = TRUE
  /\ UNCHANGED <<callerVars, controlVars, stopFlags, reassembler, tpc, sample, unread,
                 table, batch, flushing, filterVars, llmVars, q1, q2, fates>>

-------------------------------------------------------------------------------
(* NpuFilter::worker_loop                                                      *)

FilterTop ==
  /\ fpc = "top"
  /\ fpc' = IF fRunning THEN "pop" ELSE "ended"
  /\ UNCHANGED <<callerVars, controlVars, stopFlags, reassembler, tpc, sample,
                 captureVars, capture_finished, fFlow, fRunning, llmVars, q1, q2, fates>>

FilterPop ==
  /\ fpc = "pop"
  /\ \/ \E f \in q1.items : /\ q1' = [q1 EXCEPT !.items = @ \ {f}]
                            /\ fFlow' = {f} /\ fpc' = "decide"
     \/ /\ q1.items = {} /\ q1.done
        /\ fpc' = "top"
        /\ UNCHANGED <<q1, fFlow>>
  /\ UNCHANGED <<callerVars, controlVars, stopFlags, reassembler, tpc, sample,
                 captureVars, capture_finished, fRunning, llmVars, q2, fates>>

Bug_FilterDecide ==
  /\ fpc = "decide"
  /\ \/ /\ fpc' = "top" /\ fFlow' = {}
        /\ filtered' = IF fRunning THEN filtered \cup fFlow ELSE filtered
     \/ /\ fpc' = "push"
        /\ UNCHANGED <<fFlow, filtered>>
  /\ UNCHANGED <<callerVars, controlVars, stopFlags, reassembler, tpc, sample,
                 captureVars, capture_finished, fRunning, llmVars, q1, q2, analysed,
                 dropped>>

\* Any flow may be filtered out or passed on.
FilterDecide ==
  /\ fpc = "decide"
  /\ \/ /\ fpc' = "top" /\ fFlow' = {}
        /\ filtered' = filtered \cup fFlow
     \/ /\ fpc' = "push"
        /\ UNCHANGED <<fFlow, filtered>>
  /\ UNCHANGED <<callerVars, controlVars, stopFlags, reassembler, tpc, sample,
                 captureVars, capture_finished, fRunning, llmVars, q1, q2, analysed,
                 dropped>>

\* output_queue.push() with priority 1 or 2: a full queue evicts or refuses.
FilterPush ==
  /\ fpc = "push"
  /\ \E f \in fFlow : \E out \in PushOutcomes(q2, f, q2.items \cup {f}) :
       /\ q2' = [q2 EXCEPT !.items = out.items]
       /\ dropped' = dropped \cup out.lost
  /\ fFlow' = {} /\ fpc' = "top"
  /\ UNCHANGED <<callerVars, controlVars, stopFlags, reassembler, tpc, sample,
                 captureVars, capture_finished, fRunning, llmVars, q1, filtered,
                 analysed>>

-------------------------------------------------------------------------------
(* LlmInference::worker_loop                                                   *)

LlmTop ==
  /\ lpc = "top"
  /\ lpc' = IF lRunning THEN "pop" ELSE "ended"
  /\ UNCHANGED <<callerVars, controlVars, stopFlags, reassembler, tpc, sample,
                 captureVars, capture_finished, filterVars, lFlow, lRunning, q1, q2,
                 fates>>

LlmPop ==
  /\ lpc = "pop"
  /\ \/ \E f \in q2.items : /\ q2' = [q2 EXCEPT !.items = @ \ {f}]
                            /\ lFlow' = {f} /\ lpc' = "analyse"
     \/ /\ q2.items = {} /\ q2.done
        /\ lpc' = "top"
        /\ UNCHANGED <<q2, lFlow>>
  /\ UNCHANGED <<callerVars, controlVars, stopFlags, reassembler, tpc, sample,
                 captureVars, capture_finished, filterVars, lRunning, q1, fates>>

\* A verdict, with or without inference; an alert may block a source through
\* reassembler_ (the alert callback).
LlmAnalyse ==
  /\ lpc = "analyse" /\ lpc' = "top"
  /\ analysed' = analysed \cup lFlow /\ lFlow' = {}
  /\ UNCHANGED <<callerVars, controlVars, stopFlags, reassembler, tpc, sample,
                 captureVars, capture_finished, filterVars, lRunning, q1, q2, filtered,
                 dropped>>

-------------------------------------------------------------------------------
Start == StartCheck \/ StartClear \/ StartSpawn
Stop(c) == StopRequest(c) \/ StopTest(c) \/ StopCall(c)
Monitor == MonitorCheck \/ MonitorSample1 \/ MonitorSample2 \/ MonitorDecide
Shutdown == \/ ShutStopping \/ ShutHalt \/ ShutUnblock \/ ShutJoinCapture
            \/ ShutHaltFilter \/ ShutJoinFilter \/ ShutHaltLlm \/ ShutReset
            \/ ShutStopped
PipelineThread == Create \/ CreateFails \/ Launch \/ Monitor \/ Shutdown
CaptureThread == \/ CaptureStart \/ CaptureBreak \/ CaptureDispatch
                 \/ CaptureEndOfFile \/ CapturePush \/ CapturePushed \/ CaptureExit
FilterThread == FilterTop \/ FilterPop \/ FilterDecide \/ FilterPush
LlmThread == LlmTop \/ LlmPop \/ LlmAnalyse

\* Nothing runs and nobody calls: the only state in which nothing happens.
Quiescent ==
  /\ tpc \in {"none", "ended"} /\ \A c \in Clients : client[c] = "idle"
  /\ UNCHANGED vars

Next ==
  \/ Start
  \/ \E c \in Clients : Stop(c)
  \/ PipelineThread
  \/ CaptureThread
  \/ FilterThread
  \/ LlmThread
  \/ Quiescent

Spec == Init /\ [][Next]_vars

\* The operating system runs every thread; start() and stop(), once called, proceed,
\* but nobody has to call them.
Fairness ==
  /\ WF_vars(StartClear) /\ WF_vars(StartSpawn)
  /\ \A c \in Clients : WF_vars(StopTest(c)) /\ WF_vars(StopCall(c))
  /\ WF_vars(PipelineThread)
  /\ WF_vars(CaptureThread)
  /\ WF_vars(FilterThread)
  /\ WF_vars(LlmThread)
FairSpec == Spec /\ Fairness

-------------------------------------------------------------------------------
\* No stage takes a queue past its capacity.
Queue == [items : {held \in SUBSET Flows : Cardinality(held) <= Capacity},
          blocking : BOOLEAN, done : BOOLEAN]

TypeOK ==
  /\ state \in PipelineState /\ mode \in Modes
  /\ {shutdown_requested, capture_finished, reassembler, running, broken, flushing,
      fRunning, lRunning, dangling} \subseteq BOOLEAN
  /\ client \in [Clients -> {"idle", "clear", "join", "test", "call"}]
  /\ tpc \in {"none", "create", "launch", "check", "sample1", "sample2", "decide",
              "stopping", "halt", "unblock", "joinCapture", "haltFilter",
              "joinFilter", "haltLlm", "joinLlm", "stopped", "ended"}
  /\ sample \in (0 .. Capacity) \X (0 .. Capacity)
  /\ cpc \in {"off", "start", "loop", "push", "exit", "ended"}
  /\ fpc \in {"off", "top", "pop", "decide", "push", "ended"}
  /\ lpc \in {"off", "top", "pop", "analyse", "ended"}
  /\ {unread, table, batch, fFlow, lFlow, filtered, analysed, dropped}
       \subseteq SUBSET Flows
  /\ q1 \in Queue /\ q2 \in Queue
  /\ starts \in 0 .. MaxStarts /\ stops \in 0 .. MaxStops

Idle(pc) == pc \in {"off", "ended"}
Places == <<unread, table, batch, q1.items, fFlow, q2.items, lFlow, filtered,
            analysed, dropped>>

\* While the pipeline runs, every flow is in exactly one place: no stage loses one
\* without counting a drop, processes one twice, or takes one another stage holds.
\* The type invariant is part of it.
FlowCustody ==
  /\ TypeOK
  /\ tpc \notin {"none", "create", "stopped", "ended"} =>
       /\ UNION {Places[k] : k \in DOMAIN Places} = Flows
       /\ \A j, k \in DOMAIN Places : j # k => Places[j] \cap Places[k] = {}

\* "Offline PCAP mode: enable backpressure so no flows are dropped": until the
\* shutdown begins nothing is dropped, whatever the stages' relative speed.
ZeroDropOffline ==
  mode = "offline" /\ state = "Running" => dropped = {}

\* Destroyed components are used by nobody: while a worker runs, the objects it
\* refers to exist (the alert callback's reassembler_ included).
WorkersSeeLiveComponents ==
  ~(Idle(cpc) /\ Idle(fpc) /\ Idle(lpc)) => reassembler

\* The stages are torn down front to back: nobody pushes into a finished queue, where
\* an item would be accepted and never be looked at.
UpstreamFirst ==
  /\ q1.done => cpc = "ended"
  /\ q2.done => Idle(fpc)
  /\ ~fRunning /\ fpc # "off" => cpc = "ended"

\* The shutdown takes the stages down in order, and under nobody's feet.
TeardownInOrder == WorkersSeeLiveComponents /\ UpstreamFirst

\* "Disable backpressure so any blocked pushers unblock immediately": no join of the
\* shutdown waits for the LLM to make room, which may take minutes per flow.
JoinsDoNotWaitForRoom ==
  tpc \in {"joinCapture", "haltFilter", "joinFilter"} =>
    /\ cpc = "push" => \A f \in batch : PushOutcomes(q1, f, {f}) # {}
    /\ fpc = "push" => \A f \in fFlow : PushOutcomes(q2, f, q2.items \cup {f}) # {}

\* A run that stops by itself has read the whole capture: not the capture_finished_ of
\* an earlier run, nor a table with flows not flushed yet.
CompletionAfterCapture ==
  state = "Stopping" /\ ~shutdown_requested =>
    /\ cpc = "ended"
    /\ ~CaptureMayFail => unread = {} /\ table = {} /\ batch = {}

\* stop() takes effect: once requested on a started pipeline, all threads are joined
\* and the state reaches Stopped (or Error), whichever stage is blocked on a full queue.
StopTakesEffect ==
  (shutdown_requested /\ state \in {"Starting", "Running"})
    ~> state \in {"Stopped", "Error"}

\* Backpressure never becomes a standstill: an offline run ends by itself, and any run
\* once stop() was called (the monitor's loop and the shutdown, lines 245-342).
RunsEnd ==
  /\ (mode = "offline" /\ state = "Running") ~> state = "Stopped"
  /\ StopTakesEffect

-------------------------------------------------------------------------------
(* Promises of the documentation that the code does not keep                   *)

\* "Every flow gets analyzed" (pipeline_controller.cpp) in an offline run nobody
\* stopped: each flow was filtered out deliberately or reached the LLM stage.
EveryFlowAnalyzed ==
  state = "Stopped" /\ tpc = "ended" /\ mode = "offline" /\ ~shutdown_requested =>
    filtered \cup analysed = Flows

\* "All functions are thread-safe" (wirewolf_capi.h): stop() never reaches a
\* reassembler the pipeline thread has destroyed.
StopSeesLiveReassembler == ~dangling
===============================================================================
