----------------------------- MODULE EventBridge -----------------------------
(* The C API and the dashboard's service on top of it: events cross from the   *)
(* pipeline's threads to the Flutter thread through bounded queues which a     *)
(* timer polls.  PipelineController is reduced to its states (see Pipeline).   *)
EXTENDS Naturals, Sequences

CONSTANTS MaxQueue,    \* WirewolfInstance::MAX_QUEUE (10000)
          Batch,       \* events one poll may take: 64 alerts, 256 flows, 256 logs
          MaxEvents,   \* bound: events of each channel
          MaxStarts    \* bound: starts

Channels == {"alerts", "flows", "logs"}

ASSUME EventBridgeAssumption ==
  /\ MaxQueue \in Nat \ {0}
  /\ Batch \in [Channels -> Nat \ {0}]
  /\ MaxEvents \in [Channels -> Nat]
  /\ MaxStarts \in Nat

VARIABLES
  state, requested,        \* the controller: state_, shutdown_requested_
  handle,                  \* how far wirewolf_destroy came
  raised,                  \* events raised so far: event n of a channel is n
  pending,                 \* pending_alerts, pending_flows, pending_logs
  torn,                    \* a callback used a queue that was destroyed
  timer, calls,            \* _statsTimer is set; the calls its callback has left
  currentState, history,   \* what the dashboard shows
  starts
controller == <<state, requested>>
queues == <<raised, pending, torn>>
service == <<timer, calls, currentState, history>>
vars == <<controller, handle, queues, service, starts>>

Terminal == {"Stopped", "Error"}

Init ==
  /\ state = "Stopped" /\ requested = FALSE /\ handle = "alive"
  /\ raised = [ch \in Channels |-> 0]
  /\ pending = [ch \in Channels |-> <<>>]
  /\ torn = FALSE
  /\ timer = FALSE /\ calls = <<>> /\ currentState = "Stopped"
  /\ history = [ch \in Channels |-> <<>>]
  /\ starts = 0

-------------------------------------------------------------------------------
(* The pipeline's threads                                                      *)

Bug_EnqueueKeepsOld(q, e) == IF Len(q) < MaxQueue THEN Append(q, e) ELSE q

\* push_back, then pop_front if that was one too many.
Enqueue(q, e) == IF Len(q) < MaxQueue THEN Append(q, e) ELSE Append(Tail(q), e)

\* A callback that wirewolf_start() registered, on any thread of the pipeline.
Emit(ch) ==
  /\ state \notin Terminal
  /\ raised[ch] < MaxEvents[ch]
  /\ raised' = [raised EXCEPT ![ch] = @ + 1]
  /\ IF handle = "freed"
       THEN torn' = TRUE /\ UNCHANGED pending
       ELSE pending' = [pending EXCEPT ![ch] = Enqueue(@, raised[ch] + 1)] /\ UNCHANGED torn
  /\ UNCHANGED <<controller, handle, service, starts>>

Become(from, to) ==
  /\ state = from /\ state' = to
  /\ UNCHANGED <<requested, handle, queues, service, starts>>

Running == Become("Starting", "Running")
Failed == Become("Starting", "Error")
\* The capture ends by itself, or the monitor sees the request.
Ending == Become("Running", "Stopping")
Stopped == Become("Stopping", "Stopped")

-------------------------------------------------------------------------------
(* The Flutter thread: the user's buttons, which are handled between callbacks *)

Idle == calls = <<>> /\ handle = "alive"

\* start(): the button is there when the dashboard shows a terminal state; a
\* wirewolf_start() that the controller refuses changes nothing.
Start ==
  /\ Idle /\ currentState \in Terminal /\ state \in Terminal
  /\ starts < MaxStarts /\ starts' = starts + 1
  /\ state' = "Starting" /\ requested' = FALSE
  /\ timer' = TRUE /\ currentState' = "Starting"
  /\ UNCHANGED <<handle, queues, calls, history>>

Bug_Stop ==
  /\ Idle /\ currentState \notin Terminal
  /\ requested' = TRUE /\ timer' = FALSE
  /\ UNCHANGED <<state, handle, queues, calls, currentState, history, starts>>

\* stop() requests and returns: "Keep the poll timer running".
Stop ==
  /\ Idle /\ currentState \notin Terminal
  /\ requested' = TRUE
  /\ UNCHANGED <<state, handle, queues, service, starts>>

\* dispose() up to the delete in wirewolf_destroy().
Dispose ==
  /\ Idle
  /\ handle' = "stopping" /\ requested' = TRUE /\ timer' = FALSE
  /\ UNCHANGED <<state, queues, calls, currentState, history, starts>>

\* Members are destroyed in the reverse of their order: the queues and their mutex
\* first, and the controller, whose destructor joins the pipeline, last.
FreeQueues ==
  /\ handle = "stopping" /\ handle' = "freed"
  /\ pending' = [ch \in Channels |-> <<>>]
  /\ UNCHANGED <<controller, raised, torn, service, starts>>

JoinPipeline ==
  /\ handle = "freed" /\ state \in Terminal /\ handle' = "gone"
  /\ UNCHANGED <<controller, queues, service, starts>>

-------------------------------------------------------------------------------
(* The Flutter thread: the timer's callback, call by call                      *)

Polls == <<"alerts", "flows", "logs">>

Tick ==
  /\ Idle /\ timer
  /\ calls' = <<"state">> \o Polls
  /\ UNCHANGED <<controller, handle, queues, timer, currentState, history, starts>>

Bug_Over(s) == s \in Terminal \cup {"Stopping"}
Over(s) == s \in Terminal

\* _pollState(): "Once fully stopped (or errored), drain any final events and halt
\* polling."  The callback then goes on to its own three polls.
PollState ==
  /\ calls # <<>> /\ Head(calls) = "state"
  /\ currentState' = state
  /\ calls' = IF Over(state) THEN Polls \o <<"cancel">> \o Polls ELSE Polls
  /\ UNCHANGED <<controller, handle, queues, timer, history, starts>>

Cancel ==
  /\ calls # <<>> /\ Head(calls) = "cancel"
  /\ timer' = FALSE /\ calls' = Tail(calls)
  /\ UNCHANGED <<controller, handle, queues, currentState, history, starts>>

Taken(ch) == IF Len(pending[ch]) < Batch[ch] THEN Len(pending[ch]) ELSE Batch[ch]

Bug_Poll(ch) ==
  /\ calls # <<>> /\ Head(calls) = ch
  /\ history' = [history EXCEPT ![ch] = @ \o SubSeq(pending[ch], 1, Taken(ch))]
  /\ calls' = Tail(calls)
  /\ UNCHANGED <<controller, handle, queues, timer, currentState, starts>>

\* One batch, under the queues' mutex, on to the stream of the channel.
Poll(ch) ==
  /\ calls # <<>> /\ Head(calls) = ch
  /\ history' = [history EXCEPT ![ch] = @ \o SubSeq(pending[ch], 1, Taken(ch))]
  /\ pending' = [pending EXCEPT ![ch] = SubSeq(@, Taken(ch) + 1, Len(@))]
  /\ calls' = Tail(calls)
  /\ UNCHANGED <<controller, handle, raised, torn, timer, currentState, starts>>

-------------------------------------------------------------------------------
Pipeline == Running \/ Failed \/ Ending \/ Stopped \/ \E ch \in Channels : Emit(ch)
Buttons == Start \/ Stop \/ Dispose
Destroy == FreeQueues \/ JoinPipeline
Callback == Tick \/ PollState \/ Cancel \/ \E ch \in Channels : Poll(ch)

Next == Pipeline \/ Buttons \/ Destroy \/ Callback

Spec == Init /\ [][Next]_vars

\* The timer is periodic, a callback runs to its end, and the controller does not stay
\* in a transient state; a run need not end unless it was asked to.
FairSpec ==
  /\ Spec
  /\ WF_vars(Callback)
  /\ WF_vars(Running \/ Failed) /\ WF_vars(requested /\ Ending) /\ WF_vars(Stopped)

-------------------------------------------------------------------------------
TypeOK ==
  /\ state \in Terminal \cup {"Starting", "Running", "Stopping"}
  /\ currentState \in Terminal \cup {"Starting", "Running", "Stopping"}
  /\ requested \in BOOLEAN /\ torn \in BOOLEAN /\ timer \in BOOLEAN
  /\ handle \in {"alive", "stopping", "freed", "gone"}
  /\ raised \in [Channels -> Nat] /\ starts \in 0 .. MaxStarts
  /\ calls \in Seq({"state", "cancel"} \cup Channels)
  /\ pending \in [Channels -> Seq(Nat)] /\ history \in [Channels -> Seq(Nat)]
  /\ \A ch \in Channels : Len(pending[ch]) <= MaxQueue

\* A queue at its limit sheds its oldest events: what waits is always the latest run
\* of events raised, without a gap.  The type invariant is part of it.
PendingIsLatest ==
  /\ TypeOK
  /\ handle = "alive" =>
       \A ch \in Channels :
         LET n == Len(pending[ch])
         IN  pending[ch] = [i \in 1 .. n |-> raised[ch] - n + i]

\* Across polls, overflows and restarts the dashboard gets each event at most once and
\* in the order raised, and nothing that waits is older than what it has.
DeliveredOnceInOrder ==
  \A ch \in Channels :
    LET seen == history[ch] \o pending[ch]
    IN  \A i, j \in 1 .. Len(seen) : i < j => seen[i] < seen[j]

\* "It cancels itself once the pipeline reports Stopped": while the pipeline is not at
\* its end the timer is set, so that the dashboard cannot miss the end, and when it is
\* not set the dashboard shows the state the pipeline is in.
TimerWatches ==
  handle = "alive" /\ ~timer => state \in Terminal /\ currentState = state

\* "Keep the poll timer running so _pollState observes the transition": after a stop
\* the dashboard comes to show Stopped or Error, unless it is closed.
StopIsShown ==
  requested /\ handle = "alive" ~> currentState \in Terminal \/ handle # "alive"

-------------------------------------------------------------------------------
(* Promises of the comments that the code does not keep                        *)

\* "wirewolf_stop(h); wirewolf_destroy(h);" (wirewolf_capi.h): no callback reaches a
\* queue after it was destroyed.
QueuesOutliveCallbacks == ~torn

\* "Drain any final events and halt polling" (wirewolf_service.dart): one drain is one
\* batch, and what is left waits for the next start.
FinalEventsDrained ==
  Idle /\ ~timer => \A ch \in Channels : pending[ch] = <<>>
===============================================================================
