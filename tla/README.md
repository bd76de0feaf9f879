# Wirewolf in TLA+

Wirewolf captures packets, reassembles TCP streams into flows, filters the flows and
has a local language model judge what is left. This directory holds a TLA+ model of
its core logic: the modules, the configurations that TLC checks, and the proofs that
TLAPS checks. `PROJECT.json` lists the runs, the mutants, the source lines of each
definition, the hazards, the findings and the theorems.

Paths below are relative to the repository (`src/...` is the engine's C++,
`include/...` its headers, `flutter_app/...` the dashboard).

- [1 The system](#1-the-system)
- [2 Modules and how they correspond to the code](#2-modules-and-how-they-correspond-to-the-code)
- [3 Runs: what each checks, its bounds, and what it shows](#3-runs)
- [4 Fairness](#4-fairness)
- [5 Proofs](#5-proofs)
- [6 Where the code and its documentation disagree](#6-where-the-code-and-its-documentation-disagree)
- [7 What is only model-checked, and what is not modelled](#7-limits)
- [8 Plan](#8-plan)

## 1 The system

```
 packets --> TcpReassembler --q1--> NpuFilter --q2--> LlmInference --> alert callback
            (capture thread)       (filter thread)   (LLM thread)          |
                 ^    ^                                                    |
    stop(), shutdown  +------------- block_source() (inline mode) ---------+
                 |                                                         v
        PipelineController <--- start/stop --- C API / CLI --- event queues --- dashboard
         (pipeline thread)                                     (poll timer)
```

| component | state it keeps | operations | interacts by |
|---|---|---|---|
| **Flow queue** `include/thread_safe_queue.hpp` | a multimap by priority, `blocking_`, `done`, `dropped_count`, two condition variables | push, pop, set_blocking, finish | shared by two stages and by the thread that tears them down |
| **Pipeline controller** `src/pipeline_controller.cpp` | `state_`, `shutdown_requested_`, `capture_finished_`, the components it owns | start, stop, the pipeline thread (create, launch, monitor, shutdown) | creates, joins and destroys every other thread; `stop()` reaches into the reassembler |
| **TCP reassembly** `src/tcp_reassembly.cpp` | one `ConnectionState` per 4-tuple: expected sequence number, payload, out-of-order segments | the packet handler, completion, flush | pushes flows on q1 |
| **Connection table** same file | the table, the times of the last evictions | admission at the cap, forced eviction, maintenance, flush | same thread as the packets |
| **Anomaly detectors** same file | per-source trackers, beacon trackers, dedup hashes | every packet, pruning, the analyses of the flush | raise alerts directly, without the LLM |
| **IPS blocklist** same file | `blocked_ips_` | block_source, the inline decision | the capture thread and the LLM thread |
| **Behavioural scoring** same file, `src/behavioral_model.cpp`, `tools/train_behavioral/train.cpp` | flows per 4-tuple, suspects, torrent peers; the Markov models | record and score on completion, tag; train, save, load | a tag on the flow, read by the filter; a model file |
| **Triage** `src/npu_filter.cpp`, `src/llm_inference.cpp`, callback in `src/pipeline_controller.cpp` | seen hashes, `llm_runs_` | the chain of gates, the LLM stage's decision, severity | q1, q2, the alert callback |
| **Payload detectors** `src/npu_filter.cpp:146-799`, `include/payload_normalizer.hpp`, `include/tls_inspector.hpp`, `include/threat_feed.hpp` | the rule sets | what each finds in a payload, and in its canonical form | results decide the gates of triage |
| **LLM stage's text work** `src/llm_inference.cpp`, `include/wirewolf_types.hpp` | the catalogue of threats and severities | the prompt around a payload, the validation of the answer, the report on a named flow | tokens of llama.cpp, alerts |
| **Event bridge** `src/wirewolf_capi.cpp`, `flutter_app/lib/ffi/wirewolf_service.dart` | three bounded event queues; the dashboard's timer, state and history | callbacks, polls, start, stop, destroy | pipeline threads enqueue, the Flutter thread polls |
| Model loading and inference, configuration, logger, CLI, ImGui dashboard, Flutter widgets, other tools | (see section 7) | | |

What is hard in this system, and what makes each part correct:

- **Flow queue.** Two condition variables with `notify_one`, spurious wakeups, a full
  queue that blocks, refuses or evicts depending on a mode that is switched while
  threads sleep. Correct: bounded; no item lost uncounted or duplicated; no lost
  wakeup; after `finish()` nobody sleeps again; the emergency drop takes the weakest.
- **Controller.** Five threads, teardown front to back while stages are blocked on
  full queues, restarts on left-over state. Correct: a flow is in one stage's hands at
  a time; an offline run drops nothing; nobody uses a destroyed component; every stop
  and every offline run ends.
- **Reassembly.** Segments reordered, repeated, overlapping, re-cut, truncated by the
  capture, with sequence numbers that wrap. Correct: the payload is one piece of the
  stream, with what arrived, once and in order; honest senders never trip the evasion
  check.
- **Connection table.** Two timeouts, a throttle and a cap, on a clock read from
  packets. Correct: bounded; a payload leaves only by being pushed; only idle or
  finished entries leave; new flows are not shut out by junk.
- **Triage.** Fifteen gates of which the first match ends the processing of a flow, a
  cleared hash set, a budget. Correct: a benign gate masks no exploit; a duplicate has
  a twin that went on; what a detector named always alerts; no severity is inflated.
- **Anomaly detectors, blocklist.** Tables cleared and pruned at caps in the middle of
  accumulating evidence; an alert from the LLM thread between inspection and
  re-injection. Correct: a threshold passed is reported; a beacon train survives the
  pruning; a table that only maintenance trims passes its cap by no more than what came
  since; an alerted source is cut off, an allowlisted one never.
- **Behavioural scoring.** A table of evidence cleared at its cap, four ways out of
  the connection table. Correct: a signal rests on enough completed flows, never on
  torrent peers.
- **Payload detectors.** Length fields nested in length fields, payloads cut anywhere,
  encodings wrapped in encodings. Correct: the parser reads what the sender wrote and
  blames only what the feed lists; the canonical form is what the sender means; a
  detector that has seen enough is not talked out of it by what follows.
- **LLM stage's text work.** Text of unknown origin goes into a prompt and an arbitrary
  text comes back. Correct: no structure of the prompt comes from the flow; an alert on
  the model's word quotes the flow and is no graver than curated.
- **Event bridge.** A timer that cancels itself in the middle of its own callback while
  pipeline threads enqueue into bounded queues; destruction. Correct: events arrive
  once and in order; the end of a run is always shown.

## 2 Modules and how they correspond to the code

Conventions. An action is one critical section, or one stretch between two points where
another thread may interfere. Names follow the source (`beh_conns` is `beh_conns_`).
Variables and record fields marked *history* in a module exist for properties only.
Operators called `Bug_X`, each just before `X`, are known-bad variants of `X`: replacing
`X` by one must break the property `PROJECT.json` names for it, which shows that the
property can tell this code from a broken one. Definitions under a heading such as
"Promises of the comments that the code does not keep" are false (section 6).
`MC*` modules only give constants their values. The type invariant of a module is
checked by itself or as a conjunct of the invariant whose comment says so.

### FlowLedger, FlowQueue, FlowQueueProofs - `include/thread_safe_queue.hpp`

`FlowLedger` is the abstract promise: every item is fresh, held back, queued, taken or
dropped, at most `Capacity` are queued, and an item is dropped only from a full queue
that is allowed to lose items. `FlowQueue` is the class. `q` is the multimap, an
entry's `at` its insertion order among equal priorities. Each condition variable is a
set of sleepers (`popAsleep`, `pushAsleep`) and a set of threads notified but not yet
running (`popWoken`, `pushWoken`); `notify_one` moves one sleeper, `notify_all` all,
`SpuriousWake` any. `push()` is five actions, one per path: room, sleep, refuse, evict
and, in `Resume`, what a suspended push does when it runs again. A suspended `push()`
that finds the queue full after `finish()` or `set_blocking(false)` drops its item and
counts it. `ImplementsLedger` is the refinement, with `Place` reading the item's status
off the concrete state.

### Pipeline, PipelineProofs - `src/pipeline_controller.cpp`, the loops of the three stages

One program counter per thread: `client` (callers of `start()`/`stop()`), `tpc` (the
pipeline thread), `cpc`, `fpc`, `lpc` (capture, filter and LLM). `start()` is three
steps, because the state lock is released after the check, and `stop()` is three,
because `if (reassembler_) reassembler_->stop()` may run beside the destruction of the
reassembler. The monitor reads two queue depths and then `capture_finished_` in three
steps. The shutdown has one action per call, in the order of the code: stop the
reassembler, unblock both queues, join capture, finish q1, clear the filter's
`running` and join it, finish q2, the same for the LLM, destroy. Queues are sets with a
mode and a done flag: their order and wakeups are `FlowQueue`'s. A blocking push on a
full queue has no successor, and so the thread waits. What a detector says of a flow is
arbitrary here (`FilterDecide`). The configuration is reduced to `mode`, and a run's
traffic to the set `Flows`. pcap's break flag is sticky, as libpcap documents.

### TcpReassembly, TcpReassemblyProofs - one connection in `src/tcp_reassembly.cpp`

`conn` is a `ConnectionState`. A byte of the stream is its offset, so that a payload
shows which bytes it holds, in which order. `traffic` (chosen once, never changed) is a
sender: an initial sequence number and the ways it cuts the stream. `ArriveData` is the
whole data path of the packet handler: the baseline without SYN, the evasion check
(`Conflicting`), then append and drain, buffer, or ignore (`Accept`). `Drain` walks the
out-of-order map in the order of raw 32-bit keys, as `std::map` does, one segment at a
time (`MergeLowest`), and stops at the first one that lies after `expected_seq`. A segment with the key of one already waiting
is ignored, as `emplace()` does. Sequence numbers are modulo `SeqSpace`, and
comparisons by signed difference. The four ways out are `CheckComplete`, `EvictIdle`,
`ForceEvict` and `Flush`, with what each does to the segments still waiting; the second
and the last come after `check_complete_flows()` in the code, hence `Incomplete`.

### ConnTable - the table in `src/tcp_reassembly.cpp`

Capture time is `clock`; an entry is reduced to the flags the table's decisions read
(payload or not, segments waiting or not, finished or not) and its last packet time.
`PacketOfNew` is admission with forced eviction and shedding at the cap, `Maintain` the
periodic maintenance, which uses the last packet time of the table's first entry (any
entry, as iteration order is a hash table's) as the current time, `Flush` the end.
`Tick` moves capture time, which is that of the packets, in no step with maintenance: the
live loop maintains at each read timeout, a dispatch of a file handles 1000 packets however
far apart they are, and the inline loop maintains every 256 packets.

### Gates, Triage, TriageProofs - `src/npu_filter.cpp`, `src/llm_inference.cpp`, the alert callback

`Gates` is the chain of `worker_loop`, shared by `Triage` and `Analysis`: `Chain` is the
order in which the gates are tried, `Hit` when one takes a flow with given traits, and
`FirstHit` the one that decides. In `Triage` a flow is a set of traits and a hash key, and
the concurrency of the two stages is what matters. The
filter's step and its push are two actions, as the push may wait. The LLM stage is four:
named flows (tagged without inference), binary payloads, budget spent, and inference
with an arbitrary answer, of which `resolve_severity` and the callback make levels.

### Anomaly, AnomalyProofs - the detectors and the blocklist in `src/tcp_reassembly.cpp`

`Inspect(p)` is `check_connection_anomalies()` and the UDP path for one packet, with
everything it updates (tracker, beacon times, dedup set, blocklist). `Decide` is the
second half of the inline loop, a step of its own because `LlmConfirm` (the callback on
the LLM thread) may come in between. `Maintain` is the caps, which nothing else enforces,
`Flush` beacon and spam-bot analysis. `since` is history: the packets since the last
`Maintain`, which comes at any time or never, as `evict_stale_state()` runs only while a connection is tracked.
The keys of evasion alerts, raised by `TcpReassembly`, are not in the dedup set. The
regularity of a beacon is the code's coefficient of variation compared without square roots
or division. Alerts are identified by their dedup keys.

### Normalizer, TlsInspector, ThreatFeed, Detectors - what the filter finds in a payload

A payload is a sequence of tokens `[t, k]`. A token of text stands for a word or a
separator, and `k` is the number of layers of percent-encoding around it; a token
`"byte"` is one raw byte, of value `k`. Words are those the detectors look for, so that
a search for a string is a search for a token or for a few in a row, and sizes and
windows are counted in tokens, with constants for the code's limits. Length fields of
TLS are bytes and computed with as in the code.

`Normalizer` is `normalize_payload()`: three decoding passes, then comments, white space
and case. `TlsInspector` is `parse_tls_client_hello()` with its four nested lengths, its
early exits and its GREASE filter; the JA3 hash is left out, the JA3 string compared
itself. `ThreatFeed` reads rule files line by line. `Detectors` holds every `detect_*`,
`inspect_tls()` and `statistical_filter()`. `detect_benign_http()` has the set of answers
a build may give: `npu_filter.cpp:373` searches for the end of the headers with a literal
and a length that do not fit together.

### ThreatCatalog, Verdict - the LLM stage's text work

`ThreatCatalog` is the list of threats the system prompt offers, the variations of their
names the code accepts, the curated severities, and `resolve_severity()`. `Verdict` is
what a flow becomes in the prompt (dots for what cannot be printed, control tokens
defused, the decoded form appended, the middle cut out of a prompt that is too long), the
few-shot examples as data, and what becomes of an answer: `Trimmed`,
`extract_json_field`, `payload_contains_snippet`, `is_false_positive`, `Judged`. An answer
is a type, a severity and a snippet written out as JSON by `Json`, and what the model goes
on to say. Every word of a prompt carries where it comes from, which only properties read.

### Analysis, AnalysisProofs - one flow from its first byte to its verdict

`Analysis` composes the five above with `Gates`: a payload grows by `Arrive` (any chunk of
the flow's menu) or `Continue` (the next piece of a message whose parts depend on each
other, such as a ClientHello), until the connection is flushed and `Inspect` sends it
through the gates; `ReportNamed` is the report on a flow with a protocol tag, `Ask` the
model's answer, any of a set, and its validation. Where `Triage` has arbitrary traits and
an arbitrary answer, `Analysis` computes the traits and the consequences of an answer.

### Behavioral - the behavioural signal in `src/tcp_reassembly.cpp`

A connection is new, has its first packets, has data, or is finished; leaving the table
by completion, eviction or flush records and scores its 4-tuple as the code of that
path does, and pushes it tagged or not. What the Markov models say of a tuple with
enough flows is arbitrary.

### BehaviorModel - `src/behavioral_model.cpp` and its users

`encode_connection()` gives every string that `std::sort` allows (flows that start
together have no order). The model is trained by `Train` and `Save`d as the training tool
does, and `Load`ed as the engine does, from a file that may have lost rows. A probability
is a pair of integers, numerator and denominator, twice the code's because of add-1/2
smoothing; the logarithm and the mean are left out.

### EventBridge, EventBridgeProofs - `src/wirewolf_capi.cpp`, `wirewolf_service.dart`

Event *n* of a channel is the number *n*. Pipeline threads `Emit`; the timer's callback
is a list of calls (`calls`) executed one by one, so that the pipeline moves in between;
the state poll may put a cancellation with its final drain in front of the rest.
`FreeQueues` and `JoinPipeline` are the two halves of `wirewolf_destroy()`, in the order
of C++ member destruction.

### How the modules compose

`Pipeline` uses queues as `FlowQueue` provides them (bounded, blocking only while
`blocking` and not `done`); `FlowQueue` is shown to implement `FlowLedger`. The flows
`Pipeline` moves are those `TcpReassembly` and `ConnTable` push, and its `FilterDecide`
and `LlmAnalyse` stand for `Triage`. The tag of `Behavioral` is the trait "behavioral" of
`Triage`, and `LlmConfirm` of `Anomaly` is an alert of `Triage`. The traits of `Triage` are
those `Analysis` computes, through the same `Gates`. The states `EventBridge` moves through
are those of `Pipeline`. `Tables` composes `Anomaly`, `ConnTable`, `Behavioral` and
`BehaviorModel`, the tables of the capture thread; they share no variable, so that it lets
each move by itself (`part` says which) instead of exploring their product.

## 3 Runs

| run | bounds | states | what it shows |
|---|---|---|---|
| `flow_queue` | 2 producers, 2 consumers, 4 items in 2 bands, capacity 2 | 23,086 | bound, accounting, order within a band, no lost wakeups, release after finish, weakest dropped, refinement of `FlowLedger`; with fair workers every push settles |
| `pipeline` | 2 flows, capacity 1, two starts, one stop, offline and live | 440,347 | custody, zero drop offline, order of the teardown, no join waits for room; a run that ends by itself has read the capture; offline runs end, stops take effect |
| `pipeline_every_flow` | 2 flows, offline, no stop | - | violation: a flow in a worker's hands is discarded at the end of an offline run |
| `tcp` | 6 bytes, 4 segments up to twice each, 16 sequence numbers, cap 2, payload limit 4; whole segments, and re-cut ones across the wraparound | 754,560 | open payloads are contiguous and nothing stays stuck behind them, no false evasion alert, payloads faithful |
| `tcp_wrap` | the same in whole segments across the wraparound | - | violation: out-of-order segments on both sides of 2^32 are joined in the wrong order |
| `tables` | connections: 3, cap 2, timeouts 2 and 1, intervals 2 and 2, 3 seconds; sources: 4 hosts, 4 kinds of traffic, 5 packets, 3 seconds, thresholds 2 and 3, caps 1; scores: 5 connections of 3 tuples, 2 flows for a signal, table 1; model: 4 samples, 2 trained | 3,342,061 | caps hold: the two hard ones, and those of the tables that only maintenance trims but for what came since; payloads leave pushed, only idle entries leave, shedding is justified; detectors report at their thresholds and in the flush, drops are justified, alerted sources cut, candidates survive pruning; signals are earned, never by torrent peers; models are distributions and survive a file |
| `triage` | 3 flows, 2 hashes, 9 trait sets, queue 1, hash set 1, budget 1 | 179,406 | drops are sound (Heartbleed never masked, duplicates covered), fast detectors decide, budget kept and nothing inflated |
| `event_bridge` | queue 3, batches 1/2/2, 5 alerts, 1 flow, 1 log, 2 starts | 92,164 | events once and in order, latest kept, the timer watches, the end is shown |
| `event_bridge_destroy` | the same | - | violation: a callback reaches a destroyed queue |
| `analysis` | per flow 3 to 6 tokens (hellos and heartbeats up to 62 bytes), windows of 4 to 7 tokens, thresholds 2, 8 answers | 28,997 | hellos are read as sent, obfuscation is undone, the prompt keeps its structure, verdicts are grounded, growth hides nothing |
| `analysis_escalated` | web requests of 5 tokens | - | violation: an encoded attack leaves as benign HTTP |
| `analysis_taught` | the 29 few-shot examples with their answers | - | violation: an answer as taught is suppressed |

Why the bounds are enough, and what they leave out:

- *flow_queue*: two threads per side are what a stolen wakeup takes (one woken, one that
  takes its item); four items with capacity two give full, refusing, evicting and two
  items of one band. The theorems of section 5 cover every other instance.
- *pipeline*: capacity one makes every stage able to block the one before, and two flows
  are enough for one to be queued while a worker holds the other. A second start is what
  left-over state takes. Stops of a signal thread, captures that fail and more flows are
  left to the theorems of section 5, which hold for every value of `Signals` (all but
  `CompletesAfterCapture`), `CaptureMayFail` and `Flows`.
- *tcp*: six bytes in four segments allow two gaps at once, and two copies of each
  segment allow a retransmission before, in and after a gap. The sequence space is
  small but larger than twice the stream, the proportion that matters to a signed
  comparison (a stream is shorter than 2^31 in the code too, because of the payload
  limit). Only the last flow pushed is kept. `LateSyn` is FALSE: a SYN repeated on a
  stream under way breaks `ReconstructsContinuously` (section 6). Overlap and conflict
  thresholds of the evasion check are lowered to 2 and 1 bytes, which makes a false
  alert easier.
- *tables*: one connection more than the cap; the span is longer than either timeout and
  either interval, and maintenance comes at any time in it. Five packets between
  maintenances, or on both sides of one, are two candidates for a beacon table of one and
  several sources for one tracker. Time starts at `Epoch`, late enough that nothing counts as recently done, as
  for timestamps since 1970. Each kind of traffic reaches the thresholds of one detector
  with packets that should not count mixed in; `LinkLocal` is empty to save a host. Seconds
  are integers, as in the comparisons of the code. Three connections of one tuple are
  enough for a signal and a later flow; another tuple's entry overflows the table. The
  four connections the model is trained on have flows in and out of every bucket, two that
  start together, and one flow too few.
- *triage*: the trait sets pair each gate the properties are about with a trait of a
  later gate; a third flow is needed to have a duplicate after its twin left the hash
  set. The run has backpressure and live analysis; in forensic mode see section 6.
- *event_bridge*: five alerts overflow three places and exceed a poll's batch. Batches
  keep the order of magnitude of the code's: alerts the smallest.
- *analysis*: each detector has a flow whose menu holds the pieces it looks for and one
  that defeats it, so that they meet in every order and every subset; limits are scaled so
  that a payload can reach past them (a window is shorter than the longest payload, a
  threshold smaller than what fits in the window). ClientHellos are three, with extensions
  in different orders, with and without GREASE and a second name, for a name below a listed
  domain, the domain itself, and one that only ends like it; they arrive in pieces of one to
  three bytes. The random is one byte instead of 32 (`RandomLen`). Web requests are made of
  encodings up to three deep, comments and white space. The answers hold every kind of
  missing field, a snippet that is not in the flow, variations of names, severities above
  and below the curated one, and text after the object. `Forensic` is FALSE.

`CHECK_DEADLOCK FALSE` stands in a configuration where the system may stop: every
segment, packet or event of the bound has arrived (`tcp`, `tables`, `event_bridge`), or
every flow is judged (`triage`, `analysis`). `flow_queue` and the
`pipeline` runs check deadlock; `Pipeline` has an explicit step for rest
(`Quiescent`), enabled only when no thread is alive and no call under way.

Symmetry is used in `triage` only, whose flows are interchangeable and which checks no
liveness.

## 4 Fairness

- `FlowQueue!FairSpec`: weak fairness of a woken `push()` and of `pop()` of each
  consumer: the workers call `pop()` in a loop, and the operating system runs a thread
  that was notified. Nothing is assumed of producers, mode changes, finish, or spurious
  wakeups.
- `Pipeline!FairSpec`: weak fairness of each thread as a whole, and of the remaining
  steps of a call once made. Nobody has to call `start()` or `stop()`, and packets are
  read because the capture thread runs. For a live capture no end is assumed.
  `RunsEnd` (an offline run ends; a stop takes effect) holds without assuming that the LLM is fast, only
  that each of its calls returns. `CaptureMayFail` is FALSE here, so that an end of a
  run is never owed to a failure.
- `EventBridge!FairSpec`: the timer is periodic and its callback runs to its end, and the
  controller leaves its transient states (which `Pipeline` shows). Nobody has to press
  a button.

## 5 Proofs

### FlowQueueProofs

Proved about `FlowQueue`, for any finite sets of threads, any items and
priorities and any positive capacity (`QueueAssumption`, the only assumption):

| theorem | states |
|---|---|
| `TypeCorrect` | `TypeOK`, a conjunct of `Accounting` |
| `NeverOverfull` | `CapacityBound` |
| `NoLostWakeup` | `WakeupsSuffice` |
| `ShutdownReleases` | `ReleasedForGood` |
| `BandsAreFifo` | `FifoWithinBand` |
| `EmergencyDropIsWeakest` | `StrongestSurvive` |
| `NothingUncounted` | `Accounting`: every item is in one place, and `dropped_count` counts the dropped |
| `QueueKeepsPromise` | `ImplementsLedger`: the queue implements `FlowLedger` (safety) |

The argument. `TypeOK` alone is not inductive: that a resumed push inserts an item, and
not "no item", needs to know that exactly the threads inside a suspended `push()` hold
one, and that no thread is both asleep and woken. This is `ThreadsOK`, and `TypeInv ==
TypeOK /\ ThreadsOK` is the invariant under every other proof. `ClockFresh` (no entry was
inserted at the present clock or later) gives that an insertion adds exactly one entry
(`EmplaceSize`), from which the capacity bound follows, with `RemoveSize` for removals.
The wakeup invariants compare a number of items or free slots with the number of woken
threads; the step lemmas follow what one `notify_one` does to that number (`WakeOne`,
`EmplaceWakes`), and the case that matters is a thread that was never asleep and takes
what a woken one was notified for: the count stays right because it too changed the
size. `FifoWithinBand` rests on `ClockFresh` and on `pop()` taking the first entry, and
`EmergencyDropIsWeakest` (an action property) on `IsBack` being the last entry of the
multimap's order. Each preservation lemma has one case per action.

`Accounting` needs two facts of its own (`AccountInv`): an item is held by one thread and
in one entry at most (`Single`), and the number of the dropped is a finite cardinality.
`StepMoves` then says of every step that it moves at most two items between places
(`Move`): the new one into the queue, out of it or into the dropped, and one that it
evicts. The refinement rests on the same: `PlacesRead` shows that `Place`, the refinement
mapping, is determined by the places `Accounting` keeps apart, `LedgerCounts` that as many
items are "queued" as there are entries, and `StepSimulates` matches each action with the
step of `FlowLedger` that makes the same move, or with none.

### PipelineProofs

Proved about `Pipeline`, for any finite set of flows, any callers, any capacity, any mix
of modes and any number of starts and stops (`PipelineAssumption`, the only assumption):

| theorem | states |
|---|---|
| `PipelineTypeCorrect` | `TypeOK`, the bound on both queues included |
| `TeardownIsOrdered` | `TeardownInOrder`: `WorkersSeeLiveComponents` and `UpstreamFirst` |
| `NothingDroppedOffline` | `ZeroDropOffline` |
| `JoinsNeverWait` | `JoinsDoNotWaitForRoom` |
| `CustodyHolds` | `FlowCustody` |
| `CompletesAfterCapture` | `CompletionAfterCapture`, when `Signals = {}` |

The argument. None of the properties is inductive, because each speaks of threads and
queues while what keeps it true is where the pipeline thread is. Three invariants say so:

- `PhaseInv`: the position of the pipeline thread decides which objects exist, which
  threads can run and which queues are finished. A join is passed only when its thread
  has ended, and nothing restarts one but `launch`. `TeardownInOrder` follows.
- `RoomInv`: the state of the controller and the mode against that position. Its part
  about callers (the owner is past the check of `start()` only while no pipeline thread is
  at work, and sets "Starting" before it joins the old one) is what keeps a second
  `start()` from changing `mode` under a running pipeline. Both properties on
  backpressure follow.
- `CustodyInv`: the ten places of a flow are `Apart`, and `HandsInv`, that what a step
  overwrites is empty (a worker's hands between two flows, the capture thread's batch
  between two pushes). Without the second part a flow could vanish in an assignment.

`PushKeeps` is the lemma on queues that the steps of the three stages cite: a push keeps
the capacity, and what was queued and the new flow end up queued or lost, never both.
Each invariant has one preservation lemma for the callers, one for the pipeline thread
and one for the stages, with one case per action.

- `EndInv`: while no stop is requested the capture is `Undisturbed`, neither its break flag
  set nor `running` cleared, so that its thread can only end through the end of the file,
  and `capture_finished`, which `launch` has cleared, means that it did (`CaptureRecord`).

The last theorem assumes one caller. With a signal thread (`Signals` not empty) and a
second start the property is violated: `start()` tests the state, releases the lock and
then clears the flags, and a stop of another thread that falls in between is forgotten but
for the capture it has already broken.

### EventBridgeProofs

Proved about `EventBridge`, for any size of the queues and of the batches and any number
of events and starts (`EventBridgeAssumption`, the only assumption):

| theorem | states |
|---|---|
| `LatestEventsWait` | `PendingIsLatest`, the types and the bound on the queues included |
| `EventsArriveInOrder` | `DeliveredOnceInOrder` |
| `EndIsWatched` | `TimerWatches` |

The argument. That events arrive in order relates two sequences that change on different
threads, so the invariant (`Inv`) ties both to the number of events raised: what waits is
the run of numbers that ends there (`LatestRun`), and what was delivered is ordered and
stops before that run begins (`OrderedUpTo`). `EnqueueKeepsRun` is the pipeline's side, with
a queue at its limit as the case that matters, and `PollKeepsRun` the timer's. Destruction
empties the queues between the two, hence the third part of `Flowing`. `TimerInv` adds to
`TimerWatches` that a cancellation in the list of calls goes with a pipeline at its end:
the callback decides to cancel some steps before it does.

### TriageProofs

Proved about `Triage`, for any finite set of flows, any trait sets and hashes, and any
capacity and limits (`TriageAssumption`):

| theorem | states | when |
|---|---|---|
| `HeartbleedIsNeverMasked` | `HeartbleedNeverMasked`, a conjunct of `DropsAreSound` | always |
| `FilterDropsAreSound` | `DropsAreSound`: that, and duplicates have a twin that went on | `Blocking` |
| `DetectorsDecide` | `FastDetectorsDecide` | `~Forensic` |
| `BudgetIsKept` | `BudgetKept`: types, budget, nothing inflated | always |

The two conditions are needed: without backpressure the twin of a duplicate may be refused
by a full queue, and in forensic mode a flow with a signature may stay unjudged (section 6).
The argument: `FlowInv` is the types with `Whereabouts`, that a flow not in the inbox is
with a stage, lost, or judged, and that the reason noted for it is the first gate that
takes it. Exactly one gate does (`SomeGateTakes`). On it rest `Decided` (what a verdict
without alert says of a flow), `TwinsPass` (every hash in `seen` stands for a flow that
passed, so that clearing the set costs nothing) and `Counted`, the budget counter, which
goes one past its limit so that the log says so once: before that it is the number of flows
inferred, and then that number is the limit.

### TablesProofs

Proved about `Tables`, from `TablesAssumption` alone: any finite set of connections, any
cap, timeouts, intervals and length of the capture; any tuples, hosts and limits of the
scores; any finite samples, bucket bounds and number of symbols of the model. The theorems
on a part are on the part's own specification; those on `TablesSpec` follow from them
because a behaviour of the composition is one of each part (`TablesAreParts`). The
properties of `Anomaly` that the run checks are proved in `AnomalyProofs`.

| theorem on `TablesSpec` | states | theorem on the part |
|---|---|---|
| `CapsHoldAlways` | `CapsHold` | `TableIsBounded`, `ScoresAreTyped`, `TypesHold`, `TrackersBoundedHolds` |
| `PayloadLeavesPushedHolds` | `PayloadLeavesPushed` | `NoPayloadIsLost` |
| `OnlyIdleLeavesHolds` | `OnlyIdleLeaves`, when `AggressiveTimeout <= ConnectionTimeout` | `OnlyTheIdleLeave` |
| `SheddingIsJustifiedHolds` | `SheddingIsJustified` | `SheddingHasReason` |
| `SignalIsEarnedHolds` | `SignalIsEarned` | `SignalsAreEarned` |
| `PeersNeverSignalHolds` | `PeersNeverSignal` | `PeersAreExcluded` |
| `ScoresAreProbabilitiesHolds` | `ScoresAreProbabilities` | `ModelIsProbabilistic` |

*Connections.* The constants of the code (5 s and 120 s) satisfy the condition. Two of the
action properties need no more than the types: `StepRemains` says what a step leaves of an
entry, `StepGone` why an entry that is gone could go. `SheddingHasReason` needs an
invariant, because what justifies a shed flow happened earlier: an entry without data was
heard of at most the short timeout before the last scan, or later (`ForceLeft`), and the
throttle bounds how long ago that scan was.

*Scores.* The invariant `EarnInv` ties the count in a tuple's entry to the flows of that
tuple that were pushed: a connection is pushed once (`Once`), so that each increment goes
with a new flow, and clearing the table only lowers counts (`EntriesAreEarned`).
`ScoreTypes` adds the cap.

*The model.* TLC checked the invariant, `ModelInv`, on the run `tables`. That a row is a distribution is not kept by training alone: the total of a row
is counted by itself, beside the counts, and is rebuilt from the file when a model is
loaded. `Consistent` says that the counts are of moves within a finite alphabet and that the
total of each row, of rows without a count too, is their sum; with add-1/2 smoothing the
rest is arithmetic on sums (`RowsAreDistributions`). Training keeps it (`ObserveKeeps`)
because the moves of a string from a letter, counted by where they go, are as many as the
places where it leaves that letter (`MovesFrom`). Loading keeps it whatever rows the file
lost (`LoadIsConsistent`): the sum over what is left of a row is the sum over the alphabet,
whose other terms are zero (`SumOfImage`, `SumOfRest`). A model that is loaded whole scores
alike if its alphabet is also that of the trained one; no alphabet of the file says so, but
in both it is the set of letters that the counts mention (`Visited`, in `Trained` and
`FileOK`). That what is observed is a finite string (`EncodedIsSeq`) is the induction
of `FlattenIsSeq`.

### TcpReassemblyProofs

Proved about `TcpReassembly`, for any width of the sequence numbers, any stream shorter
than half of it, any traffic, caps and thresholds (`ReassemblyAssumption`), and senders
whose SYN does not come after data (`~LateSyn`, as in the runs):

| theorem | states |
|---|---|
| `ReassemblyInvariant` | `ReassemblyInv`, the inductive invariant |
| `ContiguousWhileOpenHolds` | `ContiguousWhileOpen` |
| `NoFalseEvasionHolds` | `NoFalseEvasion` |
| `PayloadFaithfulHolds` | `PayloadFaithful` |

The condition is needed: a SYN that is repeated after data resets `expected_seq` and not
the payload (section 6), and what follows is appended in the wrong place.

The argument. That a payload is contiguous says nothing of what waits for a gap, and a
waiting segment is appended by later steps, so the invariant is about the whole entry.
`Sound(c, a, b)` says that the payload is the piece of the stream from byte `a` up to byte
`b`, where `expected_seq` stands, that each key holds the segment that begins at its byte,
and that what the entry holds is what arrived; `Settled`, that nothing waits that could be
merged, if the stream does not wrap around. Their conjunction is `Healthy`. Three groups of
lemmas carry it:

- *Sequence numbers.* Within half of the space, the signed difference of two sequence
  numbers is the distance of their bytes (`Distance`), so that `seq_after` compares bytes
  on either side of a wraparound, and, without one, raw keys are in the order of their
  bytes (`KeysInOrder`).
- *The walks.* `Drain` and `Merged` are recursive functions of the number of segments.
  That such a function exists and that each of its steps keeps an entry sound is an
  induction over the natural numbers, which `NatSetInduction` states about sets closed
  under successor and derives from the well-foundedness of `<` (`WFMin`).
- *Packets.* One lemma for each outcome of `Accept` (extended, buffered, behind), for the
  baseline and for a SYN. `NeverConflicting` is about the evasion check: bytes of an honest
  sender never disagree, because both sides are pieces of one stream.

### AnomalyProofs

Proved about `Anomaly`, for any hosts and address classes, any traffic and mix of modes,
any thresholds, caps and length of the capture (`AnomalyAssumption`, the only assumption):

| theorem | states |
|---|---|
| `AnomalyInvariant` | `AnomalyInv`, the inductive invariant (TLC checked it on the run `tables`) |
| `TypesHold` | `TypeOK` |
| `DropsAreJustifiedHolds` | `DropsAreJustified` |
| `AlertedAreCutHolds` | `AlertedAreCut` |
| `CandidatesSurviveHolds` | `CandidatesSurvive` |
| `DetectorsReportHolds` | `DetectorsReport` |
| `TrackersBoundedHolds` | `TrackersBounded`, a part of `CapsHold` |

The argument. On the side of blocking, neither property is inductive: that an alerted
source is cut needs that inline every culprit outside the allowlist is on the blocklist
when the packet is decided, and that a drop is justified needs the converse.
`BlocklistIsCulprits` is both, through the two threads that raise (`AlertOk` for the capture
thread's steps, `RaisedStep` for all) and through the clearing of the dedup hashes, which
may raise an alert again but forgets no block.

On the side of the detectors, the invariant says what a tracker is. `OkTracker`: its total
is the sum over its ports (`SumOneMore`), no port has more targets than SYNs, and every
target is private or in the footprint, from which `SpamBotsCredited` follows. `OneStack`: its
TTL is that of some packet of its source, the first witness of a spoofing alert.
`ReportsLater` says that what a tracker shows only fades while time passes, since the rate
of a flood is over the time since the first SYN, so that a threshold once reported stays
reported; `QuietTracker`, that a tracker made by a UDP packet shows nothing, which needs
the thresholds to be positive. `OkTimes` orders the times of a beacon, and
`PeriodicTimes` and `PeriodicHasNoSpread` compute the span and the variance of a train at one
interval, by induction, so that `Regular` holds for it on any port.

`Growth` is `TrackersBounded` with the finiteness of the tables. One packet adds at most one
tracker, one beacon and `KeysPerPacket` dedup keys (`PacketKeysFew`: one for each detector, and
a worm key for each port looked at), and a maintenance leaves every table at its cap, however
many candidates the pruning of beacons finds (`PrunedFits`). After the flush the dedup keys
have no bound, as the flush raises alerts of all sources at once.

A sum over a set is a fold, which chooses its elements in some order. `SumIs` shows, by
induction over the subsets of a finite set (`SubsetInduction`), that anything which adds up
one element at a time is that sum; `SumIsUnits` takes for it the number of pairs of a port
and a unit, and makes sums a matter of cardinalities.

### AnalysisProofs

Proved about `Analysis`, for any flows made of tokens, any answers, rule files and letter
folding, and any windows and thresholds (`AnalysisAssumption`, `DetectorAssumption`; the
last theorem also `WebAssumption`):

| theorem | states |
|---|---|
| `VerdictsAreGroundedHolds` | `VerdictsAreGrounded` |
| `PromptIntactHolds` | `PromptIntact` |
| `GrowthNeverHidesHolds` | `GrowthNeverHides` |
| `ObfuscationUndoneHolds` | `ObfuscationUndone` |

The assumptions are about sizes and types: payloads, chunks and answers are sequences of
tokens, folding letters leaves raw bytes alone, a flow with a script grows by it alone and
starts with a beginning of it, the thresholds that count something are positive, and the
primer fits into half of the longest prompt and into the part of the tail that is kept (7000
and 1024 tokens by default, for a primer of a few).

`WebAssumption` says what a web request is made of, and so what `ObfuscationUndone` promises:
parts, each of them text or one whole comment, in any number and order. Text is any tokens
within the layers of encoding that are taken off, raw bytes, white space, slashes and dashes
among them, in which nothing begins a comment, not even with what comes next: it does not
end in a slash or a dash. A block comment ends at the first star in it, a line
comment at the first end of line. The request is no longer than the window of the code (65536),
and no word has the lower case " ". `Stands` relates a part to what it means without the
code's functions, except for `Folded`, and TLC evaluates the assumption on the menus of the
run.

The argument. Little of it is about steps: `FlowInv` says that a payload is made of tokens,
that it is a beginning of the script if there is one, and that the model has not been asked
before the flow is judged (TLC checked it on the run `analysis`). The rest is about what the
text work does with a sequence of tokens, in three chains of lemmas:

- *Where words come from.* `DecodeIs` says that three passes take at most three layers off a
  token, `UncommentedIs` and `CollapsedIs` that the canonical form keeps tokens of what it
  is given, or a space; the second and the third are recursive functions of the length of
  the text, and are inductions over it. `SanitizedIs` says what is left when the control
  tokens are defused, and `FlowTextIs` that every token the prompt shows is one of the
  `Forms` of a token of the payload, or belongs to the heading of the decoded form. On the
  way back, an answer is written out as JSON, cut, and read field by field (`TrimmedIs`,
  `FieldIs`); `QuotedIs` says that a snippet is accepted only if it occurs in that text, and
  `JudgedIs` draws the three conclusions.
- *What structures a prompt.* `OnlyHeading` says that a control token among the flow's words
  can only be the one heading, right after an end of line. The first line of a request is
  also shown in the context of the prompt: it ends before an end of line, and so without
  the heading (`HttpLineIs`); otherwise it would be there twice. `TruncatedIs` says that
  what is left of a prompt that was cut are pieces of it, each once, and its end.
- *What a detector sees.* A payload that grows extends the one before (`Extends`). Windows,
  places of a word and first places after another only gain (`WindowExtends`, `AtExtends`,
  `LeastStays`), and so does a count compared with a threshold (`CountGrows`); each of the
  five detectors is a composition of those (`HeartbleedStays`, `SmbStays`,
  `BruteforceStays`, `FtpStays`, `RatStays`). What could go wrong is an end that moves: the
  place where the path of a request stops being searched, at a limit or at a space that may
  still come (`PathGrows`).

The fourth theorem is about what the canonical form keeps. `Passes(s, v)` says of a stretch
`s` of decoded text that the removal of comments leaves `v` of it and the rest as if the rest
were alone, whatever the rest is. That it can be said of a stretch at all is the hard part,
because the walk through comments jumps ahead: `RemainingShifts` and `HalvesUnfold` show that
a walk which reaches the second half of a text goes on as in that half alone. Text that
begins no comment passes whole (`ProseStays`) and a comment leaves nothing (`BlockGoes`,
`LineGoes`), so a part passes what it stands for (`StandsIs`), with its layers of encoding
taken off (`MeaningIs`). `PassesJoin` puts parts together, and the invariant `WebInv` says
that what has arrived passes a text whose canonical form is `meant`. At the end
`CollapsedSqueezes` shows that collapsing white space over that text, also across a comment
that is gone, is squeezing the runs of spaces in `meant`: one induction over the two
recursions at once.

Liveness under fairness is checked by TLC only.

## 6 Where the code and its documentation disagree

Five runs are counterexamples, listed under "findings":

- `pipeline_every_flow`: `pipeline_controller.cpp:135-138` says that in offline mode
  "no flows are dropped ... Every flow gets analyzed". The monitor decides on two queue
  depths read before `capture_finished_`, and a depth does not count a flow in a
  worker's hands. The filter's next push then lands in a queue nobody reads.
- `tcp_wrap`: README.md:12 promises "continuous application-layer payloads". The walk
  over waiting segments is in raw key order and stops early on a stream that wraps.
- `event_bridge_destroy`: `wirewolf_capi.h:14-15` gives "wirewolf_stop(h);
  wirewolf_destroy(h);" as the usage. Destruction frees the queues before it joins the
  threads that fill them. `WirewolfApp` (`gui/app.hpp:27-56`) declares its controller
  before its buffers too, and its destructor (`gui/app.cpp:20-23`) only requests the stop.
- `analysis_escalated`: `npu_filter.cpp:1029-1030` says "if canonicalization revealed an
  injection signature that obfuscation had hidden, escalate to the LLM". A request whose
  raw first line shows none of the markers has left as benign HTTP at `:965`, before the
  canonical form is looked at; only requests that fail that gate get there.
- `analysis_taught`: "Trim result to the first complete JSON object"
  (`llm_inference.cpp:1583`) cuts at the first `}` (`:1573`), also inside a string. The
  snippet of few-shot example 2 (SSTI) has one, as have those of 14 and others: the answer
  the prompt teaches loses its closing quote and is suppressed. Other taught answers fail
  other checks: snippets with "..." (11, 13) are not in the payload, and those without a
  metacharacter (19 to 21, 27) are suppressed by check 4 of `is_false_positive()`. The
  property asks only for answers whose snippet is in the payload.

The following are stated in the modules and false as well; no listed run checks them:

- `Pipeline!StopSeesLiveReassembler`: "All functions are thread-safe"
  (`wirewolf_capi.h:4`), but `stop()` uses `reassembler_` while the pipeline thread may
  destroy it (`pipeline_controller.cpp:62`).
- `ConnTable!BufferedDataPreserved`: forced eviction promises to preserve flows with
  buffered data (`tcp_reassembly.cpp:568-570`) but looks only at the payload, not at
  segments waiting for a gap (`:579`).
- `ConnTable!IdleAreEvicted`: "no packets for CONNECTION_TIMEOUT_SEC" (`:598`) is
  measured against the last packet of one arbitrary entry (`:215`).
- `Triage!BehavioralAdjudicated`: "regardless of the statistical verdict"
  (`npu_filter.cpp:1037-1039`); a binary payload still ends the flow (`:1068`).
- `Triage!AlertHasResolvedSeverity`: the callback computes the level again from the type
  (`pipeline_controller.cpp:217`), so that a downgrade (`llm_inference.cpp:1684-1685`)
  shows in one field of an alert and not in the other.
- `EventBridge!FinalEventsDrained`: the final drain (`wirewolf_service.dart:247-252`) takes
  one batch per queue.
- `Behavioral!SuspectsAreTagged`: flows pushed by the flush (`tcp_reassembly.cpp:1275`)
  are not tagged, although the comment at `:1378-1380` says a flagged tuple's flows are.

Smaller divergences met while modelling, which the modules translate as the code has them:

- A retransmission that is re-cut to straddle `expected_seq` is ignored as a whole on
  the direct path (`tcp_reassembly.cpp:554`), and a repeated SYN resets the baseline of
  a stream under way (`:457`). Both break `ReconstructsContinuously`.
- In forensic mode a signature match is treated as the budget rule treats any other
  flow and may stay unjudged (`llm_inference.cpp:1534` against `:1530-1533`).
- The comment on mass mailing "credit the whole fan-out" (`tcp_reassembly.cpp:1160-1165`)
  holds for public mail servers; private ones are counted but not credited, which is
  what `SpamBotsCredited` says.
- Maintenance runs only while some TCP connection is tracked (`:214`).
- The variants in the header of `payload_normalizer.hpp` lose their separator: a comment
  between two words becomes nothing, not a space, so that `UNION/**/SELECT` becomes one
  word. An unclosed `/*`, as in "Accept: */*", hides the rest of the request. A `+` inside
  three layers of encoding stays a `+`. `ObfuscationUndone` is stated for what remains.
- Of several server names in a ClientHello the last one counts
  (`tls_inspector.hpp:181`), and one cut off before its extensions has no name and passes
  as benign TLS.
- In `detect_rat_protocol()` the length-prefixed format requires every byte before the null
  to be a digit, so that only the first null of the window can qualify and the second
  match it asks for (`npu_filter.cpp:562`) never comes.
- The report on an upload looks for the end of the file name at a carriage return it has
  already replaced by a space (`llm_inference.cpp:1315`, `:1335`), and a contact list is
  High even in a transfer inside the network (`:1372`).
- Check 3 suppresses the DNS threats the prompt offers when they come from a server's port
  (`llm_inference.cpp:431-449`); a snippet may quote the heading "[Decoded]" that the code
  itself added; and cutting a long prompt may take the "[Payload]" marker with it.

## 7 Limits

Only model-checked, not proved: `ReadsWhatWasSent` of `Analysis`, and liveness everywhere (the
prover has no rules for ENABLED). `ReadsWhatWasSent` says that the parser inverts an encoder
of ClientHellos, cut anywhere; the parser selects from lists with `SelectSeq`, whose
definition is recursive within a LET and closed to the prover, so that nothing can be proved of
what it returns. What a recursive function computes can be
proved by induction over the natural numbers, stated about sets, as the proofs about
`TcpReassembly`, `Anomaly`, `Tables` and `Analysis` do; the library's own induction theorems
take an operator and cannot be used. The theorems about `Triage`, `Tables`, `TcpReassembly` and
`Pipeline` that assume something of a constant say so in section 5.

Abstracted within the modelled parts: payload bytes (offsets in `TcpReassembly`, traits in
`Triage`, tokens in `Analysis`), the wording of alerts, confidences and CVSS scores; the
logarithms of the Markov scores and their threshold (arbitrary); hashes (a key, or the text
hashed); entropy and timing features (a flag of the flow); configuration values that only
scale a threshold. Regular expressions over characters (addresses, base64 runs, commands)
are tokens. `Triage` and `Analysis` take one combination of `Forensic` and `Blocking` in
their runs. `LlmInference` is assumed to return. `ReadsWhatWasSent` is about the hellos of
the run, and `ObfuscationUndone` about requests made of the parts that `WebAssumption`
describes.

Not modelled:

- *Model loading and inference* (llama.cpp, OpenVINO), tokenisation and hashing: external
  code or arithmetic; the answer of a model is arbitrary. `proxy_db.hpp` is the arbitrary
  listing of hosts in `Anomaly`.
- *Configuration, logger, alert JSON*: parsing and formatting; the settings that change
  control (offline, forensic, queue capacity, budget) are constants.
- *Command line*: its waiting loop and its signal handler are the callers in
  `Pipeline`.
- *ImGui dashboard, Flutter widgets*: drawing. Each buffer between the pipeline's threads
  and the render thread of the former has a mutex of its own and is emptied under it.
- *Benchmarks, tools*, and the reading of labelled captures and the evaluation in
  `train.cpp`: offline programs around the engine.
- `unblock_source()` has no caller. The configuration setters of the C API only write the
  configuration that the next start reads (`mode` in `Pipeline`); its statistics and its
  listing of interfaces only read.

## 8 Plan

Modules are ordered by how much of the system depends on them: the queue, the controller
that joins its users, then the stages from the wire to the screen, then the payload
analysis behind the gates. Done: all modules of section 2. What would come next, in order:

1. **Composition.** `Pipeline`'s queues as two instances of `FlowLedger`; the state
   machine of `EventBridge` as an abstraction of `Pipeline` (refinement mapping on
   `state` and `shutdown_requested`).
2. **Proofs.** `ReadsWhatWasSent` for every ClientHello that fits its length fields, with the
   selections of the parser as recursive functions, as `Squeezed` is: the parser of each
   nested list against the encoder of it; that the name read from a part of a hello is
   the whole name or none is the part a reader would doubt most.

Properties of runs stay few: a deeper one replaces a shallower one.
