------------------------------- MODULE Triage -------------------------------
(* What becomes of a reassembled flow: the chain of gates and detectors of     *)
(* NpuFilter::worker_loop, the second queue, LlmInference::worker_loop and the *)
(* alert callback of PipelineController.  A flow is the set of traits the      *)
(* detectors find in it (Analysis finds them in payloads); the model's answer  *)
(* is arbitrary.                                                               *)
EXTENDS Gates, FiniteSets

CONSTANTS Flows,
          TraitSets,   \* the combinations of traits a flow may have
          Keys,        \* what the dedup hashes tell apart
          Forensic,    \* cfg.is_forensic()
          Blocking,    \* offline backpressure on the second queue
          Capacity,    \* queue_capacity
          MaxSeen,     \* MAX_DEDUP_HASHES (100000)
          MaxRuns      \* max_llm_flows; 0 is unlimited

VARIABLES
  trait, key,        \* what each flow is: never changes
  inbox,             \* flows the filter has not popped
  seen,              \* seen_payload_hashes_
  reason,            \* the reason of the filter's flow event for each flow
  holding,           \* the flow the filter is pushing
  queue, lost,       \* the second queue; flows it refused or evicted
  verdict,           \* what the LLM stage made of each flow
  runs,              \* llm_runs_
  alert              \* the alert raised for a flow
vars == <<trait, key, inbox, seen, reason, holding, queue, lost, verdict, runs, alert>>

-------------------------------------------------------------------------------
(* The filter                                                                  *)

ASSUME TriageAssumption ==
  /\ IsFiniteSet(Flows)
  /\ TraitSets \subseteq SUBSET Traits
  /\ Forensic \in BOOLEAN /\ Blocking \in BOOLEAN
  /\ Capacity \in Nat \ {0} /\ MaxSeen \in Nat /\ MaxRuns \in Nat

\* Each detector hashes with a constant of its own.
DedupKey(f, r) == <<r, key[f]>>

\* protocol_tag: set by the detector that named the flow; in live mode a content
\* signature names it too.
Named(f) ==
  CASE reason[f] = "threat-intel" -> "signature" \in trait[f] /\ ~Forensic
    [] reason[f] = "anomaly"      -> FALSE
    [] OTHER                      -> TRUE

flow_priority(f) == IF Named(f) \/ "behavioral" \in trait[f] THEN 2 ELSE 1

Init ==
  /\ trait \in [Flows -> TraitSets] /\ key \in [Flows -> Keys]
  /\ inbox = Flows /\ seen = {} /\ holding = {} /\ queue = {} /\ lost = {}
  /\ reason = [f \in Flows |-> "none"]
  /\ verdict = [f \in Flows |-> "none"]
  /\ runs = 0
  /\ alert = [f \in Flows |-> {}]

llmVars == <<verdict, runs, alert>>

\* One round of NpuFilter::worker_loop up to the push.  The event that says where the
\* flow goes is emitted here, before the queue may refuse it.
FilterFlow(f) ==
  LET hit == FirstHit(trait[f])
      kept == IF hit # "empty" /\ Cardinality(seen) > MaxSeen THEN {} ELSE seen
      fresh == hit \notin Deduplicated \/ DedupKey(f, hit) \notin kept
  IN  /\ holding = {} /\ f \in inbox
      /\ inbox' = inbox \ {f}
      /\ seen' = IF hit \in Deduplicated THEN kept \cup {DedupKey(f, hit)} ELSE kept
      /\ reason' = [reason EXCEPT ![f] = IF fresh THEN hit ELSE "dedup"]
      /\ holding' = IF fresh /\ hit \in Passing THEN {f} ELSE {}
      /\ UNCHANGED <<trait, key, queue, lost, llmVars>>

Weakest == {g \in queue : \A h \in queue : flow_priority(g) <= flow_priority(h)}

\* output_queue.push(): waits in offline mode, else evicts a weaker flow or refuses.
FilterPush ==
  /\ \E f \in holding :
       IF Cardinality(queue) < Capacity
         THEN queue' = queue \cup {f} /\ UNCHANGED lost
         ELSE /\ ~Blocking
              /\ \E x \in IF \E g \in Weakest : flow_priority(g) < flow_priority(f)
                            THEN Weakest ELSE {f} :
                   /\ queue' = (queue \cup {f}) \ {x}
                   /\ lost' = lost \cup {x}
  /\ holding' = {}
  /\ UNCHANGED <<trait, key, inbox, seen, reason, llmVars>>

-------------------------------------------------------------------------------
(* The LLM stage.  Severity levels are numbers, 1 for low and 3 for high.      *)

Levels == 1 .. 3
High == 3

IsNext(f) == \A g \in queue : flow_priority(g) <= flow_priority(f)
Taken(f) == f \in queue /\ IsNext(f) /\ queue' = queue \ {f}

Judged(f, what) == verdict' = [verdict EXCEPT ![f] = what]
filterVars == <<trait, key, inbox, seen, reason, holding, lost>>

\* The alert callback: severity_info is looked up again from the threat type, whose
\* curated level is ceiling; json is the level the LLM stage wrote.
Raise(f, ceiling, json) ==
  alert' = [alert EXCEPT ![f] = {[ceiling |-> ceiling, json |-> json, info |-> ceiling]}]

\* A named flow is decided: its alert needs no inference.  A bulk of addresses in a
\* transfer is rated High whatever the table says of the tag.
LlmNamed(f) ==
  /\ Taken(f) /\ Named(f)
  /\ Judged(f, "tagged")
  /\ \E ceiling \in Levels :
       \/ Raise(f, ceiling, ceiling)
       \/ /\ reason[f] \in {"credential-content", "ftp-exfil"}
          /\ Raise(f, ceiling, High)
  /\ UNCHANGED <<filterVars, runs>>

Bug_LlmBinary(f) ==
  /\ Taken(f) /\ "unprintable" \in trait[f]
  /\ Judged(f, "binary")
  /\ UNCHANGED <<filterVars, runs, alert>>

\* "There is nothing textual to classify, so skip the LLM": no alert and no event.
LlmBinary(f) ==
  /\ Taken(f) /\ ~Named(f) /\ "unprintable" \in trait[f]
  /\ Judged(f, "binary")
  /\ UNCHANGED <<filterVars, runs, alert>>

Bug_Spent == MaxRuns > 0 /\ runs > MaxRuns
Spent == MaxRuns > 0 /\ runs >= MaxRuns

\* The counter goes one past the budget, so that the log says it once.
LlmSpent(f) ==
  /\ Taken(f) /\ ~Named(f) /\ "unprintable" \notin trait[f] /\ Spent
  /\ runs' = IF runs = MaxRuns THEN runs + 1 ELSE runs
  /\ Judged(f, "unjudged")
  /\ UNCHANGED <<filterVars, alert>>

resolve_severity(ceiling, said) == IF said < ceiling THEN said ELSE ceiling

\* The answer: benign; unusable (a field missing, a snippet the payload does not have,
\* a benign header); or a threat with a severity of the model's own.
LlmInfer(f) ==
  /\ Taken(f) /\ ~Named(f) /\ "unprintable" \notin trait[f] /\ ~Spent
  /\ runs' = runs + 1
  /\ \/ Judged(f, "benign") /\ UNCHANGED alert
     \/ Judged(f, "suppressed") /\ UNCHANGED alert
     \/ /\ Judged(f, "threat")
        /\ \E ceiling, said \in Levels :
             Raise(f, ceiling, resolve_severity(ceiling, said))
  /\ UNCHANGED filterVars

-------------------------------------------------------------------------------
LlmFlow(f) == LlmNamed(f) \/ LlmBinary(f) \/ LlmSpent(f) \/ LlmInfer(f)

Next == \/ \E f \in Flows : FilterFlow(f)
        \/ FilterPush
        \/ \E f \in Flows : LlmFlow(f)

Spec == Init /\ [][Next]_vars

-------------------------------------------------------------------------------
Inferred == {f \in Flows : verdict[f] \in {"benign", "suppressed", "threat"}}

TypeOK ==
  /\ inbox \subseteq Flows /\ holding \subseteq Flows /\ lost \subseteq Flows
  /\ queue \subseteq Flows /\ Cardinality(queue) <= Capacity
  /\ seen \subseteq Deduplicated \X Keys /\ Cardinality(seen) <= MaxSeen + 1
  /\ reason \in [Flows -> {Chain[i] : i \in DOMAIN Chain} \cup {"none", "dedup"}]
  /\ verdict \in [Flows -> {"none", "tagged", "binary", "unjudged", "benign",
                            "suppressed", "threat"}]
  /\ runs \in 0 .. Cardinality(Flows)
  /\ \A f \in Flows :
       alert[f] \subseteq [ceiling : Levels, json : Levels, info : Levels]

\* "We MUST run that signature before dropping the flow as benign TLS": whatever else
\* a flow shows, Heartbleed in it is never filtered out but as a duplicate.
HeartbleedNeverMasked ==
  \A f \in Flows :
    "heartbleed" \in trait[f] /\ "empty" \notin trait[f] /\ reason[f] # "none"
      => reason[f] \in Passing \cup {"dedup"}

\* A flow dropped as a duplicate has a twin that was not dropped: with backpressure
\* the twin is on its way to the LLM stage or was judged there.
DuplicatesCovered ==
  \A f \in Flows : reason[f] = "dedup" =>
    \E g \in Flows \ {f} :
      /\ key[g] = key[f] /\ FirstHit(trait[g]) = FirstHit(trait[f])
      /\ g \in holding \cup queue \/ verdict[g] # "none"

\* What the filter drops is covered: no gate of worker_loop() (npu_filter.cpp:812-1121)
\* hides Heartbleed, and none takes the last of several duplicates.
DropsAreSound == HeartbleedNeverMasked /\ DuplicatesCovered

\* "Fast detectors (signatures/anomaly/beaconing/TLS) have already decided and
\* emitted": whatever the budget, the payload and the model say, a flow a detector named
\* raises its alert, and one that matched a content signature never leaves the LLM stage
\* without a verdict.
FastDetectorsDecide ==
  \A f \in Flows :
    /\ reason[f] \in Passing /\ Named(f) /\ f \notin holding \cup queue \cup lost
         => alert[f] # {}
    /\ reason[f] = "threat-intel" /\ "signature" \in trait[f]
         => verdict[f] \notin {"binary", "unjudged"}

\* "It may NEVER inflate a verdict": no answer of the model takes an alert above the
\* curated level of its threat type.
NoInflation ==
  \A f \in Inferred : \A a \in alert[f] : a.json <= a.ceiling /\ a.info <= a.ceiling

\* The model is bounded, in work and in effect: "cap the number of flows actually run
\* through the model" (llm_inference.cpp:1530-1542), and no answer inflates a verdict.
\* The type invariant is part of it.
BudgetKept ==
  /\ TypeOK
  /\ MaxRuns > 0 => Cardinality(Inferred) <= MaxRuns
  /\ NoInflation

-------------------------------------------------------------------------------
(* Promises of the comments that the code does not keep                        *)

\* "A behavioral-Markov escalation forces the flow through to the LLM for adjudication
\* regardless of the statistical verdict (the signal is about flow timing/size, not
\* payload content)" (npu_filter.cpp), once the flow came as far as that verdict.
BehavioralAdjudicated ==
  \A f \in Flows : "behavioral" \in trait[f] => reason[f] # "binary"

\* "The LLM's payload-aware judgment may downgrade a low-impact instance (this is what
\* populates the Low tier)" (llm_inference.cpp): the level of the alert is the one the
\* LLM stage resolved.
AlertHasResolvedSeverity == \A f \in Inferred : \A a \in alert[f] : a.info = a.json
===============================================================================
