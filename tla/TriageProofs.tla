---------------------------- MODULE TriageProofs ----------------------------
(* Machine-checked proofs about Triage, for any flows, traits, queue, bound on *)
(* the dedup hashes and budget.                                                *)
EXTENDS Triage, FiniteSetTheorems, TLAPS

-------------------------------------------------------------------------------
(* The chain of gates                                                          *)

Reasons == {Chain[i] : i \in DOMAIN Chain}

\* Gate i is the one that takes a flow with traits t.
Takes(t, i) == Hit(t, Chain[i]) /\ \A j \in 1 .. i - 1 : ~Hit(t, Chain[j])

LEMMA SomeGateTakes ==
  ASSUME NEW t PROVE \E i \in 1 .. 15 : Takes(t, i)
<1> DEFINE hit == [i \in 1 .. 15 |-> Hit(t, Chain[i])]
<1>1. hit[15]
  BY DEF Hit, Chain
<1> HIDE DEF hit
<1>2. \E i \in 1 .. 15 : hit[i] /\ \A j \in 1 .. i - 1 : ~hit[j]
  BY <1>1
<1> QED
  BY <1>2 DEF hit, Takes

LEMMA FirstHitTakes ==
  ASSUME NEW t
  PROVE  \E i \in 1 .. 15 : FirstHit(t) = Chain[i] /\ Takes(t, i)
<1>1. DOMAIN Chain = 1 .. 15
  BY DEF Chain
<1> DEFINE i == CHOOSE i \in 1 .. 15 : Takes(t, i)
<1>2. i \in 1 .. 15 /\ Takes(t, i)
  BY SomeGateTakes
<1>3. FirstHit(t) = Chain[i]
  BY <1>1 DEF FirstHit, Takes
<1> HIDE DEF i
<1> QED
  BY <1>2, <1>3

LEMMA FirstHitIsReason ==
  ASSUME NEW t PROVE FirstHit(t) \in Reasons /\ FirstHit(t) \notin {"none", "dedup"}
  BY FirstHitTakes DEF Reasons, Chain

\* No gate before the one of Heartbleed drops a flow that shows it.
LEMMA HeartbleedPasses ==
  ASSUME NEW t, "heartbleed" \in t, "empty" \notin t
  PROVE  FirstHit(t) \in Passing
<1>1. PICK i \in 1 .. 15 : FirstHit(t) = Chain[i] /\ Takes(t, i)
  BY FirstHitTakes
<1>2. Hit(t, Chain[5]) /\ ~Hit(t, Chain[1]) /\ ~Hit(t, Chain[3])
  BY DEF Hit, Chain
<1>3. i \in {2, 4, 5}
  BY <1>1, <1>2 DEF Takes
<1> QED
  BY <1>1, <1>3 DEF Chain, Passing

-------------------------------------------------------------------------------
(* Where a flow is                                                             *)

Verdicts == {"none", "tagged", "binary", "unjudged", "benign", "suppressed", "threat"}
Alert == [ceiling : Levels, json : Levels, info : Levels]

Types ==
  /\ trait \in [Flows -> TraitSets] /\ key \in [Flows -> Keys]
  /\ inbox \subseteq Flows /\ holding \subseteq Flows /\ lost \subseteq Flows
  /\ queue \subseteq Flows
  /\ seen \subseteq Deduplicated \X Keys
  /\ reason \in [Flows -> Reasons \cup {"none", "dedup"}]
  /\ verdict \in [Flows -> Verdicts]
  /\ alert \in [Flows -> SUBSET Alert]

\* A flow that passed the filter is on its way, was refused or was judged, once.
Whereabouts ==
  /\ \A f \in Flows :
       /\ f \in inbox <=> reason[f] = "none"
       /\ f \in holding \cup queue \cup lost => reason[f] \in Passing /\ verdict[f] = "none"
       /\ reason[f] \in Passing => f \in holding \cup queue \cup lost \/ verdict[f] # "none"
       /\ verdict[f] # "none" => reason[f] \in Passing
       /\ reason[f] \notin {"none", "dedup"} => reason[f] = FirstHit(trait[f])
  /\ holding \cap queue = {} /\ (holding \cup queue) \cap lost = {}
  /\ \A f, g \in holding : f = g

FlowInv == Types /\ Whereabouts

LEMMA InitFlowInv == Init => FlowInv
<1> SUFFICES ASSUME Init PROVE FlowInv
  OBVIOUS
<1>1. Types
  BY DEF Init, Types, Verdicts
<1>2. Whereabouts
  BY DEF Init, Whereabouts, Passing
<1> QED
  BY <1>1, <1>2 DEF FlowInv

\* What the four endings of the LLM stage have in common.
LlmStep(f) ==
  /\ f \in queue /\ queue' = queue \ {f}
  /\ \E v \in Verdicts \ {"none"} : verdict' = [verdict EXCEPT ![f] = v]
  /\ alert' = alert \/ \E a \in Alert : alert' = [alert EXCEPT ![f] = {a}]
  /\ UNCHANGED filterVars

LEMMA LlmIsStep ==
  ASSUME NEW f \in Flows, LlmFlow(f) PROVE LlmStep(f)
<1> USE DEF Taken, Judged, Raise, LlmStep, Verdicts
<1>r. \A c, d \in Levels : /\ [ceiling |-> c, json |-> d, info |-> c] \in Alert
                           /\ resolve_severity(c, d) \in Levels
                           /\ High \in Levels
  BY DEF Alert, resolve_severity, Levels, High
<1>1. CASE LlmNamed(f)
  BY <1>1, <1>r DEF LlmNamed
<1>2. CASE LlmBinary(f)
  BY <1>2 DEF LlmBinary
<1>3. CASE LlmSpent(f)
  BY <1>3 DEF LlmSpent
<1>4. CASE LlmInfer(f)
  BY <1>4, <1>r DEF LlmInfer
<1> QED
  BY <1>1, <1>2, <1>3, <1>4 DEF LlmFlow

LEMMA NextFlowInv == FlowInv /\ [Next]_vars => FlowInv'
<1> SUFFICES ASSUME FlowInv, [Next]_vars PROVE FlowInv'
  OBVIOUS
<1>0. Types /\ Whereabouts
  BY DEF FlowInv
<1>1. ASSUME NEW f \in Flows, FilterFlow(f) PROVE FlowInv'
  <2> DEFINE hit == FirstHit(trait[f])
  <2>1. hit \in Reasons /\ hit \notin {"none", "dedup"}
    BY FirstHitIsReason
  <2>2. \E r \in {hit, "dedup"} :
          /\ reason' = [reason EXCEPT ![f] = r]
          /\ holding' = IF r \in Passing THEN {f} ELSE {}
    BY <1>1, <2>1 DEF FilterFlow, Passing
  <2>3. /\ holding = {} /\ f \in inbox /\ inbox' = inbox \ {f}
        /\ UNCHANGED <<trait, key, queue, lost, verdict, alert>>
    BY <1>1 DEF FilterFlow, llmVars
  <2>4. seen' \subseteq Deduplicated \X Keys
    <3>1. key[f] \in Keys
      BY <1>0 DEF Types
    <3> QED
      BY <1>0, <1>1, <3>1 DEF FilterFlow, Types, DedupKey
  <2> HIDE DEF hit
  <2>5. Types'
    BY <1>0, <2>1, <2>2, <2>3, <2>4 DEF Types
  <2>6. Whereabouts'
    <3>1. PICK r \in {hit, "dedup"} : /\ reason' = [reason EXCEPT ![f] = r]
                                     /\ holding' = IF r \in Passing THEN {f} ELSE {}
      BY <2>2
    <3>2. "none" \notin Passing /\ "dedup" \notin Passing
      BY DEF Passing
    <3>3. reason'[f] = r /\ \A g \in Flows \ {f} : reason'[g] = reason[g]
      BY <1>0, <3>1 DEF Types
    <3>4. reason[f] = "none" /\ f \notin queue /\ f \notin lost /\ verdict[f] = "none"
      BY <1>0, <2>3, <3>2 DEF Whereabouts
    <3>5. r # "dedup" => r = FirstHit(trait'[f])
      BY <2>3 DEF hit
    <3> QED
      BY <1>0, <2>1, <2>3, <3>1, <3>2, <3>3, <3>4, <3>5 DEF Whereabouts
  <2> QED
    BY <2>5, <2>6 DEF FlowInv
<1>2. CASE FilterPush
  <2>1. PICK f \in holding : \E x \in Flows :
          \/ queue' = queue \cup {f} /\ lost' = lost
          \/ queue' = (queue \cup {f}) \ {x} /\ lost' = lost \cup {x} /\ x \in queue \cup {f}
    BY <1>0, <1>2 DEF FilterPush, Weakest, Types
  <2>2. holding' = {} /\ UNCHANGED <<trait, key, inbox, seen, reason, verdict, alert>>
    BY <1>2 DEF FilterPush, llmVars
  <2> QED
    BY <1>0, <2>1, <2>2 DEF FlowInv, Types, Whereabouts
<1>3. ASSUME NEW f \in Flows, LlmFlow(f) PROVE FlowInv'
  <2>1. LlmStep(f)
    BY <1>3, LlmIsStep
  <2> QED
    BY <1>0, <2>1 DEF LlmStep, filterVars, FlowInv, Types, Whereabouts
<1>4. CASE UNCHANGED vars
  BY <1>0, <1>4 DEF vars, FlowInv, Types, Whereabouts
<1> QED
  BY <1>1, <1>2, <1>3, <1>4 DEF Next

\* Whatever else a flow shows, no gate drops it while it shows Heartbleed, but for a
\* duplicate of one that was not dropped.
THEOREM HeartbleedIsNeverMasked == Spec => []HeartbleedNeverMasked
<1>1. FlowInv => HeartbleedNeverMasked
  BY HeartbleedPasses DEF FlowInv, Whereabouts, HeartbleedNeverMasked
<1> QED
  BY <1>1, InitFlowInv, NextFlowInv, PTL DEF Spec

-------------------------------------------------------------------------------
(* What the detectors decided                                                  *)

\* Nothing but the LLM stage touches a verdict or an alert, and what it made of a flow
\* follows from whether a detector named it.
Decided ==
  \A f \in Flows :
    /\ verdict[f] # "none" /\ Named(f) => alert[f] # {}
    /\ verdict[f] \in {"binary", "unjudged"} => ~Named(f)

DecidedInv == FlowInv /\ Decided

LEMMA NextDecided == DecidedInv /\ [Next]_vars => DecidedInv'
<1> SUFFICES ASSUME DecidedInv, [Next]_vars PROVE Decided'
  BY NextFlowInv DEF DecidedInv
<1>0. Types /\ Whereabouts /\ Decided
  BY DEF DecidedInv, FlowInv
<1>1. ASSUME NEW f \in Flows, FilterFlow(f) PROVE Decided'
  <2>1. /\ reason' = [reason EXCEPT ![f] = reason'[f]] /\ verdict[f] = "none"
        /\ UNCHANGED <<trait, verdict, alert>>
    BY <1>0, <1>1 DEF FilterFlow, llmVars, Types, Whereabouts, Passing
  <2> QED
    BY <1>0, <2>1 DEF Decided, Named, Types
<1>2. CASE FilterPush \/ UNCHANGED vars
  BY <1>0, <1>2 DEF FilterPush, llmVars, vars, Decided, Named
<1>3. ASSUME NEW f \in Flows, LlmFlow(f) PROVE Decided'
  <2>1. UNCHANGED <<trait, reason>>
    BY <1>3, LlmIsStep DEF LlmStep, filterVars
  <2>2. \A g \in Flows : Named(g)' <=> Named(g)
    BY <2>1 DEF Named
  <2>3. CASE LlmNamed(f)
    <3>1. verdict' = [verdict EXCEPT ![f] = "tagged"]
      BY <2>3 DEF LlmNamed, Judged
    <3>2. PICK info : alert' = [alert EXCEPT ![f] = {info}]
      BY <2>3 DEF LlmNamed, Raise
    <3>3. alert' \in [Flows -> SUBSET Alert]
      BY NextFlowInv DEF DecidedInv, FlowInv, Types
    <3> QED
      BY <1>0, <2>2, <3>1, <3>2, <3>3 DEF Decided, Types
  <2>4. CASE LlmBinary(f) \/ LlmSpent(f) \/ LlmInfer(f)
    <3>1. /\ ~Named(f) /\ verdict' = [verdict EXCEPT ![f] = verdict'[f]]
          /\ \A g \in Flows \ {f} : alert'[g] = alert[g]
      BY <1>0, <2>4 DEF LlmBinary, LlmSpent, LlmInfer, Judged, Raise, Types
    <3> QED
      BY <1>0, <2>2, <3>1 DEF Decided, Types
  <2> QED
    BY <1>3, <2>3, <2>4 DEF LlmFlow
<1> QED
  BY <1>1, <1>2, <1>3 DEF Next

\* In live mode, whatever the budget, the payload and the model say, a flow that a
\* detector named raises its alert, and a signature match is never left unjudged.
THEOREM DetectorsDecide == ~Forensic => (Spec => []FastDetectorsDecide)
<1> SUFFICES ASSUME ~Forensic PROVE Spec => []FastDetectorsDecide
  OBVIOUS
<1>1. Init => DecidedInv
  BY InitFlowInv DEF DecidedInv, Init, Decided
<1>2. DecidedInv => FastDetectorsDecide
  BY DEF DecidedInv, FlowInv, Whereabouts, Decided, FastDetectorsDecide, Named
<1> QED
  BY <1>1, <1>2, NextDecided, PTL DEF Spec

-------------------------------------------------------------------------------
(* Duplicates                                                                  *)

\* What is in the set of hashes was put there by a flow that passed, and a duplicate
\* shares its hash with one.
Passed(f, r, k) == reason[f] = r /\ key[f] = k
TwinsPass ==
  /\ \A d \in seen : \E g \in Flows : Passed(g, d[1], d[2])
  /\ \A f \in Flows : reason[f] = "dedup" =>
       /\ FirstHit(trait[f]) \in Deduplicated
       /\ \E g \in Flows : Passed(g, FirstHit(trait[f]), key[f])

DedupInv == FlowInv /\ TwinsPass /\ lost = {}

LEMMA NextDedup == Blocking /\ DedupInv /\ [Next]_vars => DedupInv'
<1> SUFFICES ASSUME Blocking, DedupInv, [Next]_vars PROVE TwinsPass' /\ lost' = {}
  BY NextFlowInv DEF DedupInv
<1>0. Types /\ Whereabouts /\ TwinsPass /\ lost = {}
  BY DEF DedupInv, FlowInv
<1>1. ASSUME NEW f \in Flows, FilterFlow(f) PROVE TwinsPass' /\ lost' = {}
  <2> DEFINE hit == FirstHit(trait[f])
  <2>1. /\ UNCHANGED <<trait, key, lost>>
        /\ \A g \in Flows \ {f} : reason'[g] = reason[g]
        /\ reason[f] = "none"
    BY <1>0, <1>1 DEF FilterFlow, Types, Whereabouts
  <2>2. \A g \in Flows, r \in Reasons, k \in Keys : 
          Passed(g, r, k) => reason'[g] = r /\ key'[g] = k
    BY <2>1, FirstHitIsReason DEF Passed, Reasons, Chain
  <2>3. \A d \in seen : d[1] \in Reasons /\ d[2] \in Keys
    BY <1>0 DEF Types, Deduplicated, Reasons, Chain
  <2>4. key[f] \in Keys /\ hit \in Reasons
    BY <1>0, FirstHitIsReason DEF Types
  <2>5. hit \notin {"none", "dedup"}
    BY FirstHitIsReason
  <2>6. /\ reason'[f] \in {hit, "dedup"}
        /\ reason'[f] = "dedup" => hit \in Deduplicated /\ <<hit, key[f]>> \in seen
        /\ \A d \in seen' \ seen : d = <<hit, key[f]>> /\ reason'[f] = hit
    <3> HIDE DEF hit
    <3>1. \E kept \in {{}, seen} :
            /\ seen' = IF hit \in Deduplicated THEN kept \cup {<<hit, key[f]>>} ELSE kept
            /\ reason'[f] = IF hit \notin Deduplicated \/ <<hit, key[f]>> \notin kept
                            THEN hit ELSE "dedup"
      BY <1>0, <1>1 DEF FilterFlow, DedupKey, Types, hit
    <3> QED
      BY <2>5, <3>1
  <2>7. \A d \in seen' : \E g \in Flows : Passed(g, d[1], d[2])'
    <3>1. ASSUME NEW d \in seen' PROVE \E g \in Flows : Passed(g, d[1], d[2])'
      <4>1. CASE d \in seen
        BY <1>0, <2>2, <2>3, <4>1 DEF TwinsPass, Passed
      <4>2. CASE d \notin seen
        BY <2>1, <2>6, <4>2 DEF Passed
      <4> QED
        BY <4>1, <4>2
    <3> QED
      BY <3>1
  <2>8. ASSUME NEW g \in Flows, reason'[g] = "dedup"
        PROVE  /\ FirstHit(trait[g]) \in Deduplicated
               /\ \E h \in Flows : reason'[h] = FirstHit(trait[g]) /\ key'[h] = key[g]
    <3>1. /\ FirstHit(trait[g]) \in Deduplicated
          /\ \E h \in Flows : Passed(h, FirstHit(trait[g]), key[g])
      <4>1. CASE g = f
        BY <1>0, <2>5, <2>6, <2>8, <4>1 DEF TwinsPass
      <4>2. CASE g # f
        BY <1>0, <2>1, <2>8, <4>2 DEF TwinsPass
      <4> QED
        BY <4>1, <4>2
    <3>2. key[g] \in Keys /\ FirstHit(trait[g]) \in Reasons
      BY <1>0, FirstHitIsReason DEF Types
    <3> QED
      BY <2>2, <3>1, <3>2
  <2>9. \A g \in Flows : FirstHit(trait[g])' = FirstHit(trait[g])
    BY <2>1
  <2> QED
    BY <1>0, <2>1, <2>7, <2>8, <2>9 DEF TwinsPass, Passed
<1>2. CASE FilterPush
  BY <1>0, <1>2 DEF FilterPush, TwinsPass, Passed
<1>3. ASSUME NEW f \in Flows, LlmFlow(f) PROVE TwinsPass' /\ lost' = {}
  BY <1>0, <1>3, LlmIsStep DEF LlmStep, filterVars, TwinsPass, Passed
<1>4. CASE UNCHANGED vars
  BY <1>0, <1>4 DEF vars, TwinsPass, Passed
<1> QED
  BY <1>1, <1>2, <1>3, <1>4 DEF Next

\* With backpressure, what the filter drops as a duplicate has a twin that is on its way
\* to the LLM stage or was judged there, and Heartbleed is dropped in no other way.
THEOREM FilterDropsAreSound == Blocking => (Spec => []DropsAreSound)
<1> SUFFICES ASSUME Blocking PROVE Spec => []DropsAreSound
  OBVIOUS
<1>1. Init => DedupInv
  BY InitFlowInv DEF DedupInv, Init, TwinsPass
<1>2. DedupInv => DropsAreSound
  <2> SUFFICES ASSUME DedupInv PROVE DuplicatesCovered
    BY HeartbleedPasses DEF DedupInv, FlowInv, Whereabouts, HeartbleedNeverMasked, DropsAreSound
  <2> SUFFICES ASSUME NEW f \in Flows, reason[f] = "dedup"
               PROVE  \E g \in Flows \ {f} :
                        /\ key[g] = key[f] /\ FirstHit(trait[g]) = FirstHit(trait[f])
                        /\ g \in holding \cup queue \/ verdict[g] # "none"
    BY DEF DuplicatesCovered
  <2>1. PICK g \in Flows : reason[g] = FirstHit(trait[f]) /\ key[g] = key[f]
    BY DEF DedupInv, TwinsPass, Passed
  <2>2. reason[g] \in Passing /\ reason[g] \notin {"none", "dedup"}
    BY <2>1 DEF DedupInv, TwinsPass, Deduplicated, Passing
  <2> QED
    BY <2>1, <2>2 DEF DedupInv, FlowInv, Whereabouts
<1> QED
  BY <1>1, <1>2, NextDedup, PTL DEF Spec

-------------------------------------------------------------------------------
(* The budget                                                                  *)

\* The counter is the number of flows the model saw, or one more once a flow was left
\* unjudged for want of budget.
Counted ==
  /\ runs \in Nat
  /\ MaxRuns > 0 => runs <= MaxRuns + 1
  /\ ~(MaxRuns > 0 /\ runs = MaxRuns + 1) => Cardinality(Inferred) = runs
  /\ MaxRuns > 0 /\ runs = MaxRuns + 1 =>
       /\ Cardinality(Inferred) = MaxRuns
       /\ \E f \in Flows : verdict[f] = "unjudged"

Bounded ==
  /\ Cardinality(queue) <= Capacity
  /\ IsFiniteSet(seen) /\ Cardinality(seen) <= MaxSeen + 1

Silent == \A f \in Flows : verdict[f] = "none" => alert[f] = {}

BudgetInv == FlowInv /\ Bounded /\ Counted /\ Silent /\ NoInflation

LEMMA NextBounded == FlowInv /\ Bounded /\ [Next]_vars => Bounded'
<1> SUFFICES ASSUME FlowInv, Bounded, [Next]_vars PROVE Bounded'
  OBVIOUS
<1>0. /\ Types /\ Whereabouts
      /\ IsFiniteSet(queue) /\ Cardinality(queue) \in Nat /\ Cardinality(seen) \in Nat
      /\ Capacity \in Nat \ {0} /\ MaxSeen \in Nat
  BY TriageAssumption, FS_Subset, FS_CardinalityType DEF FlowInv, Types, Bounded
<1>1. ASSUME NEW f \in Flows, FilterFlow(f) PROVE Bounded'
  <2> DEFINE hit == FirstHit(trait[f])
             kept == IF hit # "empty" /\ Cardinality(seen) > MaxSeen THEN {} ELSE seen
  <2>1. /\ queue' = queue
        /\ seen' = IF hit \in Deduplicated THEN kept \cup {DedupKey(f, hit)} ELSE kept
    BY <1>1 DEF FilterFlow
  <2>2. /\ IsFiniteSet(kept) /\ Cardinality(kept) \in Nat
        /\ Cardinality(kept) <= MaxSeen + 1
        /\ hit \in Deduplicated => Cardinality(kept) <= MaxSeen
    BY <1>0, FS_EmptySet DEF Bounded, Deduplicated
  <2> HIDE DEF hit, kept
  <2>3. /\ IsFiniteSet(kept \cup {DedupKey(f, hit)})
        /\ Cardinality(kept \cup {DedupKey(f, hit)}) \in Nat
        /\ Cardinality(kept \cup {DedupKey(f, hit)}) <= Cardinality(kept) + 1
    BY <2>2, FS_AddElement, FS_CardinalityType
  <2> QED
    BY <1>0, <2>1, <2>2, <2>3 DEF Bounded
<1>2. CASE FilterPush
  <2>1. PICK f \in holding :
          \/ queue' = queue \cup {f} /\ Cardinality(queue) < Capacity
          \/ \E x \in queue \cup {f} : queue' = (queue \cup {f}) \ {x}
    BY <1>2 DEF FilterPush, Weakest
  <2> DEFINE all == queue \cup {f}
  <2>2. IsFiniteSet(all) /\ Cardinality(all) = Cardinality(queue) + 1
    <3>1. holding \cap queue = {}
      BY DEF FlowInv, Whereabouts
    <3> QED
      BY <1>0, <2>1, <3>1, FS_AddElement
  <2> HIDE DEF all
  <2>3. ASSUME NEW x \in all PROVE Cardinality(all \ {x}) = Cardinality(queue)
    <3>1. Cardinality(all \ {x}) = Cardinality(all) - 1
      BY <2>2, FS_RemoveElement
    <3> QED
      BY <1>0, <2>2, <3>1
  <2>4. seen' = seen
    BY <1>2 DEF FilterPush
  <2> QED
    BY <1>0, <2>1, <2>2, <2>3, <2>4 DEF Bounded, all
<1>3. ASSUME NEW f \in Flows, LlmFlow(f) PROVE Bounded'
  <2>1. f \in queue /\ queue' = queue \ {f} /\ seen' = seen
    BY <1>3, LlmIsStep DEF LlmStep, filterVars
  <2>2. Cardinality(queue \ {f}) = Cardinality(queue) - 1
    BY <1>0, <2>1, FS_RemoveElement
  <2> QED
    BY <1>0, <2>1, <2>2 DEF Bounded
<1>4. CASE UNCHANGED vars
  BY <1>4 DEF vars, Bounded
<1> QED
  BY <1>1, <1>2, <1>3, <1>4 DEF Next

LEMMA NextCounted ==
  ASSUME FlowInv, Counted, Silent, NoInflation, [Next]_vars
  PROVE  Counted' /\ Silent' /\ NoInflation'
<1>0. Types /\ Whereabouts /\ MaxRuns \in Nat /\ IsFiniteSet(Inferred)
  BY TriageAssumption, FS_Subset DEF FlowInv, Inferred
<1>1. CASE UNCHANGED <<verdict, runs, alert>>
  BY <1>1 DEF Counted, Silent, NoInflation, Inferred
<1>2. ASSUME NEW f \in Flows, LlmFlow(f) PROVE Counted' /\ Silent' /\ NoInflation'
  <2>1. verdict[f] = "none" /\ alert[f] = {} /\ f \notin Inferred
    BY <1>0, <1>2, LlmIsStep DEF LlmStep, Whereabouts, Inferred, Silent
  <2>2. CASE LlmInfer(f)
    <3>1. /\ ~Spent /\ runs' = runs + 1
          /\ verdict' = [verdict EXCEPT ![f] = verdict'[f]]
          /\ verdict'[f] \in {"benign", "suppressed", "threat"}
          /\ \A g \in Flows \ {f} : alert'[g] = alert[g]
      BY <1>0, <2>2 DEF LlmInfer, Judged, Raise, Types
    <3>2. Inferred' = Inferred \cup {f}
      BY <1>0, <3>1 DEF Inferred, Types
    <3>3. Cardinality(Inferred') = Cardinality(Inferred) + 1
      BY <1>0, <2>1, <3>2, FS_AddElement
    <3>4. Counted'
      BY <1>0, <3>1, <3>3 DEF Counted, Spent
    <3>5. \A a \in alert'[f] : a.json <= a.ceiling /\ a.info <= a.ceiling
      <4>1. \/ alert' = alert
            \/ \E c, d \in Levels :
                 alert'[f] = {[ceiling |-> c, json |-> resolve_severity(c, d), info |-> c]}
        BY <1>0, <2>2 DEF LlmInfer, Raise, Types
      <4> QED
        BY <2>1, <4>1 DEF resolve_severity, Levels
    <3>6. \A g \in Flows \ {f} : verdict'[g] = verdict[g]
      BY <1>0, <3>1 DEF Types
    <3> QED
      BY <2>1, <3>1, <3>2, <3>4, <3>5, <3>6 DEF NoInflation, Silent, Inferred
  <2>3. CASE LlmNamed(f) \/ LlmBinary(f) \/ LlmSpent(f)
    <3>1. /\ verdict' = [verdict EXCEPT ![f] = verdict'[f]]
          /\ verdict'[f] \in {"tagged", "binary", "unjudged"}
          /\ \A g \in Flows \ {f} : alert'[g] = alert[g]
          /\ \/ runs' = runs
             \/ MaxRuns > 0 /\ runs = MaxRuns /\ runs' = runs + 1 /\ verdict'[f] = "unjudged"
      BY <1>0, <2>3 DEF LlmNamed, LlmBinary, LlmSpent, Judged, Raise, Types, Spent
    <3>2. Inferred' = Inferred
      BY <1>0, <2>1, <3>1 DEF Inferred, Types
    <3>3. \A g \in Flows : verdict[g] = "unjudged" => verdict'[g] = "unjudged"
      BY <1>0, <2>1, <3>1 DEF Types
    <3>4. Counted'
      BY <1>0, <3>1, <3>2, <3>3 DEF Counted
    <3>5. \A g \in Flows \ {f} : verdict'[g] = verdict[g]
      BY <1>0, <3>1 DEF Types
    <3>6. Inferred \subseteq Flows
      BY DEF Inferred
    <3> QED
      BY <2>1, <3>1, <3>2, <3>4, <3>5, <3>6 DEF NoInflation, Silent
  <2> QED
    BY <1>2, <2>2, <2>3 DEF LlmFlow
<1>3. ASSUME NEW f \in Flows, FilterFlow(f) PROVE UNCHANGED <<verdict, runs, alert>>
  BY <1>3 DEF FilterFlow, llmVars
<1> QED
  BY <1>1, <1>2, <1>3 DEF Next, FilterPush, llmVars, vars

\* The model sees at most the budgeted number of flows, and none of its answers takes an
\* alert above the curated level; every variable keeps its type and its bound.
THEOREM BudgetIsKept == Spec => []BudgetKept
<1>1. Init => BudgetInv
  <2> SUFFICES ASSUME Init PROVE Bounded /\ Counted /\ Silent /\ NoInflation
    BY InitFlowInv DEF BudgetInv
  <2>1. /\ Inferred = {} /\ runs = 0 /\ queue = {} /\ seen = {}
        /\ \A f \in Flows : alert[f] = {}
    BY DEF Init, Inferred
  <2>2. Capacity \in Nat /\ MaxSeen \in Nat /\ MaxRuns \in Nat
    BY TriageAssumption
  <2> QED
    BY <2>1, <2>2, FS_EmptySet DEF Bounded, Counted, Silent, NoInflation
<1>2. BudgetInv /\ [Next]_vars => BudgetInv'
  BY NextFlowInv, NextBounded, NextCounted DEF BudgetInv
<1>3. BudgetInv => BudgetKept
  <2> SUFFICES ASSUME BudgetInv PROVE BudgetKept
    OBVIOUS
  <2>1. /\ IsFiniteSet(Flows) /\ Cardinality(Flows) \in Nat /\ MaxRuns \in Nat
        /\ IsFiniteSet(Inferred) /\ Cardinality(Inferred) \in Nat
        /\ Cardinality(Inferred) <= Cardinality(Flows)
    BY TriageAssumption, FS_Subset, FS_CardinalityType DEF Inferred
  <2>2. ASSUME NEW f \in Flows, verdict[f] = "unjudged"
        PROVE  Cardinality(Inferred) <= Cardinality(Flows) - 1
    <3>1. Inferred \in SUBSET (Flows \ {f})
      BY <2>2 DEF Inferred
    <3>2. IsFiniteSet(Flows \ {f}) /\ Cardinality(Flows \ {f}) = Cardinality(Flows) - 1
      BY <2>1, FS_RemoveElement
    <3> QED
      BY <3>1, <3>2, FS_Subset
  <2>3. runs \in 0 .. Cardinality(Flows)
    BY <2>1, <2>2 DEF BudgetInv, Counted
  <2>4. MaxRuns > 0 => Cardinality(Inferred) <= MaxRuns
    BY <2>1 DEF BudgetInv, Counted
  <2>5. TypeOK
    BY <2>3 DEF BudgetInv, FlowInv, Types, Bounded, TypeOK, Reasons, Verdicts, Alert
  <2> QED
    BY <2>4, <2>5 DEF BudgetKept, BudgetInv
<1> QED
  BY <1>1, <1>2, <1>3, PTL DEF Spec
===============================================================================
