---------------------------- MODULE BehaviorModel ----------------------------
(* MarkovModel and encode_connection(): a connection's flows become a string   *)
(* of letters (size and duration) and symbols (time since the flow before),    *)
(* the training tool counts the transitions and saves them, and the engine     *)
(* loads them.  Times are integers; smoothing is add-1/2, so that twice a      *)
(* probability's numerator and denominator are integers.                       *)
EXTENDS Integers, SequencesExt

CONSTANTS ByteBuckets, DurBuckets, GapBuckets,  \* ascending bounds
          Symbols,                              \* how many timing symbols there are (7)
          Samples,                              \* sets of flows, each of a connection
          MaxTrained                            \* bound: connections observed

ModelAssumption == \A flows \in Samples : IsFiniteSet(flows)

VARIABLES
  memory,   \* the model being trained
  trained,  \* how many strings it observed
  file,     \* what was saved, if anything
  loaded    \* the model the engine loaded, if any, what it was loaded from, and how much of it
vars == <<memory, trained, file, loaded>>

-------------------------------------------------------------------------------
bucket_of(v, bounds) ==
  IF \E i \in DOMAIN bounds : v < bounds[i]
    THEN CHOOSE i \in 0 .. Len(bounds) - 1 :
           v < bounds[i + 1] /\ \A j \in 1 .. i : v >= bounds[j]
    ELSE Len(bounds)

Letter(f) ==
  <<"letter", bucket_of(f.bytes, ByteBuckets) * (Len(DurBuckets) + 1)
                + bucket_of(f.duration, DurBuckets)>>

Gap(flows, i) == flows[i].start - flows[i - 1].start

Symbol(flows, i) ==
  <<"symbol", IF i = 1 THEN 0
              ELSE Min({1 + bucket_of(Gap(flows, i), GapBuckets), Symbols - 1})>>

\* The strings of a connection: std::sort leaves flows that start together in any order.
encode_connection(flows) ==
  LET orders == {s \in SetToSeqs(flows) :
                   \A i, j \in DOMAIN s : i < j => s[i].start <= s[j].start}
  IN  IF Cardinality(flows) < 2 THEN {<<>>}
      ELSE {FlattenSeq([i \in DOMAIN s |-> <<Letter(s[i]), Symbol(s, i)>>]) : s \in orders}

-------------------------------------------------------------------------------
Count(m, from, to) == IF <<from, to>> \in DOMAIN m.counts THEN m.counts[<<from, to>>] ELSE 0
Total(m, from) == IF from \in DOMAIN m.row_totals THEN m.row_totals[from] ELSE 0
Froms(counts) == {pair[1] : pair \in DOMAIN counts}

Untrained == [counts |-> [p \in {} |-> 0], row_totals |-> [c \in {} |-> 0], alphabet |-> {}]

observe(m, s) ==
  LET moves == {<<s[i - 1], s[i]>> : i \in 2 .. Len(s)}
      made(p) == Cardinality({i \in 2 .. Len(s) : <<s[i - 1], s[i]>> = p})
      left(c) == Cardinality({i \in 1 .. Len(s) - 1 : s[i] = c})
  IN  IF Len(s) < 2 THEN m
      ELSE [counts |-> [p \in DOMAIN m.counts \cup moves |-> Count(m, p[1], p[2]) + made(p)],
            row_totals |-> [c \in DOMAIN m.row_totals \cup Froms([p \in moves |-> 0])
                             |-> Total(m, c) + left(c)],
            alphabet |-> m.alphabet \cup Range(s)]

\* Twice the numerator and the denominator of the probability whose logarithm it is.
log_prob(m, from, to) ==
  <<2 * Count(m, from, to) + 1, 2 * Total(m, from) + Cardinality(m.alphabet)>>

\* The terms of the mean.
score(m, s) ==
  IF Len(s) < 2 \/ m.alphabet = {} THEN <<>>
  ELSE [i \in 1 .. Len(s) - 1 |-> log_prob(m, s[i], s[i + 1])]

\* A line for the alphabet, and one for each row of counts.
serialize(m) == [alphabet |-> m.alphabet, transitions |-> m.counts]

Added(f) == MapThenSumSet(LAMBDA k : f[k], DOMAIN f)

Bug_load(f, rows) ==
  LET kept == {p \in DOMAIN f.transitions : p[1] \in rows}
  IN  [counts |-> [p \in kept |-> f.transitions[p]],
       row_totals |-> [c \in rows |-> Cardinality({p \in kept : p[1] = c})],
       alphabet |-> f.alphabet]

\* What is read of a file that may have lost rows.
load(f, rows) ==
  LET kept == {p \in DOMAIN f.transitions : p[1] \in rows}
  IN  [counts |-> [p \in kept |-> f.transitions[p]],
       row_totals |-> [c \in rows |-> Added([p \in {p \in kept : p[1] = c} |-> f.transitions[p]])],
       alphabet |-> f.alphabet]

-------------------------------------------------------------------------------
Init == memory = Untrained /\ trained = 0 /\ file = {} /\ loaded = {}

Train(flows) ==
  /\ trained < MaxTrained
  /\ \E s \in encode_connection(flows) : memory' = observe(memory, s)
  /\ trained' = trained + 1
  /\ UNCHANGED <<file, loaded>>

Save ==
  /\ file' = {serialize(memory)}
  /\ UNCHANGED <<memory, trained, loaded>>

\* The file may have lost its end.
Load ==
  /\ \E f \in file : \E rows \in SUBSET Froms(f.transitions) :
       loaded' = {[model |-> load(f, rows), from |-> f.transitions,
                   whole |-> rows = Froms(f.transitions)]}
  /\ UNCHANGED <<memory, trained, file>>

Next == Save \/ Load \/ \E flows \in Samples : Train(flows)

Spec == Init /\ [][Next]_vars

-------------------------------------------------------------------------------
Distribution(m) ==
  \A from \in m.alphabet :
    Added([to \in m.alphabet |-> log_prob(m, from, to)[1]]) = log_prob(m, from, from)[2]

\* Every row of a model, trained or loaded, even from a file that lost rows, is a
\* probability distribution over its alphabet, and a model that is loaded from what was
\* saved scores every connection as it did before (behavioral_model.cpp:74-176).
ScoresAreProbabilities ==
  /\ Distribution(memory)
  /\ \A l \in loaded :
       /\ Distribution(l.model)
       /\ l.whole /\ file = {serialize(memory)} =>
            \A flows \in Samples : \A s \in encode_connection(flows) :
              l.from = memory.counts => score(l.model, s) = score(memory, s)
===============================================================================
