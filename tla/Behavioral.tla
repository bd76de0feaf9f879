------------------------------ MODULE Behavioral ------------------------------
(* The behavioural signal: connections that leave the reassembly table are     *)
(* recorded under their 4-tuple and scored, and the flows of a tuple that      *)
(* scored above the threshold are tagged for the filter.  What the Markov      *)
(* models say of a tuple is arbitrary.                                         *)
EXTENDS Naturals, FiniteSets

CONSTANTS Conns,        \* connections, each with one life in the table
          Tuples, TupleOf,
          Hosts, Ends,  \* the two endpoints of a tuple
          Outbound,     \* tuples from a private address to a public one
          WebTuples,          \* tuples on port 80, 443 or 53 that no feed lists
          Modes,
          MinFlows,     \* beh_cfg_.min_flows
          MaxBehConns   \* MAX_BEH_CONNS (100000)

BehavioralAssumption ==
  /\ IsFiniteSet(Conns)
  /\ TupleOf \in [Conns -> Tuples] /\ Ends \in [Tuples -> SUBSET Hosts]
  /\ Outbound \subseteq Tuples /\ WebTuples \subseteq Tuples
  /\ Modes \subseteq {"off", "export", "live", "forensic"}
  /\ MinFlows \in Nat \ {0} /\ MaxBehConns \in Nat

VARIABLES
  mode,            \* no models, training export, or scoring in either analysis mode
  phase,           \* the capture goes on, or flush_all_flows() is under way
  conn,            \* how far each connection came
  beh_conns,       \* for the tuples that have an entry: how many flows it holds
  beh_suspicious,  \* the tuples that signalled; beh_alerted_ is always the same set
  p2p_peers,
  emitted          \* the flows pushed
vars == <<mode, phase, conn, beh_conns, beh_suspicious, p2p_peers, emitted>>

behavioral_ready == mode \in {"live", "forensic"}

\* syn: no payload and one packet.  fin: FIN or RST seen, or a payload at its limit.
\* data: anything between.
Init ==
  /\ mode \in Modes /\ phase = "capture"
  /\ conn = [c \in Conns |-> "none"]
  /\ beh_conns = [t \in {} |-> 0]
  /\ beh_suspicious = {} /\ p2p_peers = {} /\ emitted = {}

-------------------------------------------------------------------------------
(* record_and_score_behavioral()                                               *)

Excluded(t, peers) == t \notin Outbound \/ Ends[t] \cap peers # {} \/ t \in WebTuples

\* Only live mode has suppressors; forensic mode "scores every flow".
Recorded(t, peers) ==
  \/ mode \in {"export", "forensic"}
  \/ mode = "live" /\ ~Excluded(t, peers)

\* "Simple bound; long-lived scorers re-accumulate".
Entries ==
  IF Cardinality(DOMAIN beh_conns) > MaxBehConns THEN [t \in {} |-> 0] ELSE beh_conns

With(t) ==
  [u \in DOMAIN Entries \cup {t} |->
     (IF u \in DOMAIN Entries THEN Entries[u] ELSE 0) + (IF u = t THEN 1 ELSE 0)]

Bug_MaySignal(t, flows) == flows + 1 >= MinFlows
MaySignal(t, flows) == flows >= MinFlows /\ mode # "export"

RecordAndScore(t, peers) ==
  IF Recorded(t, peers)
    THEN /\ beh_conns' = With(t)
         /\ \/ UNCHANGED beh_suspicious
            \/ MaySignal(t, With(t)[t]) /\ beh_suspicious' = beh_suspicious \cup {t}
    ELSE UNCHANGED <<beh_conns, beh_suspicious>>

-------------------------------------------------------------------------------
(* The life of a connection                                                    *)

Push(c, how, suspect) ==
  emitted' = emitted \cup {[conn |-> c, tuple |-> TupleOf[c], how |-> how,
                            suspect |-> suspect,
                            flagged |-> TupleOf[c] \in beh_suspicious']}

Leaves(c) == conn' = [conn EXCEPT ![c] = "gone"]

Rank(stage) == CASE stage = "none" -> 0 [] stage = "syn" -> 1 [] stage = "data" -> 2
                 [] OTHER -> 3

\* Packets take a connection further.
Packets(c) ==
  /\ phase = "capture"
  /\ \E stage \in {"syn", "data", "fin"} :
       Rank(conn[c]) < Rank(stage) /\ conn' = [conn EXCEPT ![c] = stage]
  /\ UNCHANGED <<mode, phase, beh_conns, beh_suspicious, p2p_peers, emitted>>

Bug_Judge(c) ==
  \E bittorrent \in BOOLEAN :
    /\ p2p_peers' = p2p_peers \cup (IF bittorrent THEN Ends[TupleOf[c]] ELSE {})
    /\ RecordAndScore(TupleOf[c], p2p_peers)

\* A payload that speaks BitTorrent makes peers of both its ends before it is scored.
Judge(c) ==
  \E bittorrent \in BOOLEAN :
    /\ p2p_peers' = p2p_peers \cup (IF bittorrent THEN Ends[TupleOf[c]] ELSE {})
    /\ RecordAndScore(TupleOf[c], p2p_peers')

\* One finished connection in check_complete_flows().
Complete(c) ==
  /\ conn[c] = "fin"
  /\ Judge(c)
  /\ Push(c, "complete", behavioral_ready /\ TupleOf[c] \in beh_suspicious')
  /\ Leaves(c)
  /\ UNCHANGED <<mode, phase>>

\* One connection in force_evict_oldest(), which erases it, or in evict_stale_state(),
\* which pushes it if it has a payload: "does not re-score, so it relies on an earlier
\* verdict".
Evict(c) ==
  /\ phase = "capture" /\ conn[c] \notin {"none", "gone"}
  /\ UNCHANGED <<mode, phase, beh_conns, beh_suspicious, p2p_peers>>
  /\ \/ UNCHANGED emitted
     \/ /\ conn[c] = "data"
        /\ Push(c, "evict", behavioral_ready /\ TupleOf[c] \in beh_suspicious)
  /\ Leaves(c)

EndCapture ==
  /\ phase = "capture" /\ phase' = "flush"
  /\ UNCHANGED <<mode, conn, beh_conns, beh_suspicious, p2p_peers, emitted>>

\* One of the others in flush_all_flows(), which first completes what is finished.
Flush(c) ==
  /\ phase = "flush" /\ \A d \in Conns : conn[d] # "fin"
  /\ \/ /\ conn[c] = "syn"
        /\ UNCHANGED <<beh_conns, beh_suspicious, p2p_peers, emitted>>
     \/ /\ conn[c] = "data"
        /\ Judge(c)
        /\ Push(c, "flush", FALSE)
  /\ Leaves(c)
  /\ UNCHANGED <<mode, phase>>

Next == EndCapture \/ \E c \in Conns : Packets(c) \/ Complete(c) \/ Evict(c) \/ Flush(c)

Spec == Init /\ [][Next]_vars

-------------------------------------------------------------------------------
TypeOK ==
  /\ mode \in Modes /\ phase \in {"capture", "flush"}
  /\ conn \in [Conns -> {"none", "syn", "data", "fin", "gone"}]
  /\ DOMAIN beh_conns \subseteq Tuples
  /\ Cardinality(DOMAIN beh_conns) <= MaxBehConns + 1
  /\ \A t \in DOMAIN beh_conns : beh_conns[t] \in 1 .. Cardinality(Conns)
  /\ beh_suspicious \subseteq Tuples /\ p2p_peers \subseteq Hosts
  /\ emitted \subseteq [conn : Conns, tuple : Tuples, how : {"complete", "evict", "flush"},
                        suspect : BOOLEAN, flagged : BOOLEAN]

\* A signal rests on enough evidence: a tuple that signalled, however often the table
\* of tuples was cleared, had min_flows flows recorded, none of them an evicted one, and
\* training export never signals.
SignalIsEarned ==
  \A t \in beh_suspicious :
    /\ behavioral_ready
    /\ Cardinality({e \in emitted : e.tuple = t /\ e.how # "evict"}) >= MinFlows

\* "Exclude peers we've seen speaking BitTorrent": in live mode no tuple signals once an
\* end of it was seen in a torrent, the flow that shows it included.
PeersNeverSignal ==
  [][\A t \in beh_suspicious' \ beh_suspicious :
       mode = "live" => Ends[t] \cap p2p_peers' = {}]_vars

-------------------------------------------------------------------------------
(* A promise of the comments that the code does not keep                       *)

\* "Flag the 4-tuple so its flows are tagged behavioral_suspect at emit time; the NPU
\* filter then escalates them to the LLM" (tcp_reassembly.cpp): flush_all_flows() scores
\* its flows and pushes them without the tag.
SuspectsAreTagged == \A e \in emitted : e.flagged => e.suspect
===============================================================================
