-------------------------------- MODULE Tables --------------------------------
(* The tables of the capture thread that share nothing but that thread, each   *)
(* by itself: `part' says which one a behaviour is about.                      *)
(*   sources      Anomaly                                                      *)
(*   connections  ConnTable, with a clock of its own                           *)
(*   scores       Behavioral, with connections and hosts of its own            *)
(*   model        BehaviorModel: the model those scores are computed with      *)
EXTENDS Anomaly

CONSTANTS
  Conns, MaxConnections, ConnectionTimeout, EvictionInterval, AggressiveTimeout,
  ForceInterval, LastSecond,
  ScoredConns, Tuples, TupleOf, Endpoints, Ends, Outbound, WebTuples, BehModes, MinFlows,
  MaxBehConns,
  ByteBuckets, DurBuckets, GapBuckets, Symbols, Samples, MaxTrained

VARIABLES
  part,
  tclock, connections, last_eviction, last_force_evict, tended, pushed, forced, shed,
  smode, phase, conn, beh_conns, beh_suspicious, p2p_peers, emitted,
  memory, trained, file, loaded

sources == vars
table == <<tclock, connections, last_eviction, last_force_evict, tended, pushed,
           forced, shed>>
scores == <<smode, phase, conn, beh_conns, beh_suspicious, p2p_peers, emitted>>
model == <<memory, trained, file, loaded>>

Table == INSTANCE ConnTable WITH clock <- tclock, ended <- tended
Scores == INSTANCE Behavioral WITH
            mode <- smode, Conns <- ScoredConns, Hosts <- Endpoints, Modes <- BehModes
Markov == INSTANCE BehaviorModel

ASSUME TablesAssumption ==
  Table!TableAssumption /\ Scores!BehavioralAssumption /\ Markov!ModelAssumption

TablesInit ==
  /\ part \in {"sources", "connections", "scores", "model"}
  /\ Init /\ (part # "sources" => mode = "offline" /\ traffic = CHOOSE one \in Traffics : TRUE)
  /\ Table!Init
  /\ Scores!Init /\ (part # "scores" => smode = "off")
  /\ Markov!Init

TablesNext ==
  \/ part = "sources" /\ Next /\ UNCHANGED <<part, table, scores, model>>
  \/ part = "connections" /\ Table!Next /\ UNCHANGED <<part, sources, scores, model>>
  \/ part = "scores" /\ Scores!Next /\ UNCHANGED <<part, sources, table, model>>
  \/ part = "model" /\ Markov!Next /\ UNCHANGED <<part, sources, table, scores>>

TablesSpec == TablesInit /\ [][TablesNext]_<<part, sources, table, scores, model>>

-------------------------------------------------------------------------------
\* "Hard cap on the reassembly connection table" (tcp_reassembly.cpp:441-448) and
\* MAX_BEH_CONNS, the two caps enforced when an entry is added: no flood takes the
\* connections past theirs, nor the scored tuples past theirs by more than the one that
\* triggers the clearing.  The tables that only evict_stale_state() trims pass their caps
\* by no more than what came since it last ran.  The entries of every table have their type.
CapsHold == Table!TableBound /\ Scores!TypeOK /\ TypeOK /\ TrackersBounded

\* Stated in ConnTable: a reassembled payload leaves the table only by being pushed,
\* through completion, eviction, pressure (tcp_reassembly.cpp:201-236) and the flush.
PayloadLeavesPushed == Table!PayloadLeavesPushed

\* Stated in ConnTable: nothing live is thrown out, whatever time the eviction of
\* tcp_reassembly.cpp:207-236 works with.
OnlyIdleLeaves == Table!OnlyIdleLeaves

\* Stated in ConnTable: junk never keeps a new flow out for long (force_evict_oldest()).
SheddingIsJustified == Table!SheddingIsJustified

\* Stated in Behavioral: a signal of record_and_score_behavioral() rests on enough flows.
SignalIsEarned == Scores!SignalIsEarned

\* Stated in Behavioral: in live mode no tuple with a torrent peer signals.
PeersNeverSignal == Scores!PeersNeverSignal

\* Stated in BehaviorModel: the model is a distribution, before and after a file.
ScoresAreProbabilities == Markov!ScoresAreProbabilities
===============================================================================
