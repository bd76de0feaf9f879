------------------------------ MODULE ConnTable ------------------------------
(* The connection table of TcpReassembler over capture time: the cap and the   *)
(* shedding of new flows, the forced eviction under pressure, the periodic     *)
(* maintenance between two pcap_dispatch calls and the flush at the end.  What *)
(* one entry makes of its packets is TcpReassembly's business: here an entry   *)
(* has a payload or not, and segments waiting for a gap or not.                *)
EXTENDS Integers, FiniteSets

CONSTANTS Conns,              \* the 4-tuples
          MaxConnections,     \* MAX_CONNECTIONS (50000)
          ConnectionTimeout,  \* CONNECTION_TIMEOUT_SEC (120 s)
          EvictionInterval,   \* EVICTION_INTERVAL_SEC (60 s)
          AggressiveTimeout,  \* AGGRESSIVE_TIMEOUT (5 s)
          ForceInterval,      \* the throttle of force_evict_oldest (1 s)
          LastSecond                \* bound: the seconds the capture lasts

TableAssumption ==
  /\ IsFiniteSet(Conns)
  /\ MaxConnections \in Nat \ {0}
  /\ {ConnectionTimeout, EvictionInterval, AggressiveTimeout, ForceInterval, LastSecond}
       \subseteq Nat \ {0}

VARIABLES
  clock,            \* capture time: the timestamp of a packet that arrives now
  connections,      \* [tracked 4-tuples -> entry]
  last_eviction, last_force_evict,
  ended,            \* flush_all_flows() was called
  pushed, forced,   \* flows the last step pushed; whether it forced an eviction
  shed              \* the last step refused a new flow
vars == <<clock, connections, last_eviction, last_force_evict, ended, pushed, forced,
          shed>>

Tracked == DOMAIN connections
KeepOnly(table, S) == [c \in S |-> table[c]]

\* Timestamps are seconds since 1970: nothing is "less than an interval ago" at first.
Epoch == EvictionInterval + ForceInterval

Init ==
  /\ clock = Epoch
  /\ connections = [c \in {} |-> 0]
  /\ last_eviction = 0 /\ last_force_evict = 0
  /\ ended = FALSE
  /\ pushed = {} /\ forced = FALSE /\ shed = FALSE

-------------------------------------------------------------------------------
Throttled == clock - last_force_evict < ForceInterval

\* What force_evict_oldest() takes for junk: only the payload is looked at.
Silent(c) ==
  ~connections[c].payload /\ clock - connections[c].last > AggressiveTimeout

Bug_AfterForce == Tracked

AfterForce == IF Throttled THEN Tracked ELSE {c \in Tracked : ~Silent(c)}

\* The kinds of packet, by what they do to the entry: "syn" sets the baseline, "touch"
\* only counts, "data" extends the payload, "fill" closes the last gap as well, "ahead"
\* waits for a gap, "big" takes the payload past its limit, "end" is a FIN or RST.
Kinds == {"syn", "touch", "data", "fill", "ahead", "big", "end"}
Possible(old, kind) ==
  /\ kind = "ahead" => old.syn \/ old.payload
  /\ kind = "fill" => old.ahead

NoEntry == [last |-> 0, syn |-> FALSE, payload |-> FALSE, ahead |-> FALSE, done |-> FALSE]

Entry(old, kind) ==
  [last |-> clock,
   syn |-> old.syn \/ kind = "syn",
   payload |-> old.payload \/ kind \in {"data", "fill", "big"},
   ahead |-> (old.ahead \/ kind = "ahead") /\ kind # "fill",
   done |-> old.done \/ kind \in {"big", "end"}]

PacketOfKnown(c, kind) ==
  /\ ~ended /\ c \in Tracked /\ Possible(connections[c], kind)
  /\ connections' = [connections EXCEPT ![c] = Entry(@, kind)]
  /\ pushed' = {} /\ forced' = FALSE /\ shed' = FALSE
  /\ UNCHANGED <<clock, last_eviction, last_force_evict, ended>>

Admits(kept) == Cardinality(kept) < MaxConnections

\* The state-exhaustion guard: a full table first tries to evict, then sheds.
PacketOfNew(c, kind) ==
  LET full == Cardinality(Tracked) >= MaxConnections
      kept == IF full THEN AfterForce ELSE Tracked
      table == KeepOnly(connections, kept)
  IN  /\ ~ended /\ c \notin Tracked /\ Possible(NoEntry, kind)
      /\ connections' =
           IF Admits(kept)
             THEN [d \in kept \cup {c} |->
                     IF d = c THEN Entry(NoEntry, kind) ELSE table[d]]
             ELSE table
      /\ shed' = ~Admits(kept)
      /\ forced' = (full /\ ~Throttled)
      /\ last_force_evict' = IF full /\ ~Throttled THEN clock ELSE last_force_evict
      /\ pushed' = {}
      /\ UNCHANGED <<clock, last_eviction, ended>>

Complete == {c \in Tracked : connections[c].done}

Bug_Stale(table, now) == {c \in DOMAIN table : now - table[c].last >= 0}
Stale(table, now) == {c \in DOMAIN table : now - table[c].last > ConnectionTimeout}

Bug_Maintain ==
  LET open == KeepOnly(connections, Tracked \ Complete)
  IN  /\ ~ended
      /\ forced' = FALSE /\ shed' = FALSE
      /\ pushed' = Complete
      /\ IF DOMAIN open = {}
           THEN connections' = open /\ UNCHANGED last_eviction
         ELSE \E first \in DOMAIN open :
           LET now == open[first].last
              due == now - last_eviction >= EvictionInterval
          IN  /\ last_eviction' = IF due THEN now ELSE last_eviction
              /\ connections' = IF due THEN KeepOnly(open, DOMAIN open \ Stale(open, now))
                                ELSE open
      /\ UNCHANGED <<clock, last_force_evict, ended>>

\* Between two dispatches: check_complete_flows(), then evict_stale_state() at the
\* last packet time of whichever entry the hash table has first.
Maintain ==
  LET open == KeepOnly(connections, Tracked \ Complete)
  IN  /\ ~ended
      /\ forced' = FALSE /\ shed' = FALSE
      /\ IF DOMAIN open = {}
           THEN connections' = open /\ pushed' = Complete /\ UNCHANGED last_eviction
           ELSE \E first \in DOMAIN open :
             LET now == open[first].last
                 due == now - last_eviction >= EvictionInterval
                 stale == IF due THEN Stale(open, now) ELSE {}
             IN  /\ last_eviction' = IF due THEN now ELSE last_eviction
                 /\ connections' = KeepOnly(open, DOMAIN open \ stale)
                 /\ pushed' = Complete \cup {c \in stale : open[c].payload}
      /\ UNCHANGED <<clock, last_force_evict, ended>>

\* flush_all_flows() at the end of a capture file.  An entry is skipped when it saw
\* a single packet without payload; one that only waited for a gap is pushed.
Flush ==
  /\ ~ended /\ ended' = TRUE
  /\ connections' = [c \in {} |-> 0]
  /\ \E skipped \in SUBSET {c \in Tracked : /\ ~connections[c].payload
                                            /\ ~connections[c].ahead
                                            /\ ~connections[c].done} :
       pushed' = Tracked \ skipped
  /\ forced' = FALSE /\ shed' = FALSE
  /\ UNCHANGED <<clock, last_eviction, last_force_evict>>

\* Capture time is the timestamps of the packets, and maintenance keeps no step with it:
\* a live loop goes round at each read timeout, a dispatch of a capture file handles 1000
\* packets however far apart they are, and the inline loop maintains every 256 packets.
Tick ==
  /\ ~ended
  /\ clock < Epoch + LastSecond
  /\ clock' = clock + 1
  /\ pushed' = {} /\ forced' = FALSE /\ shed' = FALSE
  /\ UNCHANGED <<connections, last_eviction, last_force_evict, ended>>

Next ==
  \/ \E c \in Conns, kind \in Kinds : PacketOfKnown(c, kind)
  \/ \E c \in Conns, kind \in Kinds : PacketOfNew(c, kind)
  \/ Maintain
  \/ Flush
  \/ Tick

Spec == Init /\ [][Next]_vars

-------------------------------------------------------------------------------
TypeOK ==
  /\ clock \in Epoch .. Epoch + LastSecond
  /\ Tracked \subseteq Conns
  /\ \A c \in Tracked :
       /\ connections[c].last \in Epoch .. clock
       /\ {connections[c].syn, connections[c].payload, connections[c].ahead,
           connections[c].done} \subseteq BOOLEAN
  /\ last_eviction \in {0} \cup Epoch .. clock
  /\ last_force_evict \in {0} \cup Epoch .. clock
  /\ {ended, forced, shed} \subseteq BOOLEAN
  /\ pushed \subseteq Conns

\* "Hard cap on the reassembly connection table": no flood takes it past the cap.
\* The type invariant is part of it.
TableBound == TypeOK /\ Cardinality(Tracked) <= MaxConnections

\* A reassembled payload leaves the table only by being pushed: neither pressure, nor
\* eviction, nor the end of the capture loses one.
PayloadLeavesPushed ==
  [][\A c \in Tracked \ DOMAIN connections' :
       connections[c].payload => c \in pushed']_vars

\* Nothing live is thrown out: a flow that leaves unfinished has been silent for more
\* than the shorter of the two timeouts, whatever stale time the eviction works with.
OnlyIdleLeaves ==
  [][\A c \in Tracked \ DOMAIN connections' :
       \/ connections[c].done \/ ended'
       \/ clock - connections[c].last > AggressiveTimeout]_vars

\* Junk never keeps a new flow out for long: when one is shed, every entry holds data
\* or was heard of within the short timeout and one throttle interval.
SheddingIsJustified ==
  [][shed' => \A c \in DOMAIN connections' :
       \/ connections'[c].payload
       \/ clock - connections'[c].last < AggressiveTimeout + ForceInterval]_vars

-------------------------------------------------------------------------------
(* Promises of the comments that the code does not keep                        *)

\* force_evict_oldest(): "while preserving flows that have buffered real data".
BufferedDataPreserved ==
  [][forced' => \A c \in Tracked \ DOMAIN connections' : ~connections[c].ahead]_vars

\* evict_stale_state(): "Evict idle connections (no packets for
\* CONNECTION_TIMEOUT_SEC)": a round of maintenance leaves no entry that has been idle
\* for longer than the timeout and one eviction interval.
IdleAreEvicted ==
  [][Maintain => \A c \in DOMAIN connections' :
       clock - connections'[c].last <= ConnectionTimeout + EvictionInterval]_vars
===============================================================================
