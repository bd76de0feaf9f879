---------------------------- MODULE TcpReassembly ----------------------------
(* One connection of TcpReassembler: from the packets of one TCP stream, which *)
(* arrive in any order, repeated, cut or not at all, to the payloads pushed on *)
(* the first queue.  A byte is its offset in the stream, so that a payload     *)
(* says which bytes it holds and in which order.                               *)
EXTENDS Integers, Sequences, FiniteSets, SequencesExt

CONSTANTS SeqSpace,     \* sequence numbers are modulo this (2^32 in the code)
          Length,       \* bytes in the stream
          Traffics,     \* senders: an initial sequence number, and the ways the
                        \* stream is cut, pairs <<first byte, byte after the last>>
          OooMax,       \* the cap on out_of_order_segments (256)
          MaxPayload,   \* max_flow_payload_bytes
          MinOverlap, MinConflict,  \* the evasion thresholds (8 and 4 bytes)
          LateSyn,      \* may a copy of the SYN arrive after data
          Copies,       \* bound: arrivals of each segment
          Extras        \* bound: arrivals of each kind of packet without data

ASSUME ReassemblyAssumption ==
  /\ SeqSpace \in Nat \ {0}
  /\ Length \in Nat /\ Length < SeqSpace \div 2
  /\ Traffics \subseteq
       [isn : 0 .. SeqSpace - 1,
        segments : SUBSET {s \in (0 .. Length) \X (0 .. Length) : s[1] < s[2]}]
  /\ OooMax \in Nat /\ MaxPayload \in Nat
  /\ MinOverlap \in Nat /\ MinConflict \in Nat \ {0}
  /\ LateSyn \in BOOLEAN /\ Copies \in Nat /\ Extras \in Nat

VARIABLES
  traffic,    \* the sender: never changes
  conn,       \* the entry of connections for this stream
  emitted,    \* the flow pushed last; {} before the first
  alerted,    \* a "TCP Evasion" alert was raised
  copies,     \* arrivals so far of each segment
  extras      \* arrivals so far of "syn", "ack" and "end" packets
vars == <<traffic, conn, emitted, alerted, copies, extras>>

Isn == traffic.isn
Segments == traffic.segments

Mod(n) == n % SeqSpace
SeqNo(byte) == Mod(Isn + 1 + byte)
Bytes(seg) == [i \in 1 .. seg[2] - seg[1] |-> seg[1] + i - 1]

\* static_cast<int32_t>(a - b)
Signed(d) == IF Mod(d) < SeqSpace \div 2 THEN Mod(d) ELSE Mod(d) - SeqSpace
seq_before(a, b) == Signed(a - b) < 0
seq_after(a, b) == seq_before(b, a)

\* ConnectionState.  arrived and refused are history: the captured bytes received
\* for this entry, and whether the cap on out-of-order segments turned any away.
NoSegments == [k \in {} |-> <<>>]
Fresh == [tracked |-> FALSE, syn_received |-> FALSE, fin_received |-> FALSE,
          expected_seq |-> 0, payload |-> <<>>, out_of_order_segments |-> NoSegments,
          packet_count |-> 0, arrived |-> {}, refused |-> FALSE]

Init ==
  /\ traffic \in Traffics
  /\ conn = Fresh
  /\ emitted = {}
  /\ alerted = FALSE
  /\ copies = [s \in Segments |-> 0]
  /\ extras = [kind \in {"syn", "ack", "end"} |-> 0]

Waiting(c) == DOMAIN c.out_of_order_segments
NothingBuffered(c) == c.payload = <<>> /\ Waiting(c) = {}

-------------------------------------------------------------------------------
(* process_ip_packet                                                           *)

\* Finds or creates the entry; packet counts above two make no difference.
Tracked ==
  [conn EXCEPT !.tracked = TRUE,
               !.packet_count = IF @ < 2 THEN @ + 1 ELSE @]

\* "If no SYN was seen, use the first data packet's sequence number".
Baseline(c, seq) ==
  IF ~c.syn_received /\ NothingBuffered(c) THEN [c EXCEPT !.expected_seq = seq] ELSE c

Bug_StreamStart(c) == Mod(c.expected_seq - Len(c.payload) - 1)
StreamStart(c) == Mod(c.expected_seq - Len(c.payload))

\* The segment, laid over the payload, differs from it: the evasion check.
Conflicting(c, seg) ==
  LET rel == Signed(SeqNo(seg[1]) - StreamStart(c))
      overlap == {i \in 1 .. seg[2] - seg[1] : rel + i \in 1 .. Len(c.payload)}
      differ == {i \in overlap : c.payload[rel + i] # Bytes(seg)[i]}
  IN  /\ c.payload # <<>> /\ Waiting(c) = {}
      /\ Cardinality(overlap) >= MinOverlap
      /\ Cardinality(differ) >= MinConflict

Bug_RestWhole(c, k) == c.out_of_order_segments[k]

\* The part of buffered segment k that lies at or after expected_seq.
Rest(c, k) ==
  LET held == c.out_of_order_segments[k]
  IN  IF seq_after(Mod(k + Len(held)), c.expected_seq)
        THEN SubSeq(held, Mod(c.expected_seq - k) + 1, Len(held))
        ELSE <<>>

Extend(c, bytes) ==
  [c EXCEPT !.payload = @ \o bytes, !.expected_seq = Mod(@ + Len(bytes))]

\* One round of the merge loop, at segment k, which is erased once merged.
Merge(c, k) ==
  [Extend(c, Rest(c, k)) EXCEPT
     !.out_of_order_segments = [j \in Waiting(c) \ {k} |-> @[j]]]

\* The loop takes the segment at begin(), the lowest raw 32-bit key, and breaks at one
\* that lies after expected_seq.
MergeLowest(c) ==
  IF Waiting(c) = {} \/ seq_after(Min(Waiting(c)), c.expected_seq)
    THEN c ELSE Merge(c, Min(Waiting(c)))

Drain(c) ==
  LET n == Cardinality(Waiting(c))
      after[i \in 0 .. n] == IF i = 0 THEN c ELSE MergeLowest(after[i - 1])
  IN  after[n]

\* emplace() keeps the segment already held under the same key.
Buffer(c, seg) ==
  LET key == SeqNo(seg[1])
  IN  IF Cardinality(Waiting(c)) >= OooMax
        THEN [c EXCEPT !.refused = TRUE]
        ELSE [c EXCEPT !.out_of_order_segments =
                [k \in Waiting(c) \cup {key} |-> IF k \in Waiting(c) THEN @[k]
                                                 ELSE Bytes(seg)]]

\* In order: append and drain.  Ahead: buffer.  Behind: ignored as a whole.
Accept(c, seg) ==
  CASE SeqNo(seg[1]) = c.expected_seq -> Drain(Extend(c, Bytes(seg)))
    [] seq_after(SeqNo(seg[1]), c.expected_seq) -> Buffer(c, seg)
    [] OTHER -> c

Count(kind) ==
  /\ extras[kind] < Extras
  /\ extras' = [extras EXCEPT ![kind] = @ + 1]

\* A SYN sets the baseline, whatever the entry holds, and returns.
ArriveSyn ==
  /\ Count("syn")
  /\ LateSyn \/ NothingBuffered(conn)
  /\ conn' = [Tracked EXCEPT !.syn_received = TRUE, !.expected_seq = SeqNo(0)]
  /\ UNCHANGED <<traffic, emitted, alerted, copies>>

\* A packet without payload: a bare ACK, or a FIN or RST.
ArriveAck ==
  /\ Count("ack")
  /\ conn' = Tracked
  /\ UNCHANGED <<traffic, emitted, alerted, copies>>

ArriveEnd ==
  /\ Count("end")
  /\ conn' = [Tracked EXCEPT !.fin_received = TRUE]
  /\ UNCHANGED <<traffic, emitted, alerted, copies>>

\* A packet with payload.  Its bytes may be cut off by the capture (captured is
\* FALSE): then it only counts.  fin is the flag of the stream's last segment.
ArriveData(seg, captured) ==
  LET based == Baseline(Tracked, SeqNo(seg[1]))
      ended == [based EXCEPT !.arrived = @ \cup Range(Bytes(seg)),
                             !.fin_received = @ \/ seg[2] = Length]
      conflict == Conflicting(based, seg)
  IN  /\ copies[seg] < Copies
      /\ copies' = [copies EXCEPT ![seg] = @ + 1]
      /\ conn' = IF ~captured
                   THEN [Tracked EXCEPT !.fin_received = @ \/ seg[2] = Length]
                 ELSE IF conflict THEN ended ELSE Accept(ended, seg)
      /\ alerted' = (alerted \/ (captured /\ conflict))
      /\ UNCHANGED <<traffic, emitted, extras>>

-------------------------------------------------------------------------------
(* The flow leaves the table                                                   *)

\* The loop over out_of_order_segments: each appended as a whole, in the map's order.
AppendLowest(c) ==
  LET k == Min(Waiting(c))
  IN  [c EXCEPT !.payload = @ \o c.out_of_order_segments[k],
                !.out_of_order_segments = [j \in Waiting(c) \ {k} |-> @[j]]]

Merged(c) ==
  LET n == Cardinality(Waiting(c))
      after[i \in 0 .. n] == IF i = 0 THEN c ELSE AppendLowest(after[i - 1])
  IN  after[n].payload

Push(bytes, how) ==
  emitted' = {[bytes |-> bytes, how |-> how, syn |-> conn.syn_received,
               arrived |-> conn.arrived, refused |-> conn.refused]}

Bug_CheckComplete ==
  /\ conn.tracked
  /\ conn.fin_received \/ Len(conn.payload) > MaxPayload
  /\ Push(conn.payload, "merged")
  /\ conn' = Fresh
  /\ UNCHANGED <<traffic, alerted, copies, extras>>

\* check_complete_flows(): after FIN or RST, or when the payload is large enough.
CheckComplete ==
  /\ conn.tracked
  /\ conn.fin_received \/ Len(conn.payload) > MaxPayload
  /\ Push(Merged(conn), "merged")
  /\ conn' = Fresh
  /\ UNCHANGED <<traffic, alerted, copies, extras>>

\* What check_complete_flows() leaves in the table.
Incomplete == conn.tracked /\ ~conn.fin_received /\ Len(conn.payload) <= MaxPayload

\* evict_stale_state() on an idle connection, always after check_complete_flows():
\* out-of-order segments are not merged, and without a payload the entry is erased
\* unpushed.
EvictIdle ==
  /\ Incomplete
  /\ IF conn.payload # <<>> THEN Push(conn.payload, "evicted") ELSE UNCHANGED emitted
  /\ conn' = Fresh
  /\ UNCHANGED <<traffic, alerted, copies, extras>>

\* force_evict_oldest() under table pressure: only payload is looked at.
ForceEvict ==
  /\ conn.tracked /\ conn.payload = <<>>
  /\ conn' = Fresh
  /\ UNCHANGED <<traffic, emitted, alerted, copies, extras>>

\* flush_all_flows(), which calls check_complete_flows() first too.
Flush ==
  /\ Incomplete
  /\ IF conn.payload = <<>> /\ conn.packet_count < 2
       THEN UNCHANGED emitted
       ELSE Push(Merged(conn), "merged")
  /\ conn' = Fresh
  /\ UNCHANGED <<traffic, alerted, copies, extras>>

-------------------------------------------------------------------------------
ProcessPacket ==
  \/ ArriveSyn \/ ArriveAck \/ ArriveEnd
  \/ \E seg \in Segments, captured \in BOOLEAN : ArriveData(seg, captured)

Next == ProcessPacket \/ CheckComplete \/ EvictIdle \/ ForceEvict \/ Flush

Spec == Init /\ [][Next]_vars

-------------------------------------------------------------------------------
Ascending(bytes) == \A i, j \in 1 .. Len(bytes) : i < j => bytes[i] < bytes[j]

TypeOK ==
  /\ conn.tracked \in BOOLEAN /\ conn.syn_received \in BOOLEAN
  /\ conn.fin_received \in BOOLEAN /\ conn.refused \in BOOLEAN
  /\ conn.expected_seq \in 0 .. SeqSpace - 1
  /\ conn.packet_count \in 0 .. 2
  /\ conn.arrived \subseteq 0 .. Length - 1
  /\ Range(conn.payload) \subseteq conn.arrived
  /\ Waiting(conn) \subseteq 0 .. SeqSpace - 1
  /\ Cardinality(Waiting(conn)) <= OooMax
  /\ \A k \in Waiting(conn) :
       Range(conn.out_of_order_segments[k]) \subseteq conn.arrived
  /\ traffic \in Traffics /\ alerted \in BOOLEAN
  /\ copies \in [Segments -> 0 .. Copies]
  /\ extras \in [{"syn", "ack", "end"} -> 0 .. Extras]

NoWrap == Isn + Length < SeqSpace

\* No buffered segment is one the stream was waiting for: the merge loop takes it as
\* soon as the gap before it closes.  Across a wraparound it does not hold, as the
\* loop meets the smallest raw key first.
NothingStuck == NoWrap => \A k \in Waiting(conn) : seq_after(k, conn.expected_seq)

\* The payload of an open connection is one contiguous piece of the stream, and
\* expected_seq is the byte after it: with a SYN the piece starts the stream.  It
\* holds through repeated, reordered and re-cut segments and across the wraparound.
\* The type invariant and NothingStuck are part of it.
ContiguousWhileOpen ==
  /\ TypeOK
  /\ NothingStuck
  /\ conn.payload # <<>> =>
       LET first == conn.payload[1]
       IN  /\ conn.payload = [i \in 1 .. Len(conn.payload) |-> first + i - 1]
           /\ conn.expected_seq = SeqNo(first + Len(conn.payload))
           /\ conn.syn_received => first = 0

\* "Overlapping-segment evasion detection": segments of an honest sender never raise
\* the alert, however they are repeated, re-cut or reordered.
NoFalseEvasion == ~alerted

\* The sender repeats whole segments only, and its stream does not wrap around.
Plain ==
  /\ \A s, t \in Segments : s = t \/ s[2] <= t[1] \/ t[2] <= s[1]
  /\ NoWrap

\* Reordering and repetition leave no trace: from such a sender a pushed payload has the
\* bytes that arrived, each once and in stream order; of a stream that began with its
\* SYN, and unless the cap turned a segment away, it has all of them.
PayloadFaithful ==
  Plain =>
    \A flow \in emitted :
      /\ Ascending(flow.bytes)
      /\ Range(flow.bytes) \subseteq flow.arrived
      /\ flow.how = "merged" /\ flow.syn /\ ~flow.refused
           => Range(flow.bytes) = flow.arrived

\* "Reconstructs interleaved packets back into continuous application-layer payloads"
\* (README.md): when the SYN and every byte of the stream arrived, and the cap turned
\* nothing away, the payload of a finished flow is the stream.  It fails where the
\* stream wraps around, is re-cut by a retransmission, or its SYN is repeated.
ReconstructsContinuously ==
  \A flow \in emitted :
    flow.how = "merged" /\ flow.syn /\ ~flow.refused /\ flow.arrived = 0 .. Length - 1
      => flow.bytes = [i \in 1 .. Length |-> i - 1]
===============================================================================
