------------------------------- MODULE Anomaly -------------------------------
(* The connection-level detectors of TcpReassembler and the inline blocking    *)
(* that follows them: per-source trackers, beacon trackers, deduplication,     *)
(* their caps, the analysis at the end of a capture, and the blocklist, which  *)
(* the capture thread and the LLM thread share.                                *)
EXTENDS Integers, Sequences, FiniteSetsExt

CONSTANTS
  Hosts,
  Private,     \* 10/8, 172.16/12 and 192.168/16
  LinkLocal,   \* 127/8 and 169.254/16
  Listed,      \* flagged by the threat-intel database
  Allowlist,   \* never blocked
  Modes,       \* "offline" reads a capture, "inline" diverts packets and blocks
  Traffics,    \* the packets a run chooses from
  ScanMin, SshMin, WormMin,  \* 50 ports, 30 connections, 100 targets
  FloodMin, FloodRate,       \* 5000 SYNs, more than 10 each second
  BeaconMin, MeanMin, MeanMax, ManyHits,  \* 8 hits, 15 to 7200 seconds, 50 hits
  SpamMin,                   \* 30 mail servers
  PruneMin,                  \* beacon trackers with fewer hits (3) are pruned
  MaxSources, MaxBeacons, MaxHashes,  \* MAX_SOURCE_TRACKERS, MAX_BEACON_..., MAX_DEDUP_...
  MaxPackets, MaxTime        \* bounds: packets, and seconds

Local == Private \cup LinkLocal
PortNumbers == 0 .. 65535
Packets == [src : Hosts, dst : Hosts, port : PortNumbers,
            kind : {"syn", "tcp", "udp"}, ttl : 0 .. 255]

ASSUME AnomalyAssumption ==
  /\ IsFiniteSet(Hosts) /\ Local \cup Listed \cup Allowlist \subseteq Hosts
  /\ Private \cap LinkLocal = {}
  /\ Modes \subseteq {"offline", "inline"}
  /\ \A traffic \in Traffics : \A p \in traffic : p \in Packets
  /\ {ScanMin, SshMin, WormMin, FloodMin, FloodRate, SpamMin, MeanMin} \subseteq Nat \ {0}
  /\ {BeaconMin, ManyHits, PruneMin} \subseteq Nat \ {0, 1} /\ MeanMax \in Nat
  /\ {MaxSources, MaxBeacons, MaxHashes, MaxPackets, MaxTime} \subseteq Nat

VARIABLES
  mode, traffic,   \* never change
  clock, packets,  \* seconds and packets so far
  since,           \* history: the packets since evict_stale_state() last ran
  tracker,         \* source_trackers_
  beacon,          \* beacon_trackers_: the times of the SYNs of a <<src, dst, port>>
  alerted,         \* alerted_anomalies_
  raised,          \* history: the alerts raised, each as its dedup key
  blocked,         \* blocked_ips_
  inline,          \* the packet diverted last, and whether it was sent on
  ended            \* the capture was flushed
vars == <<mode, traffic, clock, packets, since, tracker, beacon, alerted, raised,
          blocked, inline, ended>>

Ports == {p.port : p \in traffic}
MailPorts == {25, 465, 587}
WebPorts == {80, 443, 8080}

\* dst_ports is the set of ports with targets: both hold ports below 1024 only.
NewTracker == [ttl |-> 0, first |-> 0, total |-> 0, syns |-> [q \in Ports |-> 0],
               targets |-> [q \in Ports |-> {}], ext |-> {}]
Empty == [k \in {} |-> 0]
Total(f) == MapThenSumSet(LAMBDA k : f[k], DOMAIN f)
Put(f, k, v) == [j \in DOMAIN f \cup {k} |-> IF j = k THEN v ELSE f[j]]

Init ==
  /\ mode \in Modes /\ traffic \in Traffics
  /\ clock = 0 /\ packets = 0 /\ since = 0
  /\ tracker = Empty /\ beacon = Empty
  /\ alerted = {} /\ raised = {} /\ blocked = {} /\ inline = {} /\ ended = FALSE

-------------------------------------------------------------------------------
(* check_connection_anomalies()                                                *)

TrackerOf(s) == IF s \in DOMAIN tracker THEN tracker[s] ELSE NewTracker

estimate_initial_ttl(ttl) == IF ttl <= 64 THEN 64 ELSE IF ttl <= 128 THEN 128 ELSE 255

TtlCounts(p) == p.ttl > 0 /\ p.src \in Local
TtlSeen(t, p) == IF TtlCounts(p) THEN [t EXCEPT !.ttl = estimate_initial_ttl(p.ttl)] ELSE t

\* Loopback and link-local destinations count as external here, not for UDP.
SynSeen(t, p) ==
  [t EXCEPT !.first = IF t.total = 0 THEN clock ELSE @,
            !.total = @ + 1,
            !.syns[p.port] = @ + 1,
            !.targets[p.port] = IF p.port < 1024 THEN @ \cup {p.dst} ELSE @,
            !.ext = IF p.dst \in Private THEN @ ELSE @ \cup {p.dst}]

BeaconKey(p) == <<p.src, p.dst, p.port>>
Hits(k) == IF k \in DOMAIN beacon THEN beacon[k] ELSE <<>>

Key(cond, key) == IF cond THEN {key} ELSE {}

Spoofed(t, p) == TtlCounts(p) /\ t.ttl \notin {0, estimate_initial_ttl(p.ttl)}

\* The public end of the packet, if it is a listed host.
Intel(p) ==
  IF p.dst \notin Local THEN p.dst \in Listed ELSE p.src \notin Local /\ p.src \in Listed

Scanned(t) == {q \in Ports : t.targets[q] # {}}
Swept(t) == {q \in Ports \ WebPorts : Cardinality(t.targets[q]) >= WormMin}
Flooding(t, now) ==
  LET elapsed == now - t.first
  IN  /\ t.total >= FloodMin
      /\ t.total > FloodRate * (IF elapsed > 0 THEN elapsed ELSE 1)

Attempts(t, port) == IF port \in Ports THEN t.syns[port] ELSE 0

\* What the tracker of s shows.
Reports(s, t) ==
  Key(Cardinality(Scanned(t)) >= ScanMin, <<"Port Scan", s>>)
  \cup Key(Attempts(t, 22) >= SshMin, <<"SSH Brute Force", s>>)
  \cup {<<"Worm Propagation Scan", s, q>> : q \in Swept(t)}
  \cup Key(Flooding(t, clock), <<"DDoS", s>>)

Bug_block_source(s) == blocked' = blocked \cup {s}
block_source(s) == blocked' = IF s \in Allowlist THEN blocked ELSE blocked \cup {s}

\* A key alerts once until the hashes are cleared, and inline its source is blocked.
Alert(keys, s) ==
  /\ alerted' = alerted \cup keys
  /\ raised' = raised \cup (keys \ alerted)
  /\ IF mode = "inline" /\ keys \ alerted # {} THEN block_source(s) ELSE UNCHANGED blocked

Bug_Anomalies(p) ==
  LET old == TrackerOf(p.src)
      t == IF p.kind = "syn" THEN SynSeen(TtlSeen(old, p), p) ELSE TtlSeen(old, p)
  IN  /\ tracker' = Put(tracker, p.src, t)
      /\ beacon' = IF p.kind = "syn" /\ p.dst \notin Private
                     THEN Put(beacon, BeaconKey(p), Append(Hits(BeaconKey(p)), clock))
                     ELSE beacon
      /\ Alert(Key(Spoofed(old, p), <<"IP Spoofing", p.src>>)
               \cup Key(Intel(p), <<"Threat Intel", p.src, p.dst>>)
               \cup Reports(p.src, old), p.src)

Anomalies(p) ==
  LET old == TrackerOf(p.src)
      t == IF p.kind = "syn" THEN SynSeen(TtlSeen(old, p), p) ELSE TtlSeen(old, p)
  IN  /\ tracker' = Put(tracker, p.src, t)
      /\ beacon' = IF p.kind = "syn" /\ p.dst \notin Private
                     THEN Put(beacon, BeaconKey(p), Append(Hits(BeaconKey(p)), clock))
                     ELSE beacon
      /\ Alert(Key(Spoofed(old, p), <<"IP Spoofing", p.src>>)
               \cup Key(Intel(p), <<"Threat Intel", p.src, p.dst>>)
               \cup Reports(p.src, t), p.src)

\* UDP is not reassembled but counts for the footprint of its source.
Footprint(p) ==
  /\ tracker' = IF p.dst \in Local THEN tracker
                ELSE Put(tracker, p.src, [TrackerOf(p.src) EXCEPT !.ext = @ \cup {p.dst}])
  /\ UNCHANGED <<beacon, alerted, raised, blocked>>

-------------------------------------------------------------------------------
(* The capture thread                                                          *)

Pending == \E x \in inline : x.fate = "pending"

\* process_ip_packet(): inline, the packet waits for the decision that follows.
Inspect(p) ==
  /\ ~ended /\ ~Pending
  /\ packets < MaxPackets /\ packets' = packets + 1 /\ since' = since + 1
  /\ IF p.kind = "udp" THEN Footprint(p) ELSE Anomalies(p)
  /\ inline' = IF mode = "inline" THEN {[src |-> p.src, fate |-> "pending"]} ELSE {}
  /\ UNCHANGED <<mode, traffic, clock, ended>>

Bug_Decide ==
  /\ \E x \in inline :
       /\ x.fate = "pending"
       /\ inline' = {[x EXCEPT !.fate =
            IF \E k \in alerted : k[2] = x.src /\ x.src \notin Allowlist
              THEN "dropped" ELSE "sent"]}
  /\ UNCHANGED <<mode, traffic, clock, packets, since, tracker, beacon, alerted, raised,
                 blocked, ended>>

\* is_blocked(): the packet of a blocked source is dropped, any other sent on.
Decide ==
  /\ \E x \in inline :
       /\ x.fate = "pending"
       /\ inline' = {[x EXCEPT !.fate = IF x.src \in blocked THEN "dropped" ELSE "sent"]}
  /\ UNCHANGED <<mode, traffic, clock, packets, since, tracker, beacon, alerted, raised,
                 blocked, ended>>

Candidates == {k \in DOMAIN beacon : Len(beacon[k]) >= PruneMin}
Only(f, S) == [k \in S |-> f[k]]

Bug_PrunedLowHits ==
  IF Cardinality(DOMAIN beacon) <= MaxBeacons THEN beacon ELSE Only(beacon, Candidates)

Bug_Pruned ==
  IF Cardinality(DOMAIN beacon) <= MaxBeacons THEN beacon ELSE Empty

\* Trackers that can form no beacon yet go first, and all of them when that is not
\* enough.
Pruned ==
  IF Cardinality(DOMAIN beacon) <= MaxBeacons THEN beacon
  ELSE IF Cardinality(Candidates) <= MaxBeacons THEN Only(beacon, Candidates)
  ELSE Empty

Capped(S, max) == IF Cardinality(S) > max THEN {} ELSE S

\* The caps in evict_stale_state(), whose interval ConnTable models.
Maintain ==
  /\ ~ended /\ ~Pending /\ packets > 0
  /\ tracker' = Only(tracker, Capped(DOMAIN tracker, MaxSources))
  /\ beacon' = Pruned
  /\ alerted' = Capped(alerted, MaxHashes)
  /\ since' = 0
  /\ UNCHANGED <<mode, traffic, clock, packets, raised, blocked, inline, ended>>

-------------------------------------------------------------------------------
(* The end of a capture                                                        *)

Intervals(ts) == [i \in 1 .. Len(ts) - 1 |-> ts[i + 1] - ts[i]]
Span(ts) == ts[Len(ts)] - ts[1]

\* n * n times the variance of the intervals, which is n * their squares less the
\* square of their sum.
Squares(f) == [i \in DOMAIN f |-> f[i] * f[i]]
Spread(ts) == (Len(ts) - 1) * Total(Squares(Intervals(ts))) - Span(ts) * Span(ts)

Web(port) == port \in WebPorts

\* The coefficient of variation is at most 0.35, or 0.5 off the web ports, or below 1.5
\* there for many hits.
Regular(ts, port) ==
  \/ 10000 * Spread(ts) <= 1225 * Span(ts) * Span(ts)
  \/ ~Web(port) /\ 4 * Spread(ts) <= Span(ts) * Span(ts)
  \/ ~Web(port) /\ Len(ts) >= ManyHits /\ 4 * Spread(ts) < 9 * Span(ts) * Span(ts)

\* Polling a web server is ordinary unless the server is listed.
Suppressed(dst, port) == port \in {80, 443} /\ dst \notin Listed

Beacons ==
  {<<"C2 Beaconing", k[1], k[2], k[3]>> : k \in
    {j \in DOMAIN beacon :
       LET ts == beacon[j]
       IN  /\ Len(ts) >= BeaconMin
           /\ MeanMin * (Len(ts) - 1) <= Span(ts) /\ Span(ts) <= MeanMax * (Len(ts) - 1)
           /\ Regular(ts, j[3])
           /\ ~Suppressed(j[2], j[3])}}

MailServers(t) == UNION {t.targets[q] : q \in Ports \cap MailPorts}

\* Every external destination of a source with many mail servers is credited.
SpamBots ==
  UNION {{<<"Botnet Host", s, d>> : d \in tracker[s].ext} :
           s \in {s \in DOMAIN tracker : Cardinality(MailServers(tracker[s])) >= SpamMin}}

\* flush_all_flows(): beacons are deduplicated, bots are not, and nobody is blocked.
Flush ==
  /\ mode = "offline" /\ ~ended /\ ended' = TRUE
  /\ alerted' = alerted \cup Beacons
  /\ raised' = raised \cup (Beacons \ alerted) \cup SpamBots
  /\ UNCHANGED <<mode, traffic, clock, packets, since, tracker, beacon, blocked, inline>>

-------------------------------------------------------------------------------
\* The LLM thread: the alert callback blocks the source of the flow it judged.
LlmConfirm(s) ==
  /\ mode = "inline"
  /\ block_source(s)
  /\ raised' = raised \cup {<<"LLM", s>>}
  /\ UNCHANGED <<mode, traffic, clock, packets, since, tracker, beacon, alerted, inline,
                 ended>>

Tick ==
  /\ ~ended /\ clock < MaxTime /\ clock' = clock + 1
  /\ UNCHANGED <<mode, traffic, packets, since, tracker, beacon, alerted, raised, blocked,
                 inline, ended>>

Next ==
  \/ \E p \in traffic : Inspect(p)
  \/ Decide
  \/ Maintain
  \/ Flush
  \/ \E p \in traffic : LlmConfirm(p.src)
  \/ Tick

Spec == Init /\ [][Next]_vars

-------------------------------------------------------------------------------
Culprits == {k[2] : k \in raised}

TypeOK ==
  /\ mode \in Modes /\ traffic \in Traffics
  /\ clock \in 0 .. MaxTime /\ packets \in 0 .. MaxPackets /\ since \in 0 .. packets
  /\ ended \in BOOLEAN
  /\ \A s \in DOMAIN tracker :
       /\ s \in Hosts
       /\ tracker[s] \in [ttl : {0, 64, 128, 255}, first : 0 .. clock,
                          total : 0 .. packets, syns : [Ports -> 0 .. packets],
                          targets : [Ports -> SUBSET Hosts], ext : SUBSET Hosts]
       /\ tracker[s].total = Total(tracker[s].syns)
       /\ \A q \in Ports : Cardinality(tracker[s].targets[q]) <= tracker[s].syns[q]
  /\ \A k \in DOMAIN beacon :
       /\ k \in Hosts \X (Hosts \ Private) \X Ports
       /\ beacon[k] # <<>> /\ Len(beacon[k]) <= packets
       /\ \A i \in 1 .. Len(beacon[k]) - 1 : beacon[k][i] <= beacon[k][i + 1]
  /\ alerted \subseteq raised /\ Culprits \subseteq Hosts
  /\ blocked \subseteq Hosts
  /\ inline \subseteq [src : Hosts, fate : {"pending", "dropped", "sent"}]
  /\ Cardinality(inline) <= 1

\* The keys that one packet can add: one of each detector, and a worm key for each port
\* that detector looks at.  Evasion keys are TcpReassembly's.
KeysPerPacket == 5 + Cardinality(Ports \ WebPorts)

\* MAX_SOURCE_TRACKERS, MAX_BEACON_TRACKERS, MAX_DEDUP_HASHES: evict_stale_state() alone
\* enforces them, so a flood takes a table past its cap, but never by more than the packets
\* since the last maintenance account for: nothing that grew before outlives it, the
\* candidates that pruning spares included.
TrackersBounded ==
  /\ Cardinality(DOMAIN tracker) <= MaxSources + since
  /\ Cardinality(DOMAIN beacon) <= MaxBeacons + since
  /\ ~ended => Cardinality(alerted) <= MaxHashes + since * KeysPerPacket

\* No detector sleeps through its threshold: while a source is tracked, what its
\* tracker shows was reported, by the packet that took it past the threshold.
ThresholdsReported == \A s \in DOMAIN tracker : Reports(s, tracker[s]) \subseteq raised

\* "IP Spoofing" takes two stacks: a source is reported only if it is local and sends
\* packets of different estimated TTLs, not for the first packet after a clearing, nor
\* for a longer path.
SpoofNeedsTwoStacks ==
  \A s \in Culprits :
    <<"IP Spoofing", s>> \in raised =>
      /\ s \in Local
      /\ \E p, q \in traffic : /\ p.src = s /\ q.src = s
                               /\ TtlCounts(p) /\ TtlCounts(q)
                               /\ estimate_initial_ttl(p.ttl) # estimate_initial_ttl(q.ttl)

\* "Drops all further traffic": once an alert was raised for a source, from either
\* thread, no packet of it is sent on, the one that raised the alert included.
AlertedAreCut ==
  [][\A x \in inline' \ inline :
       x.fate = "sent" => x.src \notin Culprits \ Allowlist]_vars

\* "Never block allowlisted critical assets": a packet is dropped only after an alert
\* for its source, and never for a source on the allowlist.
DropsAreJustified ==
  \A x \in inline : x.fate = "dropped" => x.src \in Culprits \ Allowlist

\* "Prune only single/low-hit trackers, preserving multi-connection C2 candidates": a
\* candidate is lost only when the candidates alone exceed the cap, and keeps its times.
CandidatesSurvive ==
  [][/\ Cardinality(Candidates) <= MaxBeacons => Candidates \subseteq DOMAIN beacon'
     /\ \A k \in DOMAIN beacon \cap DOMAIN beacon' :
          SubSeq(beacon'[k], 1, Len(beacon[k])) = beacon[k]]_vars

\* A train of SYNs at one interval within the limits, to a port that is not web, or to
\* a listed host, is reported at the end of the capture, whatever was pruned meanwhile.
PeriodicIsCaught ==
  ended =>
    \A k \in DOMAIN beacon :
      LET every == Intervals(beacon[k])
          periodic == \A i \in DOMAIN every : every[i] = every[1] /\ every[i] \in MeanMin .. MeanMax
      IN  Len(beacon[k]) >= BeaconMin /\ periodic /\ ~Suppressed(k[2], k[3])
            => <<"C2 Beaconing", k[1], k[2], k[3]>> \in raised

\* "We credit the whole fan-out": at the end of a capture each public mail server of a
\* source that contacted many is reported, whichever protocol or port recorded it.
SpamBotsCredited ==
  ended =>
    \A s \in DOMAIN tracker :
      Cardinality(MailServers(tracker[s])) >= SpamMin =>
        \A d \in MailServers(tracker[s]) \ Private : <<"Botnet Host", s, d>> \in raised

\* The detectors report what the capture held and, for spoofing, no more than that: the
\* ones of every packet at once, the two analyses of flush_all_flows() at its end.
DetectorsReport ==
  /\ ThresholdsReported /\ SpoofNeedsTwoStacks
  /\ PeriodicIsCaught /\ SpamBotsCredited
===============================================================================
