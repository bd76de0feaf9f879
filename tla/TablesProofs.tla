----------------------------- MODULE TablesProofs -----------------------------
(* Machine-checked proofs about the parts of Tables but for Anomaly: the       *)
(* connection table, the behavioural signal and the model it scores with, for  *)
(* any connections, tuples, hosts, thresholds, caps and samples, from          *)
(* TablesAssumption alone.                                                     *)
EXTENDS Tables, AnomalyProofs

\* The parts are instances: each has a copy of the operators of FiniteSets.
LEMMA SameFiniteSets ==
  \A S : /\ Table!Cardinality(S) = Cardinality(S) /\ Table!IsFiniteSet(S) = IsFiniteSet(S)
         /\ Scores!Cardinality(S) = Cardinality(S) /\ Scores!IsFiniteSet(S) = IsFiniteSet(S)
         /\ Markov!Cardinality(S) = Cardinality(S) /\ Markov!IsFiniteSet(S) = IsFiniteSet(S)
BY Zenon DEF Cardinality, IsFiniteSet, Table!Cardinality, Table!IsFiniteSet,
   Scores!Cardinality, Scores!IsFiniteSet, Markov!Cardinality, Markov!IsFiniteSet

-------------------------------------------------------------------------------
(* The connection table                                                        *)

Flags(e) == /\ e.syn \in BOOLEAN /\ e.payload \in BOOLEAN
            /\ e.ahead \in BOOLEAN /\ e.done \in BOOLEAN

\* What a step leaves of an entry: the entry, or what a packet made of it, or of none.
Remains(c) ==
  \/ c \in Table!Tracked /\ connections'[c] = connections[c]
  \/ \E kind \in Table!Kinds :
       \/ c \in Table!Tracked /\ connections'[c] = Table!Entry(connections[c], kind)
       \/ c \notin Table!Tracked /\ connections'[c] = Table!Entry(Table!NoEntry, kind)

Timings == {ConnectionTimeout, EvictionInterval, AggressiveTimeout, ForceInterval, LastSecond}

LEMMA TimingsAreSeconds ==
  ASSUME Table!TableAssumption
  PROVE  /\ \A s \in Timings : s \in Nat \ {0}
         /\ Table!Epoch \in Nat \ {0} /\ Table!Epoch >= ForceInterval
         /\ MaxConnections \in Nat \ {0} /\ IsFiniteSet(Conns)
  BY SameFiniteSets DEF Table!TableAssumption, Timings, Table!Epoch

LEMMA KeepOnlyKeeps ==
  ASSUME NEW entries, NEW S
  PROVE  /\ DOMAIN Table!KeepOnly(entries, S) = S
         /\ \A c \in S : Table!KeepOnly(entries, S)[c] = entries[c]
  BY DEF Table!KeepOnly

\* Only three actions touch an entry; the others take entries away.
LEMMA StepRemains ==
  ASSUME Table!TypeOK, [Table!Next]_Table!vars
  PROVE  /\ DOMAIN connections' \subseteq Conns
         /\ \A c \in DOMAIN connections' : Remains(c)
<1> USE DEF Table!TypeOK
<1>1. ASSUME NEW c \in Conns, NEW kind \in Table!Kinds, Table!PacketOfKnown(c, kind)
      PROVE  /\ DOMAIN connections' = Table!Tracked
             /\ \A d \in Table!Tracked : Remains(d)
  <2>1. connections' = [connections EXCEPT ![c] = Table!Entry(connections[c], kind)]
    BY <1>1 DEF Table!PacketOfKnown
  <2> QED
    BY <1>1, <2>1 DEF Remains, Table!PacketOfKnown, Table!Tracked
<1>2. ASSUME NEW c \in Conns, NEW kind \in Table!Kinds, Table!PacketOfNew(c, kind)
      PROVE  /\ DOMAIN connections' \subseteq Table!Tracked \cup {c}
             /\ \A d \in DOMAIN connections' : Remains(d)
  <2>1. PICK kept \in SUBSET Table!Tracked :
          \/ connections' = Table!KeepOnly(connections, kept)
          \/ connections' = [d \in kept \cup {c} |->
               IF d = c THEN Table!Entry(Table!NoEntry, kind)
               ELSE Table!KeepOnly(connections, kept)[d]]
    BY <1>2 DEF Table!PacketOfNew, Table!AfterForce
  <2>2. c \notin Table!Tracked
    BY <1>2 DEF Table!PacketOfNew
  <2> QED
    BY <2>1, <2>2, KeepOnlyKeeps DEF Remains
<1>3. ASSUME Table!Maintain
      PROVE  /\ DOMAIN connections' \subseteq Table!Tracked
             /\ \A d \in DOMAIN connections' : Remains(d)
  <2> DEFINE open == Table!KeepOnly(connections, Table!Tracked \ Table!Complete)
  <2>1. \/ connections' = open
        \/ \E S \in SUBSET (DOMAIN open) : connections' = Table!KeepOnly(open, S)
    BY <1>3 DEF Table!Maintain
  <2>2. DOMAIN open \subseteq Table!Tracked /\ \A d \in DOMAIN open : open[d] = connections[d]
    BY KeepOnlyKeeps
  <2> HIDE DEF open
  <2> QED
    BY <2>1, <2>2, KeepOnlyKeeps DEF Remains
<1>4. CASE Table!Flush
  BY <1>4 DEF Table!Flush
<1>5. CASE Table!Tick \/ UNCHANGED Table!vars
  BY <1>5 DEF Table!Tick, Table!vars, Table!Tracked, Remains
<1> QED
  BY <1>1, <1>2, <1>3, <1>4, <1>5 DEF Table!Next

\* The clock only advances, an eviction is dated from the capture, and the entry of a
\* packet is dated by it.
LEMMA NextTypes ==
  Table!TableAssumption /\ Table!TypeOK /\ [Table!Next]_Table!vars => Table!TypeOK'
<1> SUFFICES ASSUME Table!TableAssumption, Table!TypeOK, [Table!Next]_Table!vars
             PROVE  Table!TypeOK'
  OBVIOUS
<1>0. /\ tclock \in Nat /\ Table!Epoch \in Nat /\ LastSecond \in Nat /\ Table!Epoch <= tclock
      /\ Table!Tracked \subseteq Conns
  BY TimingsAreSeconds DEF Table!TypeOK, Timings
<1>b. {tended', forced', shed'} \subseteq BOOLEAN
  <2>1. \A x \in {tended, forced, shed} : x \in BOOLEAN
    BY DEF Table!TypeOK
  <2>2. ASSUME NEW c \in Conns, NEW kind \in Table!Kinds,
               Table!PacketOfKnown(c, kind) \/ Table!PacketOfNew(c, kind)
        PROVE  tended' \in BOOLEAN /\ forced' \in BOOLEAN /\ shed' \in BOOLEAN
    BY <2>1, <2>2, Zenon DEF Table!PacketOfKnown, Table!PacketOfNew
  <2>3. CASE Table!Maintain \/ Table!Flush \/ Table!Tick \/ UNCHANGED Table!vars
    BY <2>1, <2>3 DEF Table!Maintain, Table!Flush, Table!Tick, Table!vars
  <2> QED
    BY <2>2, <2>3 DEF Table!Next
<1>1. /\ \/ tclock' = tclock
         \/ tclock < Table!Epoch + LastSecond /\ tclock' = tclock + 1
      /\ last_force_evict' \in {last_force_evict, tclock}
  <2>1. ASSUME NEW c \in Conns, NEW kind \in Table!Kinds,
               Table!PacketOfKnown(c, kind) \/ Table!PacketOfNew(c, kind)
        PROVE  tclock' = tclock /\ last_force_evict' \in {last_force_evict, tclock}
    BY <2>1 DEF Table!PacketOfKnown, Table!PacketOfNew
  <2>2. CASE Table!Maintain \/ Table!Flush \/ Table!Tick \/ UNCHANGED Table!vars
    BY <2>2 DEF Table!Maintain, Table!Flush, Table!Tick, Table!vars
  <2> QED
    BY <2>1, <2>2 DEF Table!Next
<1>t. /\ tclock' \in Table!Epoch .. Table!Epoch + LastSecond /\ tclock' >= tclock
      /\ last_force_evict' \in {0} \cup Table!Epoch .. tclock'
  BY <1>0, <1>1 DEF Table!TypeOK
<1>2. last_eviction' \in {0} \cup Table!Epoch .. tclock' /\ pushed' \subseteq Conns
  <2>1. CASE Table!Maintain
    <3> DEFINE open == Table!KeepOnly(connections, Table!Tracked \ Table!Complete)
    <3>1. DOMAIN open \subseteq Table!Tracked /\ \A d \in DOMAIN open : open[d] = connections[d]
      BY KeepOnlyKeeps
    <3>2. /\ last_eviction' \in {last_eviction} \cup {open[d].last : d \in DOMAIN open}
          /\ pushed' \subseteq Table!Complete \cup DOMAIN open /\ tclock' = tclock
      BY <2>1 DEF Table!Maintain, Table!Stale
    <3> HIDE DEF open
    <3>3. \A d \in DOMAIN open : open[d].last \in Table!Epoch .. tclock
      BY <3>1 DEF Table!TypeOK
    <3> QED
      BY <1>0, <3>1, <3>2, <3>3 DEF Table!TypeOK, Table!Complete
  <2>2. ASSUME NEW c \in Conns, NEW kind \in Table!Kinds,
               Table!PacketOfKnown(c, kind) \/ Table!PacketOfNew(c, kind)
        PROVE  last_eviction' = last_eviction /\ pushed' = {}
    BY <2>2 DEF Table!PacketOfKnown, Table!PacketOfNew
  <2>3. CASE Table!Flush \/ Table!Tick \/ UNCHANGED Table!vars
    BY <1>0, <1>t, <2>3 DEF Table!TypeOK, Table!Flush, Table!Tick, Table!vars
  <2>4. CASE last_eviction' = last_eviction /\ pushed' \subseteq Conns
    BY <1>0, <1>t, <2>4 DEF Table!TypeOK
  <2> QED
    BY <2>1, <2>2, <2>3, <2>4 DEF Table!Next
<1>3. ASSUME NEW c \in DOMAIN connections'
      PROVE  connections'[c].last \in Table!Epoch .. tclock' /\ Flags(connections'[c])
  <2>1. Remains(c)
    BY StepRemains
  <2>2. CASE c \in Table!Tracked /\ connections'[c] = connections[c]
    BY <1>0, <1>t, <2>2 DEF Table!TypeOK, Flags
  <2>3. ASSUME NEW kind \in Table!Kinds, NEW old, Flags(old),
               connections'[c] = Table!Entry(old, kind)
        PROVE  connections'[c].last \in Table!Epoch .. tclock' /\ Flags(connections'[c])
    BY <1>0, <1>t, <2>3 DEF Table!Entry, Flags, Table!TypeOK
  <2>4. Flags(Table!NoEntry) /\ \A d \in Table!Tracked : Flags(connections[d])
    BY DEF Table!NoEntry, Flags, Table!TypeOK
  <2> QED
    BY <2>1, <2>2, <2>3, <2>4 DEF Remains
<1>4. DOMAIN connections' \subseteq Conns
  BY StepRemains
<1> QED
  BY <1>b, <1>t, <1>2, <1>3, <1>4 DEF Table!TypeOK, Table!Tracked, Flags

-------------------------------------------------------------------------------
(* The cap                                                                     *)

LEMMA InitTypes == Table!TableAssumption /\ Table!Init => Table!TypeOK /\ Table!Tracked = {}
<1> SUFFICES ASSUME Table!TableAssumption, Table!Init PROVE Table!TypeOK /\ Table!Tracked = {}
  OBVIOUS
<1>1. /\ tclock = Table!Epoch /\ last_eviction = 0 /\ last_force_evict = 0
      /\ {tended, forced, shed} \subseteq BOOLEAN
      /\ pushed = {} /\ Table!Tracked = {}
  BY DEF Table!Init, Table!Tracked
<1>2. Table!Epoch \in Nat /\ LastSecond \in Nat
  BY TimingsAreSeconds DEF Timings
<1> QED
  BY <1>1, <1>2 DEF Table!TypeOK

LEMMA NextBound ==
  Table!TableAssumption /\ Table!TableBound /\ [Table!Next]_Table!vars => Table!TableBound'
<1> SUFFICES ASSUME Table!TableAssumption, Table!TableBound, [Table!Next]_Table!vars
             PROVE  Cardinality(DOMAIN connections') <= MaxConnections
  BY NextTypes, SameFiniteSets DEF Table!TableBound, Table!Tracked
<1>0. /\ Table!TypeOK /\ IsFiniteSet(Table!Tracked) /\ MaxConnections \in Nat
      /\ Cardinality(Table!Tracked) \in Nat /\ Cardinality(Table!Tracked) <= MaxConnections
  BY TimingsAreSeconds, FS_Subset, FS_CardinalityType, SameFiniteSets
     DEF Table!TableBound, Table!TypeOK
<1>1. ASSUME NEW c \in Conns, NEW kind \in Table!Kinds, Table!PacketOfNew(c, kind)
      PROVE  Cardinality(DOMAIN connections') <= MaxConnections
  <2>1. PICK kept \in SUBSET Table!Tracked :
          \/ DOMAIN connections' = kept
          \/ DOMAIN connections' = kept \cup {c} /\ Cardinality(kept) < MaxConnections
    BY <1>1, KeepOnlyKeeps, SameFiniteSets DEF Table!PacketOfNew, Table!AfterForce, Table!Admits
  <2>2. /\ IsFiniteSet(kept) /\ Cardinality(kept) \in Nat
        /\ Cardinality(kept) <= Cardinality(Table!Tracked)
    BY <1>0, FS_Subset, FS_CardinalityType, SameFiniteSets
  <2>3. Cardinality(kept \cup {c}) \in {Cardinality(kept), Cardinality(kept) + 1}
    BY <2>2, FS_AddElement
  <2> QED
    BY <1>0, <2>1, <2>2, <2>3
<1>2. ASSUME DOMAIN connections' \subseteq Table!Tracked
      PROVE  Cardinality(DOMAIN connections') <= MaxConnections
  <2>1. /\ Cardinality(DOMAIN connections') <= Cardinality(Table!Tracked)
        /\ Cardinality(DOMAIN connections') \in Nat
    BY <1>0, <1>2, FS_Subset, FS_CardinalityType, SameFiniteSets
  <2> QED
    BY <1>0, <2>1
<1>3. ASSUME \/ \E c \in Conns, kind \in Table!Kinds : Table!PacketOfKnown(c, kind)
             \/ Table!Maintain \/ Table!Flush \/ Table!Tick \/ UNCHANGED Table!vars
      PROVE  DOMAIN connections' \subseteq Table!Tracked
  <2>1. CASE Table!Maintain
    <3> DEFINE open == Table!KeepOnly(connections, Table!Tracked \ Table!Complete)
    <3>1. \/ connections' = open
          \/ \E S \in SUBSET (DOMAIN open) : connections' = Table!KeepOnly(open, S)
      BY <2>1 DEF Table!Maintain
    <3>2. DOMAIN open \subseteq Table!Tracked
      BY KeepOnlyKeeps
    <3> HIDE DEF open
    <3> QED
      BY <3>1, <3>2, KeepOnlyKeeps
  <2>2. CASE \/ \E c \in Conns, kind \in Table!Kinds : Table!PacketOfKnown(c, kind)
             \/ Table!Flush \/ Table!Tick \/ UNCHANGED Table!vars
    BY <2>2 DEF Table!PacketOfKnown, Table!Flush, Table!Tick, Table!vars, Table!Tracked
  <2> QED
    BY <1>3, <2>1, <2>2
<1> QED
  BY <1>1, <1>2, <1>3 DEF Table!Next

\* No flood of new connections takes the table past its cap, whatever eviction finds.
THEOREM TableIsBounded == Table!TableAssumption => (Table!Spec => []Table!TableBound)
<1> SUFFICES ASSUME Table!TableAssumption PROVE Table!Spec => []Table!TableBound
  OBVIOUS
<1>1. Table!Init => Table!TableBound
  <2>1. MaxConnections \in Nat
    BY TimingsAreSeconds
  <2> QED
    BY <2>1, InitTypes, FS_EmptySet, SameFiniteSets DEF Table!TableBound
<1> QED
  BY <1>1, NextBound, PTL DEF Table!Spec

-------------------------------------------------------------------------------
(* What leaves the table                                                       *)

\* Why an entry is gone after a step: pressure, completion, idleness or the end.
Gone(c) ==
  \/ Table!Silent(c)
  \/ connections[c].done /\ c \in pushed'
  \/ /\ \E now \in Table!Epoch .. tclock : now - connections[c].last > ConnectionTimeout
     /\ connections[c].payload => c \in pushed'
  \/ tended' /\ (connections[c].payload => c \in pushed')

LEMMA StepGone ==
  ASSUME Table!TypeOK, [Table!Next]_Table!vars,
         NEW c \in Table!Tracked, c \notin DOMAIN connections'
  PROVE  Gone(c)
<1>1. ASSUME NEW d \in Conns, NEW kind \in Table!Kinds, Table!PacketOfKnown(d, kind) PROVE FALSE
  BY <1>1 DEF Table!PacketOfKnown, Table!Tracked
<1>2. ASSUME NEW d \in Conns, NEW kind \in Table!Kinds, Table!PacketOfNew(d, kind) PROVE Gone(c)
  <2>1. c \notin Table!Tracked \/ c \notin Table!AfterForce
    BY <1>2, KeepOnlyKeeps DEF Table!PacketOfNew
  <2> QED
    BY <2>1 DEF Table!AfterForce, Gone
<1>3. CASE Table!Maintain
  <2> DEFINE open == Table!KeepOnly(connections, Table!Tracked \ Table!Complete)
  <2>1. CASE c \in Table!Complete
    BY <1>3, <2>1 DEF Table!Maintain, Table!Complete, Gone
  <2>2. CASE c \notin Table!Complete
    <3>1. /\ DOMAIN open = Table!Tracked \ Table!Complete
          /\ \A d \in DOMAIN open : open[d] = connections[d]
      BY KeepOnlyKeeps
    <3>2. PICK first \in DOMAIN open : \E stale \in {{}, Table!Stale(open, open[first].last)} :
            /\ connections' = Table!KeepOnly(open, DOMAIN open \ stale)
            /\ pushed' = Table!Complete \cup {d \in stale : open[d].payload}
      BY <1>3, <2>2, <3>1 DEF Table!Maintain
    <3> HIDE DEF open
    <3>3. c \in Table!Stale(open, open[first].last) /\ (open[c].payload => c \in pushed')
      BY <2>2, <3>1, <3>2, KeepOnlyKeeps
    <3>4. open[first].last \in Table!Epoch .. tclock
      BY <3>1 DEF Table!TypeOK
    <3> QED
      BY <2>2, <3>1, <3>3, <3>4 DEF Table!Stale, Gone
  <2> QED
    BY <2>1, <2>2
<1>4. CASE Table!Flush
  BY <1>4 DEF Table!Flush, Gone
<1>5. CASE Table!Tick \/ UNCHANGED Table!vars
  BY <1>5 DEF Table!Tick, Table!vars, Table!Tracked
<1> QED
  BY <1>1, <1>2, <1>3, <1>4, <1>5 DEF Table!Next

\* A reassembled payload leaves the table only by being pushed: neither pressure, nor
\* idleness, nor the end of the capture loses one.
THEOREM NoPayloadIsLost == Table!TableAssumption => (Table!Spec => Table!PayloadLeavesPushed)
<1> SUFFICES ASSUME Table!TableAssumption PROVE Table!Spec => Table!PayloadLeavesPushed
  OBVIOUS
<1>1. Table!TypeOK /\ [Table!Next]_Table!vars =>
        [\A c \in Table!Tracked \ DOMAIN connections' :
           connections[c].payload => c \in pushed']_Table!vars
  BY StepGone DEF Gone, Table!Silent
<1> QED
  BY <1>1, InitTypes, NextTypes, PTL DEF Table!Spec, Table!PayloadLeavesPushed

\* What leaves unfinished before the end was silent for more than the short timeout, if
\* that is the shorter one, however old the time the eviction works with.
THEOREM OnlyTheIdleLeave ==
  Table!TableAssumption /\ AggressiveTimeout <= ConnectionTimeout =>
    (Table!Spec => Table!OnlyIdleLeaves)
<1> SUFFICES ASSUME Table!TableAssumption, AggressiveTimeout <= ConnectionTimeout
             PROVE  Table!Spec => Table!OnlyIdleLeaves
  OBVIOUS
<1>1. Table!TypeOK /\ [Table!Next]_Table!vars =>
        [\A c \in Table!Tracked \ DOMAIN connections' :
           \/ connections[c].done \/ tended'
           \/ tclock - connections[c].last > AggressiveTimeout]_Table!vars
  <2> SUFFICES ASSUME Table!TypeOK, [Table!Next]_Table!vars,
                      NEW c \in Table!Tracked \ DOMAIN connections'
               PROVE  \/ connections[c].done \/ tended'
                      \/ tclock - connections[c].last > AggressiveTimeout
    OBVIOUS
  <2>1. /\ tclock \in Nat /\ connections[c].last \in Nat /\ Table!Epoch \in Nat
        /\ AggressiveTimeout \in Nat /\ ConnectionTimeout \in Nat
    BY TimingsAreSeconds DEF Table!TypeOK, Timings
  <2> QED
    BY <2>1, StepGone DEF Gone, Table!Silent
<1> QED
  BY <1>1, InitTypes, NextTypes, PTL DEF Table!Spec, Table!OnlyIdleLeaves

-------------------------------------------------------------------------------
(* Shedding                                                                    *)

\* Since the last forced eviction every entry has data or was heard of no longer than
\* the short timeout before it.
ForceLeft ==
  \A c \in Table!Tracked :
    connections[c].payload \/ connections[c].last + AggressiveTimeout >= last_force_evict

ShedInv == Table!TypeOK /\ ForceLeft

\* A packet never makes an entry older, and never takes its data away.
LEMMA RemainsFresh ==
  ASSUME Table!TableAssumption, Table!TypeOK, NEW c \in DOMAIN connections', Remains(c)
  PROVE  \/ c \in Table!Tracked /\ connections'[c] = connections[c]
         \/ connections'[c].last = tclock
  BY DEF Remains, Table!Entry

LEMMA StepSheds ==
  ASSUME Table!TableAssumption, ShedInv, [Table!Next]_Table!vars
  PROVE  /\ ForceLeft'
         /\ [shed' => \A c \in DOMAIN connections' :
               \/ connections'[c].payload
               \/ tclock - connections'[c].last < AggressiveTimeout + ForceInterval]_Table!vars
<1>0. /\ Table!TypeOK /\ ForceLeft
      /\ AggressiveTimeout \in Nat /\ ForceInterval \in Nat \ {0}
      /\ tclock \in Nat /\ tclock >= ForceInterval
      /\ last_force_evict \in Nat /\ last_force_evict <= tclock
      /\ \A c \in Table!Tracked : connections[c].last \in Nat
  BY TimingsAreSeconds DEF ShedInv, Table!TypeOK, Timings
<1>f. Cardinality(Table!Tracked) \in Nat /\ MaxConnections \in Nat
  BY <1>0, TimingsAreSeconds, FS_Subset, FS_CardinalityType, SameFiniteSets DEF Table!TypeOK
<1>1. \A c \in DOMAIN connections' : \/ c \in Table!Tracked /\ connections'[c] = connections[c]
                                     \/ connections'[c].last = tclock
  BY <1>0, StepRemains, RemainsFresh
<1>2. ASSUME last_force_evict' = last_force_evict PROVE ForceLeft'
  BY <1>0, <1>1, <1>2 DEF ForceLeft, Table!Tracked
<1>3. ASSUME NEW c \in Conns, NEW kind \in Table!Kinds, Table!PacketOfNew(c, kind)
      PROVE  /\ ForceLeft'
             /\ shed' => \A d \in DOMAIN connections' :
                  \/ connections'[d].payload
                  \/ tclock - connections'[d].last < AggressiveTimeout + ForceInterval
  <2>1. CASE Cardinality(Table!Tracked) >= MaxConnections /\ ~Table!Throttled
    <3>1. /\ last_force_evict' = tclock
          /\ \A d \in DOMAIN connections' \cap Table!Tracked :
               connections[d].payload \/ tclock - connections[d].last <= AggressiveTimeout
      <4>1. /\ DOMAIN connections' \subseteq {d \in Table!Tracked : ~Table!Silent(d)} \cup {c}
            /\ c \notin Table!Tracked
        BY <1>3, <2>1, KeepOnlyKeeps, SameFiniteSets DEF Table!PacketOfNew, Table!AfterForce
      <4> QED
        BY <1>0, <1>3, <2>1, <4>1, SameFiniteSets DEF Table!PacketOfNew, Table!Silent
    <3> QED
      BY <1>0, <1>1, <3>1 DEF ForceLeft, Table!Tracked
  <2>2. CASE Cardinality(Table!Tracked) >= MaxConnections /\ Table!Throttled
    <3>1. last_force_evict' = last_force_evict /\ tclock - last_force_evict < ForceInterval
      BY <1>3, <2>2 DEF Table!PacketOfNew, Table!Throttled
    <3> QED
      BY <1>0, <1>1, <1>2, <3>1 DEF ForceLeft
  <2>3. CASE ~(Cardinality(Table!Tracked) >= MaxConnections)
    <3>1. Cardinality(Table!Tracked) < MaxConnections
      BY <1>f, <2>3
    <3>2. last_force_evict' = last_force_evict /\ shed' = FALSE
      BY <1>3, <2>3, <3>1, SameFiniteSets DEF Table!PacketOfNew, Table!Admits
    <3> QED
      BY <1>2, <3>2
  <2> QED
    BY <2>1, <2>2, <2>3
<1>4. ASSUME \/ \E c \in Conns, kind \in Table!Kinds : Table!PacketOfKnown(c, kind)
             \/ Table!Maintain \/ Table!Flush \/ Table!Tick
      PROVE  last_force_evict' = last_force_evict /\ shed' = FALSE
  BY <1>4 DEF Table!PacketOfKnown, Table!Maintain, Table!Flush, Table!Tick
<1>5. CASE UNCHANGED Table!vars
  BY <1>2, <1>5 DEF Table!vars
<1> QED
  BY <1>2, <1>3, <1>4, <1>5 DEF Table!Next

\* Junk never keeps a new flow out for long: when one is shed, every entry has data or
\* was heard of within the short timeout and one throttle interval.
THEOREM SheddingHasReason == Table!TableAssumption => (Table!Spec => Table!SheddingIsJustified)
<1> SUFFICES ASSUME Table!TableAssumption PROVE Table!Spec => Table!SheddingIsJustified
  OBVIOUS
<1>1. Table!Init => ShedInv
  BY InitTypes DEF ShedInv, ForceLeft
<1>2. ShedInv /\ [Table!Next]_Table!vars =>
        /\ ShedInv'
        /\ [shed' => \A c \in DOMAIN connections' :
              \/ connections'[c].payload
              \/ tclock - connections'[c].last < AggressiveTimeout + ForceInterval]_Table!vars
  BY NextTypes, StepSheds DEF ShedInv
<1> QED
  BY <1>1, <1>2, PTL DEF Table!Spec, Table!SheddingIsJustified

-------------------------------------------------------------------------------
(* The behavioural signal                                                      *)

\* The flows of a tuple that were scored or recorded before they were pushed.
Evidence(S, t) == {e \in S : e.tuple = t /\ e.how # "evict"}

Emission == [conn : ScoredConns, tuple : Tuples, how : {"complete", "evict", "flush"},
             suspect : BOOLEAN, flagged : BOOLEAN]

\* A connection is pushed once, so each flow that a tuple's entry counts is another one.
Once ==
  /\ conn \in [ScoredConns -> {"none", "syn", "data", "fin", "gone"}]
  /\ IsFiniteSet(emitted)
  /\ \A e \in emitted : e.conn \in ScoredConns /\ conn[e.conn] = "gone"

EntriesAreEarned ==
  \A t \in DOMAIN beh_conns :
    beh_conns[t] \in Nat /\ beh_conns[t] <= Cardinality(Evidence(emitted, t))

\* SignalIsEarned, with the flows named.
Earned == \A t \in beh_suspicious : /\ Scores!behavioral_ready
                                     /\ Cardinality(Evidence(emitted, t)) >= MinFlows

EarnInv == Once /\ EntriesAreEarned /\ Earned

\* One more flow is pushed; it is one more flow of its tuple and of no other.
Pushes(c, how) ==
  /\ conn[c] # "gone" /\ conn' = [conn EXCEPT ![c] = "gone"]
  /\ \E new : /\ emitted' = emitted \cup {new}
              /\ new.conn = c /\ new.tuple = TupleOf[c] /\ new.how = how

LEMMA PushIs ==
  ASSUME NEW c, NEW how, NEW suspect, conn[c] # "gone",
         Scores!Push(c, how, suspect), Scores!Leaves(c)
  PROVE  Pushes(c, how)
<1> DEFINE new == [conn |-> c, tuple |-> TupleOf[c], how |-> how, suspect |-> suspect,
                   flagged |-> TupleOf[c] \in beh_suspicious']
<1>1. new.conn = c /\ new.tuple = TupleOf[c] /\ new.how = how
  BY Zenon
<1>2. emitted' = emitted \cup {new}
  BY Zenon DEF Scores!Push
<1> HIDE DEF new
<1> QED
  BY <1>1, <1>2 DEF Pushes, Scores!Leaves

LEMMA PushMakesEvidence ==
  ASSUME Once, NEW c \in ScoredConns, NEW how, Pushes(c, how)
  PROVE  /\ Once'
         /\ \A t : /\ Cardinality(Evidence(emitted, t)) \in Nat
                   /\ Cardinality(Evidence(emitted', t)) \in Nat
                   /\ Cardinality(Evidence(emitted', t)) >= Cardinality(Evidence(emitted, t))
         /\ how # "evict" =>
              Cardinality(Evidence(emitted', TupleOf[c]))
                = Cardinality(Evidence(emitted, TupleOf[c])) + 1
<1>1. PICK new : /\ emitted' = emitted \cup {new}
                 /\ new.conn = c /\ new.tuple = TupleOf[c] /\ new.how = how
  BY DEF Pushes
<1>2. new \notin emitted
  BY <1>1 DEF Once, Pushes
<1>3. Once'
  BY <1>1, FS_AddElement, SameFiniteSets DEF Once, Pushes
<1>4. ASSUME NEW t
      PROVE  /\ IsFiniteSet(Evidence(emitted, t)) /\ IsFiniteSet(Evidence(emitted', t))
             /\ Cardinality(Evidence(emitted, t)) \in Nat
             /\ Cardinality(Evidence(emitted', t)) \in Nat
             /\ Cardinality(Evidence(emitted', t)) >= Cardinality(Evidence(emitted, t))
  <2>1. Evidence(emitted, t) \in SUBSET emitted /\ Evidence(emitted', t) \in SUBSET emitted'
    BY DEF Evidence
  <2>2. IsFiniteSet(Evidence(emitted, t)) /\ IsFiniteSet(Evidence(emitted', t))
    BY <1>3, <2>1, FS_Subset DEF Once
  <2>3. Evidence(emitted, t) \in SUBSET Evidence(emitted', t)
    BY <1>1 DEF Evidence
  <2> QED
    BY <2>2, <2>3, FS_Subset, FS_CardinalityType, SameFiniteSets
<1>5. ASSUME how # "evict"
      PROVE  Cardinality(Evidence(emitted', TupleOf[c]))
               = Cardinality(Evidence(emitted, TupleOf[c])) + 1
  <2> DEFINE E == Evidence(emitted, TupleOf[c])
  <2>1. Evidence(emitted', TupleOf[c]) = E \cup {new} /\ new \notin E
    BY <1>1, <1>2, <1>5 DEF Evidence
  <2>2. IsFiniteSet(E)
    BY <1>4
  <2> HIDE DEF E
  <2>3. Cardinality(E \cup {new}) = Cardinality(E) + 1
    BY <2>1, <2>2, FS_AddElement
  <2> QED
    BY <2>1, <2>3 DEF E
<1> QED
  BY <1>3, <1>4, <1>5

\* Scoring counts the flow that is being pushed, after a table at its cap was cleared,
\* and signals only on an entry that has enough.
LEMMA ScoreIsEarned ==
  ASSUME Scores!BehavioralAssumption, EarnInv,
         NEW c \in ScoredConns, NEW how \in {"complete", "flush"},
         Pushes(c, how), NEW peers, Scores!RecordAndScore(TupleOf[c], peers), smode' = smode
  PROVE  EarnInv'
<1> DEFINE t == TupleOf[c]
           count == Scores!With(t)[t]
<1>0. MinFlows \in Nat /\ Once /\ EntriesAreEarned /\ Earned
  BY DEF Scores!BehavioralAssumption, EarnInv
<1>1. /\ Once'
      /\ \A u : /\ Cardinality(Evidence(emitted, u)) \in Nat
                /\ Cardinality(Evidence(emitted', u)) \in Nat
                /\ Cardinality(Evidence(emitted', u)) >= Cardinality(Evidence(emitted, u))
      /\ Cardinality(Evidence(emitted', t)) = Cardinality(Evidence(emitted, t)) + 1
  BY <1>0, PushMakesEvidence
<1>2. \A u \in DOMAIN Scores!Entries :
        Scores!Entries[u] \in Nat /\ Scores!Entries[u] <= Cardinality(Evidence(emitted, u))
  BY <1>0 DEF Scores!Entries, EntriesAreEarned
<1>3. \A u \in DOMAIN Scores!With(t) :
        Scores!With(t)[u] \in Nat /\ Scores!With(t)[u] <= Cardinality(Evidence(emitted', u))
  BY <1>1, <1>2 DEF Scores!With
<1>4. t \in DOMAIN Scores!With(t)
  BY DEF Scores!With
<1>5. EntriesAreEarned'
  BY <1>0, <1>1, <1>3 DEF Scores!RecordAndScore, EntriesAreEarned
<1>6. ASSUME NEW u \in beh_suspicious'
      PROVE  Scores!behavioral_ready' /\ Cardinality(Evidence(emitted', u)) >= MinFlows
  <2>1. CASE u \in beh_suspicious
    BY <1>0, <1>1, <2>1 DEF Earned, Scores!behavioral_ready
  <2>2. CASE u \notin beh_suspicious
    <3>1. u = t /\ Scores!MaySignal(t, Scores!With(t)[t]) /\ Scores!Recorded(t, peers)
      BY <1>6, <2>2 DEF Scores!RecordAndScore
    <3> QED
      BY <1>0, <1>1, <1>3, <1>4, <3>1
         DEF Scores!MaySignal, Scores!Recorded, Scores!behavioral_ready
  <2> QED
    BY <2>1, <2>2
<1> QED
  BY <1>1, <1>5, <1>6 DEF EarnInv, Earned

LEMMA NextEarned ==
  Scores!BehavioralAssumption /\ EarnInv /\ [Scores!Next]_Scores!vars => EarnInv'
<1> SUFFICES ASSUME Scores!BehavioralAssumption, EarnInv, [Scores!Next]_Scores!vars
             PROVE  EarnInv'
  OBVIOUS
<1>0. Once /\ EntriesAreEarned /\ Earned
  BY DEF EarnInv
<1>1. ASSUME NEW c \in ScoredConns, Scores!Complete(c) PROVE EarnInv'
  <2>1. Pushes(c, "complete") /\ smode' = smode
    BY <1>1, PushIs DEF Scores!Complete
  <2> QED
    BY <1>1, <2>1, ScoreIsEarned DEF Scores!Complete, Scores!Judge
<1>2. ASSUME NEW c \in ScoredConns, Scores!Flush(c) PROVE EarnInv'
  <2>1. CASE conn[c] = "data" /\ Scores!Judge(c) /\ Scores!Push(c, "flush", FALSE)
    <3>1. Pushes(c, "flush") /\ smode' = smode
      BY <1>2, <2>1, PushIs DEF Scores!Flush
    <3> QED
      BY <2>1, <3>1, ScoreIsEarned DEF Scores!Judge
  <2>2. CASE UNCHANGED <<beh_conns, beh_suspicious, p2p_peers, emitted>>
    BY <1>0, <1>2, <2>2 DEF Scores!Flush, Scores!Leaves, EarnInv, Once, EntriesAreEarned,
       Earned, Scores!behavioral_ready
  <2> QED
    BY <1>2, <2>1, <2>2 DEF Scores!Flush
<1>3. ASSUME NEW c \in ScoredConns, Scores!Evict(c) PROVE EarnInv'
  <2>1. UNCHANGED <<smode, beh_conns, beh_suspicious>>
    BY <1>3 DEF Scores!Evict
  <2>2. CASE UNCHANGED emitted
    BY <1>0, <1>3, <2>1, <2>2 DEF Scores!Evict, Scores!Leaves, EarnInv, Once, EntriesAreEarned,
       Earned, Scores!behavioral_ready
  <2>3. CASE /\ conn[c] = "data"
             /\ Scores!Push(c, "evict",
                            Scores!behavioral_ready /\ TupleOf[c] \in beh_suspicious)
    <3>1. Pushes(c, "evict")
      BY <1>3, <2>3, PushIs DEF Scores!Evict
    <3>2. /\ Once'
          /\ \A t : /\ Cardinality(Evidence(emitted, t)) \in Nat
                    /\ Cardinality(Evidence(emitted', t)) \in Nat
                    /\ Cardinality(Evidence(emitted', t)) >= Cardinality(Evidence(emitted, t))
      BY <1>0, <3>1, PushMakesEvidence
    <3>3. EntriesAreEarned'
      BY <1>0, <2>1, <3>2 DEF EntriesAreEarned
    <3>4. Earned'
      <4>1. MinFlows \in Nat
        BY DEF Scores!BehavioralAssumption
      <4> QED
        BY <1>0, <2>1, <3>2, <4>1 DEF Earned, Scores!behavioral_ready
    <3> QED
      BY <3>2, <3>3, <3>4 DEF EarnInv
  <2> QED
    BY <1>3, <2>2, <2>3 DEF Scores!Evict
<1>4. ASSUME NEW c \in ScoredConns, Scores!Packets(c) PROVE EarnInv'
  <2>1. /\ UNCHANGED <<smode, beh_conns, beh_suspicious, emitted>> /\ conn[c] # "gone"
        /\ \E s \in {"syn", "data", "fin"} : conn' = [conn EXCEPT ![c] = s]
    <3>1. \A s \in {"syn", "data", "fin"} : ~(Scores!Rank("gone") < Scores!Rank(s))
      BY DEF Scores!Rank
    <3> QED
      BY <1>4, <3>1 DEF Scores!Packets
  <2> QED
    BY <1>0, <2>1 DEF EarnInv, Once, EntriesAreEarned, Earned, Scores!behavioral_ready
<1>5. CASE Scores!EndCapture \/ UNCHANGED Scores!vars
  BY <1>0, <1>5 DEF Scores!EndCapture, Scores!vars, EarnInv, Once, EntriesAreEarned, Earned,
     Scores!behavioral_ready
<1> QED
  BY <1>1, <1>2, <1>3, <1>4, <1>5 DEF Scores!Next

\* However often the table of tuples is cleared and whatever the models say, a tuple
\* signals only after min_flows flows of it were recorded, and never in training export.
THEOREM SignalsAreEarned ==
  Scores!BehavioralAssumption => (Scores!Spec => []Scores!SignalIsEarned)
<1> SUFFICES ASSUME Scores!BehavioralAssumption PROVE Scores!Spec => []Scores!SignalIsEarned
  OBVIOUS
<1>1. Scores!Init => EarnInv
  BY FS_EmptySet, SameFiniteSets DEF Scores!Init, EarnInv, Once, EntriesAreEarned, Earned
<1>2. EarnInv => Scores!SignalIsEarned
  BY SameFiniteSets, Zenon DEF EarnInv, Earned, Evidence, Scores!SignalIsEarned
<1> QED
  BY <1>1, <1>2, NextEarned, PTL DEF Scores!Spec

\* The types of Behavioral; a connection is pushed once.
ScoreTypes ==
  /\ smode \in BehModes /\ phase \in {"capture", "flush"}
  /\ DOMAIN beh_conns \subseteq Tuples /\ IsFiniteSet(DOMAIN beh_conns)
  /\ Cardinality(DOMAIN beh_conns) <= MaxBehConns + 1
  /\ \A t \in DOMAIN beh_conns : beh_conns[t] \in Nat \ {0}
  /\ beh_suspicious \subseteq Tuples /\ p2p_peers \subseteq Endpoints
  /\ emitted \subseteq Emission
  /\ \A d, e \in emitted : d.conn = e.conn => d = e

\* The table of tuples is cleared before it grows past its cap by more than one.
LEMMA ScoreKeepsTypes ==
  ASSUME Scores!BehavioralAssumption, ScoreTypes, NEW t \in Tuples, NEW peers,
         Scores!RecordAndScore(t, peers)
  PROVE  /\ DOMAIN beh_conns' \subseteq Tuples /\ IsFiniteSet(DOMAIN beh_conns')
         /\ Cardinality(DOMAIN beh_conns') <= MaxBehConns + 1
         /\ \A u \in DOMAIN beh_conns' : beh_conns'[u] \in Nat \ {0}
         /\ beh_suspicious' \subseteq Tuples
<1> DEFINE D == DOMAIN Scores!Entries
<1>1. MaxBehConns \in Nat /\ Cardinality(DOMAIN beh_conns) \in Nat
  BY FS_CardinalityType DEF Scores!BehavioralAssumption, ScoreTypes
<1>2. /\ D \subseteq Tuples /\ IsFiniteSet(D) /\ Cardinality(D) <= MaxBehConns
      /\ \A u \in D : Scores!Entries[u] \in Nat \ {0}
  <2>1. CASE Cardinality(DOMAIN beh_conns) > MaxBehConns
    <3>1. D = {}
      BY <2>1, SameFiniteSets DEF Scores!Entries
    <3> QED
      BY <1>1, <3>1, FS_EmptySet
  <2>2. CASE ~(Cardinality(DOMAIN beh_conns) > MaxBehConns)
    <3>1. Scores!Entries = beh_conns
      BY <2>2, SameFiniteSets DEF Scores!Entries
    <3> QED
      BY <1>1, <2>2, <3>1 DEF ScoreTypes
  <2> QED
    BY <2>1, <2>2
<1>3. /\ DOMAIN Scores!With(t) = D \cup {t}
      /\ \A u \in D \cup {t} : Scores!With(t)[u] \in Nat \ {0}
  <2>1. \A u \in D \cup {t} : Scores!With(t)[u] =
          (IF u \in D THEN Scores!Entries[u] ELSE 0) + (IF u = t THEN 1 ELSE 0)
    BY DEF Scores!With
  <2>2. DOMAIN Scores!With(t) = D \cup {t}
    BY DEF Scores!With
  <2> HIDE DEF D
  <2> QED
    BY <1>2, <2>1, <2>2
<1> HIDE DEF D
<1>4. /\ IsFiniteSet(D \cup {t})
      /\ Cardinality(D \cup {t}) \in {Cardinality(D), Cardinality(D) + 1}
  BY <1>2, FS_AddElement
<1>5. Cardinality(D \cup {t}) <= MaxBehConns + 1
  BY <1>1, <1>2, <1>4, FS_CardinalityType
<1>6. CASE beh_conns' = Scores!With(t)
  BY <1>2, <1>3, <1>4, <1>5, <1>6 DEF Scores!RecordAndScore, ScoreTypes
<1>7. CASE UNCHANGED <<beh_conns, beh_suspicious>>
  BY <1>7 DEF ScoreTypes
<1> QED
  BY <1>6, <1>7 DEF Scores!RecordAndScore

LEMMA PushKeepsTypes ==
  ASSUME Scores!BehavioralAssumption, Once, ScoreTypes, NEW c \in ScoredConns,
         conn[c] # "gone", NEW how \in {"complete", "evict", "flush"},
         NEW suspect \in BOOLEAN, Scores!Push(c, how, suspect)
  PROVE  /\ emitted' \subseteq Emission
         /\ \A d, e \in emitted' : d.conn = e.conn => d = e
<1> DEFINE new == [conn |-> c, tuple |-> TupleOf[c], how |-> how, suspect |-> suspect,
                   flagged |-> TupleOf[c] \in beh_suspicious']
<1>1. emitted' = emitted \cup {new} /\ new.conn = c
  BY Zenon DEF Scores!Push
<1>2. new \in Emission
  <2>1. TupleOf[c] \in Tuples
    BY DEF Scores!BehavioralAssumption
  <2>2. (TupleOf[c] \in beh_suspicious') \in BOOLEAN
    OBVIOUS
  <2> QED
    BY <2>1, <2>2, Zenon DEF Emission
<1>3. \A e \in emitted : e.conn # c
  BY DEF Once
<1> HIDE DEF new
<1> QED
  BY <1>1, <1>2, <1>3 DEF ScoreTypes

LEMMA NextScoreTypes ==
  Scores!BehavioralAssumption /\ Once /\ ScoreTypes /\ [Scores!Next]_Scores!vars
    => ScoreTypes'
<1> SUFFICES ASSUME Scores!BehavioralAssumption, Once, ScoreTypes,
                    [Scores!Next]_Scores!vars
             PROVE  ScoreTypes'
  OBVIOUS
<1>1. ASSUME NEW c \in ScoredConns
      PROVE  TupleOf[c] \in Tuples /\ Ends[TupleOf[c]] \subseteq Endpoints
  BY DEF Scores!BehavioralAssumption
<1>2. ASSUME NEW c \in ScoredConns, Scores!Judge(c), conn[c] # "gone",
             NEW how \in {"complete", "flush"}, NEW suspect \in BOOLEAN,
             Scores!Push(c, how, suspect), UNCHANGED <<smode, phase>>
      PROVE  ScoreTypes'
  <2>1. PICK bittorrent \in BOOLEAN :
          /\ p2p_peers' = p2p_peers \cup (IF bittorrent THEN Ends[TupleOf[c]] ELSE {})
          /\ Scores!RecordAndScore(TupleOf[c], p2p_peers')
    BY <1>2 DEF Scores!Judge
  <2>2. p2p_peers' \subseteq Endpoints
    BY <1>1, <2>1 DEF ScoreTypes
  <2>3. /\ emitted' \subseteq Emission
        /\ \A d, e \in emitted' : d.conn = e.conn => d = e
    BY <1>2, PushKeepsTypes
  <2>4. /\ DOMAIN beh_conns' \subseteq Tuples /\ IsFiniteSet(DOMAIN beh_conns')
        /\ Cardinality(DOMAIN beh_conns') <= MaxBehConns + 1
        /\ \A u \in DOMAIN beh_conns' : beh_conns'[u] \in Nat \ {0}
        /\ beh_suspicious' \subseteq Tuples
    BY <1>1, <2>1, ScoreKeepsTypes
  <2> QED
    BY <1>2, <2>2, <2>3, <2>4 DEF ScoreTypes
<1>3. ASSUME NEW c \in ScoredConns, Scores!Complete(c) PROVE ScoreTypes'
  <2>1. (Scores!behavioral_ready /\ TupleOf[c] \in beh_suspicious') \in BOOLEAN
    OBVIOUS
  <2> QED
    BY <1>2, <1>3, <2>1 DEF Scores!Complete
<1>4. ASSUME NEW c \in ScoredConns, Scores!Flush(c) PROVE ScoreTypes'
  <2>1. CASE UNCHANGED <<beh_conns, beh_suspicious, p2p_peers, emitted>>
    BY <1>4, <2>1 DEF Scores!Flush, ScoreTypes
  <2>2. CASE conn[c] = "data" /\ Scores!Judge(c) /\ Scores!Push(c, "flush", FALSE)
    BY <1>2, <1>4, <2>2 DEF Scores!Flush
  <2> QED
    BY <1>4, <2>1, <2>2 DEF Scores!Flush
<1>5. ASSUME NEW c \in ScoredConns, Scores!Evict(c) PROVE ScoreTypes'
  <2>1. /\ UNCHANGED <<smode, phase, beh_conns, beh_suspicious, p2p_peers>>
        /\ conn[c] # "gone"
    BY <1>5 DEF Scores!Evict
  <2>2. CASE UNCHANGED emitted
    BY <2>1, <2>2 DEF ScoreTypes
  <2>3. CASE Scores!Push(c, "evict", Scores!behavioral_ready /\ TupleOf[c] \in beh_suspicious)
    <3>1. (Scores!behavioral_ready /\ TupleOf[c] \in beh_suspicious) \in BOOLEAN
      OBVIOUS
    <3>2. /\ emitted' \subseteq Emission
          /\ \A d, e \in emitted' : d.conn = e.conn => d = e
      BY <2>1, <2>3, <3>1, PushKeepsTypes
    <3> QED
      BY <2>1, <3>2 DEF ScoreTypes
  <2> QED
    BY <1>5, <2>2, <2>3 DEF Scores!Evict
<1>6. ASSUME NEW c \in ScoredConns, Scores!Packets(c) PROVE ScoreTypes'
  BY <1>6 DEF Scores!Packets, ScoreTypes
<1>7. CASE Scores!EndCapture \/ UNCHANGED Scores!vars
  BY <1>7 DEF Scores!EndCapture, Scores!vars, ScoreTypes
<1> QED
  BY <1>3, <1>4, <1>5, <1>6, <1>7 DEF Scores!Next

\* The table of tuples keeps to MAX_BEH_CONNS and one entry, and no entry counts more
\* flows than there are connections, however often it is cleared.
THEOREM ScoresAreTyped == Scores!BehavioralAssumption => (Scores!Spec => []Scores!TypeOK)
<1> SUFFICES ASSUME Scores!BehavioralAssumption PROVE Scores!Spec => []Scores!TypeOK
  OBVIOUS
<1>1. Scores!Init => EarnInv /\ ScoreTypes
  BY FS_EmptySet, SameFiniteSets DEF Scores!Init, EarnInv, Once, EntriesAreEarned, Earned,
     ScoreTypes, Scores!BehavioralAssumption
<1>2. EarnInv => Once
  BY DEF EarnInv
<1>3. EarnInv /\ ScoreTypes => Scores!TypeOK
  <2> SUFFICES ASSUME EarnInv, ScoreTypes PROVE Scores!TypeOK
    OBVIOUS
  <2>1. Once /\ EntriesAreEarned
    BY DEF EarnInv
  <2>2. IsFiniteSet(ScoredConns)
    BY SameFiniteSets DEF Scores!BehavioralAssumption
  <2>3. Cardinality(emitted) <= Cardinality(ScoredConns)
    <3> DEFINE f == [e \in emitted |-> e.conn]
    <3>1. f \in Injection(emitted, ScoredConns)
      BY <2>1 DEF Once, ScoreTypes, Injection, IsInjective
    <3> HIDE DEF f
    <3> QED
      BY <2>2, <3>1, FS_Injection
  <2>4. ASSUME NEW t \in DOMAIN beh_conns PROVE beh_conns[t] \in 1 .. Cardinality(ScoredConns)
    <3>1. Evidence(emitted, t) \in SUBSET emitted
      BY DEF Evidence
    <3>2. /\ Cardinality(Evidence(emitted, t)) <= Cardinality(emitted)
          /\ Cardinality(Evidence(emitted, t)) \in Nat
      BY <2>1, <3>1, FS_Subset, FS_CardinalityType DEF Once
    <3>3. /\ beh_conns[t] \in Nat \ {0}
          /\ beh_conns[t] <= Cardinality(Evidence(emitted, t))
      BY <2>1 DEF EntriesAreEarned, ScoreTypes
    <3>4. Cardinality(emitted) \in Nat /\ Cardinality(ScoredConns) \in Nat
      BY <2>1, <2>2, FS_CardinalityType DEF Once
    <3> QED
      BY <2>3, <3>2, <3>3, <3>4
  <2> QED
    BY <2>1, <2>4, SameFiniteSets DEF Scores!TypeOK, ScoreTypes, Once, Emission
<1> QED
  BY <1>1, <1>2, <1>3, NextEarned, NextScoreTypes, PTL DEF Scores!Spec

\* In live mode no tuple signals once an end of it was seen in a torrent, the payload
\* that shows it included.
THEOREM PeersAreExcluded == Scores!Spec => Scores!PeersNeverSignal
<1>1. [Scores!Next]_Scores!vars => [\A t \in beh_suspicious' \ beh_suspicious :
                        smode = "live" => Ends[t] \cap p2p_peers' = {}]_Scores!vars
  <2> SUFFICES ASSUME [Scores!Next]_Scores!vars,
                      NEW t \in beh_suspicious' \ beh_suspicious, smode = "live"
               PROVE  Ends[t] \cap p2p_peers' = {}
    OBVIOUS
  <2>1. PICK c \in ScoredConns : Scores!Complete(c) \/ Scores!Flush(c)
    BY DEF Scores!Next, Scores!EndCapture, Scores!Packets, Scores!Evict, Scores!vars
  <2>2. Scores!RecordAndScore(TupleOf[c], p2p_peers')
    BY <2>1 DEF Scores!Complete, Scores!Flush, Scores!Judge
  <2> QED
    BY <2>2 DEF Scores!RecordAndScore, Scores!Recorded, Scores!Excluded
<1> QED
  BY <1>1, PTL DEF Scores!Spec, Scores!PeersNeverSignal
-------------------------------------------------------------------------------
(* The model of the scores: sums                                               *)

\* One term of a sum is taken out.
LEMMA SumRemove ==
  ASSUME NEW U, IsFiniteSet(U), NEW f, \A x \in U : f[x] \in Nat
  PROVE  /\ Sum(f, {}) = 0
         /\ \A T \in SUBSET U : \A x \in T : Sum(f, T) = f[x] + Sum(f, T \ {x})
<1>1. ASSUME NEW T \in SUBSET U
      PROVE  /\ Sum(f, T) = Cardinality(Units(f, T))
             /\ IsFiniteSet(Units(f, T))
             /\ IsFiniteSet(T)
  <2>1. IsFiniteSet(T) /\ \A x \in T : f[x] \in Nat
    BY FS_Subset
  <2> QED
    BY <2>1, SumIsUnits
<1>2. Sum(f, {}) = 0
  <2>1. Units(f, {}) = {}
    BY DEF Units
  <2> QED
    BY <1>1, <2>1, FS_EmptySet
<1>3. ASSUME NEW T \in SUBSET U, NEW x \in T
      PROVE  Sum(f, T) = f[x] + Sum(f, T \ {x})
  <2> DEFINE A == Units(f, T \ {x})
             B == {x} \X (1 .. f[x])
  <2>1. IsFiniteSet(B) /\ Cardinality(B) = f[x]
    BY UnitsOfOne
  <2>2. Units(f, T) = A \cup B
    <3>1. ASSUME NEW y \in T, NEW n \in Nat
          PROVE  <<y, n>> \in Units(f, T) <=> <<y, n>> \in A \cup B
      <4>1. CASE y = x
        BY <4>1 DEF Units
      <4>2. CASE y # x
        BY <4>2 DEF Units
      <4> QED
        BY <4>1, <4>2
    <3>2. Units(f, T) \subseteq T \X Nat /\ A \cup B \subseteq T \X Nat
      BY DEF Units
    <3>3. \A u \in T \X Nat : u = <<u[1], u[2]>> /\ u[1] \in T /\ u[2] \in Nat
      OBVIOUS
    <3> HIDE DEF A, B
    <3>4. \A u \in T \X Nat : u \in Units(f, T) <=> u \in A \cup B
      BY <3>1, <3>3
    <3> QED
      BY <3>2, <3>4
  <2>3. A \cap B = {}
    BY DEF Units
  <2>4. /\ IsFiniteSet(A) /\ Sum(f, T \ {x}) = Cardinality(A)
        /\ Sum(f, T) = Cardinality(Units(f, T))
    BY <1>1
  <2> HIDE DEF A, B
  <2>5. Cardinality(A \cup B) = Cardinality(A) + Cardinality(B) - Cardinality(A \cap B)
    BY <2>1, <2>4, FS_Union
  <2>6. Cardinality(A \cap B) = 0 /\ Cardinality(A) \in Nat
    BY <2>3, <2>4, FS_EmptySet, FS_CardinalityType
  <2> QED
    BY <2>1, <2>2, <2>4, <2>5, <2>6
<1> QED
  BY <1>2, <1>3

LEMMA SumIsNat ==
  ASSUME NEW U, IsFiniteSet(U), NEW f, \A x \in U : f[x] \in Nat, NEW T \in SUBSET U
  PROVE  Sum(f, T) \in Nat
<1>1. IsFiniteSet(T) /\ \A x \in T : f[x] \in Nat
  BY FS_Subset
<1>2. Sum(f, T) = Cardinality(Units(f, T)) /\ IsFiniteSet(Units(f, T))
  BY <1>1, SumIsUnits
<1> QED
  BY <1>2, FS_CardinalityType

\* A sum depends on nothing but the terms.
LEMMA SumOfSame ==
  ASSUME NEW U, IsFiniteSet(U), NEW f, NEW g, \A x \in U : f[x] = g[x] /\ g[x] \in Nat
  PROVE  Sum(f, U) = Sum(g, U)
<1>1. Units(f, U) = Units(g, U)
  BY DEF Units
<1>2. Sum(f, U) = Cardinality(Units(f, U)) /\ Sum(g, U) = Cardinality(Units(g, U))
  BY SumIsUnits
<1> QED
  BY <1>1, <1>2

\* Sums are added, and doubled, term by term.
LEMMA SumPlus ==
  ASSUME NEW U, IsFiniteSet(U), NEW f, NEW g, NEW h,
         \A x \in U : f[x] \in Nat /\ g[x] \in Nat /\ h[x] = f[x] + g[x]
  PROVE  Sum(h, U) = Sum(f, U) + Sum(g, U)
<1> DEFINE w == [T \in SUBSET U |-> Sum(f, T) + Sum(g, T)]
<1>1. /\ Sum(f, {}) = 0 /\ Sum(g, {}) = 0
      /\ \A T \in SUBSET U : \A x \in T : /\ Sum(f, T) = f[x] + Sum(f, T \ {x})
                                          /\ Sum(g, T) = g[x] + Sum(g, T \ {x})
  BY SumRemove
<1>2. \A T \in SUBSET U : Sum(f, T) \in Nat /\ Sum(g, T) \in Nat
  BY SumIsNat
<1>3. w[{}] = 0
  BY <1>1
<1>4. ASSUME NEW T \in SUBSET U, NEW x \in T
      PROVE  w[T] = h[x] + w[T \ {x}]
  <2>1. w[T] = Sum(f, T) + Sum(g, T) /\ w[T \ {x}] = Sum(f, T \ {x}) + Sum(g, T \ {x})
    OBVIOUS
  <2>2. Sum(f, T \ {x}) \in Nat /\ Sum(g, T \ {x}) \in Nat
    BY <1>2
  <2> HIDE DEF w
  <2> QED
    BY <1>1, <2>1, <2>2
<1>5. w[U] = Sum(f, U) + Sum(g, U)
  OBVIOUS
<1> HIDE DEF w
<1>6. AddsUp(w, h, U)
  BY <1>3, <1>4 DEF AddsUp
<1>7. Sum(h, U) = w[U]
  BY <1>6, SumIs
<1> QED
  BY <1>5, <1>7

\* Terms that are zero may be left out.
LEMMA SumOfRest ==
  ASSUME NEW V, IsFiniteSet(V), NEW U \in SUBSET V, NEW f, \A x \in U : f[x] \in Nat,
         \A x \in V \ U : f[x] = 0
  PROVE  Sum(f, V) = Sum(f, U)
<1>1. Units(f, V) = Units(f, U)
  <2>1. \A x \in V \ U : 1 .. f[x] = {}
    OBVIOUS
  <2> QED
    BY <2>1 DEF Units
<1>2. IsFiniteSet(U) /\ \A x \in V : f[x] \in Nat
  BY FS_Subset
<1>3. Sum(f, V) = Cardinality(Units(f, V)) /\ Sum(f, U) = Cardinality(Units(f, U))
  BY <1>2, SumIsUnits
<1> QED
  BY <1>1, <1>3

\* Terms may be taken by other names: h names those of f, each once.
LEMMA SumOfImage ==
  ASSUME NEW D, IsFiniteSet(D), NEW h, \A d, e \in D : h[d] = h[e] => d = e,
         NEW f, NEW g, \A d \in D : g[d] \in Nat /\ f[h[d]] = g[d]
  PROVE  /\ IsFiniteSet({h[d] : d \in D})
         /\ Sum(f, {h[d] : d \in D}) = Sum(g, D)
<1> DEFINE P == {h[d] : d \in D}
           Of(T) == {d \in D : h[d] \in T}
           w == [T \in SUBSET P |-> Sum(g, Of(T))]
<1>1. IsFiniteSet(P)
  <2> DEFINE k == [d \in D |-> h[d]]
  <2>1. k \in Surjection(D, P)
    BY DEF Surjection
  <2> HIDE DEF k, P
  <2> QED
    BY <2>1, FS_Surjection
<1>2. /\ Sum(g, {}) = 0
      /\ \A T \in SUBSET D : \A d \in T : Sum(g, T) = g[d] + Sum(g, T \ {d})
  BY SumRemove
<1>3. w[{}] = 0
  <2>1. Of({}) = {}
    OBVIOUS
  <2> QED
    BY <1>2, <2>1
<1>4. ASSUME NEW T \in SUBSET P, NEW x \in T
      PROVE  w[T] = f[x] + w[T \ {x}]
  <2>1. PICK d \in D : h[d] = x
    OBVIOUS
  <2>2. d \in Of(T) /\ Of(T) \in SUBSET D /\ Of(T \ {x}) = Of(T) \ {d}
    BY <2>1
  <2>3. w[T] = Sum(g, Of(T)) /\ w[T \ {x}] = Sum(g, Of(T \ {x}))
    BY Zenon
  <2>4. Sum(g, Of(T)) = g[d] + Sum(g, Of(T) \ {d})
    <3> HIDE DEF Of
    <3> QED
      BY <1>2, <2>2
  <2> HIDE DEF Of, w
  <2> QED
    BY <2>1, <2>2, <2>3, <2>4
<1>5. w[P] = Sum(g, D)
  <2>1. Of(P) = D
    OBVIOUS
  <2>2. w[P] = Sum(g, Of(P))
    BY Zenon
  <2> QED
    BY <2>1, <2>2
<1> HIDE DEF w, P
<1>6. AddsUp(w, f, P)
  BY <1>3, <1>4 DEF AddsUp
<1>7. Sum(f, P) = w[P]
  BY <1>1, <1>6, SumIs
<1> QED
  BY <1>1, <1>5, <1>7 DEF P

\* The elements of a finite set are counted by what s makes of them.
LEMMA SumOfFibres ==
  ASSUME NEW K, IsFiniteSet(K), NEW A, IsFiniteSet(A), NEW s, \A i \in K : s[i] \in A
  PROVE  Sum([a \in A |-> Cardinality({i \in K : s[i] = a})], A) = Cardinality(K)
<1> DEFINE f == [a \in A |-> Cardinality({i \in K : s[i] = a})]
           w == [T \in SUBSET A |-> Cardinality({i \in K : s[i] \in T})]
<1>1. \A X \in SUBSET K : IsFiniteSet(X) /\ Cardinality(X) \in Nat
  BY FS_Subset, FS_CardinalityType
<1>2. w[{}] = 0
  <2>1. {i \in K : s[i] \in {}} = {}
    OBVIOUS
  <2> QED
    BY <2>1, FS_EmptySet
<1>3. ASSUME NEW T \in SUBSET A, NEW a \in T
      PROVE  w[T] = f[a] + w[T \ {a}]
  <2> DEFINE X == {i \in K : s[i] = a}
             Y == {i \in K : s[i] \in T \ {a}}
  <2>1. {i \in K : s[i] \in T} = X \cup Y /\ X \cap Y = {}
    OBVIOUS
  <2>2. X \in SUBSET K /\ Y \in SUBSET K
    OBVIOUS
  <2>3. w[T] = Cardinality(X \cup Y) /\ f[a] = Cardinality(X) /\ w[T \ {a}] = Cardinality(Y)
    BY <2>1
  <2> HIDE DEF X, Y, w, f
  <2>4. Cardinality(X \cup Y) = Cardinality(X) + Cardinality(Y) - Cardinality(X \cap Y)
    BY <1>1, <2>2, FS_Union
  <2>5. Cardinality(X \cap Y) = 0
    BY <2>1, FS_EmptySet
  <2>6. Cardinality(X) \in Nat /\ Cardinality(Y) \in Nat
    BY <1>1, <2>2
  <2> QED
    BY <2>3, <2>4, <2>5, <2>6
<1>4. w[A] = Cardinality(K)
  <2>1. {i \in K : s[i] \in A} = K
    OBVIOUS
  <2> QED
    BY <2>1
<1> HIDE DEF w, f
<1>5. AddsUp(w, f, A)
  BY <1>2, <1>3 DEF AddsUp
<1>6. Sum(f, A) = w[A]
  BY <1>5, SumIs
<1> QED
  BY <1>4, <1>6 DEF f

-------------------------------------------------------------------------------
(* The model of the scores: rows of a table of counts                          *)

LEMMA AddedIsSum ==
  ASSUME NEW f
  PROVE  Markov!Added(f) = Sum(f, DOMAIN f)
BY Zenon DEF Markov!Added, Markov!MapThenSumSet, Markov!MapThenFoldSet,
   Sum, MapThenSumSet, MapThenFoldSet

Row(m, c) == [d \in m.alphabet |-> Markov!Count(m, c, d)]
Visited(counts) == {p[1] : p \in DOMAIN counts} \cup {p[2] : p \in DOMAIN counts}

\* The counts are of moves within a finite alphabet, and the total of a row is its sum.
Consistent(m) ==
  /\ IsFiniteSet(m.alphabet)
  /\ DOMAIN m.counts \subseteq m.alphabet \X m.alphabet
  /\ m.counts \in [DOMAIN m.counts -> Nat]
  /\ DOMAIN m.row_totals \subseteq m.alphabet
  /\ \A c \in m.alphabet : Markov!Total(m, c) = Sum(Row(m, c), m.alphabet)

LEMMA CountsAreNat ==
  ASSUME NEW m, Consistent(m), NEW c, NEW d
  PROVE  /\ Markov!Count(m, c, d) \in Nat
         /\ c \notin m.alphabet \/ d \notin m.alphabet => Markov!Count(m, c, d) = 0
BY DEF Consistent, Markov!Count

\* With add-1/2 smoothing each row of such a table is a distribution.
LEMMA RowsAreDistributions ==
  ASSUME NEW m, Consistent(m)
  PROVE  Markov!Distribution(m)
<1> SUFFICES ASSUME NEW c \in m.alphabet
             PROVE  Markov!Added([d \in m.alphabet |-> Markov!log_prob(m, c, d)[1]])
                      = Markov!log_prob(m, c, c)[2]
  BY DEF Markov!Distribution
<1> DEFINE A == m.alphabet
           f == Row(m, c)
           g == [d \in A |-> 2 * Markov!Count(m, c, d)]
           one == [d \in A |-> 1]
           h == [d \in A |-> Markov!log_prob(m, c, d)[1]]
<1>1. IsFiniteSet(A) /\ Cardinality(A) \in Nat /\ Markov!Total(m, c) = Sum(f, A)
  BY FS_CardinalityType DEF Consistent
<1>2. \A d \in A : /\ f[d] \in Nat /\ g[d] = f[d] + f[d] /\ g[d] \in Nat
                   /\ one[d] = 1 /\ h[d] = g[d] + one[d]
  <2>1. \A d \in A : h[d] = 2 * Markov!Count(m, c, d) + 1
    BY DEF Markov!log_prob
  <2>2. \A d \in A : f[d] = Markov!Count(m, c, d)
    BY DEF Row
  <2>3. \A d \in A : Markov!Count(m, c, d) \in Nat
    BY CountsAreNat
  <2>4. \A d \in A : g[d] = 2 * Markov!Count(m, c, d) /\ one[d] = 1
    OBVIOUS
  <2> HIDE DEF f, g, one, h, A
  <2> QED
    BY <2>1, <2>2, <2>3, <2>4
<1>3. Markov!log_prob(m, c, c)[2] = 2 * Sum(f, A) + Cardinality(A)
  BY <1>1, SameFiniteSets DEF Markov!log_prob
<1>4. Markov!Added(h) = Sum(h, A)
  BY AddedIsSum
<1> HIDE DEF A, f, g, one, h
<1>5. Sum(g, A) = Sum(f, A) + Sum(f, A)
  BY <1>1, <1>2, SumPlus
<1>6. Sum(h, A) = Sum(g, A) + Sum(one, A)
  BY <1>1, <1>2, SumPlus
<1>7. Sum(one, A) = Cardinality(A) * 1
  BY <1>1, <1>2, SumOfEqual
<1>8. Sum(f, A) \in Nat
  BY <1>1, <1>2, SumIsNat
<1>9. Markov!Added(h) = 2 * Sum(f, A) + Cardinality(A)
  BY <1>1, <1>4, <1>5, <1>6, <1>7, <1>8
<1> QED
  BY <1>3, <1>9 DEF h, A

\* Models with the same counts and the same alphabet score alike.
LEMMA SameCountsScoreAlike ==
  ASSUME NEW m, Consistent(m), NEW k, Consistent(k),
         k.counts = m.counts, k.alphabet = m.alphabet, NEW s
  PROVE  Markov!score(k, s) = Markov!score(m, s)
<1>1. \A c, d : Markov!Count(k, c, d) = Markov!Count(m, c, d)
  BY DEF Markov!Count
<1>2. \A c : Row(k, c) = Row(m, c)
  BY <1>1 DEF Row
<1>3. \A c : Markov!Total(k, c) = Markov!Total(m, c)
  <2> SUFFICES ASSUME NEW c PROVE Markov!Total(k, c) = Markov!Total(m, c)
    OBVIOUS
  <2>1. CASE c \in m.alphabet
    BY <1>2, <2>1 DEF Consistent
  <2>2. CASE c \notin m.alphabet
    BY <2>2 DEF Consistent, Markov!Total
  <2> QED
    BY <2>1, <2>2
<1>4. \A c, d : Markov!log_prob(k, c, d) = Markov!log_prob(m, c, d)
  BY <1>1, <1>3 DEF Markov!log_prob
<1> QED
  BY <1>4 DEF Markov!score

-------------------------------------------------------------------------------
(* Training                                                                    *)

\* The moves of a string, how often it makes one, and how often it leaves a letter.
Moves(s) == {<<s[i - 1], s[i]>> : i \in 2 .. Len(s)}
Made(s, p) == Cardinality({i \in 2 .. Len(s) : <<s[i - 1], s[i]>> = p})
Left(s, c) == Cardinality({i \in 1 .. Len(s) - 1 : s[i] = c})

\* The moves of s from c are counted once by where they go, and once by where they start.
LEMMA MovesFrom ==
  ASSUME NEW X, NEW s \in Seq(X), NEW A, IsFiniteSet(A), \A i \in 1 .. Len(s) : s[i] \in A,
         NEW c
  PROVE  Sum([d \in A |-> Made(s, <<c, d>>)], A) = Left(s, c)
<1> DEFINE n == Len(s)
           K == {i \in 2 .. n : s[i - 1] = c}
           L == {i \in 1 .. n - 1 : s[i] = c}
           F == [d \in A |-> Cardinality({i \in 2 .. n : <<s[i - 1], s[i]>> = <<c, d>>})]
<1>1. n \in Nat
  OBVIOUS
<1>2. IsFiniteSet(K) /\ \A i \in K : s[i] \in A
  <2>1. IsFiniteSet(2 .. n) /\ K \in SUBSET (2 .. n)
    BY <1>1, FS_Interval
  <2>2. \A i \in K : i \in 1 .. n
    BY <1>1
  <2> HIDE DEF K, n
  <2>3. IsFiniteSet(K)
    BY <2>1, FS_Subset
  <2> QED
    BY <2>2, <2>3 DEF n
<1>3. F = [d \in A |-> Cardinality({i \in K : s[i] = d})]
  <2>1. \A d \in A : {i \in 2 .. n : <<s[i - 1], s[i]>> = <<c, d>>} = {i \in K : s[i] = d}
    OBVIOUS
  <2> HIDE DEF K
  <2> QED
    BY <2>1
<1>4. Sum([d \in A |-> Cardinality({i \in K : s[i] = d})], A) = Cardinality(K)
  <2> HIDE DEF K
  <2> QED
    BY <1>2, SumOfFibres
<1>5. Cardinality(K) = Cardinality(L)
  <2> DEFINE h == [i \in K |-> i - 1]
  <2>1. h \in [K -> L]
    BY <1>1
  <2>2. \A i, j \in K : h[i] = h[j] => i = j
    BY <1>1
  <2>3. \A j \in L : \E i \in K : h[i] = j
    <3> SUFFICES ASSUME NEW j \in L PROVE \E i \in K : h[i] = j
      OBVIOUS
    <3>1. j + 1 \in K /\ h[j + 1] = j
      BY <1>1
    <3> QED
      BY <3>1
  <2> HIDE DEF h, K, L
  <2>4. h \in Bijection(K, L)
    BY <2>1, <2>2, <2>3 DEF Bijection, Injection, Surjection, IsInjective
  <2>5. ExistsBijection(K, L)
    BY <2>4 DEF ExistsBijection
  <2> QED
    BY <1>2, <2>5, FS_Bijection
<1>6. [d \in A |-> Made(s, <<c, d>>)] = F /\ Left(s, c) = Cardinality(L)
  BY Zenon DEF Made, Left
<1> HIDE DEF F, K, L
<1> QED
  BY <1>3, <1>4, <1>5, <1>6

\* A string adds its moves to the counts, and as many to the totals of their rows.
Adds(o, m, s) ==
  /\ o.counts = [p \in DOMAIN m.counts \cup Moves(s) |->
                   Markov!Count(m, p[1], p[2]) + Made(s, p)]
  /\ o.row_totals = [c \in DOMAIN m.row_totals \cup {p[1] : p \in Moves(s)} |->
                       Markov!Total(m, c) + Left(s, c)]
  /\ o.alphabet = m.alphabet \cup {s[i] : i \in 1 .. Len(s)}

LEMMA ObserveAdds ==
  ASSUME NEW m, NEW X, NEW s \in Seq(X), Len(s) >= 2
  PROVE  Adds(Markov!observe(m, s), m, s)
<1> DEFINE made(p) == Markov!Cardinality({i \in 2 .. Len(s) : <<s[i - 1], s[i]>> = p})
           left(c) == Markov!Cardinality({i \in 1 .. Len(s) - 1 : s[i] = c})
           counts == [p \in DOMAIN m.counts \cup Moves(s) |->
                        Markov!Count(m, p[1], p[2]) + made(p)]
           totals == [c \in DOMAIN m.row_totals \cup Markov!Froms([p \in Moves(s) |-> 0]) |->
                        Markov!Total(m, c) + left(c)]
           alphabet == m.alphabet \cup Markov!Range(s)
<1>1. ~(Len(s) < 2)
  OBVIOUS
<1>2. Markov!observe(m, s) = [counts |-> counts, row_totals |-> totals, alphabet |-> alphabet]
  BY <1>1, Zenon DEF Markov!observe, Moves
<1>3. Markov!Froms([p \in Moves(s) |-> 0]) = {p[1] : p \in Moves(s)}
  BY DEF Markov!Froms
<1>4. Markov!Range(s) = {s[i] : i \in 1 .. Len(s)}
  BY DEF Markov!Range
<1>5. (\A p : made(p) = Made(s, p)) /\ \A c : left(c) = Left(s, c)
  BY SameFiniteSets, Zenon DEF Made, Left
<1>6. /\ counts = [p \in DOMAIN m.counts \cup Moves(s) |->
                     Markov!Count(m, p[1], p[2]) + Made(s, p)]
      /\ totals = [c \in DOMAIN m.row_totals \cup {p[1] : p \in Moves(s)} |->
                     Markov!Total(m, c) + Left(s, c)]
      /\ alphabet = m.alphabet \cup {s[i] : i \in 1 .. Len(s)}
  <2> HIDE DEF made, left
  <2> QED
    BY <1>3, <1>4, <1>5, Zenon
<1>7. /\ Markov!observe(m, s).counts = counts
      /\ Markov!observe(m, s).row_totals = totals
      /\ Markov!observe(m, s).alphabet = alphabet
  <2> HIDE DEF counts, totals, alphabet
  <2> QED
    BY <1>2
<1> HIDE DEF counts, totals, alphabet
<1> QED
  BY <1>6, <1>7, Zenon DEF Adds

Trained(m) == Consistent(m) /\ m.alphabet = Visited(m.counts)

LEMMA ObserveKeeps ==
  ASSUME NEW m, Trained(m), NEW X, NEW s \in Seq(X)
  PROVE  Trained(Markov!observe(m, s))
<1>1. CASE Len(s) < 2
  <2>1. Markov!observe(m, s) = m
    BY <1>1, Zenon DEF Markov!observe
  <2> QED
    BY <2>1
<1>2. CASE ~(Len(s) < 2)
  <2> DEFINE o == Markov!observe(m, s)
             n == Len(s)
             A == m.alphabet
             B == o.alphabet
             moves == Moves(s)
             made(p) == Made(s, p)
             left(c) == Left(s, c)
             starts == {p[1] : p \in moves}
  <2>0. n \in Nat /\ n >= 2
    BY <1>2
  <2>1. /\ o.counts = [p \in DOMAIN m.counts \cup moves |->
                         Markov!Count(m, p[1], p[2]) + made(p)]
        /\ o.row_totals = [c \in DOMAIN m.row_totals \cup starts |->
                             Markov!Total(m, c) + left(c)]
        /\ B = A \cup {s[i] : i \in 1 .. n}
    <3> HIDE DEF o, n, A, B, moves, made, left, starts
    <3>1. Len(s) >= 2
      BY <2>0 DEF n
    <3>2. Adds(Markov!observe(m, s), m, s)
      BY <3>1, ObserveAdds
    <3> QED
      BY <3>2, Zenon DEF Adds, o, n, A, B, moves, made, left, starts
  <2>2. Consistent(m) /\ A = Visited(m.counts)
    BY DEF Trained
  <2>3. /\ \A p : made(p) \in Nat /\ (p \notin moves => made(p) = 0)
        /\ \A c : left(c) \in Nat /\ (c \notin starts => left(c) = 0)
    <3>1. IsFiniteSet(2 .. n) /\ IsFiniteSet(1 .. n - 1)
      BY <2>0, FS_Interval
    <3>2. ASSUME NEW p PROVE made(p) \in Nat /\ (p \notin moves => made(p) = 0)
      <4> DEFINE I == {i \in 2 .. n : <<s[i - 1], s[i]>> = p}
      <4>1. I \in SUBSET (2 .. n) /\ (p \notin moves => I = {})
        BY DEF Moves
      <4>2. made(p) = Cardinality(I)
        BY Zenon DEF Made
      <4> HIDE DEF I, made, moves, n
      <4>3. IsFiniteSet(I)
        BY <3>1, <4>1, FS_Subset
      <4> QED
        BY <4>1, <4>2, <4>3, FS_CardinalityType, FS_EmptySet
    <3>3. ASSUME NEW c PROVE left(c) \in Nat /\ (c \notin starts => left(c) = 0)
      <4> DEFINE I == {i \in 1 .. n - 1 : s[i] = c}
      <4>1. I \in SUBSET (1 .. n - 1)
        OBVIOUS
      <4>2. ASSUME NEW i \in I PROVE c \in starts
        <5>1. i + 1 \in 2 .. n /\ (i + 1) - 1 = i /\ s[i] = c
          BY <2>0
        <5>2. <<c, s[i + 1]>> \in moves
          BY <5>1 DEF Moves
        <5>3. <<c, s[i + 1]>>[1] = c
          OBVIOUS
        <5> HIDE DEF moves
        <5> QED
          BY <5>2, <5>3
      <4>3. left(c) = Cardinality(I)
        BY Zenon DEF Left
      <4> HIDE DEF I, left, starts, n
      <4>4. c \notin starts => I = {}
        BY <4>2
      <4>5. IsFiniteSet(I)
        BY <3>1, <4>1, FS_Subset
      <4> QED
        BY <4>3, <4>4, <4>5, FS_CardinalityType, FS_EmptySet
    <3> HIDE DEF made, left, moves, starts
    <3> QED
      BY <3>2, <3>3
  <2>4. \A i \in 1 .. n : s[i] \in B
    BY <2>1
  <2>5. moves \subseteq B \X B /\ A \subseteq B
    <3>1. \A i \in 2 .. n : i \in 1 .. n /\ i - 1 \in 1 .. n
      BY <2>0
    <3> HIDE DEF B
    <3> QED
      BY <2>1, <2>4, <3>1 DEF Moves
  <2>6. IsFiniteSet(B)
    <3> DEFINE f == [i \in 1 .. n |-> s[i]]
               T == {s[i] : i \in 1 .. n}
    <3>1. f \in Surjection(1 .. n, T)
      BY DEF Surjection
    <3>2. IsFiniteSet(1 .. n)
      BY <2>0, FS_Interval
    <3>3. IsFiniteSet(A) /\ B = A \cup T
      BY <2>1, <2>2 DEF Consistent
    <3> HIDE DEF f, T, n, A, B
    <3>4. IsFiniteSet(T)
      BY <3>1, <3>2, FS_Surjection
    <3> QED
      BY <3>3, <3>4, FS_Union
  <2>7. \A c, d : Markov!Count(m, c, d) \in Nat
                  /\ (c \notin A \/ d \notin A => Markov!Count(m, c, d) = 0)
    BY <2>2, CountsAreNat
  <2>8. DOMAIN m.counts \subseteq A \X A /\ DOMAIN m.row_totals \subseteq A
    BY <2>2 DEF Consistent
  <2>9. /\ DOMAIN o.counts \subseteq B \X B
        /\ o.counts \in [DOMAIN o.counts -> Nat]
        /\ DOMAIN o.row_totals \subseteq B
    <3>0. starts \subseteq B /\ A \X A \subseteq B \X B
      <4>1. \A p \in moves : p[1] \in B
        <5> HIDE DEF B, moves, A
        <5> QED
          BY <2>5
      <4>2. A \X A \subseteq B \X B
        <5> HIDE DEF B, moves, A
        <5> QED
          BY <2>5
      <4> HIDE DEF B, moves, A
      <4> QED
        BY <4>1, <4>2
    <3> HIDE DEF A, B, moves, starts, made, left, o
    <3>1. DOMAIN o.counts = DOMAIN m.counts \cup moves
      BY <2>1
    <3>2. \A p \in DOMAIN o.counts : Markov!Count(m, p[1], p[2]) + made(p) \in Nat
      BY <2>3, <2>7
    <3>3. o.counts \in [DOMAIN o.counts -> Nat]
      BY <2>1, <3>1, <3>2
    <3>4. DOMAIN o.row_totals = DOMAIN m.row_totals \cup starts
      BY <2>1
    <3> QED
      BY <2>5, <2>8, <3>0, <3>1, <3>3, <3>4
  <2>10. \A c, d : Markov!Count(o, c, d) = Markov!Count(m, c, d) + made(<<c, d>>)
    <3> SUFFICES ASSUME NEW c, NEW d
                 PROVE  Markov!Count(o, c, d) = Markov!Count(m, c, d) + made(<<c, d>>)
      BY Zenon
    <3> HIDE DEF A, B, moves, starts, made, left, o
    <3>1. CASE <<c, d>> \in DOMAIN m.counts \cup moves
      BY <2>1, <3>1 DEF Markov!Count
    <3>2. CASE <<c, d>> \notin DOMAIN m.counts \cup moves
      <4>1. made(<<c, d>>) = 0 /\ Markov!Count(m, c, d) = 0 /\ Markov!Count(o, c, d) = 0
        BY <2>1, <2>3, <3>2 DEF Markov!Count
      <4> QED
        BY <4>1
    <3> QED
      BY <3>1, <3>2
  <2>11. \A c : Markov!Total(o, c) = Markov!Total(m, c) + left(c)
    <3> SUFFICES ASSUME NEW c PROVE Markov!Total(o, c) = Markov!Total(m, c) + left(c)
      BY Zenon
    <3> HIDE DEF A, B, moves, starts, made, left, o
    <3>1. CASE c \in DOMAIN m.row_totals \cup starts
      BY <2>1, <3>1 DEF Markov!Total
    <3>2. CASE c \notin DOMAIN m.row_totals \cup starts
      <4>1. left(c) = 0 /\ Markov!Total(m, c) = 0 /\ Markov!Total(o, c) = 0
        BY <2>1, <2>3, <3>2 DEF Markov!Total
      <4> QED
        BY <4>1
    <3> QED
      BY <3>1, <3>2
  <2>12. ASSUME NEW c \in B
         PROVE  Markov!Total(o, c) = Sum(Row(o, c), B)
    <3> DEFINE F == [d \in B |-> Markov!Count(m, c, d)]
               G == [d \in B |-> made(<<c, d>>)]
               H == Row(o, c)
    <3>1. \A d \in B : F[d] \in Nat /\ G[d] \in Nat /\ H[d] = F[d] + G[d]
      <4> HIDE DEF A, B, moves, starts, made, left, o
      <4>1. \A d \in B : F[d] = Markov!Count(m, c, d) /\ G[d] = made(<<c, d>>)
        OBVIOUS
      <4>2. \A d \in B : H[d] = Markov!Count(o, c, d)
        BY DEF Row, B
      <4>3. \A d \in B : Markov!Count(m, c, d) \in Nat /\ made(<<c, d>>) \in Nat
        BY <2>3, <2>7
      <4> HIDE DEF F, G, H
      <4> QED
        BY <2>10, <4>1, <4>2, <4>3
    <3>2. Sum(H, B) = Sum(F, B) + Sum(G, B)
      <4> HIDE DEF F, G, H, B
      <4> QED
        BY <2>6, <3>1, SumPlus
    <3>3. Sum(F, B) = Markov!Total(m, c)
      <4>1. CASE c \in A
        <5>1. Sum(F, B) = Sum(F, A)
          <6>1. \A d \in A : F[d] \in Nat
            BY <2>5, <3>1
          <6>2. \A d \in B \ A : F[d] = 0
            BY <2>7
          <6> HIDE DEF F, A, B
          <6> QED
            BY <2>5, <2>6, <6>1, <6>2, SumOfRest
        <5>2. Sum(F, A) = Sum(Row(m, c), A)
          <6>1. IsFiniteSet(A)
            BY <2>2 DEF Consistent
          <6>2. \A d \in A : F[d] = Row(m, c)[d]
            BY <2>5 DEF Row
          <6>3. \A d \in A : Row(m, c)[d] \in Nat
            BY <2>7 DEF Row
          <6> HIDE DEF F, A, B
          <6> QED
            BY <6>1, <6>2, <6>3, SumOfSame
        <5>3. Markov!Total(m, c) = Sum(Row(m, c), A)
          BY <2>2, <4>1 DEF Consistent
        <5> QED
          BY <5>1, <5>2, <5>3
      <4>2. CASE c \notin A
        <5>1. \A d \in B : F[d] = 0
          BY <2>7, <4>2
        <5>2. Sum(F, B) = Cardinality(B) * 0
          <6> HIDE DEF F, B
          <6> QED
            BY <2>6, <5>1, SumOfEqual
        <5>3. Cardinality(B) \in Nat
          <6> HIDE DEF B
          <6> QED
            BY <2>6, FS_CardinalityType
        <5>4. Markov!Total(m, c) = 0
          BY <2>8, <4>2 DEF Markov!Total
        <5> HIDE DEF F, B
        <5> QED
          BY <5>2, <5>3, <5>4
      <4> QED
        BY <4>1, <4>2
    <3>4. Sum(G, B) = left(c)
      <4>1. Sum([d \in B |-> Made(s, <<c, d>>)], B) = Left(s, c)
        <5> HIDE DEF B
        <5> QED
          BY <2>4, <2>6, MovesFrom
      <4> QED
        BY <4>1
    <3> HIDE DEF F, G, H, left
    <3>5. Sum(H, B) = Markov!Total(o, c)
      BY <2>11, <3>2, <3>3, <3>4
    <3> QED
      BY <3>5 DEF H
  <2>13. B = Visited(o.counts)
    <3>1. \A p \in DOMAIN o.counts : p[1] \in B /\ p[2] \in B
      BY <2>9
    <3>2. DOMAIN o.counts = DOMAIN m.counts \cup moves
      BY <2>1
    <3>3. ASSUME NEW x \in B PROVE x \in Visited(o.counts)
      <4>1. CASE x \in A
        BY <2>2, <3>2, <4>1 DEF Visited
      <4>2. CASE x \notin A
        <5>1. PICK i \in 1 .. n : x = s[i]
          BY <2>1, <4>2
        <5>2. CASE i = 1
          <6>1. <<s[2 - 1], s[2]>> \in moves
            BY <2>0 DEF Moves
          <6>2. <<s[2 - 1], s[2]>>[1] = x
            BY <5>1, <5>2
          <6> HIDE DEF moves, o, n
          <6> QED
            BY <3>2, <6>1, <6>2 DEF Visited
        <5>3. CASE i # 1
          <6>1. <<s[i - 1], s[i]>> \in moves
            BY <2>0, <5>3 DEF Moves
          <6>2. <<s[i - 1], s[i]>>[2] = x
            BY <5>1
          <6> HIDE DEF moves, o, n
          <6> QED
            BY <3>2, <6>1, <6>2 DEF Visited
        <5> QED
          BY <5>2, <5>3
      <4> QED
        BY <4>1, <4>2
    <3> QED
      BY <3>1, <3>3 DEF Visited
  <2>14. Consistent(o)
    BY <2>6, <2>9, <2>12 DEF Consistent
  <2> QED
    BY <2>13, <2>14 DEF Trained
<1> QED
  BY <1>1, <1>2

-------------------------------------------------------------------------------
(* Encoding: what is observed is a string                                      *)

LEMMA FlattenIsSeq ==
  ASSUME NEW X, NEW seqs \in Seq(Seq(X))
  PROVE  Markov!FlattenSeq(seqs) \in Seq(X)
<1> DEFINE n == Len(seqs)
           Follows(g, k) ==
             g = [i \in 1 .. k |-> IF i = 1 THEN seqs[i] ELSE g[i - 1] \o seqs[i]]
           S == {k \in Nat : k <= n => \E g \in [1 .. k -> Seq(X)] : Follows(g, k)}
           chosen == CHOOSE g : Follows(g, n)
<1>1. n \in Nat /\ \A i \in 1 .. n : seqs[i] \in Seq(X)
  OBVIOUS
<1>2. CASE n = 0
  <2>1. seqs = << >>
    BY <1>2
  <2>2. Markov!FlattenSeq(seqs) = seqs
    BY <1>2, Zenon DEF Markov!FlattenSeq
  <2>3. << >> \in Seq(X)
    <3> HIDE DEF Follows, S, chosen, n
    <3> QED
      OBVIOUS
  <2> HIDE DEF Follows, S, chosen, n
  <2> QED
    BY <2>1, <2>2, <2>3, Zenon
<1>3. CASE n # 0
  <2>1. 0 \in S
    <3> DEFINE g == [i \in 1 .. 0 |-> << >>]
    <3>1. g \in [1 .. 0 -> Seq(X)] /\ Follows(g, 0)
      OBVIOUS
    <3> QED
      BY <3>1
  <2>2. ASSUME NEW k \in S
        PROVE  k + 1 \in S
    <3>1. k \in Nat /\ k + 1 \in Nat
      OBVIOUS
    <3>2. ASSUME k + 1 <= n
          PROVE  \E g \in [1 .. k + 1 -> Seq(X)] : Follows(g, k + 1)
      <4>1. PICK g \in [1 .. k -> Seq(X)] : Follows(g, k)
        <5>1. k <= n
          BY <1>1, <3>1, <3>2
        <5> HIDE DEF Follows, n
        <5> QED
          BY <5>1
      <4> DEFINE h == [i \in 1 .. k + 1 |->
                         IF i = k + 1 THEN IF i = 1 THEN seqs[i] ELSE g[k] \o seqs[i]
                         ELSE g[i]]
      <4>2. \A i \in 1 .. k : h[i] = g[i]
        <5>1. \A i \in 1 .. k : i \in 1 .. k + 1 /\ i # k + 1
          BY <3>1
        <5> HIDE DEF n, S, chosen, Follows
        <5> QED
          BY <5>1
      <4>3. \A i \in 1 .. k + 1 : h[i] = IF i = 1 THEN seqs[i] ELSE h[i - 1] \o seqs[i]
        <5> SUFFICES ASSUME NEW i \in 1 .. k + 1
                     PROVE  h[i] = IF i = 1 THEN seqs[i] ELSE h[i - 1] \o seqs[i]
          OBVIOUS
        <5>1. CASE i = k + 1
          <6>1. i # 1 => k \in 1 .. k /\ i - 1 = k
            BY <3>1, <5>1
          <6>2. h[i] = IF i = 1 THEN seqs[i] ELSE g[k] \o seqs[i]
            BY <5>1
          <6> HIDE DEF h
          <6> QED
            BY <4>2, <6>1, <6>2
        <5>2. CASE i # k + 1
          <6>1. i \in 1 .. k /\ (i # 1 => i - 1 \in 1 .. k)
            BY <3>1, <5>2
          <6>2. g[i] = IF i = 1 THEN seqs[i] ELSE g[i - 1] \o seqs[i]
            BY <4>1, <6>1
          <6> HIDE DEF h
          <6> QED
            BY <4>2, <6>1, <6>2
        <5> QED
          BY <5>1, <5>2
      <4>4. \A i \in 1 .. k + 1 : h[i] \in Seq(X)
        <5> SUFFICES ASSUME NEW i \in 1 .. k + 1 PROVE h[i] \in Seq(X)
          OBVIOUS
        <5>1. seqs[i] \in Seq(X)
          BY <1>1, <3>1, <3>2
        <5>2. CASE i = k + 1
          <6>1. i # 1 => g[k] \in Seq(X)
            BY <3>1, <5>2
          <6>2. h[i] = IF i = 1 THEN seqs[i] ELSE g[k] \o seqs[i]
            BY <5>2
          <6>3. ASSUME i # 1 PROVE g[k] \o seqs[i] \in Seq(X)
            <7>1. g[k] \in Seq(X)
              BY <6>1, <6>3
            <7> HIDE DEF h, n, S, chosen
            <7> QED
              BY <5>1, <7>1
          <6> HIDE DEF h
          <6> QED
            BY <5>1, <6>2, <6>3
        <5>3. CASE i # k + 1
          BY <3>1, <4>2, <5>3
        <5> QED
          BY <5>2, <5>3
      <4>5. h \in [1 .. k + 1 -> Seq(X)] /\ Follows(h, k + 1)
        BY <4>3, <4>4
      <4> QED
        BY <4>5
    <3> HIDE DEF Follows, n
    <3> QED
      BY <3>1, <3>2
  <2>3. n \in S
    <3>1. S \in SUBSET Nat
      OBVIOUS
    <3> HIDE DEF S
    <3> QED
      BY <1>1, <2>1, <2>2, <3>1, ClosedSetIsNat
  <2>4. Follows(chosen, n)
    <3>1. \E g : Follows(g, n)
      <4> HIDE DEF Follows, n
      <4> QED
        BY <1>1, <2>3
    <3> HIDE DEF Follows, n
    <3> QED
      BY <3>1, Zenon
  <2>5. Markov!FlattenSeq(seqs) = chosen[n]
    BY <1>3, Zenon DEF Markov!FlattenSeq
  <2> HIDE DEF chosen, S
  <2> DEFINE R == {k \in Nat : k < n => chosen[k + 1] \in Seq(X)}
  <2>6. 0 \in R
    <3>1. 1 \in 1 .. n
      BY <1>1, <1>3
    <3>2. chosen[1] = seqs[1]
      BY <2>4, <3>1
    <3> QED
      BY <1>1, <3>1, <3>2
  <2>7. ASSUME NEW k \in R
        PROVE  k + 1 \in R
    <3>1. k \in Nat /\ k + 1 \in Nat
      OBVIOUS
    <3>2. ASSUME k + 1 < n PROVE chosen[(k + 1) + 1] \in Seq(X)
      <4>1. /\ k + 2 \in 1 .. n /\ (k + 1) + 1 = k + 2 /\ (k + 2) - 1 = k + 1 /\ k + 2 # 1
            /\ k < n
        BY <1>1, <3>1, <3>2
      <4>2. chosen[k + 2] = chosen[k + 1] \o seqs[k + 2]
        <5>1. chosen[k + 2] = IF k + 2 = 1 THEN seqs[k + 2]
                              ELSE chosen[(k + 2) - 1] \o seqs[k + 2]
          BY <2>4, <4>1
        <5> QED
          BY <4>1, <5>1
      <4>3. chosen[k + 1] \in Seq(X) /\ seqs[k + 2] \in Seq(X)
        BY <1>1, <4>1
      <4>4. chosen[k + 1] \o seqs[k + 2] \in Seq(X)
        <5> HIDE DEF R, n, Follows
        <5> QED
          BY <4>3
      <4> QED
        BY <4>1, <4>2, <4>4
    <3> QED
      BY <3>1, <3>2
  <2>8. n - 1 \in R
    <3>1. R \in SUBSET Nat /\ n - 1 \in Nat
      BY <1>1, <1>3
    <3> HIDE DEF R
    <3> QED
      BY <2>6, <2>7, <3>1, ClosedSetIsNat
  <2>9. n - 1 < n /\ (n - 1) + 1 = n
    BY <1>1
  <2> QED
    BY <2>5, <2>8, <2>9
<1> QED
  BY <1>2, <1>3

LEMMA EncodedIsSeq ==
  ASSUME NEW flows, IsFiniteSet(flows), NEW s \in Markov!encode_connection(flows)
  PROVE  \E X : s \in Seq(X)
<1>1. CASE Markov!Cardinality(flows) < 2
  <2>1. Markov!encode_connection(flows) = {<< >>}
    BY <1>1, Zenon DEF Markov!encode_connection
  <2>2. s \in Seq({})
    BY <2>1
  <2> QED
    BY <2>2
<1>2. CASE ~(Markov!Cardinality(flows) < 2)
  <2>1. PICK q \in Markov!SetToSeqs(flows) :
          s = Markov!FlattenSeq([i \in DOMAIN q |->
                                   <<Markov!Letter(q[i]), Markov!Symbol(q, i)>>])
    BY <1>2, Zenon DEF Markov!encode_connection
  <2> DEFINE n == Cardinality(flows)
             X == {Markov!Letter(q[i]) : i \in 1 .. n} \cup {Markov!Symbol(q, i) : i \in 1 .. n}
             seqs == [i \in 1 .. n |-> <<Markov!Letter(q[i]), Markov!Symbol(q, i)>>]
  <2>2. n \in Nat
    BY FS_CardinalityType
  <2>3. DOMAIN q = 1 .. n
    BY SameFiniteSets DEF Markov!SetToSeqs
  <2>4. \A i \in 1 .. n : <<Markov!Letter(q[i]), Markov!Symbol(q, i)>> \in Seq(X)
    <3> SUFFICES ASSUME NEW i \in 1 .. n
                 PROVE  <<Markov!Letter(q[i]), Markov!Symbol(q, i)>> \in Seq(X)
      OBVIOUS
    <3>1. Markov!Letter(q[i]) \in X /\ Markov!Symbol(q, i) \in X
      OBVIOUS
    <3> HIDE DEF X
    <3> QED
      BY <3>1
  <2>5. seqs \in Seq(Seq(X))
    <3> HIDE DEF X, n
    <3>1. seqs \in [1 .. n -> Seq(X)]
      BY <2>4
    <3> HIDE DEF seqs
    <3> QED
      BY <2>2, <3>1
  <2>6. s = Markov!FlattenSeq(seqs)
    BY <2>1, <2>3
  <2> HIDE DEF seqs, X, n
  <2> QED
    BY <2>5, <2>6, FlattenIsSeq
<1> QED
  BY <1>1, <1>2

-------------------------------------------------------------------------------
(* Saving and loading                                                          *)

\* What a saved model is: finitely many counts, and the letters they are of.
FileOK(f) ==
  /\ IsFiniteSet(f.alphabet)
  /\ DOMAIN f.transitions \subseteq f.alphabet \X f.alphabet
  /\ f.transitions \in [DOMAIN f.transitions -> Nat]
  /\ f.alphabet = Visited(f.transitions)

\* A model loaded from a file, even one that lost rows.
LEMMA LoadIsConsistent ==
  ASSUME NEW f, FileOK(f), NEW rows \in SUBSET Markov!Froms(f.transitions)
  PROVE  LET o == Markov!load(f, rows)
         IN  /\ Consistent(o)
             /\ o.alphabet = f.alphabet
             /\ rows = Markov!Froms(f.transitions) => o.counts = f.transitions
<1> DEFINE o == Markov!load(f, rows)
           t == f.transitions
           A == f.alphabet
           kept == {p \in DOMAIN t : p[1] \in rows}
           Of(c) == {p \in kept : p[1] = c}
           row(c) == [p \in Of(c) |-> t[p]]
<1>1. /\ o.counts = [p \in kept |-> t[p]]
      /\ o.row_totals = [c \in rows |-> Markov!Added(row(c))]
      /\ o.alphabet = A
  <2> DEFINE totals == [c \in rows |-> Markov!Added(row(c))]
             counts == [p \in kept |-> t[p]]
  <2>1. o = [counts |-> counts, row_totals |-> totals, alphabet |-> A]
    BY Zenon DEF Markov!load
  <2> HIDE DEF totals, counts, o, A
  <2>2. o.counts = counts /\ o.row_totals = totals /\ o.alphabet = A
    BY <2>1
  <2> QED
    BY <2>2, Zenon DEF totals, counts
<1>2. /\ IsFiniteSet(A) /\ DOMAIN t \subseteq A \X A /\ t \in [DOMAIN t -> Nat]
      /\ rows \subseteq A
  <2>1. IsFiniteSet(A) /\ DOMAIN t \subseteq A \X A /\ t \in [DOMAIN t -> Nat]
    BY DEF FileOK
  <2>2. \A p \in DOMAIN t : p[1] \in A
    BY <2>1
  <2> QED
    BY <2>1, <2>2 DEF Markov!Froms
<1>3. \A p \in kept : p \in DOMAIN t /\ p[1] \in rows
  OBVIOUS
<1>4. /\ DOMAIN o.counts \subseteq A \X A
      /\ o.counts \in [DOMAIN o.counts -> Nat]
      /\ DOMAIN o.row_totals \subseteq A
  <2> HIDE DEF o, t, A, row, Of, kept
  <2>1. DOMAIN o.counts = kept /\ DOMAIN o.row_totals = rows
    BY <1>1
  <2>2. \A p \in kept : o.counts[p] \in Nat
    BY <1>1, <1>2, <1>3
  <2>3. o.counts \in [kept -> Nat]
    BY <1>1, <2>2
  <2> QED
    BY <1>2, <1>3, <2>1, <2>3
<1>5. \A c, d : /\ <<c, d>> \in kept => Markov!Count(o, c, d) = t[<<c, d>>]
                /\ <<c, d>> \notin kept => Markov!Count(o, c, d) = 0
  <2> HIDE DEF o, t, A, row, Of, kept
  <2> QED
    BY <1>1 DEF Markov!Count
<1>6. ASSUME NEW c \in A
      PROVE  Markov!Total(o, c) = Sum(Row(o, c), A)
  <2> DEFINE F == [d \in A |-> Markov!Count(o, c, d)]
             E == {d \in A : <<c, d>> \in kept}
             h == [d \in E |-> <<c, d>>]
             D == {h[d] : d \in E}
             G == row(c)
  <2>0. Row(o, c) = F
    <3> HIDE DEF o
    <3> QED
      BY <1>1, Zenon DEF Row
  <2>1. /\ \A d \in A : F[d] \in Nat
        /\ \A d \in E : F[d] = t[<<c, d>>]
        /\ \A d \in A \ E : F[d] = 0
    <3> HIDE DEF kept, o, t, A
    <3>1. \A d \in E : F[d] = t[<<c, d>>] /\ t[<<c, d>>] \in Nat
      BY <1>2, <1>3, <1>5
    <3>2. \A d \in A \ E : F[d] = 0
      BY <1>5
    <3> HIDE DEF F, E, h, Of, row
    <3>3. \A d \in A : F[d] \in Nat
      <4> SUFFICES ASSUME NEW d \in A PROVE F[d] \in Nat
        OBVIOUS
      <4>1. CASE d \in E
        BY <3>1, <4>1
      <4>2. CASE d \notin E
        BY <3>2, <4>2
      <4> QED
        BY <4>1, <4>2
    <3> QED
      BY <3>1, <3>2, <3>3
  <2>2. IsFiniteSet(E) /\ E \in SUBSET A
    <3>1. E \in SUBSET A
      OBVIOUS
    <3>2. IsFiniteSet(A)
      BY <1>2
    <3> HIDE DEF E, A, F, kept
    <3> QED
      BY <3>1, <3>2, FS_Subset
  <2>3. Sum(F, A) = Sum(F, E)
    <3> HIDE DEF F, E, A
    <3> QED
      BY <1>2, <2>1, <2>2, SumOfRest
  <2>4. CASE c \in rows
    <3>1. Markov!Total(o, c) = Markov!Added(G)
      <4> HIDE DEF o, row
      <4> QED
        BY <1>1, <2>4 DEF Markov!Total
    <3>2. DOMAIN G = Of(c) /\ \A p \in Of(c) : G[p] = t[p]
      OBVIOUS
    <3>3. Of(c) = D
      <4> HIDE DEF A, t, kept
      <4>1. \A d \in E : h[d] = <<c, d>> /\ <<c, d>> \in kept
        OBVIOUS
      <4>2. \A p \in kept : p[1] = c => p = <<c, p[2]>> /\ p[2] \in A
        BY <1>2, <1>3
      <4>3. \A d : <<c, d>>[1] = c
        OBVIOUS
      <4>4. D \subseteq Of(c)
        <5> SUFFICES ASSUME NEW d \in E PROVE h[d] \in Of(c)
          BY Zenon
        <5>1. h[d] = <<c, d>> /\ <<c, d>> \in kept /\ <<c, d>>[1] = c
          BY <4>1, <4>3
        <5> HIDE DEF h, E
        <5> QED
          BY <5>1
      <4>5. \A p \in Of(c) : p[2] \in E /\ p = h[p[2]]
        BY <4>2
      <4> HIDE DEF h, E
      <4>6. Of(c) \subseteq D
        BY <4>5
      <4> QED
        BY <4>4, <4>6
    <3>4. Markov!Added(G) = Sum(G, D)
      <4> HIDE DEF row, D
      <4> QED
        BY <3>2, <3>3, AddedIsSum
    <3>5. \A d \in E : F[d] \in Nat /\ G[h[d]] = F[d]
      <4> HIDE DEF row, F, A, t, kept
      <4>1. \A d \in E : h[d] = <<c, d>> /\ h[d] \in Of(c)
        <5>1. \A d \in E : h[d] = <<c, d>> /\ h[d] \in D
          OBVIOUS
        <5> HIDE DEF h, E, D, Of
        <5> QED
          BY <3>3, <5>1
      <4> HIDE DEF h, E, Of
      <4> QED
        BY <2>1, <2>2, <3>2, <4>1
    <3>6. \A d, e \in E : h[d] = h[e] => d = e
      OBVIOUS
    <3>7. Sum(G, D) = Sum(F, E)
      <4> HIDE DEF row, F, E, h
      <4> QED
        BY <2>2, <3>5, <3>6, SumOfImage
    <3> HIDE DEF o, row, F, E, D, A
    <3> QED
      BY <2>0, <2>3, <3>1, <3>4, <3>7
  <2>5. CASE c \notin rows
    <3>1. E = {}
      <4>1. \A d : <<c, d>>[1] = c
        OBVIOUS
      <4> HIDE DEF kept
      <4> QED
        BY <1>3, <2>5, <4>1
    <3>2. Sum(F, {}) = 0
      <4> HIDE DEF F, A
      <4> QED
        BY <1>2, <2>1, SumRemove
    <3>3. Markov!Total(o, c) = 0
      <4> HIDE DEF o, row
      <4> QED
        BY <1>1, <2>5 DEF Markov!Total
    <3> HIDE DEF o, F, E, A
    <3> QED
      BY <2>0, <2>3, <3>1, <3>2, <3>3
  <2> QED
    BY <2>4, <2>5
<1>7. ASSUME rows = Markov!Froms(t)
      PROVE  o.counts = t
  <2>1. kept = DOMAIN t
    BY <1>7 DEF Markov!Froms
  <2> HIDE DEF kept, o, t
  <2> QED
    BY <1>1, <1>2, <2>1
<1>8. Consistent(o)
  <2> HIDE DEF o, A, t
  <2> QED
    BY <1>1, <1>2, <1>4, <1>6 DEF Consistent
<1> QED
  BY <1>1, <1>7, <1>8

\* What every step keeps of the trained model, of the file and of the loaded one.
LoadedOK(l) ==
  /\ Consistent(l.model)
  /\ l.model.alphabet = Visited(l.from)
  /\ l.whole => l.model.counts = l.from

ModelInv ==
  /\ Trained(memory)
  /\ \A f \in file : FileOK(f)
  /\ \A l \in loaded : LoadedOK(l)

LEMMA UntrainedIsTrained == Trained(Markov!Untrained)
<1> DEFINE u == Markov!Untrained
<1>1. u.counts = [p \in {} |-> 0] /\ u.row_totals = [c \in {} |-> 0] /\ u.alphabet = {}
  BY DEF Markov!Untrained
<1> HIDE DEF u
<1>2. /\ IsFiniteSet(u.alphabet)
      /\ DOMAIN u.counts = {} /\ DOMAIN u.row_totals = {}
      /\ u.counts \in [DOMAIN u.counts -> Nat]
  BY <1>1, FS_EmptySet
<1>3. Consistent(u)
  BY <1>1, <1>2 DEF Consistent
<1>4. u.alphabet = Visited(u.counts)
  BY <1>1, <1>2 DEF Visited
<1> QED
  BY <1>3, <1>4 DEF Trained, u

LEMMA NextModelInv ==
  ASSUME Markov!ModelAssumption, ModelInv, [Markov!Next]_Markov!vars
  PROVE  ModelInv'
<1>1. ASSUME NEW flows \in Samples, Markov!Train(flows)
      PROVE  ModelInv'
  <2>1. PICK s \in Markov!encode_connection(flows) : memory' = Markov!observe(memory, s)
    BY <1>1 DEF Markov!Train
  <2>2. IsFiniteSet(flows)
    BY SameFiniteSets DEF Markov!ModelAssumption
  <2>3. PICK X : s \in Seq(X)
    BY <2>2, EncodedIsSeq
  <2>4. Trained(memory')
    BY <2>1, <2>3, ObserveKeeps DEF ModelInv
  <2>5. UNCHANGED <<file, loaded>>
    BY <1>1 DEF Markov!Train
  <2> QED
    BY <2>4, <2>5 DEF ModelInv
<1>2. CASE Markov!Save
  <2>1. file' = {Markov!serialize(memory)} /\ UNCHANGED <<memory, trained, loaded>>
    BY <1>2 DEF Markov!Save
  <2>2. FileOK(Markov!serialize(memory))
    <3> DEFINE f == Markov!serialize(memory)
    <3>1. f.alphabet = memory.alphabet /\ f.transitions = memory.counts
      BY DEF Markov!serialize
    <3> HIDE DEF f
    <3> QED
      BY <3>1 DEF ModelInv, Trained, Consistent, FileOK, f
  <2> QED
    BY <2>1, <2>2 DEF ModelInv
<1>3. CASE Markov!Load
  <2>0. PICK f \in file : \E rows \in SUBSET Markov!Froms(f.transitions) :
          loaded' = {[model |-> Markov!load(f, rows), from |-> f.transitions,
                      whole |-> rows = Markov!Froms(f.transitions)]}
    BY <1>3, Zenon DEF Markov!Load
  <2>1. PICK rows \in SUBSET Markov!Froms(f.transitions) :
          loaded' = {[model |-> Markov!load(f, rows), from |-> f.transitions,
                      whole |-> rows = Markov!Froms(f.transitions)]}
    BY <2>0
  <2> DEFINE o == Markov!load(f, rows)
             l == [model |-> o, from |-> f.transitions,
                   whole |-> rows = Markov!Froms(f.transitions)]
  <2>2. FileOK(f)
    BY DEF ModelInv
  <2>3. /\ Consistent(o) /\ o.alphabet = f.alphabet
        /\ rows = Markov!Froms(f.transitions) => o.counts = f.transitions
    BY <2>2, LoadIsConsistent
  <2> HIDE DEF o
  <2>4. /\ l.model = o /\ l.from = f.transitions
        /\ l.whole => rows = Markov!Froms(f.transitions)
    OBVIOUS
  <2>5. o.alphabet = Visited(f.transitions)
    BY <2>2, <2>3 DEF FileOK
  <2>6. loaded' = {l}
    BY <2>1 DEF o
  <2> HIDE DEF l
  <2>7. LoadedOK(l)
    BY <2>3, <2>4, <2>5 DEF LoadedOK
  <2>8. UNCHANGED <<memory, trained, file>>
    BY <1>3 DEF Markov!Load
  <2> QED
    BY <2>6, <2>7, <2>8 DEF ModelInv
<1>4. CASE UNCHANGED Markov!vars
  BY <1>4 DEF ModelInv, Markov!vars
<1> QED
  BY <1>1, <1>2, <1>3, <1>4 DEF Markov!Next

LEMMA ModelInvScores ==
  ASSUME ModelInv
  PROVE  Markov!ScoresAreProbabilities
<1>1. Consistent(memory) /\ memory.alphabet = Visited(memory.counts)
  BY DEF ModelInv, Trained
<1>2. Markov!Distribution(memory)
  BY <1>1, RowsAreDistributions
<1>3. ASSUME NEW l \in loaded
      PROVE  /\ Markov!Distribution(l.model)
             /\ l.whole /\ l.from = memory.counts =>
                  \A s : Markov!score(l.model, s) = Markov!score(memory, s)
  <2>1. LoadedOK(l)
    BY DEF ModelInv
  <2>2. Markov!Distribution(l.model)
    BY <2>1, RowsAreDistributions DEF LoadedOK
  <2>3. ASSUME l.whole, l.from = memory.counts
        PROVE  \A s : Markov!score(l.model, s) = Markov!score(memory, s)
    <3>1. /\ Consistent(l.model) /\ l.model.counts = memory.counts
          /\ l.model.alphabet = memory.alphabet
      BY <1>1, <2>1, <2>3 DEF LoadedOK
    <3> QED
      BY <1>1, <3>1, SameCountsScoreAlike
  <2> QED
    BY <2>2, <2>3
<1> QED
  BY <1>2, <1>3 DEF Markov!ScoresAreProbabilities

\* However the model is trained, saved, cut short and loaded, every row of it is a
\* probability distribution, and what is loaded whole scores as what was saved
\* (behavioral_model.cpp:74-176).
THEOREM ModelIsProbabilistic ==
  Markov!ModelAssumption => (Markov!Spec => []Markov!ScoresAreProbabilities)
<1> SUFFICES ASSUME Markov!ModelAssumption
             PROVE  Markov!Spec => []Markov!ScoresAreProbabilities
  OBVIOUS
<1>1. Markov!Init => ModelInv
  BY UntrainedIsTrained DEF Markov!Init, ModelInv
<1>2. ModelInv /\ [Markov!Next]_Markov!vars => ModelInv'
  BY NextModelInv
<1>3. ModelInv => Markov!ScoresAreProbabilities
  BY ModelInvScores
<1> QED
  BY <1>1, <1>2, <1>3, PTL DEF Markov!Spec

-------------------------------------------------------------------------------
(* The composition: each part of Tables behaves as its module says             *)

LEMMA PartsStep ==
  ASSUME [TablesNext]_<<part, sources, table, scores, model>>
  PROVE  /\ [Next]_vars
         /\ [Table!Next]_Table!vars
         /\ [Scores!Next]_Scores!vars
         /\ [Markov!Next]_Markov!vars
<1> USE DEF sources, table, scores, model, Table!vars, Scores!vars, Markov!vars
<1>1. CASE part = "sources" /\ Next /\ UNCHANGED <<part, table, scores, model>>
  BY <1>1
<1>2. CASE part = "connections" /\ Table!Next /\ UNCHANGED <<part, sources, scores, model>>
  BY <1>2
<1>3. CASE part = "scores" /\ Scores!Next /\ UNCHANGED <<part, sources, table, model>>
  BY <1>3
<1>4. CASE part = "model" /\ Markov!Next /\ UNCHANGED <<part, sources, table, scores>>
  BY <1>4
<1>5. CASE UNCHANGED <<part, sources, table, scores, model>>
  BY <1>5
<1> QED
  BY <1>1, <1>2, <1>3, <1>4, <1>5 DEF TablesNext

\* A behaviour of Tables is a behaviour of each of its parts.
THEOREM TablesAreParts == TablesSpec => Spec /\ Table!Spec /\ Scores!Spec /\ Markov!Spec
<1>1. TablesInit => Init /\ Table!Init /\ Scores!Init /\ Markov!Init
  BY DEF TablesInit
<1> QED
  BY <1>1, PartsStep, PTL DEF TablesSpec, Spec, Table!Spec, Scores!Spec, Markov!Spec

\* The caps that are enforced when an entry is added: the connection table keeps to its own
\* (tcp_reassembly.cpp:438-447), the scored tuples to theirs but for the one that triggers
\* the clearing.  Those that only evict_stale_state() enforces: trackers and dedup hashes
\* pass theirs by no more than what the packets since the last maintenance account for.
\* The entries of every table keep their types.
THEOREM CapsHoldAlways == TablesSpec => []CapsHold
<1>1. Table!TableBound /\ Scores!TypeOK /\ TypeOK /\ TrackersBounded => CapsHold
  BY DEF CapsHold
<1>2. TablesSpec => []Table!TableBound
  BY TablesAreParts, TableIsBounded, TablesAssumption, PTL DEF TablesAssumption
<1>3. TablesSpec => []Scores!TypeOK
  BY TablesAreParts, ScoresAreTyped, TablesAssumption, PTL DEF TablesAssumption
<1>4. TablesSpec => []TypeOK
  BY TablesAreParts, TypesHold, PTL
<1>5. TablesSpec => []TrackersBounded
  BY TablesAreParts, TrackersBoundedHolds, PTL
<1> QED
  BY <1>1, <1>2, <1>3, <1>4, <1>5, PTL

\* A reassembled payload leaves the connection table only by being pushed.
THEOREM PayloadLeavesPushedHolds == TablesSpec => PayloadLeavesPushed
BY TablesAreParts, NoPayloadIsLost, TablesAssumption, PTL
   DEF TablesAssumption, PayloadLeavesPushed

\* What leaves the connection table unfinished was idle, however old the time the
\* eviction works with; the code's timeouts (5 s and 120 s) are in this order.
THEOREM OnlyIdleLeavesHolds ==
  AggressiveTimeout <= ConnectionTimeout => (TablesSpec => OnlyIdleLeaves)
<1> SUFFICES ASSUME AggressiveTimeout <= ConnectionTimeout
             PROVE  TablesSpec => OnlyIdleLeaves
  OBVIOUS
<1>1. Table!Spec => Table!OnlyIdleLeaves
  BY OnlyTheIdleLeave, TablesAssumption DEF TablesAssumption
<1> QED
  BY <1>1, TablesAreParts, PTL DEF OnlyIdleLeaves

\* A new flow is shed only when every entry of the connection table has data or is young.
THEOREM SheddingIsJustifiedHolds == TablesSpec => SheddingIsJustified
BY TablesAreParts, SheddingHasReason, TablesAssumption, PTL
   DEF TablesAssumption, SheddingIsJustified

\* A behavioural signal rests on min_flows flows that were scored.
THEOREM SignalIsEarnedHolds == TablesSpec => []SignalIsEarned
BY TablesAreParts, SignalsAreEarned, TablesAssumption, PTL
   DEF TablesAssumption, SignalIsEarned

\* In live mode no tuple of a torrent peer signals.
THEOREM PeersNeverSignalHolds == TablesSpec => PeersNeverSignal
BY TablesAreParts, PeersAreExcluded, PTL DEF PeersNeverSignal

\* The model that scores the tuples is a distribution, before and after it is saved.
THEOREM ScoresAreProbabilitiesHolds == TablesSpec => []ScoresAreProbabilities
BY TablesAreParts, ModelIsProbabilistic, TablesAssumption, PTL
   DEF TablesAssumption, ScoresAreProbabilities
===============================================================================
