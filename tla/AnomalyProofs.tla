---------------------------- MODULE AnomalyProofs ----------------------------
(* Machine-checked proofs about Anomaly, for any hosts, address classes,       *)
(* traffic, thresholds and caps, from AnomalyAssumption alone.                 *)
EXTENDS Anomaly, FiniteSetTheorems, WellFoundedInduction, TLAPS

-------------------------------------------------------------------------------
(* Sums                                                                        *)

\* Induction over the natural numbers, as a fact about the sets closed under it.
LEMMA ClosedSetIsNat ==
  ASSUME NEW S \in SUBSET Nat, 0 \in S, \A n \in S : n + 1 \in S
  PROVE  S = Nat
<1> DEFINE T == Nat \ S
           R == OpToRel(<, Nat)
<1>1. IsWellFoundedOn(R, Nat)
  BY NatLessThanWellFounded, Zenon
<1>2. \A x, y \in Nat : y < x => <<y, x>> \in R
  BY DEF OpToRel
<1> HIDE DEF R
<1>3. T \subseteq Nat
  OBVIOUS
<1>4. ASSUME T # {}
      PROVE  FALSE
  <2>1. PICK x \in T : \A y \in T : ~ (<<y, x>> \in R)
    <3> HIDE DEF T
    <3> QED
      BY <1>1, <1>3, <1>4, WFMin
  <2>2. x - 1 \in T /\ x - 1 < x
    BY <2>1
  <2> QED
    BY <1>2, <1>3, <2>1, <2>2
<1> QED
  BY <1>4

\* A property of finite sets that holds of the empty one, and of a set as soon as it
\* holds of the set without any one element, holds of every subset of a finite set: S is
\* the set of the subsets that have it.
LEMMA SubsetInduction ==
  ASSUME NEW U, IsFiniteSet(U), NEW S, {} \in S,
         \A T \in SUBSET U : T # {} /\ (\A x \in T : T \ {x} \in S) => T \in S
  PROVE  \A T \in SUBSET U : T \in S
<1> DEFINE N == {n \in Nat : \A T \in SUBSET U : Cardinality(T) = n => T \in S}
<1>1. \A T \in SUBSET U : IsFiniteSet(T) /\ Cardinality(T) \in Nat
  BY FS_Subset, FS_CardinalityType
<1>2. 0 \in N
  BY <1>1, FS_EmptySet
<1>3. ASSUME NEW n \in N
      PROVE  n + 1 \in N
  <2>1. SUFFICES ASSUME NEW T \in SUBSET U, Cardinality(T) = n + 1
                 PROVE  T \in S
    OBVIOUS
  <2>2. T # {}
    <3>1. Cardinality({}) = 0
      BY FS_EmptySet
    <3> QED
      BY <2>1, <3>1
  <2>3. ASSUME NEW x \in T
        PROVE  T \ {x} \in S
    <3>1. Cardinality(T \ {x}) = n /\ T \ {x} \in SUBSET U
      BY <1>1, <2>1, FS_RemoveElement
    <3> QED
      BY <3>1
  <2> QED
    BY <2>2, <2>3
<1>4. N = Nat
  <2>1. N \in SUBSET Nat
    OBVIOUS
  <2> HIDE DEF N
  <2> QED
    BY <1>2, <1>3, <2>1, ClosedSetIsNat
<1> QED
  BY <1>1, <1>4

Sum(f, S) == MapThenSumSet(LAMBDA k : f[k], S)

LEMMA TotalIsSum ==
  ASSUME NEW f
  PROVE  Total(f) = Sum(f, DOMAIN f)
BY Zenon DEF Total, Sum

\* g adds up f over the subsets of U, one element at a time and in whatever order.
AddsUp(g, f, U) ==
  g[{}] = 0 /\ \A T \in SUBSET U : \A x \in T : g[T] = f[x] + g[T \ {x}]

\* Whatever adds up f is its sum.
LEMMA SumIs ==
  ASSUME NEW U, IsFiniteSet(U), NEW f, NEW g, AddsUp(g, f, U)
  PROVE  Sum(f, U) = g[U]
<1>0. g[{}] = 0 /\ \A T \in SUBSET U : \A x \in T : g[T] = f[x] + g[T \ {x}]
  BY DEF AddsUp
<1> DEFINE Adds(iter) ==
             iter = [s \in SUBSET U |->
                       IF s = {} THEN 0
                       ELSE f[CHOOSE x \in s : TRUE] + iter[s \ {CHOOSE x \in s : TRUE}]]
           h == CHOOSE iter : Adds(iter)
           w == [T \in SUBSET U |-> g[T]]
<1>1. Sum(f, U) = h[U]
  BY Zenon DEF Sum, MapThenSumSet, MapThenFoldSet
<1>2. Adds(w)
  <2>1. ASSUME NEW T \in SUBSET U
        PROVE  w[T] = IF T = {} THEN 0
                      ELSE f[CHOOSE x \in T : TRUE] + w[T \ {CHOOSE x \in T : TRUE}]
    <3>1. CASE T # {}
      <4> DEFINE c == CHOOSE x \in T : TRUE
      <4>1. c \in T
        BY <3>1
      <4> HIDE DEF c
      <4>2. w[T] = g[T] /\ w[T \ {c}] = g[T \ {c}]
        OBVIOUS
      <4>3. g[T] = f[c] + g[T \ {c}]
        BY <1>0, <4>1
      <4> QED
        BY <3>1, <4>2, <4>3 DEF c
    <3> QED
      BY <1>0, <3>1
  <2>2. w = [s \in SUBSET U |-> IF s = {} THEN 0
                      ELSE f[CHOOSE x \in s : TRUE] + w[s \ {CHOOSE x \in s : TRUE}]]
    BY <2>1
  <2> QED
    BY <2>2
<1>3. Adds(h)
  <2>1. \E iter : Adds(iter)
    BY <1>2
  <2> HIDE DEF Adds, w
  <2> QED
    BY <2>1, Zenon
<1>4. h[{}] = 0 /\ \A T \in SUBSET U : T # {} =>
        h[T] = f[CHOOSE x \in T : TRUE] + h[T \ {CHOOSE x \in T : TRUE}]
  <2> HIDE DEF h
  <2> QED
    BY <1>3
<1> HIDE DEF Adds, h, w
<1> DEFINE S == {T \in SUBSET U : h[T] = g[T]}
<1>5. {} \in S
  BY <1>0, <1>4
<1>6. ASSUME NEW T \in SUBSET U, T # {}, \A x \in T : T \ {x} \in S
      PROVE  T \in S
  <2> DEFINE c == CHOOSE x \in T : TRUE
  <2>1. c \in T
    BY <1>6
  <2>2. h[T] = f[c] + h[T \ {c}]
    BY <1>4, <1>6
  <2> HIDE DEF c
  <2>3. h[T \ {c}] = g[T \ {c}] /\ g[T] = f[c] + g[T \ {c}]
    BY <1>0, <1>6, <2>1
  <2> QED
    BY <2>2, <2>3
<1>7. U \in S
  <2> HIDE DEF S
  <2> QED
    BY <1>5, <1>6, SubsetInduction, SMTT(30)
<1> QED
  BY <1>1, <1>7
\* A sum of equal terms.
LEMMA SumOfEqual ==
  ASSUME NEW U, IsFiniteSet(U), NEW c \in Int, NEW f, \A x \in U : f[x] = c
  PROVE  Sum(f, U) = Cardinality(U) * c
<1> DEFINE g == [T \in SUBSET U |-> Cardinality(T) * c]
<1>1. \A T \in SUBSET U : IsFiniteSet(T) /\ Cardinality(T) \in Nat
  BY FS_Subset, FS_CardinalityType
<1>2. g[{}] = 0
  BY FS_EmptySet
<1>3. ASSUME NEW T \in SUBSET U, NEW x \in T
      PROVE  g[T] = f[x] + g[T \ {x}]
  <2>1. Cardinality(T \ {x}) = Cardinality(T) - 1 /\ Cardinality(T \ {x}) \in Nat
    BY <1>1, FS_RemoveElement
  <2>2. g[T] = Cardinality(T) * c /\ g[T \ {x}] = (Cardinality(T) - 1) * c /\ f[x] = c
    BY <2>1
  <2> HIDE DEF g
  <2>3. Cardinality(T) * c = c + ((Cardinality(T) - 1) * c)
    BY <1>1
  <2> QED
    BY <2>2, <2>3
<1>4. g[U] = Cardinality(U) * c
  OBVIOUS
<1> HIDE DEF g
<1>5. AddsUp(g, f, U)
  BY <1>2, <1>3 DEF AddsUp
<1>6. Sum(f, U) = g[U]
  BY <1>5, SumIs
<1> QED
  BY <1>4, <1>6

\* A sum of natural numbers counts the units of its terms.
Units(f, S) == {u \in S \X Nat : u[2] \in 1 .. f[u[1]]}

LEMMA UpTo ==
  ASSUME NEW n \in Nat
  PROVE  IsFiniteSet(1 .. n) /\ Cardinality(1 .. n) = n
BY FS_Interval

LEMMA UnitsOfOne ==
  ASSUME NEW x, NEW n \in Nat
  PROVE  IsFiniteSet({x} \X (1 .. n)) /\ Cardinality({x} \X (1 .. n)) = n
<1> DEFINE h == [i \in 1 .. n |-> <<x, i>>]
<1>1. h \in Bijection(1 .. n, {x} \X (1 .. n))
  <2>1. h \in [1 .. n -> {x} \X (1 .. n)]
    OBVIOUS
  <2>2. \A i, j \in 1 .. n : h[i] = h[j] => i = j
    OBVIOUS
  <2>3. \A u \in {x} \X (1 .. n) : \E i \in 1 .. n : h[i] = u
    OBVIOUS
  <2> HIDE DEF h
  <2> QED
    BY <2>1, <2>2, <2>3 DEF Bijection, Injection, Surjection, IsInjective
<1>2. IsFiniteSet(1 .. n) /\ Cardinality(1 .. n) = n
  BY UpTo
<1>3. ExistsBijection(1 .. n, {x} \X (1 .. n))
  BY <1>1 DEF ExistsBijection
<1> QED
  BY <1>2, <1>3, FS_Bijection

LEMMA SumIsUnits ==
  ASSUME NEW U, IsFiniteSet(U), NEW f, \A x \in U : f[x] \in Nat
  PROVE  IsFiniteSet(Units(f, U)) /\ Sum(f, U) = Cardinality(Units(f, U))
<1>1. ASSUME NEW T \in SUBSET U, NEW x \in T
      PROVE  /\ Units(f, T) = Units(f, T \ {x}) \cup ({x} \X (1 .. f[x]))
             /\ Units(f, T \ {x}) \cap ({x} \X (1 .. f[x])) = {}
             /\ IsFiniteSet({x} \X (1 .. f[x])) /\ Cardinality({x} \X (1 .. f[x])) = f[x]
  <2>1. f[x] \in Nat
    OBVIOUS
  <2>2. IsFiniteSet({x} \X (1 .. f[x])) /\ Cardinality({x} \X (1 .. f[x])) = f[x]
    BY <2>1, UnitsOfOne
  <2>3. Units(f, T) = Units(f, T \ {x}) \cup ({x} \X (1 .. f[x]))
    <3>1. ASSUME NEW y \in T, NEW n \in Nat
          PROVE  <<y, n>> \in Units(f, T)
                   <=> <<y, n>> \in Units(f, T \ {x}) \cup ({x} \X (1 .. f[x]))
      <4>1. CASE y = x
        BY <2>1, <4>1 DEF Units
      <4>2. CASE y # x
        BY <2>1, <4>2 DEF Units
      <4> QED
        BY <4>1, <4>2
    <3>2. /\ Units(f, T) \subseteq T \X Nat
          /\ Units(f, T \ {x}) \cup ({x} \X (1 .. f[x])) \subseteq T \X Nat
      BY <2>1 DEF Units
    <3>3. \A u \in T \X Nat : u = <<u[1], u[2]>> /\ u[1] \in T /\ u[2] \in Nat
      OBVIOUS
    <3>4. \A u \in T \X Nat : u \in Units(f, T)
            <=> u \in Units(f, T \ {x}) \cup ({x} \X (1 .. f[x]))
      BY <3>1, <3>3
    <3> QED
      BY <3>2, <3>4
  <2>4. Units(f, T \ {x}) \cap ({x} \X (1 .. f[x])) = {}
    BY DEF Units
  <2> QED
    BY <2>2, <2>3, <2>4
<1> DEFINE S == {T \in SUBSET U : IsFiniteSet(Units(f, T))}
<1>2. Units(f, {}) = {}
  BY DEF Units
<1>3. \A T \in SUBSET U : T \in S
  <2>1. {} \in S
    BY <1>2, FS_EmptySet
  <2>2. ASSUME NEW T \in SUBSET U, T # {}, \A x \in T : T \ {x} \in S
        PROVE  T \in S
    <3>1. PICK x \in T : TRUE
      BY <2>2
    <3>2. IsFiniteSet(Units(f, T \ {x}))
      BY <2>2
    <3>3. IsFiniteSet({x} \X (1 .. f[x]))
      BY <1>1
    <3>4. IsFiniteSet(Units(f, T \ {x}) \cup ({x} \X (1 .. f[x])))
      BY <3>2, <3>3, FS_Union
    <3> QED
      BY <1>1, <3>4
  <2> HIDE DEF S
  <2> QED
    BY <2>1, <2>2, SubsetInduction
<1>4. \A T \in SUBSET U : IsFiniteSet(Units(f, T)) /\ Cardinality(Units(f, T)) \in Nat
  BY <1>3, FS_CardinalityType
<1> DEFINE g == [T \in SUBSET U |-> Cardinality(Units(f, T))]
<1>5. g[{}] = 0
  BY <1>2, FS_EmptySet
<1>6. ASSUME NEW T \in SUBSET U, NEW x \in T
      PROVE  g[T] = f[x] + g[T \ {x}]
  <2>1. /\ IsFiniteSet(Units(f, T \ {x})) /\ Cardinality(Units(f, T \ {x})) \in Nat
        /\ f[x] \in Nat
    BY <1>4
  <2>2. Cardinality(Units(f, T)) = Cardinality(Units(f, T \ {x})) + f[x]
    <3> DEFINE A == Units(f, T \ {x})
               B == {x} \X (1 .. f[x])
    <3>1. IsFiniteSet(A) /\ IsFiniteSet(B) /\ Cardinality(B) = f[x] /\ A \cap B = {}
          /\ Units(f, T) = A \cup B
      BY <1>1, <2>1
    <3> HIDE DEF A, B
    <3>2. Cardinality(A \cup B) = Cardinality(A) + Cardinality(B) - Cardinality(A \cap B)
      BY <3>1, FS_Union
    <3>3. Cardinality(A \cap B) = 0
      BY <3>1, FS_EmptySet
    <3>4. Cardinality(A) \in Nat
      BY <3>1, FS_CardinalityType
    <3>5. Cardinality(Units(f, T)) = Cardinality(A) + f[x]
      BY <2>1, <3>1, <3>2, <3>3, <3>4
    <3> QED
      BY <3>5 DEF A
  <2> QED
    BY <2>1, <2>2
<1>7. g[U] = Cardinality(Units(f, U))
  OBVIOUS
<1> HIDE DEF g
<1>8. AddsUp(g, f, U)
  BY <1>5, <1>6 DEF AddsUp
<1>9. Sum(f, U) = g[U]
  BY <1>8, SumIs
<1> QED
  BY <1>4, <1>7, <1>9

\* One unit more in one term is one more in the sum.
LEMMA SumOneMore ==
  ASSUME NEW U, IsFiniteSet(U), NEW f \in [U -> Nat], NEW q \in U
  PROVE  Sum([f EXCEPT ![q] = @ + 1], U) = Sum(f, U) + 1
<1> DEFINE g == [f EXCEPT ![q] = @ + 1]
           u == <<q, f[q] + 1>>
<1>1. g \in [U -> Nat] /\ g[q] = f[q] + 1 /\ \A x \in U \ {q} : g[x] = f[x]
  OBVIOUS
<1> HIDE DEF g
<1>2. Units(g, U) = Units(f, U) \cup {u}
  <2>1. ASSUME NEW x \in U, NEW n \in Nat
        PROVE  <<x, n>> \in Units(g, U) <=> <<x, n>> \in Units(f, U) \/ <<x, n>> = u
    <3>1. CASE x = q
      BY <1>1, <3>1 DEF Units
    <3>2. CASE x # q
      BY <1>1, <3>2 DEF Units
    <3> QED
      BY <3>1, <3>2
  <2>2. Units(g, U) \subseteq U \X Nat /\ Units(f, U) \subseteq U \X Nat /\ u \in U \X Nat
    BY DEF Units
  <2> HIDE DEF u
  <2>3. \A y \in U \X Nat : y = <<y[1], y[2]>> /\ y[1] \in U /\ y[2] \in Nat
    OBVIOUS
  <2>4. \A y \in U \X Nat : y \in Units(g, U) <=> y \in Units(f, U) \/ y = u
    BY <2>1, <2>3
  <2> QED
    BY <2>2, <2>4
<1>3. u \notin Units(f, U)
  BY DEF Units
<1>4. IsFiniteSet(Units(f, U)) /\ Sum(f, U) = Cardinality(Units(f, U))
  BY SumIsUnits
<1>5. Sum(g, U) = Cardinality(Units(g, U))
  BY <1>1, SumIsUnits
<1>6. Cardinality(Units(f, U) \cup {u}) = Cardinality(Units(f, U)) + 1
  BY <1>3, <1>4, FS_AddElement
<1>7. Sum(g, U) = Sum(f, U) + 1
  BY <1>2, <1>4, <1>5, <1>6
<1> QED
  BY <1>7 DEF g

LEMMA SumOfNothing ==
  ASSUME NEW U, IsFiniteSet(U)
  PROVE  Sum([q \in U |-> 0], U) = 0
<1>1. Sum([q \in U |-> 0], U) = Cardinality(U) * 0
  BY SumOfEqual
<1>2. Cardinality(U) \in Nat
  BY FS_CardinalityType
<1> QED
  BY <1>1, <1>2

-------------------------------------------------------------------------------
(* The inductive invariant                                                     *)

\* A tracker, for packets to the ports P, at most n of them up to time now: its total is
\* what its ports add up to, a port has no more targets than SYNs, and every target is
\* private or in the footprint.
OkTracker(t, P, now, n) ==
  /\ t \in [ttl : {0, 64, 128, 255}, first : 0 .. now, total : 0 .. n,
            syns : [P -> 0 .. n], targets : [P -> SUBSET Hosts], ext : SUBSET Hosts]
  /\ t.total = Sum(t.syns, P)
  /\ \A q \in P : Cardinality(t.targets[q]) <= t.syns[q]
  /\ \A q \in P : t.targets[q] \ Private \subseteq t.ext

\* A tracker of s has the TTL of a packet of s.
OneStack(T, s, t) ==
  t.ttl # 0 =>
    \E p \in T : p.src = s /\ TtlCounts(p) /\ estimate_initial_ttl(p.ttl) = t.ttl

TrackersOk ==
  \A s \in DOMAIN tracker :
    /\ s \in Hosts
    /\ OkTracker(tracker[s], Ports, clock, packets)
    /\ OneStack(traffic, s, tracker[s])

\* The times of a beacon tracker, at most n of them up to time now.
OkTimes(ts, now, n) ==
  /\ ts \in Seq(0 .. now) /\ ts # <<>> /\ Len(ts) <= n
  /\ \A i \in 1 .. Len(ts) - 1 : ts[i] <= ts[i + 1]

BeaconsOk ==
  \A k \in DOMAIN beacon :
    k \in Hosts \X (Hosts \ Private) \X Ports /\ OkTimes(beacon[k], clock, packets)

Ground ==
  /\ mode \in Modes /\ traffic \in Traffics
  /\ clock \in 0 .. MaxTime /\ packets \in 0 .. MaxPackets /\ ended \in BOOLEAN
  /\ since \in 0 .. packets
  /\ alerted \subseteq raised /\ Culprits \subseteq Hosts
  /\ blocked \subseteq Hosts
  /\ inline \subseteq [src : Hosts, fate : {"pending", "dropped", "sent"}]
  /\ Cardinality(inline) <= 1

\* Inline, the blocklist is the culprits that may be blocked, no more and no less; a
\* capture that is read diverts nothing.
BlocklistIsCulprits ==
  /\ blocked \subseteq Culprits \ Allowlist
  /\ mode = "inline" => Culprits \ Allowlist \subseteq blocked
  /\ mode # "inline" => inline = {}

\* The tables that maintenance trims are finite, so that their sizes are numbers.
Growth ==
  /\ IsFiniteSet(DOMAIN tracker) /\ IsFiniteSet(DOMAIN beacon)
  /\ ~ended => IsFiniteSet(alerted)
  /\ TrackersBounded

AnomalyInv ==
  /\ Ground /\ TrackersOk /\ BeaconsOk /\ Growth
  /\ BlocklistIsCulprits /\ DropsAreJustified
  /\ DetectorsReport

-------------------------------------------------------------------------------
(* Types                                                                       *)

\* The assumption, as the proofs use it.
LEMMA Constants ==
  ASSUME AnomalyAssumption
  PROVE  /\ IsFiniteSet(Hosts) /\ Private \subseteq Hosts /\ Local \subseteq Hosts
         /\ Listed \subseteq Hosts /\ Allowlist \subseteq Hosts
         /\ ScanMin \in Nat \ {0} /\ SshMin \in Nat \ {0} /\ WormMin \in Nat \ {0}
         /\ FloodMin \in Nat \ {0} /\ FloodRate \in Nat \ {0} /\ SpamMin \in Nat \ {0}
         /\ MeanMin \in Nat \ {0} /\ MeanMax \in Nat
         /\ BeaconMin \in Nat \ {0, 1} /\ ManyHits \in Nat \ {0, 1}
         /\ PruneMin \in Nat \ {0, 1}
         /\ MaxSources \in Nat /\ MaxBeacons \in Nat /\ MaxHashes \in Nat
         /\ MaxPackets \in Nat /\ MaxTime \in Nat
BY DEF AnomalyAssumption, Local

LEMMA PacketTypes ==
  ASSUME AnomalyAssumption, Ground, NEW p \in traffic
  PROVE  /\ p \in Packets /\ p.src \in Hosts /\ p.dst \in Hosts /\ p.port \in PortNumbers
         /\ p.kind \in {"syn", "tcp", "udp"} /\ p.ttl \in 0 .. 255 /\ p.port \in Ports
<1>1. p \in Packets
  BY DEF AnomalyAssumption, Ground
<1> QED
  BY <1>1 DEF Packets, Ports

LEMMA PortTypes ==
  ASSUME AnomalyAssumption, Ground
  PROVE  Ports \subseteq PortNumbers /\ IsFiniteSet(Ports)
<1>1. Ports \subseteq PortNumbers
  BY PacketTypes DEF Ports
<1>2. IsFiniteSet(PortNumbers)
  <2> DEFINE last == 65535
  <2>1. last \in Int
    OBVIOUS
  <2>2. PortNumbers = 0 .. last
    BY DEF PortNumbers
  <2> HIDE DEF last
  <2>3. IsFiniteSet(0 .. last)
    BY <2>1, FS_Interval
  <2> QED
    BY <2>2, <2>3
<1> QED
  BY <1>1, <1>2, FS_Subset

LEMMA OnlyIs ==
  ASSUME NEW f, NEW S
  PROVE  DOMAIN Only(f, S) = S /\ \A j \in S : Only(f, S)[j] = f[j]
BY DEF Only

-------------------------------------------------------------------------------
(* Trackers                                                                    *)

\* Time passes and packets arrive without a change to a tracker.
LEMMA OkTrackerLater ==
  ASSUME NEW t, NEW P, NEW now \in Nat, NEW n \in Nat, NEW later \in Nat, NEW more \in Nat,
         now <= later, n <= more, OkTracker(t, P, now, n)
  PROVE  OkTracker(t, P, later, more)
<1>1. 0 .. now \subseteq 0 .. later /\ 0 .. n \subseteq 0 .. more
  OBVIOUS
<1>2. t \in [ttl : {0, 64, 128, 255}, first : 0 .. later, total : 0 .. more,
             syns : [P -> 0 .. more], targets : [P -> SUBSET Hosts], ext : SUBSET Hosts]
  BY <1>1 DEF OkTracker
<1> QED
  BY <1>2 DEF OkTracker

LEMMA NewTrackerOk ==
  ASSUME AnomalyAssumption, Ground, NEW now \in Nat, NEW n \in Nat
  PROVE  OkTracker(NewTracker, Ports, now, n)
<1>1. Sum([q \in Ports |-> 0], Ports) = 0
  BY PortTypes, SumOfNothing
<1>2. NewTracker \in
        [ttl : {0, 64, 128, 255}, first : 0 .. now, total : 0 .. n,
         syns : [Ports -> 0 .. n], targets : [Ports -> SUBSET Hosts], ext : SUBSET Hosts]
  BY DEF NewTracker
<1>3. NewTracker.total = Sum(NewTracker.syns, Ports)
  BY <1>1 DEF NewTracker
<1>4. Cardinality({}) = 0
  BY FS_EmptySet
<1> QED
  BY <1>2, <1>3, <1>4 DEF OkTracker, NewTracker

LEMMA TtlSeenOk ==
  ASSUME NEW t, NEW p, NEW P, NEW now \in Nat, NEW n \in Nat, OkTracker(t, P, now, n)
  PROVE  OkTracker(TtlSeen(t, p), P, now, n)
BY DEF OkTracker, TtlSeen, estimate_initial_ttl

LEMMA ExtSeenOk ==
  ASSUME NEW t, NEW d \in Hosts, NEW P, NEW now \in Nat, NEW n \in Nat,
         OkTracker(t, P, now, n)
  PROVE  OkTracker([t EXCEPT !.ext = @ \cup {d}], P, now, n)
BY DEF OkTracker

\* A SYN adds one to its port and to the total, and at most one target.
LEMMA SynSeenOk ==
  ASSUME AnomalyAssumption, Ground, NEW p \in traffic,
         NEW t, NEW n \in Nat, OkTracker(t, Ports, clock, n)
  PROVE  OkTracker(SynSeen(t, p), Ports, clock, n + 1)
<1> DEFINE u == SynSeen(t, p)
           q == p.port
<1>1. q \in Ports /\ p.dst \in Hosts /\ clock \in Nat /\ IsFiniteSet(Ports)
  BY PacketTypes, PortTypes, Constants DEF Ground
<1>2. /\ t.first \in 0 .. clock /\ t.total \in 0 .. n /\ t.syns \in [Ports -> 0 .. n]
      /\ t.targets \in [Ports -> SUBSET Hosts] /\ t.ext \in SUBSET Hosts
      /\ t.ttl \in {0, 64, 128, 255}
  BY DEF OkTracker
<1>3. /\ u = [ttl |-> t.ttl, first |-> IF t.total = 0 THEN clock ELSE t.first,
              total |-> t.total + 1, syns |-> [t.syns EXCEPT ![q] = @ + 1],
              targets |-> [t.targets EXCEPT ![q] = IF q < 1024 THEN @ \cup {p.dst} ELSE @],
              ext |-> IF p.dst \in Private THEN t.ext ELSE t.ext \cup {p.dst}]
  <2> DEFINE few == q < 1024
  <2>1. t \in [ttl : {0, 64, 128, 255}, first : 0 .. clock, total : 0 .. n,
               syns : [Ports -> 0 .. n], targets : [Ports -> SUBSET Hosts],
               ext : SUBSET Hosts]
    BY DEF OkTracker
  <2>2. u = [t EXCEPT !.first = IF t.total = 0 THEN clock ELSE t.first,
                      !.total = t.total + 1,
                      !.syns = [t.syns EXCEPT ![q] = @ + 1],
                      !.targets = [t.targets EXCEPT ![q] = IF few THEN @ \cup {p.dst} ELSE @],
                      !.ext = IF p.dst \in Private THEN t.ext ELSE t.ext \cup {p.dst}]
    BY <2>1 DEF SynSeen
  <2> HIDE DEF few, q, u
  <2>3. u = [ttl |-> t.ttl, first |-> IF t.total = 0 THEN clock ELSE t.first,
             total |-> t.total + 1, syns |-> [t.syns EXCEPT ![q] = @ + 1],
             targets |-> [t.targets EXCEPT ![q] = IF few THEN @ \cup {p.dst} ELSE @],
             ext |-> IF p.dst \in Private THEN t.ext ELSE t.ext \cup {p.dst}]
    BY <2>1, <2>2
  <2> QED
    BY <2>3 DEF few
<1> HIDE DEF u
<1>4. /\ u.ttl = t.ttl /\ u.first = (IF t.total = 0 THEN clock ELSE t.first)
      /\ u.total = t.total + 1 /\ u.syns = [t.syns EXCEPT ![q] = @ + 1]
      /\ u.targets = [t.targets EXCEPT ![q] = IF q < 1024 THEN @ \cup {p.dst} ELSE @]
      /\ u.ext = (IF p.dst \in Private THEN t.ext ELSE t.ext \cup {p.dst})
  BY <1>3
<1>5. u.syns \in [Ports -> 0 .. n + 1] /\ u.targets \in [Ports -> SUBSET Hosts]
      /\ u.ext \in SUBSET Hosts
  BY <1>1, <1>2, <1>4
<1>6. u \in [ttl : {0, 64, 128, 255}, first : 0 .. clock, total : 0 .. n + 1,
             syns : [Ports -> 0 .. n + 1], targets : [Ports -> SUBSET Hosts],
             ext : SUBSET Hosts]
  BY <1>1, <1>2, <1>3, <1>4, <1>5
<1>7. u.total = Sum(u.syns, Ports)
  <2>1. t.syns \in [Ports -> Nat]
    BY <1>2
  <2>2. Sum([t.syns EXCEPT ![q] = @ + 1], Ports) = Sum(t.syns, Ports) + 1
    BY <1>1, <2>1, SumOneMore
  <2> QED
    BY <1>4, <2>2 DEF OkTracker
<1>8. ASSUME NEW r \in Ports
      PROVE  /\ Cardinality(u.targets[r]) <= u.syns[r]
             /\ u.targets[r] \ Private \subseteq u.ext
  <2>1. Cardinality(t.targets[r]) <= t.syns[r] /\ t.targets[r] \ Private \subseteq t.ext
        /\ t.syns[r] \in Nat /\ t.targets[r] \subseteq Hosts
    BY <1>2 DEF OkTracker
  <2>2. CASE r = q
    <3>1. u.syns[r] = t.syns[r] + 1
          /\ u.targets[r] = (IF q < 1024 THEN t.targets[r] \cup {p.dst} ELSE t.targets[r])
      BY <1>2, <1>4, <2>2
    <3>2. IsFiniteSet(t.targets[r])
      BY <2>1, Constants, FS_Subset
    <3>3. Cardinality(t.targets[r] \cup {p.dst}) <= Cardinality(t.targets[r]) + 1
          /\ Cardinality(t.targets[r]) \in Nat
          /\ Cardinality(t.targets[r] \cup {p.dst}) \in Nat
      <4>1. Cardinality(t.targets[r]) \in Nat
        BY <3>2, FS_CardinalityType
      <4>2. Cardinality(t.targets[r] \cup {p.dst})
              = IF p.dst \in t.targets[r] THEN Cardinality(t.targets[r])
                ELSE Cardinality(t.targets[r]) + 1
        BY <3>2, FS_AddElement
      <4> QED
        BY <4>1, <4>2
    <3>4. Cardinality(u.targets[r]) <= u.syns[r]
      BY <2>1, <3>1, <3>3
    <3> QED
      BY <1>4, <2>1, <3>1, <3>4
  <2>3. CASE r # q
    <3>1. u.syns[r] = t.syns[r] /\ u.targets[r] = t.targets[r]
      BY <1>2, <1>4, <2>3
    <3> QED
      BY <1>4, <2>1, <3>1
  <2> QED
    BY <2>2, <2>3
<1>9. OkTracker(u, Ports, clock, n + 1)
  BY <1>6, <1>7, <1>8 DEF OkTracker
<1> QED
  BY <1>9 DEF u

LEMMA TtlOfSeen ==
  ASSUME AnomalyAssumption, Ground, NEW p \in traffic,
         NEW t, NEW n \in Nat, OkTracker(t, Ports, clock, n)
  PROVE  /\ SynSeen(t, p).ttl = t.ttl
         /\ TtlSeen(t, p).ttl = IF TtlCounts(p) THEN estimate_initial_ttl(p.ttl) ELSE t.ttl
<1>1. SynSeen(t, p).ttl = t.ttl
  BY DEF SynSeen, OkTracker
<1>2. TtlSeen(t, p).ttl = IF TtlCounts(p) THEN estimate_initial_ttl(p.ttl) ELSE t.ttl
  BY DEF TtlSeen, OkTracker
<1> QED
  BY <1>1, <1>2

LEMMA TrackerOfOk ==
  ASSUME AnomalyAssumption, Ground, TrackersOk, NEW s
  PROVE  /\ OkTracker(TrackerOf(s), Ports, clock, packets)
         /\ OneStack(traffic, s, TrackerOf(s))
<1>1. CASE s \in DOMAIN tracker
  BY <1>1 DEF TrackersOk, TrackerOf
<1>2. CASE s \notin DOMAIN tracker
  <2>1. clock \in Nat /\ packets \in Nat
    BY Constants DEF Ground
  <2>2. OkTracker(NewTracker, Ports, clock, packets)
    BY <2>1, NewTrackerOk
  <2>3. TrackerOf(s) = NewTracker
    BY <1>2 DEF TrackerOf
  <2>4. NewTracker.ttl = 0
    BY DEF NewTracker
  <2> QED
    BY <2>2, <2>3, <2>4 DEF OneStack
<1> QED
  BY <1>1, <1>2

\* The tracker of the source after a TCP packet.
Seen(p) ==
  IF p.kind = "syn" THEN SynSeen(TtlSeen(TrackerOf(p.src), p), p)
  ELSE TtlSeen(TrackerOf(p.src), p)

LEMMA SeenOk ==
  ASSUME AnomalyAssumption, Ground, TrackersOk, NEW p \in traffic
  PROVE  /\ OkTracker(Seen(p), Ports, clock, packets + 1)
         /\ OneStack(traffic, p.src, Seen(p))
<1> DEFINE old == TrackerOf(p.src)
           t == TtlSeen(old, p)
<1>1. clock \in Nat /\ packets \in Nat /\ packets + 1 \in Nat /\ packets <= packets + 1
      /\ clock <= clock
  BY Constants DEF Ground
<1>2. OkTracker(old, Ports, clock, packets) /\ OneStack(traffic, p.src, old)
  BY TrackerOfOk
<1> HIDE DEF old
<1>3. OkTracker(t, Ports, clock, packets)
  BY <1>1, <1>2, TtlSeenOk
<1>4. OneStack(traffic, p.src, t)
  <2>1. CASE TtlCounts(p)
    <3>1. t.ttl = estimate_initial_ttl(p.ttl)
      BY <1>1, <1>2, <2>1, TtlOfSeen
    <3> HIDE DEF t
    <3> QED
      BY <2>1, <3>1 DEF OneStack
  <2>2. CASE ~ TtlCounts(p)
    BY <1>2, <2>2 DEF TtlSeen
  <2> QED
    BY <2>1, <2>2
<1> HIDE DEF t
<1>5. OkTracker(SynSeen(t, p), Ports, clock, packets + 1)
      /\ SynSeen(t, p).ttl = t.ttl
  BY <1>1, <1>3, SynSeenOk, TtlOfSeen
<1>6. OneStack(traffic, p.src, SynSeen(t, p))
  BY <1>4, <1>5 DEF OneStack
<1>7. OkTracker(t, Ports, clock, packets + 1)
  BY <1>1, <1>3, OkTrackerLater
<1> QED
  BY <1>4, <1>5, <1>6, <1>7 DEF Seen, t, old

LEMMA AnomaliesIs ==
  ASSUME NEW p \in traffic, Anomalies(p)
  PROVE  tracker' = Put(tracker, p.src, Seen(p))
BY DEF Anomalies, Seen

LEMMA TrackersStep ==
  ASSUME AnomalyAssumption, Ground, TrackersOk, Next
  PROVE  TrackersOk'
<1>0. clock \in Nat /\ packets \in Nat /\ clock <= clock /\ packets <= packets
  BY Constants DEF Ground
<1>1. traffic' = traffic /\ Ports' = Ports
  <2>1. traffic' = traffic
    BY DEF Next, Inspect, Decide, Maintain, Flush, LlmConfirm, Tick
  <2> QED
    BY <2>1 DEF Ports
\* A table whose trackers are old ones.
<1>2. ASSUME \A s \in DOMAIN tracker' : s \in DOMAIN tracker /\ tracker'[s] = tracker[s],
             clock' \in Nat, packets' \in Nat, clock <= clock', packets <= packets'
      PROVE  TrackersOk'
  <2>1. ASSUME NEW s \in DOMAIN tracker'
        PROVE  /\ s \in Hosts /\ OkTracker(tracker'[s], Ports, clock', packets')
               /\ OneStack(traffic, s, tracker'[s])
    <3>1. /\ s \in Hosts /\ OkTracker(tracker[s], Ports, clock, packets)
          /\ OneStack(traffic, s, tracker[s]) /\ tracker'[s] = tracker[s]
      BY <1>2 DEF TrackersOk
    <3>2. OkTracker(tracker[s], Ports, clock', packets')
      BY <1>0, <1>2, <3>1, OkTrackerLater
    <3> QED
      BY <3>1, <3>2
  <2> QED
    BY <1>1, <2>1 DEF TrackersOk
\* A table with one new tracker.
<1>3. ASSUME NEW k \in Hosts, NEW t, tracker' = Put(tracker, k, t),
             clock' = clock, packets' = packets + 1,
             OkTracker(t, Ports, clock, packets + 1), OneStack(traffic, k, t)
      PROVE  TrackersOk'
  <2>1. ASSUME NEW s \in DOMAIN tracker'
        PROVE  /\ s \in Hosts /\ OkTracker(tracker'[s], Ports, clock', packets')
               /\ OneStack(traffic, s, tracker'[s])
    <3>1. CASE s = k
      <4>1. tracker'[s] = t
        BY <1>3, <3>1 DEF Put
      <4> QED
        BY <1>3, <3>1, <4>1
    <3>2. CASE s # k
      <4>1. s \in DOMAIN tracker /\ tracker'[s] = tracker[s]
        BY <1>3, <3>2 DEF Put
      <4>2. /\ s \in Hosts /\ OkTracker(tracker[s], Ports, clock, packets)
            /\ OneStack(traffic, s, tracker[s])
        BY <4>1 DEF TrackersOk
      <4>3. packets + 1 \in Nat /\ packets <= packets + 1
        BY <1>0
      <4>4. OkTracker(tracker[s], Ports, clock, packets + 1)
        BY <1>0, <4>2, <4>3, OkTrackerLater
      <4> QED
        BY <1>3, <4>1, <4>2, <4>4
    <3> QED
      BY <3>1, <3>2
  <2> QED
    BY <1>1, <2>1 DEF TrackersOk
<1>4. ASSUME NEW p \in traffic, Inspect(p)
      PROVE  TrackersOk'
  <2>1. clock' = clock /\ packets' = packets + 1 /\ p.src \in Hosts /\ p.dst \in Hosts
    BY <1>4, PacketTypes DEF Inspect
  <2>2. CASE p.kind # "udp"
    <3>1. tracker' = Put(tracker, p.src, Seen(p))
      BY <1>4, <2>2, AnomaliesIs DEF Inspect
    <3>2. OkTracker(Seen(p), Ports, clock, packets + 1) /\ OneStack(traffic, p.src, Seen(p))
      BY SeenOk
    <3> QED
      BY <1>3, <2>1, <3>1, <3>2
  <2>3. CASE p.kind = "udp" /\ p.dst \notin Local
    <3> DEFINE old == TrackerOf(p.src)
               t == [old EXCEPT !.ext = @ \cup {p.dst}]
    <3>1. tracker' = Put(tracker, p.src, t)
      BY <1>4, <2>3 DEF Inspect, Footprint
    <3>2. OkTracker(old, Ports, clock, packets) /\ OneStack(traffic, p.src, old)
      BY TrackerOfOk
    <3>3. packets + 1 \in Nat /\ packets <= packets + 1
      BY <1>0
    <3> HIDE DEF old
    <3>4. OkTracker(t, Ports, clock, packets)
      BY <1>0, <2>1, <3>2, ExtSeenOk
    <3>5. t.ttl = old.ttl
      BY <3>2 DEF OkTracker
    <3> HIDE DEF t
    <3>6. OkTracker(t, Ports, clock, packets + 1)
      BY <1>0, <3>3, <3>4, OkTrackerLater
    <3>7. OneStack(traffic, p.src, t)
      BY <3>2, <3>5 DEF OneStack
    <3> QED
      BY <1>3, <2>1, <3>1, <3>6, <3>7
  <2>4. CASE p.kind = "udp" /\ p.dst \in Local
    <3>1. tracker' = tracker
      BY <1>4, <2>4 DEF Inspect, Footprint
    <3> QED
      BY <1>0, <1>2, <2>1, <3>1
  <2> QED
    BY <2>2, <2>3, <2>4
<1>5. CASE Maintain
  <2>1. clock' = clock /\ packets' = packets
        /\ tracker' = Only(tracker, Capped(DOMAIN tracker, MaxSources))
    BY <1>5 DEF Maintain
  <2>2. Capped(DOMAIN tracker, MaxSources) \subseteq DOMAIN tracker
    BY DEF Capped
  <2>3. \A s \in DOMAIN tracker' : s \in DOMAIN tracker /\ tracker'[s] = tracker[s]
    BY <2>1, <2>2, OnlyIs
  <2> QED
    BY <1>0, <1>2, <2>1, <2>3
<1>6. CASE Tick
  BY <1>0, <1>2, <1>6 DEF Tick
<1>7. CASE Decide \/ Flush \/ \E p \in traffic : LlmConfirm(p.src)
  <2>1. UNCHANGED <<tracker, clock, packets>>
    BY <1>7 DEF Decide, Flush, LlmConfirm
  <2> QED
    BY <1>0, <1>2, <2>1
<1> QED
  BY <1>4, <1>5, <1>6, <1>7 DEF Next

-------------------------------------------------------------------------------
(* Beacon trackers                                                             *)

LEMMA OkTimesLater ==
  ASSUME NEW ts, NEW now \in Nat, NEW n \in Nat, NEW later \in Nat, NEW more \in Nat,
         now <= later, n <= more, OkTimes(ts, now, n)
  PROVE  OkTimes(ts, later, more)
<1>1. ts \in Seq(0 .. now) /\ ts # <<>> /\ Len(ts) <= n /\ Len(ts) \in Nat
      /\ \A i \in 1 .. Len(ts) - 1 : ts[i] <= ts[i + 1]
  BY DEF OkTimes
<1>2. ts \in Seq(0 .. later)
  <2>1. \A i \in 1 .. Len(ts) : ts[i] \in 0 .. later
    BY <1>1
  <2> QED
    BY <1>1, <2>1
<1>3. Len(ts) <= more
  BY <1>1
<1> QED
  BY <1>1, <1>2, <1>3 DEF OkTimes

\* A hit is recorded at the present time, which no earlier one exceeds.
LEMMA AppendOk ==
  ASSUME NEW now \in Nat, NEW n \in Nat, NEW ts, ts = <<>> \/ OkTimes(ts, now, n)
  PROVE  /\ OkTimes(Append(ts, now), now, n + 1)
         /\ SubSeq(Append(ts, now), 1, Len(ts)) = ts
<1> DEFINE us == Append(ts, now)
<1>1. ts \in Seq(0 .. now) /\ Len(ts) \in Nat /\ Len(ts) <= n
      /\ \A i \in 1 .. Len(ts) - 1 : ts[i] <= ts[i + 1]
  <2>1. CASE ts = <<>>
    <3>1. ts \in Seq(0 .. now) /\ Len(ts) = 0
      BY <2>1
    <3> QED
      BY <3>1
  <2>2. CASE OkTimes(ts, now, n)
    BY <2>2 DEF OkTimes
  <2> QED
    BY <2>1, <2>2
<1>2. /\ us \in Seq(0 .. now) /\ Len(us) = Len(ts) + 1 /\ us[Len(ts) + 1] = now
      /\ \A i \in 1 .. Len(ts) : us[i] = ts[i] /\ ts[i] \in 0 .. now
  BY <1>1
<1> HIDE DEF us
<1>3. us # <<>> /\ Len(us) <= n + 1
  BY <1>1, <1>2
<1>4. ASSUME NEW i \in 1 .. Len(us) - 1
      PROVE  us[i] <= us[i + 1]
  <2>1. CASE i = Len(ts)
    BY <1>1, <1>2, <2>1
  <2>2. CASE i # Len(ts)
    <3>1. i \in 1 .. Len(ts) - 1 /\ i \in 1 .. Len(ts) /\ i + 1 \in 1 .. Len(ts)
      BY <1>1, <1>2, <2>2
    <3> QED
      BY <1>1, <1>2, <3>1
  <2> QED
    BY <2>1, <2>2
<1>5. SubSeq(us, 1, Len(ts)) = ts
  <2>1. SubSeq(us, 1, Len(ts)) = [i \in 1 .. Len(ts) |-> us[i]]
    BY <1>1, <1>2
  <2>2. ts = [i \in 1 .. Len(ts) |-> ts[i]]
    BY <1>1
  <2> QED
    BY <1>2, <2>1, <2>2
<1> QED
  BY <1>2, <1>3, <1>4, <1>5 DEF OkTimes, us

\* The beacon trackers after a TCP packet: what was there, and one more hit.
LEMMA BeaconsSeen ==
  ASSUME AnomalyAssumption, Ground, BeaconsOk, NEW p \in traffic, Anomalies(p)
  PROVE  /\ DOMAIN beacon \subseteq DOMAIN beacon'
         /\ \A k \in DOMAIN beacon' :
              /\ k \in Hosts \X (Hosts \ Private) \X Ports
              /\ OkTimes(beacon'[k], clock, packets + 1)
              /\ k \in DOMAIN beacon => SubSeq(beacon'[k], 1, Len(beacon[k])) = beacon[k]
<1> DEFINE key == BeaconKey(p)
<1>0. clock \in Nat /\ packets \in Nat /\ packets + 1 \in Nat /\ clock <= clock
      /\ packets <= packets + 1
  BY Constants DEF Ground
<1>1. ASSUME NEW k \in DOMAIN beacon
      PROVE  /\ k \in Hosts \X (Hosts \ Private) \X Ports
             /\ OkTimes(beacon[k], clock, packets) /\ OkTimes(beacon[k], clock, packets + 1)
             /\ SubSeq(beacon[k], 1, Len(beacon[k])) = beacon[k]
  <2>1. k \in Hosts \X (Hosts \ Private) \X Ports /\ OkTimes(beacon[k], clock, packets)
    BY DEF BeaconsOk
  <2>2. OkTimes(beacon[k], clock, packets + 1)
    BY <1>0, <2>1, OkTimesLater
  <2>3. beacon[k] \in Seq(0 .. clock)
    BY <2>1 DEF OkTimes
  <2> QED
    BY <2>1, <2>2, <2>3
<1>2. CASE p.kind = "syn" /\ p.dst \notin Private
  <2>1. beacon' = Put(beacon, key, Append(Hits(key), clock))
    BY <1>2 DEF Anomalies
  <2>2. key \in Hosts \X (Hosts \ Private) \X Ports
    BY <1>2, PacketTypes DEF BeaconKey
  <2>3. /\ OkTimes(Append(Hits(key), clock), clock, packets + 1)
        /\ SubSeq(Append(Hits(key), clock), 1, Len(Hits(key))) = Hits(key)
    <3>1. Hits(key) = <<>> \/ OkTimes(Hits(key), clock, packets)
      BY <1>1 DEF Hits
    <3> HIDE DEF key
    <3> QED
      BY <1>0, <3>1, AppendOk
  <2> HIDE DEF key
  <2>4. DOMAIN beacon' = DOMAIN beacon \cup {key}
    BY <2>1 DEF Put
  <2>5. ASSUME NEW k \in DOMAIN beacon', k # key
        PROVE  k \in DOMAIN beacon /\ beacon'[k] = beacon[k]
    BY <2>1, <2>5 DEF Put
  <2>6. beacon'[key] = Append(Hits(key), clock) /\ (key \in DOMAIN beacon => Hits(key) = beacon[key])
    BY <2>1 DEF Put, Hits
  <2>7. ASSUME NEW k \in DOMAIN beacon'
        PROVE  /\ k \in Hosts \X (Hosts \ Private) \X Ports
               /\ OkTimes(beacon'[k], clock, packets + 1)
               /\ k \in DOMAIN beacon => SubSeq(beacon'[k], 1, Len(beacon[k])) = beacon[k]
    <3>1. CASE k = key
      BY <2>2, <2>3, <2>6, <3>1
    <3>2. CASE k # key
      BY <1>1, <2>5, <3>2
    <3> QED
      BY <3>1, <3>2
  <2> QED
    BY <2>4, <2>7
<1>3. CASE ~ (p.kind = "syn" /\ p.dst \notin Private)
  <2>1. beacon' = beacon
    BY <1>3 DEF Anomalies
  <2> QED
    BY <1>1, <2>1
<1> QED
  BY <1>2, <1>3

LEMMA PrunedIs ==
  /\ DOMAIN Pruned \subseteq DOMAIN beacon
  /\ \A k \in DOMAIN Pruned : Pruned[k] = beacon[k]
  /\ Cardinality(Candidates) <= MaxBeacons => Candidates \subseteq DOMAIN Pruned
<1>1. Candidates \subseteq DOMAIN beacon
  BY DEF Candidates
<1>2. CASE Pruned = beacon
  BY <1>1, <1>2
<1>3. CASE Pruned = Only(beacon, Candidates)
  BY <1>1, <1>3 DEF Only
<1>4. CASE Pruned = Empty /\ ~ (Cardinality(Candidates) <= MaxBeacons)
  BY <1>4 DEF Empty
<1> QED
  BY <1>2, <1>3, <1>4 DEF Pruned

LEMMA BeaconsStep ==
  ASSUME AnomalyAssumption, Ground, BeaconsOk, Next
  PROVE  BeaconsOk'
<1>0. clock \in Nat /\ packets \in Nat /\ clock <= clock /\ packets <= packets
      /\ packets + 1 \in Nat /\ packets <= packets + 1
  BY Constants DEF Ground
<1>1. Ports' = Ports
  <2>1. traffic' = traffic
    BY DEF Next, Inspect, Decide, Maintain, Flush, LlmConfirm, Tick
  <2> QED
    BY <2>1 DEF Ports
<1>2. ASSUME \A k \in DOMAIN beacon' : k \in DOMAIN beacon /\ beacon'[k] = beacon[k],
             clock' \in Nat, packets' \in Nat, clock <= clock', packets <= packets'
      PROVE  BeaconsOk'
  <2>1. ASSUME NEW k \in DOMAIN beacon'
        PROVE  /\ k \in Hosts \X (Hosts \ Private) \X Ports
               /\ OkTimes(beacon'[k], clock', packets')
    <3>1. /\ k \in Hosts \X (Hosts \ Private) \X Ports
          /\ OkTimes(beacon[k], clock, packets) /\ beacon'[k] = beacon[k]
      BY <1>2 DEF BeaconsOk
    <3>2. OkTimes(beacon[k], clock', packets')
      BY <1>0, <1>2, <3>1, OkTimesLater
    <3> QED
      BY <3>1, <3>2
  <2> QED
    BY <1>1, <2>1 DEF BeaconsOk
<1>3. ASSUME NEW p \in traffic, Inspect(p)
      PROVE  BeaconsOk'
  <2>1. clock' = clock /\ packets' = packets + 1
    BY <1>3 DEF Inspect
  <2>2. CASE p.kind # "udp"
    <3>1. Anomalies(p)
      BY <1>3, <2>2 DEF Inspect
    <3>2. \A k \in DOMAIN beacon' :
            /\ k \in Hosts \X (Hosts \ Private) \X Ports
            /\ OkTimes(beacon'[k], clock, packets + 1)
      BY <3>1, BeaconsSeen
    <3> QED
      BY <1>1, <2>1, <3>2 DEF BeaconsOk
  <2>3. CASE p.kind = "udp"
    <3>1. beacon' = beacon
      BY <1>3, <2>3 DEF Inspect, Footprint
    <3> QED
      BY <1>0, <1>2, <2>1, <3>1
  <2> QED
    BY <2>2, <2>3
<1>4. CASE Maintain
  <2>1. clock' = clock /\ packets' = packets /\ beacon' = Pruned
    BY <1>4 DEF Maintain
  <2>2. \A k \in DOMAIN beacon' : k \in DOMAIN beacon /\ beacon'[k] = beacon[k]
    BY <2>1, PrunedIs
  <2> QED
    BY <1>0, <1>2, <2>1, <2>2
<1>5. CASE Tick
  BY <1>0, <1>2, <1>5 DEF Tick
<1>6. CASE Decide \/ Flush \/ \E p \in traffic : LlmConfirm(p.src)
  <2>1. UNCHANGED <<beacon, clock, packets>>
    BY <1>6 DEF Decide, Flush, LlmConfirm
  <2> QED
    BY <1>0, <1>2, <2>1
<1> QED
  BY <1>3, <1>4, <1>5, <1>6 DEF Next

\* What CandidatesSurvive says of a step.
LEMMA CandidatesStep ==
  ASSUME AnomalyAssumption, Ground, BeaconsOk, [Next]_vars
  PROVE  /\ Cardinality(Candidates) <= MaxBeacons => Candidates \subseteq DOMAIN beacon'
         /\ \A k \in DOMAIN beacon \cap DOMAIN beacon' :
              SubSeq(beacon'[k], 1, Len(beacon[k])) = beacon[k]
<1>1. Candidates \subseteq DOMAIN beacon
  BY DEF Candidates
<1>2. \A k \in DOMAIN beacon : SubSeq(beacon[k], 1, Len(beacon[k])) = beacon[k]
  <2>1. ASSUME NEW k \in DOMAIN beacon
        PROVE  beacon[k] \in Seq(0 .. clock)
    BY DEF BeaconsOk, OkTimes
  <2> QED
    BY <2>1
<1>3. CASE \E p \in traffic : Inspect(p) /\ p.kind # "udp"
  <2>1. PICK p \in traffic : Anomalies(p)
    BY <1>3 DEF Inspect
  <2> QED
    BY <1>1, <2>1, BeaconsSeen
<1>4. CASE Maintain
  <2>1. beacon' = Pruned
    BY <1>4 DEF Maintain
  <2> QED
    BY <1>2, <2>1, PrunedIs
<1>5. CASE beacon' = beacon
  BY <1>1, <1>2, <1>5
<1>6. ~ Maintain /\ ~ (\E p \in traffic : Inspect(p) /\ p.kind # "udp") => beacon' = beacon
  BY DEF Next, Inspect, Footprint, Decide, Flush, LlmConfirm, Tick, vars
<1> QED
  BY <1>3, <1>4, <1>5, <1>6

-------------------------------------------------------------------------------
(* Alerts and the blocklist                                                    *)

\* The keys of a TCP packet.
PacketKeys(p) ==
  Key(Spoofed(TrackerOf(p.src), p), <<"IP Spoofing", p.src>>)
  \cup Key(Intel(p), <<"Threat Intel", p.src, p.dst>>)
  \cup Reports(p.src, Seen(p))

LEMMA AnomaliesAlert ==
  ASSUME NEW p \in traffic, Anomalies(p)
  PROVE  Alert(PacketKeys(p), p.src)
BY DEF Anomalies, Seen, PacketKeys

LEMMA ReportsOfSource ==
  ASSUME NEW s, NEW t, NEW k \in Reports(s, t)
  PROVE  k[2] = s /\ k[1] # "IP Spoofing"
<1>1. \/ k = <<"Port Scan", s>> \/ k = <<"SSH Brute Force", s>> \/ k = <<"DDoS", s>>
      \/ \E q \in Swept(t) : k = <<"Worm Propagation Scan", s, q>>
  BY Zenon DEF Reports, Key
<1>2. CASE \E tag \in {"Port Scan", "SSH Brute Force", "DDoS"} : k = <<tag, s>>
  <2>1. PICK tag \in {"Port Scan", "SSH Brute Force", "DDoS"} : k = <<tag, s>>
    BY <1>2
  <2>2. k[1] = tag /\ k[2] = s
    BY <2>1
  <2> QED
    BY <2>2
<1>3. CASE \E q \in Swept(t) : k = <<"Worm Propagation Scan", s, q>>
  <2>1. PICK q \in Swept(t) : k = <<"Worm Propagation Scan", s, q>>
    BY <1>3
  <2> QED
    BY <2>1
<1> QED
  BY <1>1, <1>2, <1>3

\* A key names the source first; one for spoofing takes a spoofed packet.
LEMMA KeysOfSource ==
  ASSUME NEW p, NEW k \in PacketKeys(p)
  PROVE  k[2] = p.src /\ (k[1] = "IP Spoofing" => Spoofed(TrackerOf(p.src), p))
<1>1. CASE k \in Reports(p.src, Seen(p))
  BY <1>1, ReportsOfSource
<1>2. CASE k \in Key(Spoofed(TrackerOf(p.src), p), <<"IP Spoofing", p.src>>)
  <2>1. k = <<"IP Spoofing", p.src>> /\ Spoofed(TrackerOf(p.src), p)
    BY <1>2, Zenon DEF Key
  <2>2. k[2] = p.src
    BY <2>1
  <2> QED
    BY <2>1, <2>2
<1>3. CASE k \in Key(Intel(p), <<"Threat Intel", p.src, p.dst>>)
  <2>1. k = <<"Threat Intel", p.src, p.dst>>
    BY <1>3, Zenon DEF Key
  <2>2. k[2] = p.src /\ k[1] = "Threat Intel"
    BY <2>1
  <2> QED
    BY <2>2
<1> QED
  BY <1>1, <1>2, <1>3 DEF PacketKeys

\* Nobody but s becomes a culprit, and inline s is blocked unless it may not be.
LEMMA AlertOk ==
  ASSUME NEW keys, NEW s \in Hosts, \A k \in keys : k[2] = s, Alert(keys, s),
         mode' = mode, alerted \subseteq raised, Culprits \subseteq Hosts, BlocklistIsCulprits
  PROVE  /\ alerted' \subseteq raised' /\ keys \subseteq raised' /\ raised \subseteq raised'
         /\ raised' \subseteq raised \cup keys
         /\ Culprits \subseteq Culprits' /\ Culprits' \subseteq Hosts
         /\ blocked' \subseteq Culprits' \ Allowlist
         /\ mode' = "inline" => Culprits' \ Allowlist \subseteq blocked'
<1>1. /\ alerted' = alerted \cup keys /\ raised' = raised \cup (keys \ alerted)
      /\ IF mode = "inline" /\ keys \ alerted # {} THEN block_source(s) ELSE UNCHANGED blocked
  BY DEF Alert
<1>2. alerted' \subseteq raised' /\ keys \subseteq raised' /\ raised \subseteq raised'
      /\ raised' \subseteq raised \cup keys
  BY <1>1
<1>3. Culprits \subseteq Culprits' /\ Culprits' \subseteq Culprits \cup {s}
  BY <1>2 DEF Culprits
<1>4. CASE keys \ alerted = {}
  <2>1. raised' = raised /\ blocked' = blocked
    BY <1>1, <1>4
  <2> QED
    BY <1>2, <1>3, <2>1 DEF BlocklistIsCulprits, Culprits
<1>5. CASE keys \ alerted # {}
  <2>1. s \in Culprits'
    BY <1>1, <1>5 DEF Culprits
  <2>2. CASE mode = "inline"
    BY <1>1, <1>2, <1>3, <1>5, <2>1, <2>2 DEF BlocklistIsCulprits, block_source
  <2>3. CASE mode # "inline"
    BY <1>1, <1>2, <1>3, <2>3 DEF BlocklistIsCulprits
  <2> QED
    BY <2>2, <2>3
<1> QED
  BY <1>4, <1>5

LEMMA BeaconKeys ==
  ASSUME BeaconsOk, NEW k \in Beacons
  PROVE  k[2] \in Hosts /\ k[1] = "C2 Beaconing"
<1>1. PICK j \in DOMAIN beacon : k = <<"C2 Beaconing", j[1], j[2], j[3]>>
  BY DEF Beacons
<1>2. j \in Hosts \X (Hosts \ Private) \X Ports
  BY DEF BeaconsOk
<1>3. j[1] \in Hosts
  BY <1>2
<1> QED
  BY <1>1, <1>3

LEMMA SpamBotKeys ==
  ASSUME TrackersOk, NEW k \in SpamBots
  PROVE  k[2] \in Hosts /\ k[1] = "Botnet Host"
<1>1. PICK s \in DOMAIN tracker : k \in {<<"Botnet Host", s, d>> : d \in tracker[s].ext}
  BY DEF SpamBots
<1>2. PICK d \in tracker[s].ext : k = <<"Botnet Host", s, d>>
  BY <1>1
<1>3. k[2] = s /\ k[1] = "Botnet Host"
  BY <1>2
<1>4. s \in Hosts
  BY DEF TrackersOk
<1> QED
  BY <1>3, <1>4

\* The alerts of each step: those raised stay raised, and culprits are hosts.
LEMMA RaisedStep ==
  ASSUME AnomalyAssumption, Ground, TrackersOk, BeaconsOk, BlocklistIsCulprits, [Next]_vars
  PROVE  /\ mode' = mode /\ traffic' = traffic
         /\ alerted' \subseteq raised' /\ raised \subseteq raised'
         /\ Culprits \subseteq Culprits' /\ Culprits' \subseteq Hosts
         /\ blocked' \subseteq Culprits' \ Allowlist
         /\ mode = "inline" => Culprits' \ Allowlist \subseteq blocked'
<1>0. mode' = mode /\ traffic' = traffic
  BY DEF Next, Inspect, Decide, Maintain, Flush, LlmConfirm, Tick, vars
<1>1. CASE \E p \in traffic : Inspect(p) /\ p.kind # "udp"
  <2>1. PICK p \in traffic : Anomalies(p)
    BY <1>1 DEF Inspect
  <2>2. p.src \in Hosts /\ Alert(PacketKeys(p), p.src) /\ \A k \in PacketKeys(p) : k[2] = p.src
    BY <2>1, PacketTypes, AnomaliesAlert, KeysOfSource
  <2>3. alerted \subseteq raised /\ Culprits \subseteq Hosts
    BY DEF Ground
  <2> DEFINE keys == PacketKeys(p)
             src == p.src
  <2>4. src \in Hosts /\ Alert(keys, src) /\ \A k \in keys : k[2] = src
    BY <2>2
  <2> HIDE DEF keys, src
  <2> QED
    BY <1>0, <2>3, <2>4, AlertOk
<1>2. CASE Flush
  <2>1. /\ mode # "inline" /\ blocked' = blocked /\ alerted' = alerted \cup Beacons
        /\ raised' = raised \cup (Beacons \ alerted) \cup SpamBots
    BY <1>2 DEF Flush
  <2>2. alerted' \subseteq raised' /\ raised \subseteq raised'
    BY <2>1 DEF Ground
  <2>3. Culprits \subseteq Culprits'
    BY <2>2 DEF Culprits
  <2>4. \A k \in raised' : k \in raised \/ k[2] \in Hosts
    BY <2>1, BeaconKeys, SpamBotKeys
  <2>5. Culprits' \subseteq Hosts
    BY <2>4 DEF Culprits, Ground
  <2> QED
    BY <1>0, <2>1, <2>2, <2>3, <2>5 DEF BlocklistIsCulprits
<1>3. CASE \E p \in traffic : LlmConfirm(p.src)
  <2>1. PICK p \in traffic : LlmConfirm(p.src)
    BY <1>3
  <2>2. p.src \in Hosts
    BY PacketTypes
  <2>3. /\ alerted' = alerted /\ raised' = raised \cup {<<"LLM", p.src>>}
        /\ blocked' = IF p.src \in Allowlist THEN blocked ELSE blocked \cup {p.src}
    BY <2>1 DEF LlmConfirm, block_source
  <2>4. Culprits' = Culprits \cup {p.src}
    <3> DEFINE key == <<"LLM", p.src>>
    <3>1. raised' = raised \cup {key} /\ key[2] = p.src
      BY <2>3
    <3> HIDE DEF key
    <3> QED
      BY <3>1 DEF Culprits
  <2> QED
    BY <1>0, <2>2, <2>3, <2>4 DEF BlocklistIsCulprits, Ground
<1>4. CASE UNCHANGED <<raised, blocked>> /\ alerted' \subseteq alerted
  <2>1. Culprits' = Culprits
    BY <1>4 DEF Culprits
  <2> QED
    BY <1>0, <1>4, <2>1 DEF Ground, BlocklistIsCulprits
<1>5. \/ \E p \in traffic : Inspect(p) /\ p.kind # "udp"
      \/ Flush
      \/ \E p \in traffic : LlmConfirm(p.src)
      \/ UNCHANGED <<raised, blocked>> /\ alerted' \subseteq alerted
  <2>1. \A S, max : Capped(S, max) \subseteq S
    BY DEF Capped
  <2>2. ASSUME NEW p \in traffic, Inspect(p), p.kind = "udp"
        PROVE  UNCHANGED <<raised, blocked, alerted>>
    BY <2>2 DEF Inspect, Footprint
  <2>3. CASE Decide \/ Tick \/ UNCHANGED vars
    BY <2>3 DEF Decide, Tick, vars
  <2>4. CASE Maintain
    BY <2>1, <2>4 DEF Maintain
  <2> QED
    BY <2>2, <2>3, <2>4 DEF Next
<1> QED
  BY <1>1, <1>2, <1>3, <1>4, <1>5

\* The diverted packet of each step: its fate follows the blocklist, which follows the
\* culprits.
LEMMA InlineStep ==
  ASSUME AnomalyAssumption, Ground, TrackersOk, BeaconsOk, BlocklistIsCulprits,
         DropsAreJustified, [Next]_vars
  PROVE  /\ inline' \subseteq [src : Hosts, fate : {"pending", "dropped", "sent"}]
         /\ Cardinality(inline') <= 1
         /\ mode # "inline" => inline' = {}
         /\ DropsAreJustified'
         /\ \A x \in inline' \ inline : x.fate = "sent" => x.src \notin Culprits \ Allowlist
<1>0. /\ inline \subseteq [src : Hosts, fate : {"pending", "dropped", "sent"}]
      /\ Cardinality(inline) <= 1 /\ Culprits \subseteq Culprits'
      /\ mode # "inline" => inline = {}
  BY RaisedStep DEF Ground, BlocklistIsCulprits
<1>1. ASSUME NEW y \in [src : Hosts, fate : {"pending", "dropped", "sent"}],
             inline' = {y}, mode = "inline",
             y.fate = "dropped" => y.src \in Culprits \ Allowlist,
             y.fate = "sent" => y.src \notin Culprits \ Allowlist
      PROVE  /\ inline' \subseteq [src : Hosts, fate : {"pending", "dropped", "sent"}]
             /\ Cardinality(inline') <= 1
             /\ mode # "inline" => inline' = {}
             /\ DropsAreJustified'
             /\ \A x \in inline' \ inline : x.fate = "sent" => x.src \notin Culprits \ Allowlist
  <2>1. Cardinality({y}) = 1
    BY FS_Singleton
  <2>2. Cardinality(inline') <= 1
    BY <1>1, <2>1
  <2>3. DropsAreJustified'
    BY <1>0, <1>1 DEF DropsAreJustified
  <2> QED
    BY <1>1, <2>2, <2>3
<1>2. CASE inline' = inline
  BY <1>0, <1>2 DEF DropsAreJustified
<1>3. CASE inline' = {}
  <2>1. Cardinality({}) = 0
    BY FS_EmptySet
  <2> QED
    BY <1>3, <2>1 DEF DropsAreJustified
<1>4. CASE \E p \in traffic : Inspect(p) /\ mode = "inline"
  <2>1. PICK p \in traffic : inline' = {[src |-> p.src, fate |-> "pending"]}
    BY <1>4 DEF Inspect
  <2> DEFINE y == [src |-> p.src, fate |-> "pending"]
  <2>2. y \in [src : Hosts, fate : {"pending", "dropped", "sent"}] /\ y.fate = "pending"
    BY PacketTypes
  <2>3. inline' = {y}
    BY <2>1
  <2> HIDE DEF y
  <2> QED
    BY <1>1, <1>4, <2>2, <2>3
<1>5. CASE Decide
  <2>1. PICK x \in inline :
          inline' = {[x EXCEPT !.fate = IF x.src \in blocked THEN "dropped" ELSE "sent"]}
    BY <1>5 DEF Decide
  <2> DEFINE y == [x EXCEPT !.fate = IF x.src \in blocked THEN "dropped" ELSE "sent"]
  <2>2. /\ y \in [src : Hosts, fate : {"pending", "dropped", "sent"}] /\ y.src = x.src
        /\ y.fate = IF x.src \in blocked THEN "dropped" ELSE "sent"
    BY <1>0
  <2>3. inline' = {y} /\ mode = "inline"
    BY <1>0, <2>1
  <2>4. blocked = Culprits \ Allowlist
    BY <2>3 DEF BlocklistIsCulprits
  <2> HIDE DEF y
  <2> QED
    BY <1>1, <2>2, <2>3, <2>4
<1>6. \/ inline' = inline \/ inline' = {} \/ Decide
      \/ \E p \in traffic : Inspect(p) /\ mode = "inline"
  <2>1. ASSUME NEW p \in traffic, Inspect(p), mode # "inline"
        PROVE  inline' = {}
    BY <2>1 DEF Inspect
  <2>2. CASE Maintain \/ Flush \/ Tick \/ (\E p \in traffic : LlmConfirm(p.src)) \/ UNCHANGED vars
    BY <2>2 DEF Maintain, Flush, Tick, LlmConfirm, vars
  <2> QED
    BY <2>1, <2>2 DEF Next
<1> QED
  BY <1>2, <1>3, <1>4, <1>5, <1>6

LEMMA GroundStep ==
  ASSUME AnomalyAssumption, Ground, TrackersOk, BeaconsOk, BlocklistIsCulprits,
         DropsAreJustified, Next
  PROVE  Ground' /\ BlocklistIsCulprits'
<1>1. /\ mode' = mode /\ traffic' = traffic
      /\ alerted' \subseteq raised' /\ Culprits' \subseteq Hosts
      /\ blocked' \subseteq Culprits' \ Allowlist
      /\ mode = "inline" => Culprits' \ Allowlist \subseteq blocked'
  BY RaisedStep
<1>2. /\ inline' \subseteq [src : Hosts, fate : {"pending", "dropped", "sent"}]
      /\ Cardinality(inline') <= 1
      /\ mode # "inline" => inline' = {}
  BY InlineStep
<1>3. clock' \in 0 .. MaxTime /\ packets' \in 0 .. MaxPackets /\ ended' \in BOOLEAN
      /\ since' \in 0 .. packets'
  <2>1. clock \in 0 .. MaxTime /\ packets \in 0 .. MaxPackets /\ ended \in BOOLEAN
        /\ since \in 0 .. packets /\ MaxTime \in Nat /\ MaxPackets \in Nat
    BY Constants DEF Ground
  <2>2. CASE \E p \in traffic : Inspect(p)
    BY <2>1, <2>2 DEF Inspect
  <2>3. CASE Tick
    BY <2>1, <2>3 DEF Tick
  <2>4. CASE Maintain
    BY <2>1, <2>4 DEF Maintain
  <2>5. CASE Decide \/ Flush \/ \E p \in traffic : LlmConfirm(p.src)
    <3>1. UNCHANGED <<clock, packets, since>> /\ ended' \in BOOLEAN
      BY <2>1, <2>5 DEF Decide, Flush, LlmConfirm
    <3> QED
      BY <2>1, <3>1
  <2> QED
    BY <2>2, <2>3, <2>4, <2>5 DEF Next
<1>4. blocked' \subseteq Hosts
  BY <1>1
<1>5. mode' \in Modes /\ traffic' \in Traffics
  BY <1>1 DEF Ground
<1> QED
  BY <1>1, <1>2, <1>3, <1>4, <1>5 DEF Ground, BlocklistIsCulprits

-------------------------------------------------------------------------------
(* Thresholds                                                                  *)

LEMMA TimesGrows ==
  ASSUME NEW c \in Nat, NEW x \in Int, NEW y \in Int, x <= y
  PROVE  c * x <= c * y
<1>1. 0 <= c * (y - x)
  BY SMTT(30)
<1>2. c * (y - x) = c * y - c * x /\ c * y \in Int /\ c * x \in Int
  BY SMTT(30)
<1> QED
  BY <1>1, <1>2

\* What a tracker of s shows, for packets to the ports P: the counts, and at time now
\* the rate.
Counts(s, t, P) ==
  Key(Cardinality({q \in P : t.targets[q] # {}}) >= ScanMin, <<"Port Scan", s>>)
  \cup Key((IF 22 \in P THEN t.syns[22] ELSE 0) >= SshMin, <<"SSH Brute Force", s>>)
  \cup {<<"Worm Propagation Scan", s, q>> :
          q \in {q \in P \ WebPorts : Cardinality(t.targets[q]) >= WormMin}}
ReportsAt(s, t, P, now) == Counts(s, t, P) \cup Key(Flooding(t, now), <<"DDoS", s>>)

LEMMA ReportsAre ==
  ASSUME NEW s, NEW t
  PROVE  Reports(s, t) = ReportsAt(s, t, Ports, clock)
BY Zenon DEF Reports, ReportsAt, Counts, Scanned, Swept, Attempts

LEMMA ThresholdsAre ==
  /\ ThresholdsReported
       <=> \A s \in DOMAIN tracker : ReportsAt(s, tracker[s], Ports, clock) \subseteq raised
  /\ ThresholdsReported'
       <=> \A s \in DOMAIN tracker' : ReportsAt(s, tracker'[s], Ports', clock') \subseteq raised'
BY Zenon DEF ThresholdsReported, Reports, ReportsAt, Counts, Scanned, Swept, Attempts

\* A tracker shows no more later: a rate only falls while nothing arrives.
LEMMA ReportsLater ==
  ASSUME AnomalyAssumption, NEW now \in Nat, NEW later \in Nat, now <= later,
         NEW s, NEW t, NEW P, NEW n \in Nat, OkTracker(t, P, now, n)
  PROVE  ReportsAt(s, t, P, later) \subseteq ReportsAt(s, t, P, now)
<1>1. Flooding(t, later) => Flooding(t, now)
  <2> DEFINE m(x) == IF x - t.first > 0 THEN x - t.first ELSE 1
  <2>1. /\ t.first \in 0 .. now /\ t.total \in Nat
        /\ FloodRate \in Nat /\ FloodMin \in Nat
    BY Constants DEF OkTracker
  <2>2. m(now) \in Int /\ m(later) \in Int /\ m(now) <= m(later)
    BY <2>1
  <2>3. FloodRate * m(now) <= FloodRate * m(later)
    BY <2>1, <2>2, TimesGrows
  <2>4. FloodRate * m(now) \in Int /\ FloodRate * m(later) \in Int
    BY <2>1, <2>2
  <2>5. \A x : Flooding(t, x) <=> t.total >= FloodMin /\ t.total > FloodRate * m(x)
    BY DEF Flooding
  <2> HIDE DEF m
  <2> QED
    BY <2>1, <2>3, <2>4, <2>5
<1>2. Key(Flooding(t, later), <<"DDoS", s>>) \subseteq Key(Flooding(t, now), <<"DDoS", s>>)
  BY <1>1, Zenon DEF Key
<1> QED
  BY <1>2 DEF ReportsAt

\* The thresholds are positive: a tracker without a SYN shows nothing.
LEMMA QuietTracker ==
  ASSUME AnomalyAssumption, Ground, NEW s, NEW e
  PROVE  Reports(s, [NewTracker EXCEPT !.ext = e]) = {}
<1> DEFINE t == [NewTracker EXCEPT !.ext = e]
<1>1. t.total = 0 /\ (\A q \in Ports : t.syns[q] = 0 /\ t.targets[q] = {})
  BY DEF NewTracker
<1> HIDE DEF t
<1>2. Cardinality({}) = 0
  BY FS_EmptySet
<1>3. /\ ScanMin \in Nat \ {0} /\ SshMin \in Nat \ {0} /\ WormMin \in Nat \ {0}
      /\ FloodMin \in Nat \ {0}
  BY Constants
<1>4. Scanned(t) = {}
  BY <1>1 DEF Scanned
<1>5. ~ (Cardinality(Scanned(t)) >= ScanMin)
  BY <1>2, <1>3, <1>4
<1>6. Attempts(t, 22) = 0
  BY <1>1 DEF Attempts
<1>7. ~ (Attempts(t, 22) >= SshMin)
  BY <1>3, <1>6
<1>8. Swept(t) = {}
  <2>1. ~ (0 >= WormMin)
    BY <1>3
  <2>2. \A q \in Ports : Cardinality(t.targets[q]) = 0
    BY <1>1, <1>2
  <2>3. \A q \in Ports : ~ (Cardinality(t.targets[q]) >= WormMin)
    BY <2>1, <2>2
  <2>4. \A q \in Swept(t) : q \in Ports /\ Cardinality(t.targets[q]) >= WormMin
    BY DEF Swept
  <2> QED
    BY <2>3, <2>4
<1>9. ~ Flooding(t, clock)
  BY <1>1, <1>3 DEF Flooding
<1>10. Reports(s, t) = {}
  BY <1>5, <1>7, <1>8, <1>9, Zenon DEF Reports, Key
<1> QED
  BY <1>10 DEF t

\* No threshold is about the footprint.
LEMMA ReportsIgnoreExt ==
  ASSUME NEW s, NEW t, NEW e, NEW P, NEW n \in Nat, OkTracker(t, P, clock, n)
  PROVE  Reports(s, [t EXCEPT !.ext = e]) = Reports(s, t)
<1> DEFINE u == [t EXCEPT !.ext = e]
<1>1. u.total = t.total /\ u.first = t.first /\ u.syns = t.syns /\ u.targets = t.targets
  BY DEF OkTracker
<1> HIDE DEF u
<1>2. Scanned(u) = Scanned(t) /\ Swept(u) = Swept(t) /\ Attempts(u, 22) = Attempts(t, 22)
      /\ (Flooding(u, clock) <=> Flooding(t, clock))
  BY <1>1 DEF Scanned, Swept, Attempts, Flooding
<1>3. Reports(s, u) = Reports(s, t)
  BY <1>2, Zenon DEF Reports, Key
<1> QED
  BY <1>3 DEF u

\* The new tracker of a TCP packet reports at once, the footprint of a UDP one shows
\* nothing new, and other trackers are old ones.
LEMMA ThresholdsStep ==
  ASSUME AnomalyAssumption, Ground, TrackersOk, BeaconsOk, BlocklistIsCulprits,
         ThresholdsReported, Next
  PROVE  ThresholdsReported'
<1>0. /\ clock \in Nat /\ packets \in Nat /\ packets + 1 \in Nat /\ Ports' = Ports
      /\ raised \subseteq raised'
  <2>1. traffic' = traffic /\ raised \subseteq raised'
    BY RaisedStep
  <2> QED
    BY <2>1, Constants DEF Ground, Ports
<1>1. clock' \in Nat /\ clock <= clock'
  BY <1>0 DEF Next, Inspect, Decide, Maintain, Flush, LlmConfirm, Tick
\* What a tracker shows was reported, and it shows no more now.
<1>2. ASSUME NEW s, NEW t, NEW n \in Nat, OkTracker(t, Ports, clock, n),
             ReportsAt(s, t, Ports, clock) \subseteq raised'
      PROVE  ReportsAt(s, t, Ports, clock') \subseteq raised'
  <2>1. ReportsAt(s, t, Ports, clock') \subseteq ReportsAt(s, t, Ports, clock)
    BY <1>0, <1>1, <1>2, ReportsLater
  <2> QED
    BY <1>2, <2>1
<1>3. ASSUME NEW s \in DOMAIN tracker
      PROVE  /\ ReportsAt(s, tracker[s], Ports, clock) \subseteq raised'
             /\ ReportsAt(s, tracker[s], Ports, clock') \subseteq raised'
             /\ OkTracker(tracker[s], Ports, clock, packets)
  <2>1. ReportsAt(s, tracker[s], Ports, clock) \subseteq raised'
    BY <1>0, ThresholdsAre
  <2>2. OkTracker(tracker[s], Ports, clock, packets)
    BY DEF TrackersOk
  <2> QED
    BY <1>0, <1>2, <2>1, <2>2
<1>4. ASSUME NEW k, NEW t, NEW n \in Nat, tracker' = Put(tracker, k, t),
             OkTracker(t, Ports, clock, n), ReportsAt(k, t, Ports, clock) \subseteq raised'
      PROVE  ThresholdsReported'
  <2>1. ASSUME NEW s \in DOMAIN tracker'
        PROVE  ReportsAt(s, tracker'[s], Ports, clock') \subseteq raised'
    <3>1. CASE s = k
      <4>1. tracker'[s] = t
        BY <1>4, <3>1 DEF Put
      <4>2. ReportsAt(s, t, Ports, clock') \subseteq raised'
        BY <1>2, <1>4, <3>1
      <4> QED
        BY <4>1, <4>2
    <3>2. CASE s # k
      <4>1. s \in DOMAIN tracker /\ tracker'[s] = tracker[s]
        BY <1>4, <3>2 DEF Put
      <4> QED
        BY <1>3, <4>1
    <3> QED
      BY <3>1, <3>2
  <2> QED
    BY <1>0, <2>1, ThresholdsAre
<1>5. ASSUME \A s \in DOMAIN tracker' : s \in DOMAIN tracker /\ tracker'[s] = tracker[s]
      PROVE  ThresholdsReported'
  <2>1. \A s \in DOMAIN tracker' : ReportsAt(s, tracker'[s], Ports', clock') \subseteq raised'
    BY <1>0, <1>3, <1>5
  <2> QED
    BY <2>1, ThresholdsAre
<1>6. ASSUME NEW p \in traffic, Inspect(p)
      PROVE  ThresholdsReported'
  <2>1. CASE p.kind # "udp"
    <3>1. Anomalies(p)
      BY <1>6, <2>1 DEF Inspect
    <3>2. tracker' = Put(tracker, p.src, Seen(p)) /\ OkTracker(Seen(p), Ports, clock, packets + 1)
      BY <3>1, AnomaliesIs, SeenOk
    <3>3. Alert(PacketKeys(p), p.src)
      BY <3>1, AnomaliesAlert
    <3>4. PacketKeys(p) \subseteq raised'
      BY <3>3 DEF Alert, Ground
    <3>5. ReportsAt(p.src, Seen(p), Ports, clock) \subseteq raised'
      BY <3>4, ReportsAre DEF PacketKeys
    <3> QED
      BY <1>0, <1>4, <3>2, <3>5
  <2>2. CASE p.kind = "udp" /\ p.dst \notin Local
    <3> DEFINE old == TrackerOf(p.src)
               t == [old EXCEPT !.ext = @ \cup {p.dst}]
    <3>1. tracker' = Put(tracker, p.src, t)
      BY <1>6, <2>2 DEF Inspect, Footprint
    <3>2. OkTracker(old, Ports, clock, packets)
      BY TrackerOfOk
    <3>3. OkTracker(t, Ports, clock, packets)
      <4>1. p.dst \in Hosts
        BY PacketTypes
      <4> HIDE DEF old
      <4> QED
        BY <1>0, <3>2, <4>1, ExtSeenOk
    <3>4. Reports(p.src, t) \subseteq raised'
      <4>1. CASE p.src \in DOMAIN tracker
        <5>1. old = tracker[p.src]
          BY <4>1 DEF TrackerOf
        <5> HIDE DEF old
        <5>2. Reports(p.src, t) = Reports(p.src, old)
          BY <1>0, <3>2, ReportsIgnoreExt
        <5>3. Reports(p.src, old) \subseteq raised
          BY <4>1, <5>1 DEF ThresholdsReported
        <5> QED
          BY <1>0, <5>2, <5>3
      <4>2. CASE p.src \notin DOMAIN tracker
        <5>1. t = [NewTracker EXCEPT !.ext = @ \cup {p.dst}]
          BY <4>2 DEF TrackerOf
        <5>2. t = [NewTracker EXCEPT !.ext = NewTracker.ext \cup {p.dst}]
          BY <5>1
        <5> HIDE DEF t
        <5>3. Reports(p.src, t) = {}
          BY <5>2, QuietTracker
        <5> QED
          BY <5>3
      <4> QED
        BY <4>1, <4>2
    <3> HIDE DEF t
    <3>5. ReportsAt(p.src, t, Ports, clock) \subseteq raised'
      BY <3>4, ReportsAre
    <3> QED
      BY <1>0, <1>4, <3>1, <3>3, <3>5
  <2>3. CASE p.kind = "udp" /\ p.dst \in Local
    <3>1. tracker' = tracker
      BY <1>6, <2>3 DEF Inspect, Footprint
    <3> QED
      BY <1>5, <3>1
  <2> QED
    BY <2>1, <2>2, <2>3
<1>7. CASE Maintain
  <2>1. tracker' = Only(tracker, Capped(DOMAIN tracker, MaxSources))
    BY <1>7 DEF Maintain
  <2>2. Capped(DOMAIN tracker, MaxSources) \subseteq DOMAIN tracker
    BY DEF Capped
  <2>3. \A s \in DOMAIN tracker' : s \in DOMAIN tracker /\ tracker'[s] = tracker[s]
    BY <2>1, <2>2, OnlyIs
  <2> QED
    BY <1>5, <2>3
<1>8. CASE Decide \/ Flush \/ Tick \/ \E p \in traffic : LlmConfirm(p.src)
  <2>1. tracker' = tracker
    BY <1>8 DEF Decide, Flush, Tick, LlmConfirm
  <2> QED
    BY <1>5, <2>1
<1> QED
  BY <1>6, <1>7, <1>8 DEF Next

-------------------------------------------------------------------------------
(* Spoofing                                                                    *)

\* A packet is spoofed when an earlier one of its local source had another TTL.
LEMMA SpoofedTakesTwo ==
  ASSUME AnomalyAssumption, Ground, TrackersOk, NEW p \in traffic,
         Spoofed(TrackerOf(p.src), p)
  PROVE  /\ p.src \in Local
         /\ \E x, q \in traffic : /\ x.src = p.src /\ q.src = p.src
                                 /\ TtlCounts(x) /\ TtlCounts(q)
                                 /\ estimate_initial_ttl(x.ttl) # estimate_initial_ttl(q.ttl)
<1> DEFINE old == TrackerOf(p.src)
<1>1. OneStack(traffic, p.src, old)
  BY TrackerOfOk
<1>2. TtlCounts(p) /\ old.ttl # 0 /\ old.ttl # estimate_initial_ttl(p.ttl)
  BY DEF Spoofed
<1> HIDE DEF old
<1>3. \E q \in traffic :
        q.src = p.src /\ TtlCounts(q) /\ estimate_initial_ttl(q.ttl) = old.ttl
  BY <1>1, <1>2 DEF OneStack
<1>4. p.src \in Local
  BY <1>2 DEF TtlCounts
<1> QED
  BY <1>2, <1>3, <1>4

\* The evidence against s.
TwoStacks(s) ==
  /\ s \in Local
  /\ \E p, q \in traffic : /\ p.src = s /\ q.src = s
                           /\ TtlCounts(p) /\ TtlCounts(q)
                           /\ estimate_initial_ttl(p.ttl) # estimate_initial_ttl(q.ttl)

LEMMA SpoofStep ==
  ASSUME AnomalyAssumption, Ground, TrackersOk, BeaconsOk, BlocklistIsCulprits,
         SpoofNeedsTwoStacks, Next
  PROVE  SpoofNeedsTwoStacks'
<1>1. traffic' = traffic
  BY RaisedStep
<1>2. \A s : <<"IP Spoofing", s>> \in raised => TwoStacks(s)
  <2>1. ASSUME NEW s, <<"IP Spoofing", s>> \in raised
        PROVE  s \in Culprits
    <3> DEFINE k == <<"IP Spoofing", s>>
    <3>1. k \in raised /\ k[2] = s
      BY <2>1
    <3> HIDE DEF k
    <3> QED
      BY <3>1 DEF Culprits
  <2> QED
    BY <2>1, Zenon DEF SpoofNeedsTwoStacks, TwoStacks
\* The steps that raise something for the source of a spoofed packet, or nothing so
\* tagged.
<1>3. ASSUME NEW k \in raised', k \notin raised, k[1] = "IP Spoofing"
      PROVE  TwoStacks(k[2])
  <2>1. CASE \E p \in traffic : Inspect(p) /\ p.kind # "udp"
    <3>1. PICK p \in traffic : Anomalies(p)
      BY <2>1 DEF Inspect
    <3>2. Alert(PacketKeys(p), p.src)
      BY <3>1, AnomaliesAlert
    <3>3. k \in PacketKeys(p)
      BY <1>3, <3>2 DEF Alert
    <3>4. k[2] = p.src /\ Spoofed(TrackerOf(p.src), p)
      BY <1>3, <3>3, KeysOfSource
    <3>5. TwoStacks(p.src)
      BY <3>4, SpoofedTakesTwo DEF TwoStacks
    <3> QED
      BY <3>4, <3>5
  <2>2. CASE Flush
    <3>1. k \in Beacons \/ k \in SpamBots
      BY <1>3, <2>2 DEF Flush
    <3>2. k[1] = "C2 Beaconing" \/ k[1] = "Botnet Host"
      BY <3>1, BeaconKeys, SpamBotKeys
    <3> QED
      BY <1>3, <3>2
  <2>3. CASE \E p \in traffic : LlmConfirm(p.src)
    <3>1. PICK p \in traffic : k = <<"LLM", p.src>>
      BY <1>3, <2>3 DEF LlmConfirm
    <3>2. k[1] = "LLM"
      BY <3>1
    <3> QED
      BY <1>3, <3>2
  <2>4. CASE raised' = raised
    BY <1>3, <2>4
  <2>5. \/ \E p \in traffic : Inspect(p) /\ p.kind # "udp"
        \/ Flush
        \/ \E p \in traffic : LlmConfirm(p.src)
        \/ raised' = raised
    BY DEF Next, Inspect, Footprint, Decide, Maintain, Tick
  <2> QED
    BY <2>1, <2>2, <2>3, <2>4, <2>5
<1>4. ASSUME NEW s, <<"IP Spoofing", s>> \in raised'
      PROVE  TwoStacks(s)
  <2> DEFINE k == <<"IP Spoofing", s>>
  <2>1. k \in raised' /\ k[1] = "IP Spoofing" /\ k[2] = s
    BY <1>4
  <2>2. CASE k \in raised
    BY <1>2, <2>2
  <2>3. CASE k \notin raised
    <3> HIDE DEF k
    <3> QED
      BY <1>3, <2>1, <2>3
  <2> QED
    BY <2>2, <2>3
<1>5. SpoofNeedsTwoStacks' <=> \A s \in Culprits' : <<"IP Spoofing", s>> \in raised' => TwoStacks(s)'
  BY Zenon DEF SpoofNeedsTwoStacks, TwoStacks
<1>6. \A s : TwoStacks(s)' <=> TwoStacks(s)
  BY <1>1 DEF TwoStacks
<1> QED
  BY <1>4, <1>5, <1>6

-------------------------------------------------------------------------------
(* The analyses of flush_all_flows()                                           *)

\* The times of hits at one interval.
LEMMA PeriodicTimes ==
  ASSUME NEW now \in Nat, NEW ts \in Seq(0 .. now), Len(ts) >= 2, NEW e \in Nat,
         \A i \in 1 .. Len(ts) - 1 : Intervals(ts)[i] = e
  PROVE  Span(ts) = (Len(ts) - 1) * e
<1> DEFINE S == {m \in Nat : m + 1 <= Len(ts) => ts[m + 1] = ts[1] + m * e}
<1>1. Len(ts) \in Nat /\ \A i \in 1 .. Len(ts) : ts[i] \in Nat
  OBVIOUS
<1>2. 0 \in S
  BY <1>1
<1>3. ASSUME NEW m \in S
      PROVE  m + 1 \in S
  <2>1. SUFFICES ASSUME m + 2 <= Len(ts)
                 PROVE  ts[m + 2] = ts[1] + (m + 1) * e
    BY <1>1
  <2>2. m + 1 \in 1 .. Len(ts) - 1 /\ ts[m + 1] = ts[1] + m * e
    BY <1>1, <2>1
  <2>3. ts[m + 2] - ts[m + 1] = e
    <3>1. Intervals(ts)[m + 1] = e
      BY <2>2
    <3>2. Intervals(ts)[m + 1] = ts[m + 1 + 1] - ts[m + 1]
      BY <2>2 DEF Intervals
    <3>3. m + 1 + 1 = m + 2
      OBVIOUS
    <3> QED
      BY <3>1, <3>2, <3>3
  <2>4. (m + 1) * e = m * e + e /\ m * e \in Nat
    OBVIOUS
  <2>5. ts[m + 2] \in Nat /\ ts[m + 1] \in Nat /\ ts[1] \in Nat
    BY <1>1, <2>1
  <2> DEFINE me == m * e
             le == (m + 1) * e
             x == ts[m + 2]
             y == ts[m + 1]
             z == ts[1]
  <2>6. /\ le = me + e /\ me \in Nat /\ y = z + me /\ x - y = e
        /\ x \in Nat /\ y \in Nat /\ z \in Nat
    BY <2>2, <2>3, <2>4, <2>5
  <2> HIDE DEF me, le, x, y, z, S
  <2>7. x = z + le
    BY <2>6
  <2> QED
    BY <2>7 DEF le, x, z
<1>4. S = Nat
  <2>1. S \in SUBSET Nat
    OBVIOUS
  <2> HIDE DEF S
  <2> QED
    BY <1>2, <1>3, <2>1, ClosedSetIsNat
<1> DEFINE n == Len(ts) - 1
<1>5. n \in Nat /\ n + 1 = Len(ts) /\ n + 1 <= Len(ts) /\ ts[1] \in Nat
  BY <1>1
<1> HIDE DEF n
<1>6. ts[n + 1] = ts[1] + n * e
  <2>1. n \in S
    BY <1>4, <1>5
  <2> QED
    BY <1>5, <2>1
<1>7. n * e \in Nat
  BY <1>5
<1>8. Span(ts) = n * e
  BY <1>5, <1>6, <1>7 DEF Span
<1> QED
  BY <1>8 DEF n

\* Hits at one interval have no spread.
LEMMA PeriodicHasNoSpread ==
  ASSUME NEW now \in Nat, NEW ts \in Seq(0 .. now), Len(ts) >= 2, NEW e \in Nat,
         \A i \in 1 .. Len(ts) - 1 : Intervals(ts)[i] = e
  PROVE  Spread(ts) = 0
<1> DEFINE n == Len(ts) - 1
           f == Squares(Intervals(ts))
<1>1. n \in Nat /\ Span(ts) = n * e
  BY PeriodicTimes
<1>2. DOMAIN f = 1 .. n /\ \A i \in 1 .. n : f[i] = e * e
  BY DEF Squares, Intervals
<1> HIDE DEF f
<1>3. IsFiniteSet(1 .. n) /\ Cardinality(1 .. n) = n
  <2>1. n \in Nat
    BY <1>1
  <2> HIDE DEF n
  <2> QED
    BY <2>1, UpTo
<1>4. Total(f) = n * (e * e)
  <2>1. Total(f) = Sum(f, 1 .. n)
    BY <1>2, TotalIsSum
  <2> DEFINE c == e * e
  <2>2. c \in Int
    OBVIOUS
  <2>3. \A i \in 1 .. n : f[i] = c
    BY <1>2
  <2> HIDE DEF c, n
  <2>4. Sum(f, 1 .. n) = Cardinality(1 .. n) * c
    BY <1>3, <2>2, <2>3, SumOfEqual
  <2> QED
    BY <1>3, <2>1, <2>4 DEF c
<1>5. Spread(ts) = n * (n * (e * e)) - (n * e) * (n * e)
  BY <1>1, <1>4 DEF Spread, f
<1> HIDE DEF n
<1>6. n * (n * (e * e)) = (n * e) * (n * e) /\ (n * e) * (n * e) \in Int
  BY <1>1
<1> QED
  BY <1>5, <1>6

\* The limits of a beacon, as numbers.
LEMMA Limits ==
  ASSUME AnomalyAssumption
  PROVE  MeanMin \in Nat /\ MeanMax \in Nat /\ BeaconMin \in Nat /\ BeaconMin >= 2
BY Constants

LEMMA TwoAtLeast ==
  ASSUME NEW m \in Nat, m >= 2, NEW l \in Nat, l >= m
  PROVE  l >= 2 /\ l - 1 \in Nat
OBVIOUS

\* A train at one interval within the limits passes every test of the analysis.
LEMMA PeriodicIsBeacon ==
  ASSUME AnomalyAssumption, BeaconsOk, clock \in Nat, NEW k \in DOMAIN beacon,
         Len(beacon[k]) >= BeaconMin, ~ Suppressed(k[2], k[3]),
         \A i \in DOMAIN Intervals(beacon[k]) :
           /\ Intervals(beacon[k])[i] = Intervals(beacon[k])[1]
           /\ Intervals(beacon[k])[i] \in MeanMin .. MeanMax
  PROVE  <<"C2 Beaconing", k[1], k[2], k[3]>> \in Beacons
<1> DEFINE ts == beacon[k]
           n == Len(ts) - 1
           e == Intervals(ts)[1]
<1>1. ts \in Seq(0 .. clock)
  BY DEF BeaconsOk, OkTimes
<1>2. MeanMin \in Nat /\ MeanMax \in Nat /\ BeaconMin \in Nat /\ BeaconMin >= 2
  BY Limits
<1>3. Len(ts) \in Nat /\ Len(ts) >= 2 /\ n \in Nat
  <2>1. Len(ts) >= BeaconMin
    OBVIOUS
  <2> HIDE DEF ts
  <2>2. Len(ts) \in Nat
    BY <1>1
  <2> QED
    BY <1>2, <2>1, <2>2, TwoAtLeast, Zenon
<1>4. DOMAIN Intervals(ts) = 1 .. Len(ts) - 1 /\ 1 \in 1 .. Len(ts) - 1
  BY <1>3 DEF Intervals
<1>5. e \in Nat /\ MeanMin <= e /\ e <= MeanMax
      /\ \A i \in 1 .. Len(ts) - 1 : Intervals(ts)[i] = e
  <2>1. \A i \in DOMAIN Intervals(ts) : Intervals(ts)[i] = e /\ Intervals(ts)[i] \in MeanMin .. MeanMax
    OBVIOUS
  <2> HIDE DEF ts, e
  <2>2. \A i \in 1 .. Len(ts) - 1 : Intervals(ts)[i] = e /\ e \in MeanMin .. MeanMax
    BY <1>4, <2>1
  <2>3. e \in MeanMin .. MeanMax
    BY <1>4, <2>2
  <2> QED
    BY <1>2, <2>2, <2>3
<1> HIDE DEF ts, e
<1>6. Span(ts) = n * e /\ Spread(ts) = 0
  BY <1>1, <1>3, <1>5, PeriodicTimes, PeriodicHasNoSpread
<1> HIDE DEF n
<1>7. n * e \in Nat /\ n * MeanMin <= n * e /\ n * e <= n * MeanMax
  <2>1. n \in Nat /\ e \in Nat /\ MeanMin \in Int /\ MeanMax \in Int /\ e \in Int
        /\ MeanMin <= e /\ e <= MeanMax
    BY <1>2, <1>3, <1>5
  <2>2. n * MeanMin <= n * e /\ n * e <= n * MeanMax
    BY <2>1, TimesGrows
  <2>3. n * e \in Nat
    BY <2>1, SMTT(30)
  <2> QED
    BY <2>2, <2>3
<1>8. MeanMin * n <= Span(ts) /\ Span(ts) <= MeanMax * n
  <2>1. MeanMin * n = n * MeanMin /\ MeanMax * n = n * MeanMax
    BY <1>2, <1>3
  <2>2. MeanMin * n <= n * e /\ n * e <= MeanMax * n
    BY <1>7, <2>1, Zenon
  <2> QED
    BY <1>6, <2>2, Zenon
<1>9. Regular(ts, k[3])
  <2> DEFINE m == Span(ts)
             d == 10000
             c == 1225
  <2>1. m \in Nat /\ c \in Nat /\ d \in Nat
    BY <1>6, <1>7
  <2>2. (d * Spread(ts) <= c * m * m) => Regular(ts, k[3])
    BY DEF Regular
  <2> HIDE DEF m, c, d
  <2>3. d * Spread(ts) = 0
    BY <1>6, <2>1
  <2>4. c * m * m >= 0
    <3>1. c * m \in Nat
      BY <2>1
    <3> QED
      BY <2>1, <3>1
  <2> QED
    BY <2>2, <2>3, <2>4
<1> QED
  BY <1>3, <1>8, <1>9 DEF Beacons, ts, n

\* A capture ends once: what is tracked then stays, and was analysed.
LEMMA EndStep ==
  ASSUME AnomalyAssumption, Ground, TrackersOk, BeaconsOk, BlocklistIsCulprits, Next, ended'
  PROVE  /\ UNCHANGED <<tracker, beacon, traffic>> /\ raised \subseteq raised'
         /\ ended \/ (Beacons \subseteq raised' /\ SpamBots \subseteq raised')
<1>1. traffic' = traffic /\ raised \subseteq raised'
  BY RaisedStep
<1>2. CASE ended
  <2>1. Decide \/ \E p \in traffic : LlmConfirm(p.src)
    BY <1>2 DEF Next, Inspect, Maintain, Flush, Tick
  <2>2. UNCHANGED <<tracker, beacon>>
    BY <2>1 DEF Decide, LlmConfirm
  <2> QED
    BY <1>1, <1>2, <2>2
<1>3. CASE ~ ended
  <2>1. Flush
    BY <1>3 DEF Next, Inspect, Decide, Maintain, LlmConfirm, Tick
  <2>2. /\ UNCHANGED <<tracker, beacon>>
        /\ raised' = raised \cup (Beacons \ alerted) \cup SpamBots
    BY <2>1 DEF Flush
  <2>3. Beacons \subseteq raised' /\ SpamBots \subseteq raised'
    BY <2>2 DEF Ground
  <2> QED
    BY <1>1, <2>2, <2>3
<1> QED
  BY <1>2, <1>3

LEMMA PeriodicStep ==
  ASSUME AnomalyAssumption, Ground, TrackersOk, BeaconsOk, BlocklistIsCulprits,
         PeriodicIsCaught, Next
  PROVE  PeriodicIsCaught'
<1> DEFINE Periodic(ts) ==
             \A i \in DOMAIN Intervals(ts) :
               /\ Intervals(ts)[i] = Intervals(ts)[1]
               /\ Intervals(ts)[i] \in MeanMin .. MeanMax
           Caught(k, ts, r) ==
             Len(ts) >= BeaconMin /\ Periodic(ts) /\ ~ Suppressed(k[2], k[3])
               => <<"C2 Beaconing", k[1], k[2], k[3]>> \in r
<1>1. /\ PeriodicIsCaught <=> (ended => \A k \in DOMAIN beacon : Caught(k, beacon[k], raised))
      /\ PeriodicIsCaught'
           <=> (ended' => \A k \in DOMAIN beacon' : Caught(k, beacon'[k], raised'))
  BY Zenon DEF PeriodicIsCaught
<1>2. SUFFICES ASSUME ended', NEW k \in DOMAIN beacon'
               PROVE  Caught(k, beacon'[k], raised')
  <2> HIDE DEF Caught
  <2> QED
    BY <1>1
<1>3. beacon' = beacon /\ raised \subseteq raised' /\ (ended \/ Beacons \subseteq raised')
  BY <1>2, EndStep
<1>4. CASE ended
  <2>1. Caught(k, beacon[k], raised)
    <3> HIDE DEF Caught
    <3> QED
      BY <1>1, <1>2, <1>3, <1>4
  <2> HIDE DEF Periodic
  <2> QED
    BY <1>3, <2>1
<1>5. CASE ~ ended
  <2>1. clock \in Nat
    BY Constants DEF Ground
  <2>2. ASSUME Len(beacon[k]) >= BeaconMin, Periodic(beacon[k]), ~ Suppressed(k[2], k[3])
        PROVE  <<"C2 Beaconing", k[1], k[2], k[3]>> \in Beacons
    BY <1>2, <1>3, <2>1, <2>2, PeriodicIsBeacon
  <2> HIDE DEF Periodic
  <2> QED
    BY <1>3, <1>5, <2>2
<1> QED
  BY <1>4, <1>5

\* The mail servers are targets, and the public ones in the footprint.
LEMMA CreditedInFlush ==
  ASSUME TrackersOk, NEW s \in DOMAIN tracker, Cardinality(MailServers(tracker[s])) >= SpamMin,
         NEW d \in MailServers(tracker[s]) \ Private
  PROVE  <<"Botnet Host", s, d>> \in SpamBots
<1>1. d \in tracker[s].ext
  BY DEF MailServers, TrackersOk, OkTracker
<1> QED
  BY <1>1 DEF SpamBots

LEMMA SpamStep ==
  ASSUME AnomalyAssumption, Ground, TrackersOk, BeaconsOk, BlocklistIsCulprits,
         SpamBotsCredited, Next
  PROVE  SpamBotsCredited'
<1>1. SUFFICES ASSUME ended', NEW s \in DOMAIN tracker',
                      (Cardinality(MailServers(tracker[s])) >= SpamMin)',
                      NEW d \in (MailServers(tracker[s]) \ Private)'
               PROVE  <<"Botnet Host", s, d>> \in raised'
  BY DEF SpamBotsCredited
<1>2. UNCHANGED <<tracker, traffic>> /\ raised \subseteq raised'
      /\ (ended \/ SpamBots \subseteq raised')
  BY <1>1, EndStep
<1>3. (MailServers(tracker[s]))' = MailServers(tracker[s])
  BY <1>2 DEF MailServers, Ports
<1>4. CASE ended
  BY <1>1, <1>2, <1>3, <1>4 DEF SpamBotsCredited
<1>5. CASE ~ ended
  BY <1>1, <1>2, <1>3, <1>5, CreditedInFlush
<1> QED
  BY <1>4, <1>5

-------------------------------------------------------------------------------
(* Growth between two maintenances                                             *)

LEMMA OneMore ==
  ASSUME NEW S, IsFiniteSet(S), NEW x, NEW n \in Nat, Cardinality(S) <= n
  PROVE  IsFiniteSet(S \cup {x}) /\ Cardinality(S \cup {x}) <= n + 1
<1>1. /\ IsFiniteSet(S \cup {x})
      /\ Cardinality(S \cup {x}) = IF x \in S THEN Cardinality(S) ELSE Cardinality(S) + 1
  BY FS_AddElement
<1>2. Cardinality(S) \in Nat
  BY FS_CardinalityType
<1> QED
  BY <1>1, <1>2

\* A table gets at most one entry more.
LEMMA PutGrows ==
  ASSUME NEW f, NEW k, NEW v, NEW max \in Nat, NEW n \in Nat,
         IsFiniteSet(DOMAIN f), Cardinality(DOMAIN f) <= max + n
  PROVE  /\ IsFiniteSet(DOMAIN Put(f, k, v))
         /\ Cardinality(DOMAIN Put(f, k, v)) <= max + (n + 1)
<1>1. DOMAIN Put(f, k, v) = DOMAIN f \cup {k}
  BY DEF Put
<1>2. max + n \in Nat /\ max + n + 1 = max + (n + 1)
  OBVIOUS
<1> QED
  BY <1>1, <1>2, OneMore

LEMMA CappedFits ==
  ASSUME NEW S, IsFiniteSet(S), NEW max \in Nat
  PROVE  IsFiniteSet(Capped(S, max)) /\ Cardinality(Capped(S, max)) <= max
BY FS_EmptySet, FS_CardinalityType DEF Capped

\* Pruning ends below the cap, with candidates or without.
LEMMA PrunedFits ==
  ASSUME AnomalyAssumption, IsFiniteSet(DOMAIN beacon)
  PROVE  IsFiniteSet(DOMAIN Pruned) /\ Cardinality(DOMAIN Pruned) <= MaxBeacons
<1>0. MaxBeacons \in Nat /\ Candidates \subseteq DOMAIN beacon
  BY Constants DEF Candidates
<1>1. IsFiniteSet(Candidates)
  BY <1>0, FS_Subset
<1>2. IsFiniteSet({}) /\ Cardinality({}) <= MaxBeacons
  BY <1>0, FS_EmptySet
<1>3. DOMAIN Only(beacon, Candidates) = Candidates /\ DOMAIN Empty = {}
  BY DEF Only, Empty
<1>4. \/ Pruned = beacon /\ Cardinality(DOMAIN beacon) <= MaxBeacons
      \/ Pruned = Only(beacon, Candidates) /\ Cardinality(Candidates) <= MaxBeacons
      \/ Pruned = Empty
  BY DEF Pruned
<1> QED
  BY <1>1, <1>2, <1>3, <1>4

\* The worm keys of one source, one for each port the detector looks at.
WormKeys(s) == {<<"Worm Propagation Scan", s, q>> : q \in Ports \ WebPorts}

LEMMA WormKeysFew ==
  ASSUME AnomalyAssumption, Ground, NEW s
  PROVE  /\ IsFiniteSet(WormKeys(s))
         /\ Cardinality(WormKeys(s)) <= Cardinality(Ports \ WebPorts)
         /\ Cardinality(Ports \ WebPorts) \in Nat /\ KeysPerPacket \in Nat
<1> DEFINE P == Ports \ WebPorts
           f == [q \in P |-> <<"Worm Propagation Scan", s, q>>]
           T == WormKeys(s)
<1>1. IsFiniteSet(P)
  BY PortTypes, FS_Subset
<1>2. f \in Surjection(P, T)
  BY DEF WormKeys, Surjection
<1>3. KeysPerPacket = 5 + Cardinality(P)
  BY DEF KeysPerPacket
<1> HIDE DEF P, f, T
<1>4. IsFiniteSet(T) /\ Cardinality(T) <= Cardinality(P)
  BY <1>1, <1>2, FS_Surjection
<1>5. Cardinality(P) \in Nat
  BY <1>1, FS_CardinalityType
<1>6. KeysPerPacket \in Nat
  BY <1>3, <1>5
<1> QED
  BY <1>4, <1>5, <1>6 DEF P, T

\* What one packet adds to the dedup hashes.
LEMMA PacketKeysFew ==
  ASSUME AnomalyAssumption, Ground, NEW p \in traffic
  PROVE  IsFiniteSet(PacketKeys(p)) /\ Cardinality(PacketKeys(p)) <= KeysPerPacket
<1> DEFINE s == p.src
           n == Cardinality(Ports \ WebPorts)
           A == WormKeys(s) \cup {<<"IP Spoofing", s>>}
           B == A \cup {<<"Threat Intel", s, p.dst>>}
           C == B \cup {<<"Port Scan", s>>}
           D == C \cup {<<"SSH Brute Force", s>>}
           E == D \cup {<<"DDoS", s>>}
<1>1. PacketKeys(p) \subseteq E
  <2>1. ASSUME NEW k \in PacketKeys(p)
        PROVE  k \in E
    <3>1. \/ k = <<"IP Spoofing", s>> \/ k = <<"Threat Intel", s, p.dst>>
          \/ k \in Reports(s, Seen(p))
      BY Zenon DEF PacketKeys, Key
    <3>2. k \in Reports(s, Seen(p)) =>
            \/ k = <<"Port Scan", s>> \/ k = <<"SSH Brute Force", s>> \/ k = <<"DDoS", s>>
            \/ \E q \in Swept(Seen(p)) : k = <<"Worm Propagation Scan", s, q>>
      BY Zenon DEF Reports, Key
    <3>3. Swept(Seen(p)) \subseteq Ports \ WebPorts
      BY DEF Swept
    <3>4. (\E q \in Swept(Seen(p)) : k = <<"Worm Propagation Scan", s, q>>)
            => k \in WormKeys(s)
      BY <3>3, Zenon DEF WormKeys
    <3> QED
      BY <3>1, <3>2, <3>4, Zenon
  <2> QED
    BY <2>1
<1>2. /\ IsFiniteSet(WormKeys(s)) /\ n \in Nat /\ Cardinality(WormKeys(s)) <= n
      /\ KeysPerPacket = 5 + n
  BY WormKeysFew DEF KeysPerPacket
<1> HIDE DEF n
<1>3. IsFiniteSet(A) /\ Cardinality(A) <= n + 1
  BY <1>2, OneMore
<1> HIDE DEF A
<1>4. IsFiniteSet(B) /\ Cardinality(B) <= n + 2
  <2>1. n + 1 \in Nat /\ n + 1 + 1 = n + 2
    BY <1>2
  <2> QED
    BY <1>3, <2>1, OneMore
<1> HIDE DEF B
<1>5. IsFiniteSet(C) /\ Cardinality(C) <= n + 3
  <2>1. n + 2 \in Nat /\ n + 2 + 1 = n + 3
    BY <1>2
  <2> QED
    BY <1>4, <2>1, OneMore
<1> HIDE DEF C
<1>6. IsFiniteSet(D) /\ Cardinality(D) <= n + 4
  <2>1. n + 3 \in Nat /\ n + 3 + 1 = n + 4
    BY <1>2
  <2> QED
    BY <1>5, <2>1, OneMore
<1> HIDE DEF D
<1>7. IsFiniteSet(E) /\ Cardinality(E) <= n + 5
  <2>1. n + 4 \in Nat /\ n + 4 + 1 = n + 5
    BY <1>2
  <2> QED
    BY <1>6, <2>1, OneMore
<1> HIDE DEF E
<1>8. /\ IsFiniteSet(PacketKeys(p)) /\ Cardinality(PacketKeys(p)) <= Cardinality(E)
      /\ Cardinality(PacketKeys(p)) \in Nat /\ Cardinality(E) \in Nat
  BY <1>1, <1>7, FS_Subset, FS_CardinalityType
<1> QED
  BY <1>2, <1>7, <1>8

LEMMA UnionFits ==
  ASSUME NEW S, NEW T, IsFiniteSet(S), IsFiniteSet(T), NEW m \in Nat, NEW n \in Nat,
         Cardinality(S) <= m, Cardinality(T) <= n
  PROVE  IsFiniteSet(S \cup T) /\ Cardinality(S \cup T) <= m + n
<1>1. IsFiniteSet(S \cap T)
  BY FS_Subset
<1>2. Cardinality(S) \in Nat /\ Cardinality(T) \in Nat /\ Cardinality(S \cap T) \in Nat
  BY <1>1, FS_CardinalityType
<1>3. /\ IsFiniteSet(S \cup T)
      /\ Cardinality(S \cup T) = Cardinality(S) + Cardinality(T) - Cardinality(S \cap T)
  BY FS_Union
<1> QED
  BY <1>2, <1>3

LEMMA OneRoundMore ==
  ASSUME NEW max \in Nat, NEW n \in Nat, NEW k \in Nat
  PROVE  max + n * k \in Nat /\ max + n * k + k = max + (n + 1) * k
<1>1. n * k \in Nat /\ (n + 1) * k = n * k + k
  OBVIOUS
<1> QED
  BY <1>1

LEMMA GrowthInit ==
  ASSUME AnomalyAssumption, Init, Ground
  PROVE  Growth
<1>1. /\ DOMAIN tracker = {} /\ DOMAIN beacon = {} /\ alerted = {} /\ since = 0
  BY DEF Init, Empty
<1>2. IsFiniteSet({}) /\ Cardinality({}) = 0
  BY FS_EmptySet
<1>3. MaxSources \in Nat /\ MaxBeacons \in Nat /\ MaxHashes \in Nat
  BY Constants
<1>4. KeysPerPacket \in Nat
  BY WormKeysFew
<1>5. 0 * KeysPerPacket = 0
  BY <1>4
<1> QED
  <2>1. /\ Cardinality(DOMAIN tracker) <= MaxSources + since
        /\ Cardinality(DOMAIN beacon) <= MaxBeacons + since
    BY <1>1, <1>2, <1>3
  <2>2. Cardinality(alerted) <= MaxHashes + since * KeysPerPacket
    BY <1>1, <1>2, <1>3, <1>5
  <2> QED
    BY <1>1, <1>2, <2>1, <2>2 DEF Growth, TrackersBounded

\* A packet adds at most an entry to a table and its keys to the hashes.
LEMMA InspectGrows ==
  ASSUME AnomalyAssumption, Ground, Growth, NEW p \in traffic, Inspect(p)
  PROVE  Growth'
<1>0. /\ MaxSources \in Nat /\ MaxBeacons \in Nat /\ MaxHashes \in Nat /\ since \in Nat
      /\ IsFiniteSet(DOMAIN tracker) /\ IsFiniteSet(DOMAIN beacon)
      /\ Cardinality(DOMAIN tracker) <= MaxSources + since
      /\ Cardinality(DOMAIN beacon) <= MaxBeacons + since
      /\ ~ ended => /\ IsFiniteSet(alerted)
                    /\ Cardinality(alerted) <= MaxHashes + since * KeysPerPacket
  BY Constants DEF Ground, Growth, TrackersBounded
<1>1. since' = since + 1 /\ ~ ended /\ ended' = ended /\ traffic' = traffic
  BY DEF Inspect
<1>2. KeysPerPacket' = KeysPerPacket
  BY <1>1 DEF KeysPerPacket, Ports
<1>3. /\ IsFiniteSet(DOMAIN tracker')
      /\ Cardinality(DOMAIN tracker') <= MaxSources + (since + 1)
  <2>1. tracker' = tracker \/ \E t : tracker' = Put(tracker, p.src, t)
    BY DEF Inspect, Footprint, Anomalies
  <2>2. CASE tracker' = tracker
    <3>1. Cardinality(DOMAIN tracker) \in Nat
      BY <1>0, FS_CardinalityType
    <3> QED
      BY <1>0, <2>2, <3>1
  <2>3. ASSUME NEW k, NEW v, tracker' = Put(tracker, k, v)
        PROVE  /\ IsFiniteSet(DOMAIN tracker')
               /\ Cardinality(DOMAIN tracker') <= MaxSources + (since + 1)
    BY <1>0, <2>3, PutGrows
  <2> QED
    BY <2>1, <2>2, <2>3
<1>4. /\ IsFiniteSet(DOMAIN beacon')
      /\ Cardinality(DOMAIN beacon') <= MaxBeacons + (since + 1)
  <2>1. beacon' = beacon \/ \E ts : beacon' = Put(beacon, BeaconKey(p), ts)
    BY DEF Inspect, Footprint, Anomalies
  <2>2. CASE beacon' = beacon
    <3>1. Cardinality(DOMAIN beacon) \in Nat
      BY <1>0, FS_CardinalityType
    <3> QED
      BY <1>0, <2>2, <3>1
  <2>3. ASSUME NEW k, NEW v, beacon' = Put(beacon, k, v)
        PROVE  /\ IsFiniteSet(DOMAIN beacon')
               /\ Cardinality(DOMAIN beacon') <= MaxBeacons + (since + 1)
    BY <1>0, <2>3, PutGrows
  <2> QED
    BY <2>1, <2>2, <2>3
<1>5. /\ IsFiniteSet(alerted')
      /\ Cardinality(alerted') <= MaxHashes + (since + 1) * KeysPerPacket
  <2> DEFINE k == KeysPerPacket
             m == MaxHashes + since * k
             keys == PacketKeys(p)
  <2>1. alerted' = alerted \/ alerted' = alerted \cup keys
    <3>1. CASE p.kind = "udp"
      BY <3>1 DEF Inspect, Footprint
    <3>2. CASE p.kind # "udp"
      BY <3>2, AnomaliesAlert DEF Inspect, Alert
    <3> QED
      BY <3>1, <3>2
  <2>2. k \in Nat /\ IsFiniteSet(keys) /\ Cardinality(keys) <= k
    BY PacketKeysFew, WormKeysFew
  <2>3. IsFiniteSet(alerted) /\ Cardinality(alerted) <= m
    BY <1>0, <1>1
  <2> HIDE DEF k, keys
  <2>4. m \in Nat /\ m + k = MaxHashes + (since + 1) * k
    BY <1>0, <2>2, OneRoundMore
  <2> HIDE DEF m
  <2>5. IsFiniteSet(alerted \cup keys) /\ Cardinality(alerted \cup keys) <= m + k
    BY <2>2, <2>3, <2>4, UnionFits
  <2>6. Cardinality(alerted) <= m + k
    <3>1. Cardinality(alerted) \in Nat
      BY <2>3, FS_CardinalityType
    <3> QED
      BY <2>2, <2>3, <2>4, <3>1
  <2>7. IsFiniteSet(alerted') /\ Cardinality(alerted') <= m + k
    BY <2>1, <2>3, <2>5, <2>6
  <2> QED
    BY <2>4, <2>7 DEF k
<1> QED
  BY <1>1, <1>2, <1>3, <1>4, <1>5 DEF Growth, TrackersBounded

LEMMA MaintainTrims ==
  ASSUME AnomalyAssumption, Ground, Growth, Maintain
  PROVE  Growth'
<1>0. /\ MaxSources \in Nat /\ MaxBeacons \in Nat /\ MaxHashes \in Nat
      /\ KeysPerPacket \in Nat
  BY Constants, WormKeysFew
<1>1. /\ tracker' = Only(tracker, Capped(DOMAIN tracker, MaxSources))
      /\ beacon' = Pruned /\ alerted' = Capped(alerted, MaxHashes)
      /\ since' = 0 /\ ~ ended /\ traffic' = traffic
  BY DEF Maintain
<1>2. IsFiniteSet(DOMAIN tracker) /\ IsFiniteSet(DOMAIN beacon) /\ IsFiniteSet(alerted)
  BY <1>1 DEF Growth
<1>3. IsFiniteSet(DOMAIN tracker') /\ Cardinality(DOMAIN tracker') <= MaxSources + since'
  <2>1. DOMAIN tracker' = Capped(DOMAIN tracker, MaxSources) /\ MaxSources + 0 = MaxSources
    BY <1>0, <1>1, OnlyIs
  <2> QED
    BY <1>0, <1>1, <1>2, <2>1, CappedFits
<1>4. IsFiniteSet(DOMAIN beacon') /\ Cardinality(DOMAIN beacon') <= MaxBeacons + since'
  BY <1>0, <1>1, <1>2, PrunedFits
<1>5. /\ IsFiniteSet(alerted')
      /\ Cardinality(alerted') <= MaxHashes + since' * KeysPerPacket
  <2>1. MaxHashes + 0 * KeysPerPacket = MaxHashes
    BY <1>0
  <2> QED
    BY <1>0, <1>1, <1>2, <2>1, CappedFits
<1>6. KeysPerPacket' = KeysPerPacket
  BY <1>1 DEF KeysPerPacket, Ports
<1> QED
  BY <1>3, <1>4, <1>5, <1>6 DEF Growth, TrackersBounded

LEMMA GrowthStep ==
  ASSUME AnomalyAssumption, Ground, Growth, Next
  PROVE  Growth'
<1>1. CASE Flush
  <2>1. UNCHANGED <<traffic, since, tracker, beacon>> /\ ended'
    BY <1>1 DEF Flush
  <2> QED
    BY <2>1 DEF Growth, TrackersBounded
<1>2. CASE Decide \/ Tick \/ \E p \in traffic : LlmConfirm(p.src)
  <2>1. UNCHANGED <<traffic, since, tracker, beacon, alerted, ended>>
    BY <1>2 DEF Decide, Tick, LlmConfirm
  <2>2. KeysPerPacket' = KeysPerPacket
    BY <2>1 DEF KeysPerPacket, Ports
  <2> QED
    BY <2>1, <2>2 DEF Growth, TrackersBounded
<1> QED
  BY <1>1, <1>2, InspectGrows, MaintainTrims DEF Next

-------------------------------------------------------------------------------
(* The theorems                                                                *)

LEMMA AnomalyInit ==
  ASSUME AnomalyAssumption, Init
  PROVE  AnomalyInv
<1>1. DOMAIN tracker = {} /\ DOMAIN beacon = {}
  BY DEF Init, Empty
<1>2. Culprits = {}
  BY DEF Init, Culprits
<1>3. Cardinality({}) = 0
  BY FS_EmptySet
<1>4. Ground
  <2>1. MaxTime \in Nat /\ MaxPackets \in Nat
    BY Constants
  <2>2. /\ mode \in Modes /\ traffic \in Traffics /\ clock = 0 /\ packets = 0 /\ ended = FALSE
        /\ since = 0
        /\ alerted = {} /\ raised = {} /\ blocked = {} /\ inline = {}
    BY DEF Init
  <2>3. clock \in 0 .. MaxTime /\ packets \in 0 .. MaxPackets /\ Cardinality(inline) <= 1
        /\ since \in 0 .. packets
    BY <1>3, <2>1, <2>2
  <2>4. /\ alerted \subseteq raised /\ blocked \subseteq Hosts
        /\ inline \subseteq [src : Hosts, fate : {"pending", "dropped", "sent"}]
        /\ ended \in BOOLEAN
    BY <2>2
  <2> QED
    BY <1>2, <2>2, <2>3, <2>4 DEF Ground
<1>5. TrackersOk /\ BeaconsOk
  BY <1>1 DEF TrackersOk, BeaconsOk
<1>6. BlocklistIsCulprits /\ DropsAreJustified
  BY <1>2 DEF Init, BlocklistIsCulprits, DropsAreJustified
<1>7. DetectorsReport
  BY <1>1, <1>2 DEF Init, DetectorsReport, ThresholdsReported, SpoofNeedsTwoStacks,
                    PeriodicIsCaught, SpamBotsCredited
<1>8. Growth
  BY <1>4, GrowthInit
<1> QED
  BY <1>4, <1>5, <1>6, <1>7, <1>8 DEF AnomalyInv

LEMMA AnomalyStep ==
  ASSUME AnomalyAssumption, AnomalyInv, [Next]_vars
  PROVE  AnomalyInv'
<1>1. CASE Next
  <2>1. Ground' /\ BlocklistIsCulprits'
    BY <1>1, GroundStep DEF AnomalyInv
  <2>2. TrackersOk'
    BY <1>1, TrackersStep DEF AnomalyInv
  <2>3. BeaconsOk'
    BY <1>1, BeaconsStep DEF AnomalyInv
  <2>4. DropsAreJustified'
    BY <1>1, InlineStep DEF AnomalyInv
  <2>5. ThresholdsReported'
    BY <1>1, ThresholdsStep DEF AnomalyInv, DetectorsReport
  <2>6. SpoofNeedsTwoStacks'
    BY <1>1, SpoofStep DEF AnomalyInv, DetectorsReport
  <2>7. PeriodicIsCaught'
    BY <1>1, PeriodicStep DEF AnomalyInv, DetectorsReport
  <2>8. SpamBotsCredited'
    BY <1>1, SpamStep DEF AnomalyInv, DetectorsReport
  <2>9. Growth'
    BY <1>1, GrowthStep DEF AnomalyInv
  <2> QED
    BY <2>1, <2>2, <2>3, <2>4, <2>5, <2>6, <2>7, <2>8, <2>9 DEF AnomalyInv, DetectorsReport
<1>2. CASE UNCHANGED vars
  <2>1. /\ Ports' = Ports /\ Culprits' = Culprits
        /\ UNCHANGED <<mode, traffic, clock, packets, since, tracker, beacon, alerted, raised,
                       blocked, inline, ended>>
    BY <1>2 DEF Ports, Culprits, vars
  <2>2. /\ Ground' /\ TrackersOk' /\ BeaconsOk' /\ BlocklistIsCulprits' /\ DropsAreJustified'
    BY <2>1 DEF AnomalyInv, Ground, TrackersOk, BeaconsOk, BlocklistIsCulprits,
                DropsAreJustified
  <2>3. ThresholdsReported'
    BY <2>1, ThresholdsAre DEF AnomalyInv, DetectorsReport
  <2>4. SpoofNeedsTwoStacks'
    BY <2>1 DEF AnomalyInv, DetectorsReport, SpoofNeedsTwoStacks
  <2>5. PeriodicIsCaught'
    BY <2>1 DEF AnomalyInv, DetectorsReport, PeriodicIsCaught
  <2>6. SpamBotsCredited'
    <3>1. SUFFICES ASSUME ended', NEW s \in DOMAIN tracker',
                          (Cardinality(MailServers(tracker[s])) >= SpamMin)',
                          NEW d \in (MailServers(tracker[s]) \ Private)'
                   PROVE  <<"Botnet Host", s, d>> \in raised'
      BY DEF SpamBotsCredited
    <3>2. (MailServers(tracker[s]))' = MailServers(tracker[s])
      BY <2>1 DEF MailServers
    <3>3. SpamBotsCredited
      BY DEF AnomalyInv, DetectorsReport
    <3> QED
      BY <2>1, <3>1, <3>2, <3>3 DEF SpamBotsCredited
  <2>7. Growth'
    BY <2>1 DEF AnomalyInv, Growth, TrackersBounded, KeysPerPacket
  <2> QED
    BY <2>2, <2>3, <2>4, <2>5, <2>6, <2>7 DEF AnomalyInv, DetectorsReport
<1> QED
  BY <1>1, <1>2

\* The strengthening the other theorems follow from: what a tracker holds adds up and
\* explains its TTL, beacon trackers are in order, the blocklist is exactly the culprits
\* that may be blocked, and the detectors report.
THEOREM AnomalyInvariant == Spec => []AnomalyInv
<1>1. Init => AnomalyInv
  BY AnomalyAssumption, AnomalyInit
<1>2. AnomalyInv /\ [Next]_vars => AnomalyInv'
  BY AnomalyAssumption, AnomalyStep
<1> QED
  BY <1>1, <1>2, PTL DEF Spec

\* The tables of the capture thread keep their types, whatever the traffic: a tracker's
\* total is the sum over its ports, and the times of a beacon never run backwards.
THEOREM TypesHold == Spec => []TypeOK
<1>1. AnomalyInv => TypeOK
  <2>1. SUFFICES ASSUME AnomalyInv
                 PROVE  TypeOK
    OBVIOUS
  <2>2. Ground /\ TrackersOk /\ BeaconsOk
    BY <2>1 DEF AnomalyInv
  <2>3. ASSUME NEW s \in DOMAIN tracker
        PROVE  tracker[s].total = Total(tracker[s].syns)
    <3> DEFINE t == tracker[s]
    <3>1. OkTracker(t, Ports, clock, packets)
      BY <2>2 DEF TrackersOk
    <3> HIDE DEF t
    <3>2. DOMAIN t.syns = Ports /\ t.total = Sum(t.syns, Ports)
      BY <3>1 DEF OkTracker
    <3>3. Total(t.syns) = Sum(t.syns, DOMAIN t.syns)
      BY TotalIsSum
    <3> QED
      BY <3>2, <3>3 DEF t
  <2>4. ASSUME NEW s \in DOMAIN tracker
        PROVE  /\ s \in Hosts
               /\ tracker[s] \in [ttl : {0, 64, 128, 255}, first : 0 .. clock,
                                  total : 0 .. packets, syns : [Ports -> 0 .. packets],
                                  targets : [Ports -> SUBSET Hosts], ext : SUBSET Hosts]
               /\ \A q \in Ports : Cardinality(tracker[s].targets[q]) <= tracker[s].syns[q]
    BY <2>2 DEF TrackersOk, OkTracker
  <2>5. ASSUME NEW k \in DOMAIN beacon
        PROVE  /\ k \in Hosts \X (Hosts \ Private) \X Ports
               /\ beacon[k] # <<>> /\ Len(beacon[k]) <= packets
               /\ \A i \in 1 .. Len(beacon[k]) - 1 : beacon[k][i] <= beacon[k][i + 1]
    BY <2>2 DEF BeaconsOk, OkTimes
  <2> QED
    BY <2>2, <2>3, <2>4, <2>5 DEF Ground, TypeOK
<1> QED
  BY <1>1, AnomalyInvariant, PTL

\* A flood takes the tables that evict_stale_state() trims past their caps, but by no more
\* than what the packets since the last maintenance add, whatever the caps and the traffic.
THEOREM TrackersBoundedHolds == Spec => []TrackersBounded
<1>1. AnomalyInv => TrackersBounded
  BY DEF AnomalyInv, Growth
<1> QED
  BY <1>1, AnomalyInvariant, PTL

\* "Never block allowlisted critical assets": is_blocked() drops a packet only after an
\* alert for its source, from the capture thread or the LLM's, and never for a source on
\* the allowlist.
THEOREM DropsAreJustifiedHolds == Spec => []DropsAreJustified
<1>1. AnomalyInv => DropsAreJustified
  BY DEF AnomalyInv
<1> QED
  BY <1>1, AnomalyInvariant, PTL

\* Once an alert was raised for a source, from either thread, no packet of it is sent on:
\* an alert blocks before the packet that raised it is decided.
THEOREM AlertedAreCutHolds == Spec => AlertedAreCut
<1>1. AnomalyInv /\ [Next]_vars
        => [\A x \in inline' \ inline : x.fate = "sent" => x.src \notin Culprits \ Allowlist]_vars
  BY AnomalyAssumption, InlineStep DEF AnomalyInv
<1> QED
  BY <1>1, AnomalyInvariant, PTL DEF Spec, AlertedAreCut

\* Pruning the beacon trackers loses no candidate while the candidates fit the cap, and
\* a tracker that stays keeps the times it had.
THEOREM CandidatesSurviveHolds == Spec => CandidatesSurvive
<1>1. AnomalyInv /\ [Next]_vars
        => [/\ Cardinality(Candidates) <= MaxBeacons => Candidates \subseteq DOMAIN beacon'
            /\ \A k \in DOMAIN beacon \cap DOMAIN beacon' :
                 SubSeq(beacon'[k], 1, Len(beacon[k])) = beacon[k]]_vars
  BY AnomalyAssumption, CandidatesStep DEF AnomalyInv
<1> QED
  BY <1>1, AnomalyInvariant, PTL DEF Spec, CandidatesSurvive

\* No detector sleeps through its threshold, spoofing is reported on the evidence of two
\* stacks only, and at the end of a capture every train at one interval within the limits
\* and every public mail server of a spam bot was reported, for every threshold and cap.
THEOREM DetectorsReportHolds == Spec => []DetectorsReport
<1>1. AnomalyInv => DetectorsReport
  BY DEF AnomalyInv
<1> QED
  BY <1>1, AnomalyInvariant, PTL
===============================================================================
