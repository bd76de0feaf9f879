------------------------- MODULE TcpReassemblyProofs -------------------------
(* Machine-checked proofs about TcpReassembly, for any sequence space, stream, *)
(* traffic, caps and thresholds that ReassemblyAssumption allows, for senders  *)
(* whose SYN does not arrive after data.                                       *)
EXTENDS TcpReassembly, FiniteSetTheorems, WellFoundedInduction, TLAPS

Offsets == 0 .. Length
Keys == 0 .. SeqSpace - 1

-------------------------------------------------------------------------------
(* Sequence numbers                                                            *)

LEMMA NoMultiple ==
  ASSUME NEW n \in Nat \ {0}, NEW q \in Int, q # 0
  PROVE  n * q >= n \/ n * q <= -n
  OBVIOUS

LEMMA Division ==
  ASSUME NEW n \in Nat \ {0}, NEW a \in Int
  PROVE  a % n \in 0 .. n - 1 /\ a \div n \in Int /\ a = (n * (a \div n)) + (a % n)
  OBVIOUS

LEMMA SameRemainder ==
  ASSUME NEW n \in Nat \ {0}, NEW r \in 0 .. n - 1, NEW q \in Int, NEW a \in Int,
         a = (n * q) + r
  PROVE  a % n = r
<1> DEFINE p == a \div n
           s == a % n
<1>1. s \in 0 .. n - 1 /\ p \in Int /\ a = (n * p) + s
  BY Division
<1> HIDE DEF p, s
<1>2. n * (q - p) = s - r
  BY <1>1
<1>3. q - p = 0
  BY <1>1, <1>2, NoMultiple
<1> QED
  BY <1>1, <1>3 DEF s

\* The constants and the sender, as the lemmas below use them.
Ground ==
  /\ SeqSpace \in Nat \ {0} /\ Length \in Nat /\ Length < SeqSpace \div 2
  /\ Isn \in Int
  /\ \A s \in Segments : s \in Offsets \X Offsets /\ s[1] < s[2]

LEMMA GroundHolds ==
  ASSUME ReassemblyAssumption, traffic \in Traffics
  PROVE  Ground
  BY DEF ReassemblyAssumption, Ground, Isn, Segments, Offsets

LEMMA Halves ==
  ASSUME Ground
  PROVE  /\ SeqSpace \div 2 \in Nat /\ 2 * (SeqSpace \div 2) <= SeqSpace
         /\ Length < SeqSpace
  BY DEF Ground

\* A sequence number and its byte differ by a multiple of the sequence space.
LEMMA SeqNoIs ==
  ASSUME Ground, NEW b \in Int
  PROVE  /\ SeqNo(b) \in Keys
         /\ \E m \in Int : SeqNo(b) = Isn + 1 + b + (SeqSpace * m)
<1> DEFINE a == Isn + 1 + b
           q == a \div SeqSpace
<1>1. a \in Int
  BY DEF Ground
<1>2. a % SeqSpace \in 0 .. SeqSpace - 1 /\ q \in Int
      /\ a = (SeqSpace * q) + (a % SeqSpace)
  <2> HIDE DEF a
  <2> QED
    BY <1>1, Division DEF Ground
<1>3. SeqNo(b) = a % SeqSpace
  BY DEF SeqNo, Mod
<1> HIDE DEF a, q
<1>4. SeqSpace * (-q) = -(SeqSpace * q)
  BY <1>2 DEF Ground
<1>5. SeqNo(b) = a + (SeqSpace * (-q)) /\ -q \in Int
  BY <1>1, <1>2, <1>3, <1>4 DEF Ground
<1> QED
  BY <1>2, <1>3, <1>5 DEF Keys, a

LEMMA ModOf ==
  ASSUME Ground, NEW r \in Keys, NEW m \in Int
  PROVE  Mod(r + (SeqSpace * m)) = r
<1> DEFINE a == r + (SeqSpace * m)
<1>1. a \in Int /\ a = (SeqSpace * m) + r
  BY DEF Ground, Keys
<1> HIDE DEF a
<1>2. a % SeqSpace = r
  BY <1>1, SameRemainder DEF Ground, Keys
<1> QED
  BY <1>2 DEF Mod, a

\* Two sequence numbers of the stream, subtracted as 32-bit integers, give the
\* distance of their bytes, on either side of the wraparound.
LEMMA Distance ==
  ASSUME Ground, NEW a \in Offsets, NEW b \in Offsets
  PROVE  Signed(SeqNo(a) - SeqNo(b)) = a - b
<1>1. PICK i \in Int : SeqNo(a) = Isn + 1 + a + (SeqSpace * i)
  BY SeqNoIs DEF Offsets
<1>2. PICK j \in Int : SeqNo(b) = Isn + 1 + b + (SeqSpace * j)
  BY SeqNoIs DEF Offsets
<1> DEFINE m == i - j
           x == SeqNo(a) - SeqNo(b)
<1>3. /\ x = (a - b) + (SeqSpace * m)
      /\ x = ((a - b) + SeqSpace) + (SeqSpace * (m - 1))
      /\ m \in Int /\ m - 1 \in Int
  BY <1>1, <1>2 DEF Ground, Offsets
<1> HIDE DEF m, x
<1>4. CASE a >= b
  <2>1. a - b \in Keys /\ a - b < SeqSpace \div 2
    BY <1>4, Halves DEF Ground, Offsets, Keys
  <2>2. Mod(x) = a - b
    BY <1>3, <2>1, ModOf
  <2> QED
    BY <2>1, <2>2 DEF Signed, x
<1>5. CASE a < b
  <2>1. /\ (a - b) + SeqSpace \in Keys
        /\ ~ ((a - b) + SeqSpace < SeqSpace \div 2)
    BY <1>5, Halves DEF Ground, Offsets, Keys
  <2>2. Mod(x) = (a - b) + SeqSpace
    BY <1>3, <2>1, ModOf
  <2> QED
    BY <2>1, <2>2 DEF Signed, x, Offsets, Ground
<1> QED
  BY <1>4, <1>5 DEF Offsets

LEMMA SeqNoInjective ==
  ASSUME Ground, NEW a \in Offsets, NEW b \in Offsets, SeqNo(a) = SeqNo(b)
  PROVE  a = b
<1>1. a - b = b - b
  BY Distance
<1> QED
  BY <1>1 DEF Offsets

LEMMA AfterMeansLater ==
  ASSUME Ground, NEW a \in Offsets, NEW b \in Offsets
  PROVE  seq_after(SeqNo(a), SeqNo(b)) <=> b < a
<1>1. Signed(SeqNo(b) - SeqNo(a)) = b - a
  BY Distance
<1> QED
  BY <1>1 DEF seq_after, seq_before, Offsets

\* Adding or taking away a number of bytes, as 32-bit integers do.
LEMMA Advance ==
  ASSUME Ground, NEW a \in Int, NEW n \in Int
  PROVE  Mod(SeqNo(a) + n) = SeqNo(a + n)
<1>1. PICK i \in Int : SeqNo(a) = Isn + 1 + a + (SeqSpace * i)
  BY SeqNoIs
<1>2. a + n \in Int /\ SeqNo(a + n) \in Keys
  BY SeqNoIs
<1>3. PICK j \in Int : SeqNo(a + n) = Isn + 1 + (a + n) + (SeqSpace * j)
  BY <1>2, SeqNoIs
<1>4. SeqNo(a) + n = SeqNo(a + n) + (SeqSpace * (i - j)) /\ i - j \in Int
  BY <1>1, <1>3 DEF Ground
<1>5. Mod(SeqNo(a + n) + (SeqSpace * (i - j))) = SeqNo(a + n)
  BY <1>2, <1>4, ModOf
<1> QED
  BY <1>4, <1>5

LEMMA Gap ==
  ASSUME Ground, NEW a \in Offsets, NEW b \in Offsets, a <= b
  PROVE  Mod(SeqNo(b) - SeqNo(a)) = b - a
<1>1. PICK i \in Int : SeqNo(a) = Isn + 1 + a + (SeqSpace * i)
  BY SeqNoIs DEF Offsets
<1>2. PICK j \in Int : SeqNo(b) = Isn + 1 + b + (SeqSpace * j)
  BY SeqNoIs DEF Offsets
<1>3. SeqNo(b) - SeqNo(a) = (b - a) + (SeqSpace * (j - i)) /\ j - i \in Int
  BY <1>1, <1>2 DEF Ground, Offsets
<1>4. b - a \in Keys
  BY Halves DEF Ground, Offsets, Keys
<1>5. Mod((b - a) + (SeqSpace * (j - i))) = b - a
  BY <1>3, <1>4, ModOf
<1> QED
  BY <1>3, <1>5

\* Without a wraparound the raw keys are in the order of the bytes.
LEMMA KeysInOrder ==
  ASSUME Ground, NoWrap, Isn \in Nat, NEW a \in Offsets, a < Length
  PROVE  SeqNo(a) = Isn + 1 + a
<1>1. Isn + 1 + a \in Keys /\ Isn + 1 + a = (Isn + 1 + a) + (SeqSpace * 0)
  BY DEF Ground, NoWrap, Offsets, Keys
<1>2. Mod((Isn + 1 + a) + (SeqSpace * 0)) = Isn + 1 + a
  BY <1>1, ModOf
<1> QED
  BY <1>1, <1>2 DEF SeqNo

-------------------------------------------------------------------------------
(* Pieces of the stream                                                        *)

Stream == 0 .. Length - 1

LEMMA BytesAre ==
  ASSUME Ground, NEW a \in Offsets, NEW b \in Offsets, a <= b
  PROVE  /\ Bytes(<<a, b>>) \in Seq(Stream)
         /\ Len(Bytes(<<a, b>>)) = b - a
         /\ \A i \in 1 .. b - a : Bytes(<<a, b>>)[i] = a + i - 1
         /\ Range(Bytes(<<a, b>>)) = a .. b - 1
<1> DEFINE p == Bytes(<<a, b>>)
<1>1. p = [i \in 1 .. b - a |-> a + i - 1]
  BY DEF Bytes
<1>2. b - a \in Nat /\ \A i \in 1 .. b - a : a + i - 1 \in Stream
  BY DEF Ground, Offsets, Stream
<1>3. p \in Seq(Stream) /\ Len(p) = b - a /\ DOMAIN p = 1 .. b - a
  BY <1>1, <1>2
<1>4. \A i \in 1 .. b - a : p[i] = a + i - 1
  BY <1>1
<1> HIDE DEF p
<1>5. Range(p) = a .. b - 1
  <2>1. ASSUME NEW x \in a .. b - 1
        PROVE  x \in Range(p)
    <3>1. x - a + 1 \in 1 .. b - a /\ p[x - a + 1] = x
      BY <1>4 DEF Offsets
    <3> QED
      BY <1>3, <3>1 DEF Range
  <2>2. ASSUME NEW x \in Range(p)
        PROVE  x \in a .. b - 1
    BY <1>3, <1>4 DEF Range, Offsets
  <2> QED
    BY <2>1, <2>2
<1> QED
  BY <1>3, <1>4, <1>5 DEF p

LEMMA SameSequence ==
  ASSUME NEW S, NEW p \in Seq(S), NEW q \in Seq(S), Len(p) = Len(q),
         \A i \in 1 .. Len(p) : p[i] = q[i]
  PROVE  p = q
  OBVIOUS

LEMMA ConcatIs ==
  ASSUME NEW S, NEW p \in Seq(S), NEW q \in Seq(S)
  PROVE  /\ p \o q \in Seq(S) /\ Len(p) \in Nat /\ Len(q) \in Nat
         /\ Len(p \o q) = Len(p) + Len(q)
         /\ \A i \in 1 .. Len(p) + Len(q) :
              (p \o q)[i] = IF i <= Len(p) THEN p[i] ELSE q[i - Len(p)]
  OBVIOUS

LEMMA BytesJoin ==
  ASSUME Ground, NEW a \in Offsets, NEW b \in Offsets, NEW d \in Offsets, a <= b, b <= d
  PROVE  Bytes(<<a, b>>) \o Bytes(<<b, d>>) = Bytes(<<a, d>>)
<1> DEFINE p == Bytes(<<a, b>>)
           q == Bytes(<<b, d>>)
           r == Bytes(<<a, d>>)
<1>1. p \in Seq(Stream) /\ Len(p) = b - a /\ \A i \in 1 .. b - a : p[i] = a + i - 1
  BY BytesAre
<1>2. q \in Seq(Stream) /\ Len(q) = d - b /\ \A i \in 1 .. d - b : q[i] = b + i - 1
  BY BytesAre
<1>3. r \in Seq(Stream) /\ Len(r) = d - a /\ \A i \in 1 .. d - a : r[i] = a + i - 1
  BY BytesAre DEF Offsets
<1> HIDE DEF p, q, r
<1>4. p \o q \in Seq(Stream) /\ Len(p \o q) = d - a
  <2>1. p \o q \in Seq(Stream)
    BY <1>1, <1>2
  <2>2. Len(p \o q) = Len(p) + Len(q)
    BY <1>1, <1>2, ConcatIs
  <2> QED
    BY <1>1, <1>2, <2>1, <2>2 DEF Offsets, Ground
<1>5. \A i \in 1 .. d - a : (p \o q)[i] = a + i - 1
  <2> TAKE i \in 1 .. d - a
  <2>0. i \in Int /\ a \in Int /\ b \in Int /\ d \in Int
    BY DEF Offsets, Ground
  <2>1. (p \o q)[i] = IF i <= b - a THEN p[i] ELSE q[i - (b - a)]
    BY <1>1, <1>2, <2>0, ConcatIs, SMTT(30)
  <2>2. CASE i <= b - a
    BY <1>1, <2>0, <2>1, <2>2
  <2>3. CASE i > b - a
    BY <1>2, <2>0, <2>1, <2>3
  <2>4. i <= b - a \/ i > b - a
    BY <2>0
  <2> QED
    BY <2>2, <2>3, <2>4, Zenon
<1> QED
  BY <1>3, <1>4, <1>5, SameSequence DEF p, q, r

LEMMA BytesCut ==
  ASSUME Ground, NEW a \in Offsets, NEW b \in Offsets, NEW d \in Offsets, a <= b, b <= d
  PROVE  SubSeq(Bytes(<<a, d>>), b - a + 1, Len(Bytes(<<a, d>>))) = Bytes(<<b, d>>)
<1> DEFINE q == Bytes(<<b, d>>)
           r == Bytes(<<a, d>>)
           s == SubSeq(r, b - a + 1, d - a)
<1>2. q \in Seq(Stream) /\ Len(q) = d - b /\ \A i \in 1 .. d - b : q[i] = b + i - 1
  BY BytesAre
<1>3. r \in Seq(Stream) /\ Len(r) = d - a /\ \A i \in 1 .. d - a : r[i] = a + i - 1
  BY BytesAre DEF Offsets
<1> HIDE DEF q, r
<1>4. s \in Seq(Stream) /\ Len(s) = d - b
  BY <1>3 DEF Offsets
<1>5. \A i \in 1 .. d - b : s[i] = b + i - 1
  <2> TAKE i \in 1 .. d - b
  <2>1. s[i] = r[b - a + i] /\ b - a + i \in 1 .. d - a
    BY <1>3 DEF Offsets
  <2> QED
    BY <1>3, <2>1 DEF Offsets
<1> HIDE DEF s
<1>6. s = q
  BY <1>2, <1>4, <1>5, SameSequence
<1> QED
  BY <1>3, <1>6 DEF q, r, s

LEMMA RangeOfConcat ==
  ASSUME NEW S, NEW p \in Seq(S), NEW q \in Seq(S)
  PROVE  Range(p \o q) = Range(p) \cup Range(q)
<1>1. DOMAIN (p \o q) = 1 .. Len(p) + Len(q) /\ DOMAIN p = 1 .. Len(p)
      /\ DOMAIN q = 1 .. Len(q) /\ Len(p) \in Nat /\ Len(q) \in Nat
  OBVIOUS
<1>2. \A i \in 1 .. Len(p) + Len(q) :
        (p \o q)[i] = IF i <= Len(p) THEN p[i] ELSE q[i - Len(p)]
  BY ConcatIs
<1>3. ASSUME NEW x \in Range(p \o q)
      PROVE  x \in Range(p) \cup Range(q)
  <2>1. PICK i \in 1 .. Len(p) + Len(q) : x = (p \o q)[i]
    BY <1>1, <1>3 DEF Range
  <2>2. CASE i <= Len(p)
    BY <1>1, <1>2, <2>1, <2>2 DEF Range
  <2>3. CASE i > Len(p)
    <3>1. i - Len(p) \in 1 .. Len(q) /\ x = q[i - Len(p)]
      BY <1>1, <1>2, <2>1, <2>3
    <3> QED
      BY <1>1, <3>1 DEF Range
  <2> QED
    BY <1>1, <2>1, <2>2, <2>3
<1>4. ASSUME NEW i \in 1 .. Len(p)
      PROVE  p[i] \in Range(p \o q)
  <2>1. i \in 1 .. Len(p) + Len(q) /\ (p \o q)[i] = p[i]
    BY <1>1, <1>2
  <2> QED
    BY <1>1, <2>1 DEF Range
<1>5. ASSUME NEW i \in 1 .. Len(q)
      PROVE  q[i] \in Range(p \o q)
  <2>1. Len(p) + i \in 1 .. Len(p) + Len(q) /\ (p \o q)[Len(p) + i] = q[i]
    BY <1>1, <1>2
  <2> QED
    BY <1>1, <2>1 DEF Range
<1> QED
  BY <1>1, <1>3, <1>4, <1>5 DEF Range

-------------------------------------------------------------------------------
(* The entry of a connection                                                   *)

Buffers == UNION {[K -> Seq(Stream)] : K \in SUBSET Keys}

Connection ==
  [tracked : BOOLEAN, syn_received : BOOLEAN, fin_received : BOOLEAN,
   expected_seq : Keys, payload : Seq(Stream), out_of_order_segments : Buffers,
   packet_count : 0 .. 2, arrived : SUBSET Stream, refused : BOOLEAN]

\* The bytes waiting in c, and all the bytes c holds.
Ahead(c) == UNION {Range(c.out_of_order_segments[k]) : k \in Waiting(c)}
Holds(c) == Range(c.payload) \cup Ahead(c)

\* A key holds the segment that begins at its byte.
Keyed(c) ==
  \A k \in Waiting(c) : \E s \in Segments :
    k = SeqNo(s[1]) /\ c.out_of_order_segments[k] = Bytes(s)

\* The payload is the piece of the stream from byte a up to byte b, where a segment
\* ends, and expected_seq is b.
Piece(c, a, b) ==
  /\ c.payload = Bytes(<<a, b>>)
  /\ c.syn_received => a = 0
  /\ c.syn_received \/ a < b => c.expected_seq = SeqNo(b)
  /\ a < b => \E s \in Segments : s[2] = b

\* Every captured byte is held, unless the cap turned it away.
KeepsAll(c) == Plain /\ c.syn_received /\ ~c.refused => c.arrived \subseteq Holds(c)

Sound(c, a, b) ==
  /\ a \in Offsets /\ b \in Offsets /\ a <= b
  /\ c \in Connection
  /\ Cardinality(Waiting(c)) <= OooMax
  /\ Keyed(c)
  /\ Piece(c, a, b)
  /\ Holds(c) \subseteq c.arrived
  /\ ~c.syn_received /\ a = b => Waiting(c) = {} /\ c.arrived = {}
  /\ KeepsAll(c)

LEMMA WaitingIsFinite ==
  ASSUME Ground, NEW c \in Connection
  PROVE  /\ Waiting(c) \subseteq Keys /\ IsFiniteSet(Waiting(c))
         /\ Cardinality(Waiting(c)) \in Nat
         /\ c.out_of_order_segments \in [Waiting(c) -> Seq(Stream)]
<1>1. PICK K \in SUBSET Keys : c.out_of_order_segments \in [K -> Seq(Stream)]
  BY DEF Connection, Buffers
<1>2. Waiting(c) = K
  BY <1>1 DEF Waiting
<1>3. IsFiniteSet(Keys)
  BY FS_Interval DEF Ground, Keys
<1> QED
  BY <1>1, <1>2, <1>3, FS_Subset, FS_CardinalityType

LEMMA LeastExists ==
  ASSUME NEW S \in SUBSET Nat, S # {}
  PROVE  Min(S) \in S /\ \A x \in S : Min(S) <= x
<1> DEFINE R == OpToRel(<, Nat)
<1>1. IsWellFoundedOn(R, Nat)
  BY NatLessThanWellFounded, Zenon
<1>2. \A x, y \in Nat : y < x => <<y, x>> \in R
  BY DEF OpToRel
<1> HIDE DEF R
<1>3. PICK x \in S : \A y \in S : ~ (<<y, x>> \in R)
  BY <1>1, WFMin
<1>4. ASSUME NEW y \in S
      PROVE  x <= y
  <2>1. x \in Nat /\ y \in Nat
    OBVIOUS
  <2>2. ~ (y < x)
    BY <1>2, <1>3, <2>1
  <2> QED
    BY <2>1, <2>2
<1>5. \E z \in S : \A y \in S : z <= y
  BY <1>4
<1> QED
  BY <1>5, Zenon DEF Min

LEMMA LowestKey ==
  ASSUME Ground, NEW c \in Connection, Waiting(c) # {}
  PROVE  Min(Waiting(c)) \in Waiting(c) /\ \A k \in Waiting(c) : Min(Waiting(c)) <= k
  BY WaitingIsFinite, LeastExists DEF Keys, Ground

\* What taking key k out of the map leaves.
Lacks(c, k, d) ==
  /\ Waiting(d) = Waiting(c) \ {k} /\ d.out_of_order_segments \in Buffers
  /\ \A j \in Waiting(d) : d.out_of_order_segments[j] = c.out_of_order_segments[j]
  /\ Ahead(c) = Ahead(d) \cup Range(c.out_of_order_segments[k])
  /\ Cardinality(Waiting(d)) = Cardinality(Waiting(c)) - 1

LEMMA Without ==
  ASSUME Ground, NEW c \in Connection, NEW k \in Waiting(c), NEW d,
         d.out_of_order_segments = [j \in Waiting(c) \ {k} |-> c.out_of_order_segments[j]]
  PROVE  Lacks(c, k, d)
<1>1. Waiting(d) = Waiting(c) \ {k}
  BY DEF Waiting
<1>2. \A j \in Waiting(d) : d.out_of_order_segments[j] = c.out_of_order_segments[j]
  BY <1>1
<1>3. d.out_of_order_segments \in [Waiting(c) \ {k} -> Seq(Stream)]
  BY WaitingIsFinite
<1>4. d.out_of_order_segments \in Buffers
  BY <1>3, WaitingIsFinite DEF Buffers
<1>5. Ahead(c) = Ahead(d) \cup Range(c.out_of_order_segments[k])
  BY <1>1, <1>2 DEF Ahead
<1>6. Cardinality(Waiting(d)) = Cardinality(Waiting(c)) - 1
  <2>1. IsFiniteSet(Waiting(c))
    BY WaitingIsFinite
  <2>2. Cardinality(Waiting(c) \ {k}) = Cardinality(Waiting(c)) - 1
    BY <2>1, FS_RemoveElement
  <2> QED
    BY <1>1, <2>2
<1> QED
  BY <1>1, <1>2, <1>4, <1>5, <1>6 DEF Lacks

\* What takes key k out of the map and leaves the flags as they are.
Drops(c, k, d) ==
  /\ d \in Connection /\ Lacks(c, k, d)
  /\ d.syn_received = c.syn_received /\ d.arrived = c.arrived /\ d.refused = c.refused

\* Either loop's round: bytes go to the payload and their segment out of the map.
Takes(c, k, bytes, seq) ==
  [c EXCEPT !.payload = @ \o bytes, !.expected_seq = seq,
            !.out_of_order_segments = [j \in Waiting(c) \ {k} |-> @[j]]]

LEMMA TakesIs ==
  ASSUME Ground, NEW c \in Connection, NEW k \in Waiting(c),
         NEW r \in Seq(Stream), NEW e \in Keys
  PROVE  /\ Drops(c, k, Takes(c, k, r, e))
         /\ Takes(c, k, r, e).payload = c.payload \o r
         /\ Takes(c, k, r, e).expected_seq = e
<1> DEFINE o == [j \in Waiting(c) \ {k} |-> c.out_of_order_segments[j]]
           p == c.payload \o r
           d == Takes(c, k, r, e)
<1>1. p \in Seq(Stream)
  BY DEF Connection
<1>2. o \in Buffers
  <2>1. o \in [Waiting(c) \ {k} -> Seq(Stream)]
    BY WaitingIsFinite
  <2> QED
    BY <2>1, WaitingIsFinite DEF Buffers
<1>3. d = [[[c EXCEPT !.payload = p] EXCEPT !.expected_seq = e]
             EXCEPT !.out_of_order_segments = o]
  BY DEF Takes, Connection
<1> HIDE DEF o, p, d
<1>4. /\ d \in Connection /\ d.payload = p /\ d.expected_seq = e
      /\ d.out_of_order_segments = o /\ d.syn_received = c.syn_received
      /\ d.arrived = c.arrived /\ d.refused = c.refused
  BY <1>1, <1>2, <1>3 DEF Connection
<1>5. d.out_of_order_segments = [j \in Waiting(c) \ {k} |-> c.out_of_order_segments[j]]
  BY <1>4 DEF o
<1>6. Drops(c, k, d)
  <2>1. Lacks(c, k, d)
    BY <1>5, Without, Zenon
  <2> QED
    BY <1>4, <2>1 DEF Drops
<1> QED
  BY <1>4, <1>6 DEF p, d

LEMMA MergeIs ==
  ASSUME Ground, NEW c \in Connection, NEW k \in Waiting(c),
         NEW r \in Seq(Stream), Rest(c, k) = r
  PROVE  /\ Drops(c, k, Merge(c, k))
         /\ Merge(c, k).payload = c.payload \o r
         /\ Merge(c, k).expected_seq = Mod(c.expected_seq + Len(r))
<1> DEFINE e == Mod(c.expected_seq + Len(r))
<1>1. e \in Keys
  <2>1. c.expected_seq + Len(r) \in Int
    BY DEF Connection, Keys, Ground
  <2> QED
    BY <2>1, Division DEF Mod, Keys, Ground
<1>2. Merge(c, k) = Takes(c, k, r, e)
  BY DEF Merge, Extend, Takes, Connection
<1> HIDE DEF e
<1> QED
  BY <1>1, <1>2, TakesIs DEF e

-------------------------------------------------------------------------------
(* The merge loop                                                              *)

\* What is taken of a waiting segment whose first byte is not after expected_seq.
LEMMA RestIs ==
  ASSUME Ground, NEW c, NEW k, NEW s \in Segments, NEW b \in Offsets,
         k = SeqNo(s[1]), c.out_of_order_segments[k] = Bytes(s),
         c.expected_seq = SeqNo(b), s[1] <= b
  PROVE  Rest(c, k) = IF b < s[2] THEN Bytes(<<b, s[2]>>) ELSE <<>>
<1>1. s = <<s[1], s[2]>> /\ s[1] \in Offsets /\ s[2] \in Offsets /\ s[1] < s[2]
  BY DEF Ground
<1>2. Len(Bytes(s)) = s[2] - s[1]
  <2>1. Len(Bytes(<<s[1], s[2]>>)) = s[2] - s[1]
    BY <1>1, BytesAre DEF Offsets, Ground
  <2> QED
    BY <1>1, <2>1
<1>3. Mod(k + Len(Bytes(s))) = SeqNo(s[2])
  <2>1. s[1] \in Int /\ s[2] - s[1] \in Int /\ s[1] + (s[2] - s[1]) = s[2]
    BY <1>1 DEF Offsets, Ground
  <2>2. Mod(SeqNo(s[1]) + (s[2] - s[1])) = SeqNo(s[1] + (s[2] - s[1]))
    BY <2>1, Advance
  <2> QED
    BY <1>2, <2>1, <2>2
<1>4. seq_after(Mod(k + Len(Bytes(s))), c.expected_seq) <=> b < s[2]
  BY <1>1, <1>3, AfterMeansLater
<1>5. CASE b < s[2]
  <2>1. Mod(c.expected_seq - k) = b - s[1]
    BY <1>1, Gap
  <2>2. SubSeq(Bytes(<<s[1], s[2]>>), b - s[1] + 1, Len(Bytes(<<s[1], s[2]>>)))
          = Bytes(<<b, s[2]>>)
    <3>1. b <= s[2]
      BY <1>1, <1>5 DEF Offsets, Ground
    <3> QED
      BY <1>1, <3>1, BytesCut
  <2>3. SubSeq(Bytes(s), b - s[1] + 1, Len(Bytes(s))) = Bytes(<<b, s[2]>>)
    BY <1>1, <2>2
  <2> QED
    BY <1>4, <1>5, <2>1, <2>3 DEF Rest
<1>6. CASE ~ (b < s[2])
  BY <1>4, <1>6 DEF Rest
<1> QED
  BY <1>5, <1>6

\* Sound tells apart no more of an entry than this.
LEMMA SoundOf ==
  ASSUME NEW c, NEW d, NEW a \in Offsets, NEW e \in Offsets, a < e,
         Keyed(c), \A k \in Waiting(d) :
           k \in Waiting(c) /\ d.out_of_order_segments[k] = c.out_of_order_segments[k],
         Cardinality(Waiting(d)) <= OooMax, d \in Connection,
         Piece(d, a, e),
         d.syn_received = c.syn_received, d.refused = c.refused, d.arrived = c.arrived,
         Holds(d) \subseteq Holds(c), a = 0 => Holds(c) \subseteq Holds(d),
         Holds(c) \subseteq c.arrived, KeepsAll(c), c.syn_received => a = 0,
         Ground
  PROVE  Sound(d, a, e)
<1>1. Keyed(d)
  BY DEF Keyed
<1>2. KeepsAll(d)
  BY DEF KeepsAll
<1>3. a <= e /\ ~ (a = e)
  BY DEF Offsets, Ground
<1> QED
  BY <1>1, <1>2, <1>3 DEF Sound

LEMMA MergeKeepsSound ==
  ASSUME Ground, OooMax \in Nat, NEW c, NEW a, NEW b, Sound(c, a, b), a < b,
         NEW k \in Waiting(c), ~ seq_after(k, c.expected_seq)
  PROVE  /\ \E e \in Offsets : a < e /\ Sound(Merge(c, k), a, e)
         /\ Waiting(Merge(c, k)) = Waiting(c) \ {k}
<1> DEFINE d == Merge(c, k)
<1>1. /\ a \in Offsets /\ b \in Offsets /\ c \in Connection
      /\ c.payload = Bytes(<<a, b>>) /\ c.expected_seq = SeqNo(b)
      /\ Cardinality(Waiting(c)) <= OooMax /\ Keyed(c) /\ KeepsAll(c)
      /\ Holds(c) \subseteq c.arrived
      /\ c.syn_received => a = 0
      /\ \E s \in Segments : s[2] = b
  BY DEF Sound, Piece
<1>2. PICK s \in Segments : k = SeqNo(s[1]) /\ c.out_of_order_segments[k] = Bytes(s)
  BY <1>1 DEF Keyed
<1>3. s = <<s[1], s[2]>> /\ s[1] \in Offsets /\ s[2] \in Offsets /\ s[1] < s[2]
  BY DEF Ground
<1>4. s[1] <= b
  <2>1. ~ (b < s[1])
    BY <1>1, <1>2, <1>3, AfterMeansLater
  <2> QED
    BY <1>1, <1>3, <2>1 DEF Offsets, Ground
<1> DEFINE e == IF b < s[2] THEN s[2] ELSE b
<1>5. e \in Offsets /\ b <= e /\ a < e /\ s[2] <= e /\ a <= b
  BY <1>1, <1>3 DEF Offsets, Ground
<1>6. Rest(c, k) = Bytes(<<b, e>>)
  <2>1. Bytes(<<b, b>>) = <<>>
    <3>1. Bytes(<<b, b>>) \in Seq(Stream) /\ Len(Bytes(<<b, b>>)) = b - b
      BY <1>1, BytesAre DEF Offsets, Ground
    <3> QED
      BY <1>1, <3>1 DEF Offsets, Ground
  <2>2. Rest(c, k) = IF b < s[2] THEN Bytes(<<b, s[2]>>) ELSE <<>>
    BY <1>1, <1>2, <1>4, RestIs
  <2> QED
    BY <2>1, <2>2
<1> HIDE DEF e
<1>7. /\ Bytes(<<b, e>>) \in Seq(Stream) /\ Len(Bytes(<<b, e>>)) = e - b
      /\ Range(Bytes(<<b, e>>)) = b .. e - 1
  BY <1>1, <1>5, BytesAre
<1>8. /\ Drops(c, k, d)
      /\ d.payload = c.payload \o Bytes(<<b, e>>)
      /\ d.expected_seq = Mod(c.expected_seq + (e - b))
  BY <1>1, <1>6, <1>7, MergeIs
<1> HIDE DEF d
<1>18. /\ d \in Connection
       /\ d.syn_received = c.syn_received /\ d.arrived = c.arrived
       /\ d.refused = c.refused
  BY <1>8 DEF Drops, Lacks
<1>9. d.payload = Bytes(<<a, e>>)
  <2>1. Bytes(<<a, b>>) \o Bytes(<<b, e>>) = Bytes(<<a, e>>)
    BY <1>1, <1>5, BytesJoin
  <2> QED
    BY <1>1, <1>8, <2>1
<1>10. d.expected_seq = SeqNo(e)
  <2>1. b \in Int /\ e - b \in Int /\ b + (e - b) = e
    BY <1>1, <1>5 DEF Offsets, Ground
  <2> QED
    BY <1>1, <1>8, <2>1, Advance
<1>11. /\ Waiting(d) = Waiting(c) \ {k}
       /\ \A j \in Waiting(d) : d.out_of_order_segments[j] = c.out_of_order_segments[j]
       /\ Ahead(c) = Ahead(d) \cup Range(Bytes(s))
       /\ Cardinality(Waiting(d)) = Cardinality(Waiting(c)) - 1
  BY <1>2, <1>8 DEF Drops, Lacks
<1>12. Cardinality(Waiting(d)) <= OooMax
  BY <1>1, <1>11, WaitingIsFinite
<1>13. /\ Range(c.payload) = a .. b - 1 /\ Range(d.payload) = a .. e - 1
       /\ Range(Bytes(s)) = s[1] .. s[2] - 1
  <2>1. Range(Bytes(<<a, b>>)) = a .. b - 1
    BY <1>1, <1>5, BytesAre
  <2>2. Range(Bytes(<<a, e>>)) = a .. e - 1
    BY <1>1, <1>5, BytesAre DEF Offsets, Ground
  <2>3. Range(Bytes(<<s[1], s[2]>>)) = s[1] .. s[2] - 1
    BY <1>3, BytesAre DEF Offsets, Ground
  <2> QED
    BY <1>1, <1>3, <1>9, <2>1, <2>2, <2>3
<1>14. Holds(d) \subseteq Holds(c)
  <2>1. a .. e - 1 \subseteq (a .. b - 1) \cup (s[1] .. s[2] - 1)
    BY <1>1, <1>3, <1>4, <1>5 DEF Offsets, Ground, e
  <2> QED
    BY <1>11, <1>13, <2>1 DEF Holds
<1>15. ASSUME a = 0
       PROVE  Holds(c) \subseteq Holds(d)
  <2>1. (a .. b - 1) \cup (s[1] .. s[2] - 1) \subseteq a .. e - 1
    BY <1>1, <1>3, <1>5, <1>15 DEF Offsets, Ground
  <2> QED
    BY <1>11, <1>13, <2>1 DEF Holds
<1>16. Piece(d, a, e)
  <2>1. \E t \in Segments : t[2] = e
    BY <1>1 DEF e
  <2> QED
    BY <1>1, <1>9, <1>10, <1>18, <2>1 DEF Piece
<1>17. Sound(d, a, e)
  BY <1>1, <1>5, <1>11, <1>12, <1>14, <1>15, <1>16, <1>18, SoundOf
<1> QED
  BY <1>5, <1>11, <1>17 DEF d

LEMMA NatSetInduction ==
  ASSUME NEW S \in SUBSET Nat, 0 \in S, \A n \in S : n + 1 \in S
  PROVE  S = Nat
<1> DEFINE T == Nat \ S
<1>1. ASSUME T # {}
      PROVE  FALSE
  <2>1. Min(T) \in T /\ \A x \in T : Min(T) <= x
    BY <1>1, LeastExists
  <2> DEFINE x == Min(T)
  <2> HIDE DEF x
  <2>2. x \in Nat /\ x \notin S /\ \A y \in T : x <= y
    BY <2>1 DEF x
  <2>3. x - 1 \in Nat /\ x - 1 \in T
    BY <2>2
  <2> QED
    BY <2>2, <2>3
<1> QED
  BY <1>1

\* One round of the merge loop of process_ip_packet, or of the one that gathers what is
\* left when the flow goes, and a run w of m rounds from c.
Round(merging, c) == IF merging THEN MergeLowest(c) ELSE AppendLowest(c)

Walks(w, merging, c, m) ==
  w = [i \in 0 .. m |-> IF i = 0 THEN c ELSE Round(merging, w[i - 1])]

LEMMA WalkExists ==
  ASSUME NEW c, NEW merging
  PROVE  \A m \in Nat : \E w : Walks(w, merging, c, m)
<1> DEFINE S == {m \in Nat : \E w : Walks(w, merging, c, m)}
<1>1. 0 \in S
  <2>1. Walks([i \in 0 .. 0 |-> c], merging, c, 0)
    BY DEF Walks
  <2> QED
    BY <2>1
<1>2. ASSUME NEW m \in S
      PROVE  m + 1 \in S
  <2>1. PICK w : Walks(w, merging, c, m)
    OBVIOUS
  <2> DEFINE v == [i \in 0 .. m + 1 |-> IF i <= m THEN w[i] ELSE Round(merging, w[m])]
  <2>2. \A i \in 0 .. m : w[i] = IF i = 0 THEN c ELSE Round(merging, w[i - 1])
    BY <2>1 DEF Walks
  <2>3. \A i \in 0 .. m + 1 : v[i] = IF i = 0 THEN c ELSE Round(merging, v[i - 1])
    <3> TAKE i \in 0 .. m + 1
    <3>1. m \in Nat
      OBVIOUS
    <3>2. CASE i = m + 1
      <4>1. v[i] = Round(merging, w[m]) /\ i - 1 = m /\ v[i - 1] = w[m]
        BY <3>1, <3>2
      <4> QED
        BY <3>1, <3>2, <4>1
    <3>3. CASE i <= m
      BY <2>2, <3>1, <3>3
    <3> QED
      BY <3>1, <3>2, <3>3
  <2>4. v = [i \in 0 .. m + 1 |-> v[i]]
    OBVIOUS
  <2> HIDE DEF v
  <2>5. Walks(v, merging, c, m + 1)
    BY <2>3, <2>4 DEF Walks
  <2> QED
    BY <2>5
<1> HIDE DEF S
<1>3. S = Nat
  <2>1. S \in SUBSET Nat
    BY DEF S
  <2> QED
    BY <1>1, <1>2, <2>1, NatSetInduction
<1> QED
  BY <1>3 DEF S

LEMMA DrainWalks ==
  ASSUME NEW c, Cardinality(Waiting(c)) \in Nat
  PROVE  \E w : /\ Walks(w, TRUE, c, Cardinality(Waiting(c)))
               /\ Drain(c) = w[Cardinality(Waiting(c))]
<1> DEFINE n == Cardinality(Waiting(c))
           u == CHOOSE w : w = [i \in 0 .. n |-> IF i = 0 THEN c ELSE MergeLowest(w[i - 1])]
<1>1. \A d : Round(TRUE, d) = MergeLowest(d)
  BY DEF Round
<1>2. \E w : w = [i \in 0 .. n |-> IF i = 0 THEN c ELSE MergeLowest(w[i - 1])]
  <2>1. PICK w : Walks(w, TRUE, c, n)
    BY WalkExists
  <2>2. w = [i \in 0 .. n |-> IF i = 0 THEN c ELSE MergeLowest(w[i - 1])]
    BY <1>1, <2>1 DEF Walks
  <2> QED
    BY <2>2
<1>3. u = [i \in 0 .. n |-> IF i = 0 THEN c ELSE MergeLowest(u[i - 1])]
  BY <1>2, Zenon
<1>4. Drain(c) = u[n]
  BY Zenon DEF Drain
<1> HIDE DEF u
<1>5. Walks(u, TRUE, c, n)
  BY <1>1, <1>3 DEF Walks
<1> QED
  BY <1>4, <1>5

LEMMA MergedWalks ==
  ASSUME NEW c, Cardinality(Waiting(c)) \in Nat
  PROVE  \E w : /\ Walks(w, FALSE, c, Cardinality(Waiting(c)))
               /\ Merged(c) = w[Cardinality(Waiting(c))].payload
<1> DEFINE n == Cardinality(Waiting(c))
           u == CHOOSE w : w = [i \in 0 .. n |-> IF i = 0 THEN c ELSE AppendLowest(w[i - 1])]
<1>1. \A d : Round(FALSE, d) = AppendLowest(d)
  BY DEF Round
<1>2. \E w : w = [i \in 0 .. n |-> IF i = 0 THEN c ELSE AppendLowest(w[i - 1])]
  <2>1. PICK w : Walks(w, FALSE, c, n)
    BY WalkExists
  <2>2. w = [i \in 0 .. n |-> IF i = 0 THEN c ELSE AppendLowest(w[i - 1])]
    BY <1>1, <2>1 DEF Walks
  <2> QED
    BY <2>2
<1>3. u = [i \in 0 .. n |-> IF i = 0 THEN c ELSE AppendLowest(u[i - 1])]
  BY <1>2, Zenon
<1>4. Merged(c) = u[n].payload
  BY Zenon DEF Merged
<1> HIDE DEF u
<1>5. Walks(u, FALSE, c, n)
  BY <1>1, <1>3 DEF Walks
<1> QED
  BY <1>4, <1>5

\* Nothing waits that the stream could take.
Settled(c) == \A k \in Waiting(c) : seq_after(k, c.expected_seq)

LEMMA LowestSettles ==
  ASSUME Ground, Isn \in Nat, NoWrap, NEW c, NEW a, NEW b, Sound(c, a, b), a < b,
         Waiting(c) # {}, seq_after(Min(Waiting(c)), c.expected_seq)
  PROVE  Settled(c)
<1>1. /\ c \in Connection /\ Keyed(c) /\ c.expected_seq = SeqNo(b) /\ b \in Offsets
  BY DEF Sound, Piece
<1>2. PICK s \in Segments : Min(Waiting(c)) = SeqNo(s[1])
  BY <1>1, LowestKey DEF Keyed
<1>3. SUFFICES ASSUME NEW k \in Waiting(c)
               PROVE  seq_after(k, c.expected_seq)
  BY DEF Settled
<1>4. PICK t \in Segments : k = SeqNo(t[1])
  BY <1>1 DEF Keyed
<1>5. /\ s[1] \in Offsets /\ t[1] \in Offsets /\ s[1] < Length /\ t[1] < Length
      /\ Length \in Nat
  BY DEF Ground, Offsets
<1>6. b < s[1]
  BY <1>1, <1>2, <1>5, AfterMeansLater
<1>7. SeqNo(s[1]) <= SeqNo(t[1])
  BY <1>1, <1>2, <1>4, LowestKey
<1>8. SeqNo(s[1]) = Isn + 1 + s[1] /\ SeqNo(t[1]) = Isn + 1 + t[1]
  BY <1>5, KeysInOrder
<1>9. b < t[1]
  BY <1>1, <1>5, <1>6, <1>7, <1>8 DEF Offsets
<1> QED
  BY <1>1, <1>4, <1>5, <1>9, AfterMeansLater

\* As many rounds as segments wait leave a sound entry, and none that could go on.
LEMMA DrainKeepsSound ==
  ASSUME Ground, OooMax \in Nat, Isn \in Nat, NEW c, NEW a, NEW b, Sound(c, a, b), a < b
  PROVE  /\ \E e \in Offsets : a < e /\ Sound(Drain(c), a, e)
         /\ NoWrap => Settled(Drain(c))
<1> DEFINE n == Cardinality(Waiting(c))
           P(d, i) == /\ \E e \in Offsets : a < e /\ Sound(d, a, e)
                      /\ NoWrap => Settled(d) \/ Cardinality(Waiting(d)) <= n - i
<1>1. c \in Connection /\ b \in Offsets
  BY DEF Sound
<1>2. n \in Nat
  BY <1>1, WaitingIsFinite
<1>3. PICK w : Walks(w, TRUE, c, n) /\ Drain(c) = w[n]
  BY <1>2, DrainWalks
<1>4. w[0] = c /\ \A i \in 1 .. n : w[i] = MergeLowest(w[i - 1])
  BY <1>2, <1>3 DEF Walks, Round
<1>5. P(c, 0)
  BY <1>1, <1>2
<1>6. ASSUME NEW i \in Nat, NEW d, P(d, i)
      PROVE  P(MergeLowest(d), i + 1)
  <2>1. PICK e \in Offsets : a < e /\ Sound(d, a, e)
    BY <1>6
  <2>2. d \in Connection
    BY <2>1 DEF Sound
  <2>3. CASE Waiting(d) = {} \/ seq_after(Min(Waiting(d)), d.expected_seq)
    <3>1. MergeLowest(d) = d
      BY <2>3 DEF MergeLowest
    <3>2. NoWrap => Settled(d)
      <4>1. CASE Waiting(d) = {}
        BY <4>1 DEF Settled
      <4>2. CASE Waiting(d) # {}
        BY <2>1, <2>3, <4>2, LowestSettles
      <4> QED
        BY <4>1, <4>2
    <3> QED
      BY <2>1, <3>1, <3>2
  <2>4. CASE ~ (Waiting(d) = {} \/ seq_after(Min(Waiting(d)), d.expected_seq))
    <3> DEFINE k == Min(Waiting(d))
    <3>1. k \in Waiting(d) /\ MergeLowest(d) = Merge(d, k)
      BY <2>2, <2>4, LowestKey DEF MergeLowest
    <3>2. ~ seq_after(k, d.expected_seq)
      BY <2>4
    <3> HIDE DEF k
    <3>3. /\ \E f \in Offsets : a < f /\ Sound(Merge(d, k), a, f)
          /\ Waiting(Merge(d, k)) = Waiting(d) \ {k}
      BY <2>1, <3>1, <3>2, MergeKeepsSound
    <3>4. Cardinality(Waiting(Merge(d, k))) = Cardinality(Waiting(d)) - 1
      <4>1. IsFiniteSet(Waiting(d))
        BY <2>2, WaitingIsFinite
      <4>2. Cardinality(Waiting(d) \ {k}) = Cardinality(Waiting(d)) - 1
        BY <3>1, <4>1, FS_RemoveElement
      <4> QED
        BY <3>3, <4>2
    <3>5. NoWrap => Cardinality(Waiting(d)) <= n - i
      <4>1. ~ Settled(d)
        BY <3>1, <3>2 DEF Settled
      <4> QED
        BY <1>6, <4>1
    <3>6. NoWrap => Cardinality(Waiting(Merge(d, k))) <= n - (i + 1)
      BY <1>2, <2>2, <3>4, <3>5, WaitingIsFinite
    <3> QED
      BY <3>1, <3>3, <3>6
  <2> QED
    BY <2>3, <2>4
<1> DEFINE S == {i \in Nat : i <= n => P(w[i], i)}
<1> HIDE DEF P
<1>7. S = Nat
  <2>1. 0 \in S
    BY <1>4, <1>5
  <2>2. ASSUME NEW i \in S
        PROVE  i + 1 \in S
    <3>1. i \in Nat /\ (i <= n => P(w[i], i))
      OBVIOUS
    <3>2. ASSUME i + 1 <= n
          PROVE  P(w[i + 1], i + 1)
      <4>1. w[i + 1] = MergeLowest(w[i])
        BY <1>2, <1>4, <3>1, <3>2
      <4> QED
        BY <1>2, <1>6, <3>1, <3>2, <4>1
    <3> QED
      BY <3>1, <3>2
  <2> HIDE DEF S
  <2>3. S \in SUBSET Nat
    BY DEF S
  <2> QED
    BY <2>1, <2>2, <2>3, NatSetInduction
<1>8. P(Drain(c), n)
  BY <1>2, <1>3, <1>7
<1>9. PICK e \in Offsets : a < e /\ Sound(Drain(c), a, e)
  BY <1>8 DEF P
<1>10. ASSUME NoWrap, ~ Settled(Drain(c))
       PROVE  FALSE
  <2>1. Cardinality(Waiting(Drain(c))) <= n - n
    BY <1>8, <1>10 DEF P
  <2>2. Waiting(Drain(c)) = {}
    <3>1. Drain(c) \in Connection
      BY <1>9 DEF Sound
    <3> QED
      BY <1>2, <2>1, <3>1, WaitingIsFinite, FS_EmptySet
  <2> QED
    BY <1>10, <2>2 DEF Settled
<1> QED
  BY <1>9, <1>10

-------------------------------------------------------------------------------
(* The payload pushed                                                          *)

LEMMA AppendIs ==
  ASSUME Ground, NEW c \in Connection, NEW k \in Waiting(c), k = Min(Waiting(c))
  PROVE  /\ Drops(c, k, AppendLowest(c))
         /\ c.out_of_order_segments[k] \in Seq(Stream)
         /\ AppendLowest(c).payload = c.payload \o c.out_of_order_segments[k]
<1>1. c.out_of_order_segments[k] \in Seq(Stream) /\ c.expected_seq \in Keys
  BY WaitingIsFinite DEF Connection
<1>2. AppendLowest(c) = Takes(c, k, c.out_of_order_segments[k], c.expected_seq)
  BY DEF AppendLowest, Takes, Connection
<1>3. \A r \in Seq(Stream), e \in Keys : /\ Drops(c, k, Takes(c, k, r, e))
                                         /\ Takes(c, k, r, e).payload = c.payload \o r
  BY TakesIs
<1> QED
  BY <1>1, <1>2, <1>3

LEMMA AscendingConcat ==
  ASSUME Ground, NEW p \in Seq(Stream), NEW q \in Seq(Stream), Ascending(p), Ascending(q),
         \A x \in Range(p), y \in Range(q) : x < y
  PROVE  Ascending(p \o q)
<1>1. /\ Len(p) \in Nat /\ Len(q) \in Nat /\ Len(p \o q) = Len(p) + Len(q)
      /\ \A i \in 1 .. Len(p) + Len(q) :
           (p \o q)[i] = IF i <= Len(p) THEN p[i] ELSE q[i - Len(p)]
  BY ConcatIs
<1>2. \A i \in 1 .. Len(p) : p[i] \in Range(p)
  BY DEF Range
<1>3. \A i \in 1 .. Len(q) : q[i] \in Range(q)
  BY DEF Range
<1>4. SUFFICES ASSUME NEW i \in 1 .. Len(p) + Len(q), NEW j \in 1 .. Len(p) + Len(q), i < j
               PROVE  (p \o q)[i] < (p \o q)[j]
  BY <1>1 DEF Ascending
<1>5. CASE j <= Len(p)
  <2>1. i \in 1 .. Len(p) /\ j \in 1 .. Len(p) /\ (p \o q)[i] = p[i] /\ (p \o q)[j] = p[j]
    BY <1>1, <1>4, <1>5
  <2> QED
    BY <1>4, <2>1 DEF Ascending
<1>6. CASE i <= Len(p) /\ j > Len(p)
  <2>1. /\ i \in 1 .. Len(p) /\ j - Len(p) \in 1 .. Len(q)
        /\ (p \o q)[i] = p[i] /\ (p \o q)[j] = q[j - Len(p)]
    BY <1>1, <1>4, <1>6
  <2>2. p[i] \in Range(p) /\ q[j - Len(p)] \in Range(q)
    BY <1>2, <1>3, <2>1
  <2> QED
    BY <2>1, <2>2
<1>7. CASE i > Len(p)
  <2> DEFINE u == i - Len(p)
             v == j - Len(p)
  <2>1. /\ u \in 1 .. Len(q) /\ v \in 1 .. Len(q) /\ u < v
        /\ (p \o q)[i] = q[u] /\ (p \o q)[j] = q[v]
    BY <1>1, <1>4, <1>7
  <2> HIDE DEF u, v
  <2>2. q[u] < q[v]
    BY <2>1 DEF Ascending
  <2> QED
    BY <2>1, <2>2
<1>8. j <= Len(p) \/ (i <= Len(p) /\ j > Len(p)) \/ i > Len(p)
  BY <1>1, <1>4
<1> QED
  BY <1>5, <1>6, <1>7, <1>8, Zenon

LEMMA BytesAscend ==
  ASSUME Ground, NEW a \in Offsets, NEW b \in Offsets, a <= b
  PROVE  Ascending(Bytes(<<a, b>>))
<1>1. /\ Len(Bytes(<<a, b>>)) = b - a
      /\ \A i \in 1 .. b - a : Bytes(<<a, b>>)[i] = a + i - 1
  BY BytesAre
<1>2. a \in Int /\ b \in Int
  BY DEF Offsets, Ground
<1> QED
  BY <1>1, <1>2, SMTT(30) DEF Ascending

\* The payload ascends, and every waiting segment begins after it.
InOrder(c) ==
  /\ Ascending(c.payload)
  /\ \A s \in Segments :
       SeqNo(s[1]) \in Waiting(c) => \A x \in Range(c.payload) : x < s[1]

LEMMA AppendKeepsOrder ==
  ASSUME Ground, Isn \in Nat, Plain, NEW c \in Connection, Keyed(c), InOrder(c),
         NEW k \in Waiting(c), k = Min(Waiting(c))
  PROVE  InOrder(AppendLowest(c))
<1> DEFINE d == AppendLowest(c)
<1>1. PICK s \in Segments : k = SeqNo(s[1]) /\ c.out_of_order_segments[k] = Bytes(s)
  BY DEF Keyed
<1>2. s = <<s[1], s[2]>> /\ s[1] \in Offsets /\ s[2] \in Offsets /\ s[1] < s[2]
  BY DEF Ground
<1>3. Bytes(s) \in Seq(Stream) /\ Range(Bytes(s)) = s[1] .. s[2] - 1 /\ Ascending(Bytes(s))
  <2>1. s[1] <= s[2]
    BY <1>2 DEF Offsets, Ground
  <2>2. /\ Bytes(<<s[1], s[2]>>) \in Seq(Stream)
        /\ Range(Bytes(<<s[1], s[2]>>)) = s[1] .. s[2] - 1
        /\ Ascending(Bytes(<<s[1], s[2]>>))
    BY <1>2, <2>1, BytesAre, BytesAscend
  <2> QED
    BY <1>2, <2>2
<1>4. d.payload = c.payload \o Bytes(s) /\ Waiting(d) = Waiting(c) \ {k}
  BY <1>1, AppendIs DEF Drops, Lacks
<1> HIDE DEF d
<1>5. c.payload \in Seq(Stream)
  BY DEF Connection
<1>6. \A x \in Range(c.payload) : x < s[1] /\ x \in Int
  BY <1>1, <1>5 DEF InOrder, Range, Stream, Ground
<1>7. Ascending(d.payload)
  <2>1. \A x \in Range(c.payload), y \in Range(Bytes(s)) : x < y
    BY <1>2, <1>3, <1>6 DEF Offsets, Ground
  <2> QED
    BY <1>3, <1>4, <1>5, <2>1, AscendingConcat DEF InOrder
<1>8. ASSUME NEW t \in Segments, SeqNo(t[1]) \in Waiting(d), NEW x \in Range(d.payload)
      PROVE  x < t[1]
  <2>1. SeqNo(t[1]) \in Waiting(c) /\ SeqNo(t[1]) # k
    BY <1>4, <1>8
  <2>2. x \in Range(c.payload) \/ x \in s[1] .. s[2] - 1
    <3> DEFINE p == c.payload
               q == Bytes(s)
    <3>1. p \in Seq(Stream) /\ q \in Seq(Stream)
      BY <1>3, <1>5
    <3> HIDE DEF p, q
    <3>2. Range(p \o q) = Range(p) \cup Range(q)
      BY <3>1, RangeOfConcat
    <3> QED
      BY <1>3, <1>4, <1>8, <3>2 DEF p, q
  <2>3. /\ t[1] \in Offsets /\ t[2] \in Offsets /\ t[1] < t[2]
        /\ t[1] < Length /\ s[1] < Length /\ Length \in Nat
    BY <1>2 DEF Ground, Offsets
  <2>4. s[1] <= t[1]
    <3>1. NoWrap /\ SeqNo(s[1]) <= SeqNo(t[1])
      BY <1>1, <2>1, LowestKey DEF Plain
    <3>2. SeqNo(s[1]) = Isn + 1 + s[1] /\ SeqNo(t[1]) = Isn + 1 + t[1]
      BY <1>2, <2>3, <3>1, KeysInOrder
    <3> QED
      BY <1>2, <2>3, <3>1, <3>2 DEF Offsets
  <2>5. s[2] <= t[1]
    <3>1. s[2] <= t[1] \/ t[2] <= s[1]
      BY <1>1, <2>1 DEF Plain
    <3> QED
      BY <1>2, <2>3, <2>4, <3>1 DEF Offsets
  <2>6. CASE x \in Range(c.payload)
    BY <2>1, <2>6 DEF InOrder
  <2>7. CASE x \in s[1] .. s[2] - 1
    BY <1>2, <2>3, <2>5, <2>7 DEF Offsets
  <2> QED
    BY <2>2, <2>6, <2>7
<1> QED
  BY <1>7, <1>8 DEF InOrder, d

LEMMA MergedIsFaithful ==
  ASSUME Ground, Isn \in Nat, NEW c, NEW a, NEW b, Sound(c, a, b), NoWrap => Settled(c)
  PROVE  /\ Range(Merged(c)) = Holds(c)
         /\ Plain => Ascending(Merged(c))
<1> DEFINE n == Cardinality(Waiting(c))
           P(d, i) == /\ d \in Connection /\ Keyed(d) /\ Holds(d) = Holds(c)
                      /\ Cardinality(Waiting(d)) = n - i
                      /\ Plain => InOrder(d)
<1>1. /\ a \in Offsets /\ b \in Offsets /\ a <= b /\ c \in Connection /\ Keyed(c)
      /\ c.payload = Bytes(<<a, b>>)
      /\ c.syn_received \/ a < b => c.expected_seq = SeqNo(b)
      /\ ~ c.syn_received /\ a = b => Waiting(c) = {}
  BY DEF Sound, Piece
<1>2. n \in Nat
  BY <1>1, WaitingIsFinite
<1>3. PICK w : Walks(w, FALSE, c, n) /\ Merged(c) = w[n].payload
  BY <1>2, MergedWalks
<1>4. w[0] = c /\ \A i \in 1 .. n : w[i] = AppendLowest(w[i - 1])
  BY <1>2, <1>3 DEF Walks, Round
<1>5. P(c, 0)
  <2>1. ASSUME Plain
        PROVE  InOrder(c)
    <3>1. Ascending(c.payload) /\ Range(c.payload) = a .. b - 1
      BY <1>1, BytesAre, BytesAscend
    <3>2. ASSUME NEW s \in Segments, SeqNo(s[1]) \in Waiting(c), NEW x \in Range(c.payload)
          PROVE  x < s[1]
      <4>1. a < b /\ s[1] \in Offsets
        BY <1>1, <3>1, <3>2 DEF Offsets, Ground
      <4>2. seq_after(SeqNo(s[1]), SeqNo(b))
        BY <1>1, <2>1, <3>2, <4>1 DEF Settled, Plain
      <4>3. b < s[1]
        BY <1>1, <4>1, <4>2, AfterMeansLater
      <4> QED
        BY <1>1, <3>1, <3>2, <4>1, <4>3 DEF Offsets, Ground
    <3> QED
      BY <3>1, <3>2 DEF InOrder
  <2> QED
    BY <1>1, <1>2, <2>1
<1>6. ASSUME NEW i \in Nat, i < n, NEW d, P(d, i)
      PROVE  P(AppendLowest(d), i + 1)
  <2>1. Waiting(d) # {}
    <3>1. Cardinality(Waiting(d)) # 0
      BY <1>2, <1>6
    <3> QED
      BY <3>1, FS_EmptySet
  <2>2. PICK k \in Waiting(d) : k = Min(Waiting(d))
    BY <1>6, <2>1, LowestKey
  <2> DEFINE e == AppendLowest(d)
  <2>3. /\ Drops(d, k, e) /\ d.out_of_order_segments[k] \in Seq(Stream)
        /\ e.payload = d.payload \o d.out_of_order_segments[k]
    BY <1>6, <2>2, AppendIs
  <2>4. Plain => InOrder(e)
    BY <1>6, <2>2, AppendKeepsOrder
  <2> HIDE DEF e
  <2>5. Range(e.payload) = Range(d.payload) \cup Range(d.out_of_order_segments[k])
    <3>1. d.payload \in Seq(Stream)
      BY <1>6 DEF Connection
    <3> QED
      BY <2>3, <3>1, RangeOfConcat
  <2>6. Holds(e) = Holds(d)
    BY <2>3, <2>5 DEF Holds, Drops, Lacks
  <2>7. Keyed(e)
    BY <1>6, <2>3 DEF Keyed, Drops, Lacks
  <2>8. Cardinality(Waiting(e)) = n - (i + 1) /\ e \in Connection
    BY <1>2, <1>6, <2>3 DEF Drops, Lacks
  <2> QED
    BY <1>6, <2>4, <2>6, <2>7, <2>8 DEF e
<1> DEFINE S == {i \in Nat : i <= n => P(w[i], i)}
<1> HIDE DEF P
<1>7. S = Nat
  <2>1. 0 \in S
    BY <1>4, <1>5
  <2>2. ASSUME NEW i \in S
        PROVE  i + 1 \in S
    <3>1. i \in Nat /\ (i <= n => P(w[i], i))
      OBVIOUS
    <3>2. ASSUME i + 1 <= n
          PROVE  P(w[i + 1], i + 1)
      <4>1. w[i + 1] = AppendLowest(w[i]) /\ i < n
        BY <1>2, <1>4, <3>1, <3>2
      <4> QED
        BY <1>2, <1>6, <3>1, <3>2, <4>1
    <3> QED
      BY <3>1, <3>2
  <2> HIDE DEF S
  <2>3. S \in SUBSET Nat
    BY DEF S
  <2> QED
    BY <2>1, <2>2, <2>3, NatSetInduction
<1>8. P(w[n], n)
  BY <1>2, <1>7
<1>9. Waiting(w[n]) = {}
  <2>1. w[n] \in Connection /\ Cardinality(Waiting(w[n])) = 0
    BY <1>2, <1>8 DEF P
  <2> QED
    BY <2>1, WaitingIsFinite, FS_EmptySet
<1>10. Range(Merged(c)) = Holds(c)
  BY <1>3, <1>8, <1>9 DEF P, Holds, Ahead
<1>11. Plain => Ascending(Merged(c))
  BY <1>3, <1>8 DEF P, InOrder
<1> QED
  BY <1>10, <1>11

-------------------------------------------------------------------------------
(* What a packet does to the entry                                             *)

LEMMA EmptyBytes ==
  ASSUME Ground, NEW b \in Offsets
  PROVE  Bytes(<<b, b>>) = <<>>
<1>1. Bytes(<<b, b>>) \in Seq(Stream) /\ Len(Bytes(<<b, b>>)) = b - b /\ b \in Int
  BY BytesAre DEF Offsets, Ground
<1> QED
  BY <1>1

\* Whether the payload is empty says whether the piece is.
LEMMA PieceEmpty ==
  ASSUME Ground, NEW c, NEW a, NEW b, Sound(c, a, b)
  PROVE  /\ c.payload = <<>> <=> a = b
         /\ Len(c.payload) = b - a /\ Range(c.payload) = a .. b - 1
<1>1. a \in Offsets /\ b \in Offsets /\ a <= b /\ c.payload = Bytes(<<a, b>>)
  BY DEF Sound, Piece
<1>2. Len(c.payload) = b - a /\ Range(c.payload) = a .. b - 1
  BY <1>1, BytesAre
<1>3. c.payload = <<>> <=> a = b
  BY <1>1, <1>2, EmptyBytes DEF Offsets, Ground
<1> QED
  BY <1>2, <1>3

\* Sound and Settled do not look at the other fields.
LEMMA SoundSame ==
  ASSUME Ground, NEW c, NEW a, NEW b, Sound(c, a, b), NEW d \in Connection,
         d.payload = c.payload, d.out_of_order_segments = c.out_of_order_segments,
         d.expected_seq = c.expected_seq, d.syn_received = c.syn_received,
         d.arrived = c.arrived, d.refused = c.refused
  PROVE  Sound(d, a, b) /\ (Settled(c) => Settled(d))
<1>1. Waiting(d) = Waiting(c) /\ Holds(d) = Holds(c)
  BY DEF Waiting, Holds, Ahead
<1>2. Keyed(d) /\ Piece(d, a, b) /\ KeepsAll(d)
  BY <1>1 DEF Sound, Keyed, Piece, KeepsAll
<1> QED
  BY <1>1, <1>2 DEF Sound, Settled

LEMMA FreshIsSound ==
  ASSUME Ground, OooMax \in Nat
  PROVE  Sound(Fresh, 0, 0) /\ Settled(Fresh)
<1>1. 0 \in Offsets /\ 0 \in Keys
  BY DEF Offsets, Keys, Ground
<1>2. NoSegments \in Buffers /\ DOMAIN NoSegments = {}
  <2>1. NoSegments \in [{} -> Seq(Stream)]
    BY DEF NoSegments
  <2> QED
    BY <2>1 DEF Buffers
<1>3. Fresh \in Connection
  BY <1>1, <1>2 DEF Fresh, Connection
<1>4. /\ Waiting(Fresh) = {} /\ Fresh.payload = <<>> /\ Fresh.arrived = {}
      /\ ~ Fresh.syn_received
  BY <1>2 DEF Fresh, Waiting
<1>5. Holds(Fresh) = {}
  BY <1>4 DEF Holds, Ahead, Range
<1>6. Cardinality(Waiting(Fresh)) <= OooMax
  BY <1>4, FS_EmptySet
<1>7. Piece(Fresh, 0, 0)
  BY <1>1, <1>4, EmptyBytes DEF Piece
<1> QED
  BY <1>1, <1>3, <1>4, <1>5, <1>6, <1>7 DEF Sound, Keyed, KeepsAll, Settled

\* A segment of the sender agrees with the payload wherever it lies over it.
LEMMA NeverConflicting ==
  ASSUME Ground, MinConflict \in Nat \ {0}, NEW c, NEW a, NEW b, Sound(c, a, b),
         NEW seg \in Segments
  PROVE  ~ Conflicting(c, seg)
<1>1. SUFFICES ASSUME Conflicting(c, seg)
               PROVE  FALSE
  OBVIOUS
<1>2. /\ a \in Offsets /\ b \in Offsets /\ a < b /\ c.payload = Bytes(<<a, b>>)
      /\ c.expected_seq = SeqNo(b) /\ Len(c.payload) = b - a
  <2>1. c.payload # <<>>
    BY <1>1 DEF Conflicting
  <2>2. a # b /\ Len(c.payload) = b - a
    BY <2>1, PieceEmpty
  <2>3. a \in Offsets /\ b \in Offsets /\ a <= b
    BY DEF Sound
  <2>4. a < b
    BY <2>2, <2>3 DEF Offsets, Ground
  <2> QED
    BY <2>2, <2>3, <2>4 DEF Sound, Piece
<1>3. seg = <<seg[1], seg[2]>> /\ seg[1] \in Offsets /\ seg[2] \in Offsets /\ seg[1] < seg[2]
  BY DEF Ground
<1>4. StreamStart(c) = SeqNo(a)
  <2>1. b \in Int /\ a - b \in Int /\ b + (a - b) = a
    BY <1>2 DEF Offsets, Ground
  <2>2. Mod(SeqNo(b) + (a - b)) = SeqNo(a)
    BY <2>1, Advance
  <2>3. SeqNo(b) - (b - a) = SeqNo(b) + (a - b)
    BY <1>2, <2>1, SeqNoIs DEF Keys, Ground
  <2> QED
    BY <1>2, <2>2, <2>3 DEF StreamStart
<1>5. Signed(SeqNo(seg[1]) - StreamStart(c)) = seg[1] - a
  BY <1>2, <1>3, <1>4, Distance
<1> DEFINE rel == Signed(SeqNo(seg[1]) - StreamStart(c))
           overlap == {i \in 1 .. seg[2] - seg[1] : rel + i \in 1 .. Len(c.payload)}
           differ == {i \in overlap : c.payload[rel + i] # Bytes(seg)[i]}
<1>6. differ = {}
  <2>1. SUFFICES ASSUME NEW i \in 1 .. seg[2] - seg[1], rel + i \in 1 .. Len(c.payload)
                 PROVE  c.payload[rel + i] = Bytes(seg)[i]
    OBVIOUS
  <2>2. Bytes(<<seg[1], seg[2]>>)[i] = seg[1] + i - 1
    <3>1. seg[1] <= seg[2]
      BY <1>3 DEF Offsets, Ground
    <3>2. \A j \in 1 .. seg[2] - seg[1] : Bytes(<<seg[1], seg[2]>>)[j] = seg[1] + j - 1
      BY <1>3, <3>1, BytesAre
    <3> QED
      BY <3>2
  <2>3. rel = seg[1] - a
    BY <1>5
  <2> HIDE DEF rel
  <2>4. rel + i \in 1 .. b - a
    BY <1>2, <2>1
  <2>5. \A j \in 1 .. b - a : Bytes(<<a, b>>)[j] = a + j - 1
    BY <1>2, BytesAre DEF Offsets, Ground
  <2>6. Bytes(<<a, b>>)[rel + i] = a + (rel + i) - 1
    BY <2>4, <2>5
  <2>7. a + (rel + i) - 1 = seg[1] + i - 1
    BY <1>2, <1>3, <2>3, SMTT(30) DEF Offsets, Ground
  <2> QED
    BY <1>2, <1>3, <2>2, <2>6, <2>7
<1>7. Cardinality(differ) >= MinConflict
  BY <1>1 DEF Conflicting
<1> HIDE DEF differ
<1> QED
  BY <1>6, <1>7, FS_EmptySet

\* d is the entry c with the bytes of seg counted as arrived.
Counted(c, d, seg) ==
  /\ d \in Connection
  /\ d.payload = c.payload /\ d.out_of_order_segments = c.out_of_order_segments
  /\ d.expected_seq = c.expected_seq /\ d.syn_received = c.syn_received
  /\ d.refused = c.refused /\ d.arrived = c.arrived \cup Range(Bytes(seg))

LEMMA CountedIs ==
  ASSUME NEW c, NEW d, NEW seg, Counted(c, d, seg)
  PROVE  Waiting(d) = Waiting(c) /\ Holds(d) = Holds(c) /\ Ahead(d) = Ahead(c)
  BY DEF Counted, Waiting, Holds, Ahead

LEMMA SegmentIs ==
  ASSUME Ground, NEW s \in Segments
  PROVE  /\ s = <<s[1], s[2]>> /\ s[1] \in Offsets /\ s[2] \in Offsets /\ s[1] < s[2]
         /\ Bytes(s) \in Seq(Stream) /\ Len(Bytes(s)) = s[2] - s[1]
         /\ Range(Bytes(s)) = s[1] .. s[2] - 1
<1>1. s = <<s[1], s[2]>> /\ s[1] \in Offsets /\ s[2] \in Offsets /\ s[1] < s[2]
  BY DEF Ground
<1>2. s[1] <= s[2]
  BY <1>1 DEF Offsets, Ground
<1>3. /\ Bytes(<<s[1], s[2]>>) \in Seq(Stream) /\ Len(Bytes(<<s[1], s[2]>>)) = s[2] - s[1]
      /\ Range(Bytes(<<s[1], s[2]>>)) = s[1] .. s[2] - 1
  BY <1>1, <1>2, BytesAre
<1> QED
  BY <1>1, <1>3

\* In order: the piece grows by the segment.
LEMMA ExtendKeepsSound ==
  ASSUME Ground, NEW c, NEW a, NEW b, Sound(c, a, b), NEW seg \in Segments, seg[1] = b,
         NEW d, Counted(c, d, seg), d.expected_seq = SeqNo(b)
  PROVE  Sound(Extend(d, Bytes(seg)), a, seg[2]) /\ a < seg[2]
<1> DEFINE x == Extend(d, Bytes(seg))
           n == Mod(d.expected_seq + Len(Bytes(seg)))
           p == d.payload \o Bytes(seg)
<1>1. /\ a \in Offsets /\ b \in Offsets /\ a <= b /\ c.payload = Bytes(<<a, b>>)
      /\ Keyed(c) /\ Cardinality(Waiting(c)) <= OooMax /\ Holds(c) \subseteq c.arrived
      /\ c.syn_received => a = 0
  BY DEF Sound, Piece
<1>2. /\ seg = <<b, seg[2]>> /\ seg[2] \in Offsets /\ b < seg[2]
      /\ Bytes(seg) \in Seq(Stream) /\ Len(Bytes(seg)) = seg[2] - b
      /\ Range(Bytes(seg)) = b .. seg[2] - 1
  BY SegmentIs
<1>3. a < seg[2] /\ a <= seg[2] /\ b <= seg[2]
  BY <1>1, <1>2 DEF Offsets, Ground
<1>4. p = Bytes(<<a, seg[2]>>) /\ p \in Seq(Stream) /\ Range(p) = a .. seg[2] - 1
  <2>1. Bytes(<<a, b>>) \o Bytes(<<b, seg[2]>>) = Bytes(<<a, seg[2]>>)
    BY <1>1, <1>2, <1>3, BytesJoin
  <2>2. p = Bytes(<<a, seg[2]>>)
    BY <1>1, <1>2, <2>1 DEF Counted
  <2>3. Bytes(<<a, seg[2]>>) \in Seq(Stream) /\ Range(Bytes(<<a, seg[2]>>)) = a .. seg[2] - 1
    BY <1>1, <1>2, <1>3, BytesAre
  <2> QED
    BY <2>2, <2>3
<1>5. n = SeqNo(seg[2]) /\ n \in Keys
  <2>1. b \in Int /\ seg[2] - b \in Int /\ b + (seg[2] - b) = seg[2] /\ seg[2] \in Int
    BY <1>1, <1>2 DEF Offsets, Ground
  <2>2. Mod(SeqNo(b) + (seg[2] - b)) = SeqNo(b + (seg[2] - b))
    BY <2>1, Advance
  <2> QED
    BY <1>2, <2>1, <2>2, SeqNoIs
<1>6. x = [[d EXCEPT !.payload = p] EXCEPT !.expected_seq = n]
  BY DEF Extend, Counted, Connection
<1> HIDE DEF p, n, x
<1>7. /\ x \in Connection /\ x.payload = p /\ x.expected_seq = n
      /\ x.out_of_order_segments = d.out_of_order_segments
      /\ x.syn_received = d.syn_received /\ x.refused = d.refused /\ x.arrived = d.arrived
  BY <1>4, <1>5, <1>6 DEF Connection, Counted
<1>8. Waiting(x) = Waiting(c) /\ Ahead(x) = Ahead(c)
  BY <1>7 DEF Waiting, Ahead, Counted
<1>9. Keyed(x)
  BY <1>1, <1>7, <1>8 DEF Keyed, Counted
<1>10. Piece(x, a, seg[2])
  BY <1>1, <1>4, <1>5, <1>7 DEF Piece, Counted
<1>11. Holds(x) = Holds(c) \cup Range(Bytes(seg))
  <2>1. Range(c.payload) = a .. b - 1
    BY PieceEmpty
  <2>2. (a .. b - 1) \cup (b .. seg[2] - 1) = a .. seg[2] - 1
    BY <1>1, <1>2 DEF Offsets, Ground
  <2>3. Range(x.payload) = Range(c.payload) \cup Range(Bytes(seg))
    BY <1>2, <1>4, <1>7, <2>1, <2>2
  <2> QED
    BY <1>8, <2>3 DEF Holds
<1>12. Holds(x) \subseteq x.arrived
  BY <1>1, <1>7, <1>11 DEF Counted
<1>13. KeepsAll(x)
  <2>1. KeepsAll(c)
    BY DEF Sound
  <2> QED
    BY <1>7, <1>11, <2>1 DEF KeepsAll, Counted
<1>14. ~ (a = seg[2])
  BY <1>1, <1>2, <1>3 DEF Offsets, Ground
<1>15. Sound(x, a, seg[2])
  BY <1>1, <1>2, <1>3, <1>7, <1>8, <1>9, <1>10, <1>12, <1>13, <1>14 DEF Sound
<1> QED
  BY <1>3, <1>15 DEF x

\* Ahead: the segment waits under its key, or the cap turns it away.
LEMMA BufferKeepsSound ==
  ASSUME Ground, OooMax \in Nat, NEW c, NEW a, NEW b, Sound(c, a, b), NEW seg \in Segments,
         c.syn_received \/ a < b, seq_after(SeqNo(seg[1]), c.expected_seq),
         NEW d, Counted(c, d, seg), NoWrap => Settled(c)
  PROVE  Sound(Buffer(d, seg), a, b) /\ (NoWrap => Settled(Buffer(d, seg)))
<1> DEFINE x == Buffer(d, seg)
           key == SeqNo(seg[1])
           o == [k \in Waiting(d) \cup {key} |-> IF k \in Waiting(d)
                                                  THEN d.out_of_order_segments[k]
                                                  ELSE Bytes(seg)]
<1>1. /\ a \in Offsets /\ b \in Offsets /\ a <= b /\ Piece(c, a, b)
      /\ Keyed(c) /\ Cardinality(Waiting(c)) <= OooMax /\ Holds(c) \subseteq c.arrived
      /\ KeepsAll(c)
  BY DEF Sound
<1>2. c.syn_received \/ ~ (a = b)
  BY <1>1 DEF Offsets, Ground
<1>3. Waiting(d) = Waiting(c) /\ Holds(d) = Holds(c) /\ Ahead(d) = Ahead(c) /\ Keyed(d)
  BY <1>1, CountedIs DEF Counted, Keyed
<1>4. CASE Cardinality(Waiting(d)) >= OooMax
  <2>1. x = [d EXCEPT !.refused = TRUE]
    BY <1>4 DEF Buffer
  <2> HIDE DEF x
  <2>2. /\ x \in Connection /\ x.refused /\ x.payload = d.payload
        /\ x.out_of_order_segments = d.out_of_order_segments
        /\ x.expected_seq = d.expected_seq /\ x.syn_received = d.syn_received
        /\ x.arrived = d.arrived
    BY <2>1 DEF Connection, Counted
  <2>3. Waiting(x) = Waiting(c) /\ Holds(x) = Holds(c) /\ Keyed(x)
    BY <1>3, <2>2 DEF Waiting, Holds, Ahead, Keyed
  <2>4. Piece(x, a, b)
    BY <1>1, <2>2 DEF Piece, Counted
  <2>5. Sound(x, a, b)
    BY <1>1, <1>2, <2>2, <2>3, <2>4 DEF Sound, KeepsAll, Counted
  <2>6. NoWrap => Settled(x)
    BY <2>2, <2>3 DEF Settled, Counted
  <2> QED
    BY <2>5, <2>6 DEF x
<1>5. CASE ~ (Cardinality(Waiting(d)) >= OooMax)
  <2>1. Waiting(d) = DOMAIN d.out_of_order_segments
    BY DEF Waiting
  <2>2. x = [d EXCEPT !.out_of_order_segments = o]
    BY <1>5 DEF Buffer, Counted, Connection
  <2>3. key \in Keys /\ Bytes(seg) \in Seq(Stream)
    <3>1. seg[1] \in Int
      BY SegmentIs DEF Offsets, Ground
    <3> QED
      BY <3>1, SeqNoIs, SegmentIs
  <2>4. d \in Connection
    BY DEF Counted
  <2>5. o \in Buffers
    <3>1. d.out_of_order_segments \in [Waiting(d) -> Seq(Stream)] /\ Waiting(d) \subseteq Keys
      BY <2>4, WaitingIsFinite
    <3>2. o \in [Waiting(d) \cup {key} -> Seq(Stream)]
      BY <2>3, <3>1
    <3>3. Waiting(d) \cup {key} \in SUBSET Keys
      BY <2>3, <3>1
    <3> HIDE DEF o, key
    <3> QED
      BY <3>2, <3>3 DEF Buffers
  <2>6. /\ DOMAIN o = Waiting(c) \cup {key}
        /\ \A k \in Waiting(c) : o[k] = c.out_of_order_segments[k]
        /\ key \notin Waiting(c) => o[key] = Bytes(seg)
    BY <1>3 DEF Counted
  <2> HIDE DEF x, o
  <2>7. /\ x \in Connection /\ x.refused = d.refused /\ x.payload = d.payload
        /\ x.out_of_order_segments = o
        /\ x.expected_seq = d.expected_seq /\ x.syn_received = d.syn_received
        /\ x.arrived = d.arrived
    BY <2>2, <2>4, <2>5 DEF Connection
  <2>8. /\ Waiting(x) = Waiting(c) \cup {key}
        /\ \A k \in Waiting(c) : x.out_of_order_segments[k] = c.out_of_order_segments[k]
        /\ key \notin Waiting(c) => x.out_of_order_segments[key] = Bytes(seg)
    BY <2>6, <2>7 DEF Waiting
  <2>9. Keyed(x)
    BY <1>1, <2>8 DEF Keyed
  <2>10. Cardinality(Waiting(x)) <= OooMax
    <3>1. IsFiniteSet(Waiting(c)) /\ Cardinality(Waiting(c)) \in Nat
      BY <1>3, <2>4, WaitingIsFinite
    <3>2. Cardinality(Waiting(x)) <= Cardinality(Waiting(c)) + 1
      <4>1. Cardinality(Waiting(c) \cup {key}) =
              IF key \in Waiting(c) THEN Cardinality(Waiting(c)) ELSE Cardinality(Waiting(c)) + 1
        BY <3>1, FS_AddElement
      <4> QED
        BY <2>8, <3>1, <4>1
    <3>3. Cardinality(Waiting(x)) \in Nat
      BY <2>7, WaitingIsFinite
    <3>4. Cardinality(Waiting(c)) < OooMax
      BY <1>3, <1>5, <3>1
    <3> QED
      BY <3>1, <3>2, <3>3, <3>4
  <2>11. Piece(x, a, b)
    BY <1>1, <2>7 DEF Piece, Counted
  <2>12. Holds(c) \subseteq Holds(x) /\ Holds(x) \subseteq Holds(c) \cup Range(Bytes(seg))
    BY <2>7, <2>8 DEF Holds, Ahead, Counted
  <2>13. Holds(x) \subseteq x.arrived
    BY <1>1, <2>7, <2>12 DEF Counted
  <2>14. KeepsAll(x)
    <3>1. Plain => Range(Bytes(seg)) \subseteq Holds(x)
      <4>1. CASE key \notin Waiting(c)
        BY <2>8, <4>1 DEF Holds, Ahead
      <4>2. CASE key \in Waiting(c)
        <5>1. PICK t \in Segments : key = SeqNo(t[1]) /\ c.out_of_order_segments[key] = Bytes(t)
          BY <1>1, <4>2 DEF Keyed
        <5>2. t[1] = seg[1]
          BY <5>1, SegmentIs, SeqNoInjective
        <5>3. Plain => t = seg
          <6>1. seg[1] < seg[2] /\ t[1] < t[2] /\ seg[1] \in Int /\ seg[2] \in Int /\ t[2] \in Int
            BY SegmentIs DEF Offsets, Ground
          <6>2. Plain => t = seg \/ t[2] <= seg[1] \/ seg[2] <= t[1]
            BY DEF Plain
          <6> QED
            BY <5>2, <6>1, <6>2
        <5> QED
          BY <2>8, <4>2, <5>1, <5>3 DEF Holds, Ahead
      <4> QED
        BY <4>1, <4>2
    <3> QED
      BY <1>1, <2>7, <2>12, <3>1 DEF KeepsAll, Counted
  <2>15. Sound(x, a, b)
    BY <1>1, <1>2, <2>7, <2>9, <2>10, <2>11, <2>13, <2>14 DEF Sound, Counted
  <2>16. NoWrap => Settled(x)
    BY <2>7, <2>8 DEF Settled, Counted
  <2> QED
    BY <2>15, <2>16 DEF x
<1> QED
  BY <1>4, <1>5

\* Behind: everything it carries was taken before, or it is not from a plain sender.
LEMMA BehindKeepsSound ==
  ASSUME Ground, NEW c, NEW a, NEW b, Sound(c, a, b), NEW seg \in Segments,
         c.syn_received \/ a < b, seg[1] < b, NEW d, Counted(c, d, seg), NoWrap => Settled(c)
  PROVE  Sound(d, a, b) /\ (NoWrap => Settled(d))
<1>1. /\ a \in Offsets /\ b \in Offsets /\ a <= b /\ Piece(c, a, b)
      /\ Keyed(c) /\ Cardinality(Waiting(c)) <= OooMax /\ Holds(c) \subseteq c.arrived
      /\ KeepsAll(c)
  BY DEF Sound
<1>2. c.syn_received \/ ~ (a = b)
  BY <1>1 DEF Offsets, Ground
<1>3. Waiting(d) = Waiting(c) /\ Holds(d) = Holds(c)
  BY CountedIs
<1>4. Keyed(d) /\ Piece(d, a, b)
  BY <1>1, <1>3 DEF Counted, Keyed, Piece
<1>5. KeepsAll(d)
  <2>1. SUFFICES ASSUME Plain, d.syn_received, ~ d.refused
                 PROVE  d.arrived \subseteq Holds(d)
    BY DEF KeepsAll
  <2>2. c.arrived \subseteq Holds(c) /\ a = 0
    BY <1>1, <2>1 DEF KeepsAll, Counted, Piece
  <2>3. /\ seg[1] \in Offsets /\ seg[2] \in Offsets /\ seg[1] < seg[2]
        /\ Range(Bytes(seg)) = seg[1] .. seg[2] - 1
    BY SegmentIs
  <2>4. a < b
    BY <1>1, <2>2, <2>3 DEF Offsets, Ground
  <2>5. PICK t \in Segments : t[2] = b
    BY <1>1, <2>4 DEF Piece
  <2>6. t[1] \in Offsets /\ t[1] < t[2]
    BY SegmentIs
  <2>7. seg[2] <= b
    <3>1. seg = t \/ seg[2] <= t[1] \/ t[2] <= seg[1]
      BY <2>1 DEF Plain
    <3> QED
      BY <1>1, <2>3, <2>5, <2>6, <3>1 DEF Offsets, Ground
  <2>8. Range(c.payload) = a .. b - 1
    BY PieceEmpty
  <2>9. Range(Bytes(seg)) \subseteq Range(c.payload)
    BY <1>1, <2>2, <2>3, <2>7, <2>8 DEF Offsets, Ground
  <2> QED
    BY <1>3, <2>2, <2>9 DEF Counted, Holds
<1>6. Sound(d, a, b)
  BY <1>1, <1>2, <1>3, <1>4, <1>5 DEF Sound, Counted
<1>7. NoWrap => Settled(d)
  BY <1>3 DEF Settled, Counted
<1> QED
  BY <1>6, <1>7

LEMMA AcceptKeepsSound ==
  ASSUME Ground, OooMax \in Nat, Isn \in Nat, NEW c, NEW a, NEW b, Sound(c, a, b),
         NEW seg \in Segments, c.expected_seq = SeqNo(b),
         c.syn_received \/ a < b \/ b = seg[1],
         NEW d, Counted(c, d, seg), NoWrap => Settled(c)
  PROVE  /\ \E e, f \in Offsets : Sound(Accept(d, seg), e, f)
         /\ NoWrap => Settled(Accept(d, seg))
<1>1. /\ a \in Offsets /\ b \in Offsets /\ seg[1] \in Offsets /\ seg[2] \in Offsets
      /\ d.expected_seq = SeqNo(b)
  BY SegmentIs DEF Sound, Counted
<1>2. SeqNo(seg[1]) = d.expected_seq <=> seg[1] = b
  BY <1>1, SeqNoInjective
<1>3. seq_after(SeqNo(seg[1]), d.expected_seq) <=> b < seg[1]
  BY <1>1, AfterMeansLater
<1>4. CASE seg[1] = b
  <2> DEFINE x == Extend(d, Bytes(seg))
  <2>0. SeqNo(seg[1]) = d.expected_seq /\ ~ seq_after(SeqNo(seg[1]), d.expected_seq)
    BY <1>1, <1>2, <1>3, <1>4 DEF Offsets, Ground
  <2>1. Accept(d, seg) = Drain(x)
    BY <2>0 DEF Accept
  <2>2. Sound(x, a, seg[2]) /\ a < seg[2]
    BY <1>1, <1>4, ExtendKeepsSound
  <2> HIDE DEF x
  <2> QED
    BY <1>1, <2>1, <2>2, DrainKeepsSound
<1>5. CASE b < seg[1]
  <2>1. ~ (SeqNo(seg[1]) = d.expected_seq) /\ seq_after(SeqNo(seg[1]), d.expected_seq)
    BY <1>1, <1>2, <1>3, <1>5 DEF Offsets, Ground
  <2>2. Accept(d, seg) = Buffer(d, seg)
    BY <2>1 DEF Accept
  <2>3. c.syn_received \/ a < b
    BY <1>1, <1>5 DEF Offsets, Ground
  <2>4. Sound(Buffer(d, seg), a, b) /\ (NoWrap => Settled(Buffer(d, seg)))
    BY <1>1, <2>1, <2>3, BufferKeepsSound
  <2> QED
    BY <1>1, <2>2, <2>4
<1>6. CASE seg[1] < b
  <2>1. ~ (SeqNo(seg[1]) = d.expected_seq) /\ ~ seq_after(SeqNo(seg[1]), d.expected_seq)
    BY <1>1, <1>2, <1>3, <1>6 DEF Offsets, Ground
  <2>2. Accept(d, seg) = d
    BY <2>1 DEF Accept
  <2>3. c.syn_received \/ a < b
    BY <1>1, <1>6 DEF Offsets, Ground
  <2>4. Sound(d, a, b) /\ (NoWrap => Settled(d))
    BY <1>6, <2>3, BehindKeepsSound
  <2> QED
    BY <1>1, <2>2, <2>4
<1>7. seg[1] = b \/ b < seg[1] \/ seg[1] < b
  BY <1>1 DEF Offsets, Ground
<1> QED
  BY <1>4, <1>5, <1>6, <1>7

LEMMA BaselineKeepsSound ==
  ASSUME Ground, NEW c, NEW a, NEW b, Sound(c, a, b), NEW seg \in Segments,
         NoWrap => Settled(c)
  PROVE  \E e, f \in Offsets :
           LET d == Baseline(c, SeqNo(seg[1]))
           IN  /\ Sound(d, e, f) /\ d.expected_seq = SeqNo(f)
               /\ d.syn_received \/ e < f \/ f = seg[1]
               /\ NoWrap => Settled(d)
<1> DEFINE d == Baseline(c, SeqNo(seg[1]))
<1>1. /\ a \in Offsets /\ b \in Offsets /\ a <= b /\ c \in Connection /\ Piece(c, a, b)
      /\ Cardinality(Waiting(c)) <= OooMax /\ Holds(c) \subseteq c.arrived
      /\ ~ c.syn_received /\ a = b => Waiting(c) = {} /\ c.arrived = {}
  BY DEF Sound
<1>2. c.payload = <<>> <=> a = b
  BY PieceEmpty
<1>3. seg[1] \in Offsets /\ SeqNo(seg[1]) \in Keys /\ seg[1] <= seg[1]
  <2>1. seg[1] \in Offsets
    BY SegmentIs
  <2> QED
    BY <2>1, SeqNoIs DEF Offsets, Ground
<1>4. CASE ~ c.syn_received /\ NothingBuffered(c)
  <2>1. d = [c EXCEPT !.expected_seq = SeqNo(seg[1])]
    BY <1>4 DEF Baseline
  <2> HIDE DEF d
  <2>2. /\ d \in Connection /\ d.payload = <<>> /\ Waiting(d) = {}
        /\ d.expected_seq = SeqNo(seg[1]) /\ ~ d.syn_received /\ d.arrived = {}
    BY <1>1, <1>2, <1>3, <1>4, <2>1 DEF Connection, NothingBuffered, Waiting
  <2>3. Holds(d) = {}
    BY <2>2 DEF Holds, Ahead, Range
  <2>4. Piece(d, seg[1], seg[1])
    BY <1>3, <2>2, EmptyBytes DEF Piece, Offsets, Ground
  <2>5. Cardinality(Waiting(d)) <= OooMax
    BY <1>1, <1>4, <2>2 DEF NothingBuffered
  <2>6. Sound(d, seg[1], seg[1])
    BY <1>3, <2>2, <2>3, <2>4, <2>5 DEF Sound, Keyed, KeepsAll
  <2>7. Settled(d)
    BY <2>2 DEF Settled
  <2> QED
    BY <1>3, <2>2, <2>6, <2>7 DEF d
<1>5. CASE ~ (~ c.syn_received /\ NothingBuffered(c))
  <2>1. d = c
    BY <1>5 DEF Baseline
  <2>2. c.syn_received \/ a < b
    <3>1. c.syn_received \/ ~ (a = b)
      BY <1>1, <1>2, <1>5 DEF NothingBuffered
    <3> QED
      BY <1>1, <3>1 DEF Offsets, Ground
  <2>3. c.expected_seq = SeqNo(b)
    BY <1>1, <2>2 DEF Piece
  <2> QED
    BY <1>1, <2>1, <2>2, <2>3
<1> QED
  BY <1>4, <1>5

\* The entry is sound, and settled unless the stream wraps around.
Healthy(c) == (\E a, b \in Offsets : Sound(c, a, b)) /\ (NoWrap => Settled(c))

Facts == Ground /\ OooMax \in Nat /\ MinConflict \in Nat \ {0} /\ Isn \in Nat

LEMMA FactsHold ==
  ASSUME ReassemblyAssumption, traffic \in Traffics
  PROVE  Facts
  BY GroundHolds DEF ReassemblyAssumption, Facts, Isn

LEMMA HealthySame ==
  ASSUME Ground, NEW c, Healthy(c), NEW d \in Connection,
         d.payload = c.payload, d.out_of_order_segments = c.out_of_order_segments,
         d.expected_seq = c.expected_seq, d.syn_received = c.syn_received,
         d.arrived = c.arrived, d.refused = c.refused
  PROVE  Healthy(d)
<1>1. PICK a, b \in Offsets : Sound(c, a, b)
  BY DEF Healthy
<1>2. Sound(d, a, b) /\ (Settled(c) => Settled(d))
  BY <1>1, SoundSame
<1> QED
  BY <1>2 DEF Healthy

LEMMA HealthyIsConnection ==
  ASSUME NEW c, Healthy(c)
  PROVE  c \in Connection
  BY DEF Healthy, Sound

LEMMA TrackedIsHealthy ==
  ASSUME Ground, Healthy(conn), NEW fin \in BOOLEAN
  PROVE  /\ Healthy(Tracked)
         /\ Healthy([Tracked EXCEPT !.fin_received = fin])
<1>1. conn \in Connection
  BY HealthyIsConnection
<1> DEFINE n == IF conn.packet_count < 2 THEN conn.packet_count + 1 ELSE conn.packet_count
<1>2. n \in 0 .. 2
  BY <1>1 DEF Connection
<1>3. Tracked = [conn EXCEPT !.tracked = TRUE, !.packet_count = n]
  BY <1>1 DEF Tracked, Connection
<1> HIDE DEF n
<1>4. Healthy(Tracked)
  <2> DEFINE d == Tracked
  <2>1. /\ d \in Connection
        /\ d.payload = conn.payload /\ d.out_of_order_segments = conn.out_of_order_segments
        /\ d.expected_seq = conn.expected_seq /\ d.syn_received = conn.syn_received
        /\ d.arrived = conn.arrived /\ d.refused = conn.refused
    BY <1>1, <1>2, <1>3 DEF Connection
  <2> HIDE DEF d
  <2>2. Healthy(d)
    BY <2>1, HealthySame
  <2> QED
    BY <2>2 DEF d
<1>5. Tracked \in Connection
  BY <1>4, HealthyIsConnection
<1>6. Healthy([Tracked EXCEPT !.fin_received = fin])
  <2> DEFINE c == Tracked
             d == [c EXCEPT !.fin_received = fin]
  <2> HIDE DEF c
  <2>1. c \in Connection /\ Healthy(c)
    BY <1>4, <1>5 DEF c
  <2>2. /\ d \in Connection
        /\ d.payload = c.payload /\ d.out_of_order_segments = c.out_of_order_segments
        /\ d.expected_seq = c.expected_seq /\ d.syn_received = c.syn_received
        /\ d.arrived = c.arrived /\ d.refused = c.refused
    BY <2>1 DEF Connection
  <2> HIDE DEF d
  <2>3. Healthy(d)
    BY <2>1, <2>2, HealthySame
  <2> QED
    BY <2>3 DEF c, d
<1> QED
  BY <1>4, <1>6

LEMMA SynIsHealthy ==
  ASSUME Facts, Healthy(conn), NothingBuffered(conn)
  PROVE  Healthy([Tracked EXCEPT !.syn_received = TRUE, !.expected_seq = SeqNo(0)])
<1> USE DEF Facts
<1> DEFINE c == Tracked
           d == [c EXCEPT !.syn_received = TRUE, !.expected_seq = SeqNo(0)]
<1>1. Healthy(c) /\ c \in Connection
  BY TrackedIsHealthy, HealthyIsConnection
<1>2. c.payload = <<>> /\ Waiting(c) = {}
  <2>1. conn \in Connection
    BY HealthyIsConnection
  <2> QED
    BY <2>1 DEF NothingBuffered, Waiting, Tracked, Connection
<1> HIDE DEF c
<1>3. PICK a, b \in Offsets : Sound(c, a, b)
  BY <1>1 DEF Healthy
<1>4. a = b
  BY <1>2, <1>3, PieceEmpty
<1>5. 0 \in Offsets /\ 0 <= 0 /\ SeqNo(0) \in Keys
  BY SeqNoIs DEF Offsets, Ground
<1>6. /\ d \in Connection /\ d.payload = <<>> /\ Waiting(d) = {}
      /\ d.expected_seq = SeqNo(0) /\ d.syn_received /\ d.arrived = c.arrived
      /\ d.refused = c.refused
      /\ Cardinality(Waiting(d)) = Cardinality(Waiting(c)) /\ Holds(d) = Holds(c)
  <2>1. /\ d \in Connection /\ d.payload = c.payload
        /\ d.out_of_order_segments = c.out_of_order_segments
        /\ d.expected_seq = SeqNo(0) /\ d.syn_received /\ d.arrived = c.arrived
        /\ d.refused = c.refused
    BY <1>1, <1>5 DEF Connection
  <2> HIDE DEF d
  <2> QED
    BY <1>2, <2>1 DEF Waiting, Holds, Ahead
<1> HIDE DEF d
<1>7. Piece(d, 0, 0)
  BY <1>5, <1>6, EmptyBytes DEF Piece
<1>8. KeepsAll(d)
  BY <1>3, <1>4, <1>6 DEF Sound, KeepsAll
<1>9. Sound(d, 0, 0)
  BY <1>3, <1>5, <1>6, <1>7, <1>8 DEF Sound, Keyed
<1>10. Settled(d)
  BY <1>6 DEF Settled
<1> QED
  BY <1>5, <1>9, <1>10 DEF Healthy, c, d

LEMMA DataIsHealthy ==
  ASSUME Facts, Healthy(conn), NEW seg \in Segments, NEW fin \in BOOLEAN,
         NEW based, based = Baseline(Tracked, SeqNo(seg[1])),
         NEW ended, ended = [based EXCEPT !.arrived = @ \cup Range(Bytes(seg)),
                                          !.fin_received = fin]
  PROVE  ~ Conflicting(based, seg) /\ Healthy(Accept(ended, seg))
<1> USE DEF Facts
<1> DEFINE c == Tracked
<1>1. Healthy(c)
  BY TrackedIsHealthy
<1>2. based = Baseline(c, SeqNo(seg[1]))
  OBVIOUS
<1> HIDE DEF c
<1>3. PICK a, b \in Offsets : Sound(c, a, b)
  BY <1>1 DEF Healthy
<1>4. NoWrap => Settled(c)
  BY <1>1 DEF Healthy
<1>5. PICK e, f \in Offsets :
        /\ Sound(based, e, f) /\ based.expected_seq = SeqNo(f)
        /\ based.syn_received \/ e < f \/ f = seg[1]
        /\ NoWrap => Settled(based)
  BY <1>2, <1>3, <1>4, BaselineKeepsSound
<1>6. ~ Conflicting(based, seg)
  BY <1>5, NeverConflicting
<1>7. Counted(based, ended, seg)
  <2>1. based \in Connection
    BY <1>5 DEF Sound
  <2>2. Range(Bytes(seg)) \subseteq Stream
    <3>1. /\ seg[1] \in Offsets /\ seg[2] \in Offsets
          /\ Range(Bytes(seg)) = seg[1] .. seg[2] - 1
      BY SegmentIs, Zenon
    <3> QED
      BY <3>1, SMTT(30) DEF Offsets, Stream, Ground
  <2>3. based.arrived \cup Range(Bytes(seg)) \in SUBSET Stream
    BY <2>1, <2>2 DEF Connection
  <2>4. ended = [[based EXCEPT !.arrived = based.arrived \cup Range(Bytes(seg))]
                   EXCEPT !.fin_received = fin]
    BY <2>1 DEF Connection
  <2> QED
    BY <2>1, <2>3, <2>4 DEF Counted, Connection
<1>8. /\ \E x, y \in Offsets : Sound(Accept(ended, seg), x, y)
      /\ NoWrap => Settled(Accept(ended, seg))
  BY <1>5, <1>7, AcceptKeepsSound
<1> QED
  BY <1>6, <1>8 DEF Healthy

-------------------------------------------------------------------------------
(* The steps                                                                   *)

\* What a pushed flow says of the bytes that arrived, for a plain sender.
Faithful(flow) ==
  /\ Ascending(flow.bytes)
  /\ Range(flow.bytes) \subseteq flow.arrived
  /\ flow.how = "merged" /\ flow.syn /\ ~flow.refused => Range(flow.bytes) = flow.arrived

LEMMA MergedPush ==
  ASSUME Facts, Healthy(conn), Push(Merged(conn), "merged"), Plain
  PROVE  \A flow \in emitted' : Faithful(flow)
<1> USE DEF Facts
<1>1. PICK a, b \in Offsets : Sound(conn, a, b)
  BY DEF Healthy
<1>2. Range(Merged(conn)) = Holds(conn) /\ Ascending(Merged(conn))
  BY <1>1, MergedIsFaithful DEF Healthy
<1>3. /\ Holds(conn) \subseteq conn.arrived
      /\ conn.syn_received /\ ~ conn.refused => conn.arrived \subseteq Holds(conn)
  BY <1>1 DEF Sound, KeepsAll
<1> QED
  BY <1>2, <1>3 DEF Push, Faithful

LEMMA EvictedPush ==
  ASSUME Facts, Healthy(conn), Push(conn.payload, "evicted")
  PROVE  \A flow \in emitted' : Faithful(flow)
<1> USE DEF Facts
<1>1. PICK a, b \in Offsets : Sound(conn, a, b)
  BY DEF Healthy
<1>2. Ascending(conn.payload)
  BY <1>1, BytesAscend DEF Sound, Piece
<1>3. Range(conn.payload) \subseteq conn.arrived
  BY <1>1 DEF Sound, Holds
<1> QED
  BY <1>2, <1>3 DEF Push, Faithful

Pushed == Plain => \A flow \in emitted : Faithful(flow)
NextPushed == Plain => \A flow \in emitted' : Faithful(flow)

\* Every step leaves the entry healthy, no alert, and a faithful flow.
LEMMA StepIsHealthy ==
  ASSUME Facts, Healthy(conn), Pushed, alerted = FALSE, ~ LateSyn, [Next]_vars
  PROVE  traffic' = traffic /\ Healthy(conn') /\ alerted' = FALSE /\ NextPushed
<1>0. Healthy(Fresh)
  <2>1. Sound(Fresh, 0, 0) /\ Settled(Fresh) /\ 0 \in Offsets
    BY FreshIsSound DEF Facts, Offsets, Ground
  <2> QED
    BY <2>1 DEF Healthy
<1>1. conn \in Connection
  BY HealthyIsConnection
<1>2. ASSUME emitted' = emitted
      PROVE  NextPushed
  BY <1>2 DEF Pushed, NextPushed
<1>3. CASE ArriveSyn
  BY <1>2, <1>3, SynIsHealthy DEF ArriveSyn
<1>4. CASE ArriveAck
  BY <1>2, <1>4, TrackedIsHealthy DEF ArriveAck, Facts
<1>5. CASE ArriveEnd
  BY <1>2, <1>5, TrackedIsHealthy DEF ArriveEnd, Facts
<1>6. ASSUME NEW seg \in Segments, NEW captured \in BOOLEAN, ArriveData(seg, captured)
      PROVE  traffic' = traffic /\ Healthy(conn') /\ alerted' = FALSE /\ NextPushed
  <2> DEFINE based == Baseline(Tracked, SeqNo(seg[1]))
             fin == based.fin_received \/ seg[2] = Length
             last == Tracked.fin_received \/ seg[2] = Length
             ended == [based EXCEPT !.arrived = @ \cup Range(Bytes(seg)),
                                    !.fin_received = fin]
  <2>1. fin \in BOOLEAN /\ last \in BOOLEAN
    OBVIOUS
  <2>2. ended = [based EXCEPT !.arrived = @ \cup Range(Bytes(seg)),
                              !.fin_received = @ \/ seg[2] = Length]
    OBVIOUS
  <2>3. ~ Conflicting(based, seg) /\ Healthy(Accept(ended, seg))
    BY <1>6, <2>1, DataIsHealthy
  <2>4. Healthy([Tracked EXCEPT !.fin_received = last])
    BY <2>1, TrackedIsHealthy DEF Facts
  <2>5. /\ traffic' = traffic /\ emitted' = emitted
        /\ conn' = IF ~captured THEN [Tracked EXCEPT !.fin_received = last]
                   ELSE IF Conflicting(based, seg) THEN ended ELSE Accept(ended, seg)
        /\ alerted' = (alerted \/ (captured /\ Conflicting(based, seg)))
    BY <1>6 DEF ArriveData
  <2> HIDE DEF ended, based, last
  <2>6. alerted' = FALSE
    BY <2>3, <2>5
  <2> QED
    BY <1>2, <2>3, <2>4, <2>5, <2>6
<1>7. CASE CheckComplete
  BY <1>0, <1>7, MergedPush DEF CheckComplete, NextPushed
<1>8. CASE EvictIdle
  BY <1>0, <1>2, <1>8, EvictedPush DEF EvictIdle, NextPushed
<1>9. CASE ForceEvict
  BY <1>0, <1>2, <1>9 DEF ForceEvict
<1>10. CASE Flush
  BY <1>0, <1>2, <1>10, MergedPush DEF Flush, NextPushed
<1>11. CASE UNCHANGED vars
  BY <1>2, <1>11 DEF vars
<1> QED
  BY <1>3, <1>4, <1>5, <1>6, <1>7, <1>8, <1>9, <1>10, <1>11 DEF Next, ProcessPacket

-------------------------------------------------------------------------------
(* The theorems                                                                *)

\* The inductive invariant: the types, and what the steps preserve together.  A payload
\* is contiguous because expected_seq is the byte after it and each waiting segment sits
\* under the number of its first byte; the rest follows from these two.
ReassemblyInv ==
  /\ TypeOK
  /\ Healthy(conn)
  /\ NoFalseEvasion
  /\ Pushed

LEMMA HealthyTypes ==
  ASSUME Ground, OooMax \in Nat, NEW c, Healthy(c)
  PROVE  /\ c.tracked \in BOOLEAN /\ c.syn_received \in BOOLEAN
         /\ c.fin_received \in BOOLEAN /\ c.refused \in BOOLEAN
         /\ c.expected_seq \in 0 .. SeqSpace - 1
         /\ c.packet_count \in 0 .. 2
         /\ c.arrived \subseteq 0 .. Length - 1
         /\ Range(c.payload) \subseteq c.arrived
         /\ Waiting(c) \subseteq 0 .. SeqSpace - 1
         /\ Cardinality(Waiting(c)) <= OooMax
         /\ \A k \in Waiting(c) : Range(c.out_of_order_segments[k]) \subseteq c.arrived
<1>1. PICK a, b \in Offsets : Sound(c, a, b)
  BY DEF Healthy
<1>2. c \in Connection /\ Cardinality(Waiting(c)) <= OooMax /\ Holds(c) \subseteq c.arrived
  BY <1>1 DEF Sound
<1>3. /\ c.tracked \in BOOLEAN /\ c.syn_received \in BOOLEAN
      /\ c.fin_received \in BOOLEAN /\ c.refused \in BOOLEAN
      /\ c.expected_seq \in 0 .. SeqSpace - 1
      /\ c.packet_count \in 0 .. 2
      /\ c.arrived \subseteq 0 .. Length - 1
  BY <1>2 DEF Connection, Keys, Stream
<1>4. Waiting(c) \subseteq 0 .. SeqSpace - 1
  BY <1>2, WaitingIsFinite DEF Keys
<1>5. /\ Range(c.payload) \subseteq c.arrived
      /\ \A k \in Waiting(c) : Range(c.out_of_order_segments[k]) \subseteq c.arrived
  BY <1>2 DEF Holds, Ahead
<1> QED
  BY <1>2, <1>3, <1>4, <1>5

LEMMA InvInitially ==
  ASSUME ReassemblyAssumption, Init
  PROVE  ReassemblyInv
<1>1. Facts
  BY FactsHold DEF Init
<1>2. Healthy(conn)
  <2>1. Sound(Fresh, 0, 0) /\ Settled(Fresh) /\ 0 \in Offsets
    BY <1>1, FreshIsSound DEF Facts, Offsets, Ground
  <2> QED
    BY <2>1 DEF Healthy, Init
<1>3. copies \in [Segments -> 0 .. Copies] /\ extras \in [{"syn", "ack", "end"} -> 0 .. Extras]
  <2>1. Copies \in Nat /\ Extras \in Nat
    BY DEF ReassemblyAssumption
  <2> QED
    BY <2>1 DEF Init
<1>4. TypeOK
  BY <1>1, <1>2, <1>3, HealthyTypes DEF TypeOK, Facts, Init
<1> QED
  BY <1>2, <1>4 DEF ReassemblyInv, NoFalseEvasion, Pushed, Init

\* The bounds on how often each packet arrives are kept.
LEMMA CountsStay ==
  ASSUME ReassemblyAssumption, TypeOK, [Next]_vars
  PROVE  /\ copies' \in [Segments -> 0 .. Copies]
         /\ extras' \in [{"syn", "ack", "end"} -> 0 .. Extras]
<1>1. Copies \in Nat /\ Extras \in Nat
  BY DEF ReassemblyAssumption
<1>2. ASSUME NEW kind \in {"syn", "ack", "end"}, Count(kind)
      PROVE  extras' \in [{"syn", "ack", "end"} -> 0 .. Extras]
  BY <1>1, <1>2 DEF Count, TypeOK
<1>3. CASE ProcessPacket
  <2>1. ASSUME NEW seg \in Segments, NEW captured \in BOOLEAN, ArriveData(seg, captured)
        PROVE  copies' \in [Segments -> 0 .. Copies]
    BY <1>1, <2>1 DEF ArriveData, TypeOK
  <2>2. ASSUME NEW seg \in Segments, NEW captured \in BOOLEAN, ArriveData(seg, captured)
        PROVE  extras' = extras
    BY <2>2 DEF ArriveData
  <2>3. ASSUME ArriveSyn \/ ArriveAck \/ ArriveEnd
        PROVE  copies' = copies /\ \E kind \in {"syn", "ack", "end"} : Count(kind)
    BY <2>3 DEF ArriveSyn, ArriveAck, ArriveEnd
  <2> QED
    BY <1>2, <1>3, <2>1, <2>2, <2>3 DEF ProcessPacket, TypeOK
<1>4. CASE CheckComplete \/ EvictIdle \/ ForceEvict \/ Flush \/ UNCHANGED vars
  BY <1>4 DEF CheckComplete, EvictIdle, ForceEvict, Flush, vars, TypeOK
<1> QED
  BY <1>3, <1>4 DEF Next

LEMMA InvPreserved ==
  ASSUME ReassemblyAssumption, ~ LateSyn, ReassemblyInv, [Next]_vars
  PROVE  ReassemblyInv'
<1>1. Facts /\ traffic \in Traffics /\ alerted = FALSE
  BY FactsHold DEF ReassemblyInv, TypeOK, NoFalseEvasion
<1>2. traffic' = traffic /\ Healthy(conn') /\ alerted' = FALSE /\ NextPushed
  BY <1>1, StepIsHealthy DEF ReassemblyInv
<1>3. Segments' = Segments /\ Isn' = Isn
  BY <1>2 DEF Segments, Isn
<1>4. Healthy(conn)'
  BY <1>2, <1>3
     DEF Healthy, Sound, Keyed, Piece, Holds, Ahead, Waiting, KeepsAll, Plain, NoWrap,
         SeqNo, Settled
<1>5. Pushed'
  BY <1>2, <1>3 DEF Pushed, NextPushed, Plain, NoWrap
<1>6. TypeOK'
  <2>1. /\ copies' \in [Segments -> 0 .. Copies]
        /\ extras' \in [{"syn", "ack", "end"} -> 0 .. Extras]
    BY CountsStay DEF ReassemblyInv
  <2>2. DOMAIN conn'.out_of_order_segments = Waiting(conn')
    BY DEF Waiting
  <2> QED
    BY <1>1, <1>2, <1>3, <2>1, HealthyTypes DEF TypeOK, Facts, Waiting
<1>7. NoFalseEvasion'
  BY <1>2 DEF NoFalseEvasion
<1> QED
  BY <1>4, <1>5, <1>6, <1>7 DEF ReassemblyInv

LEMMA InvImplies ==
  ASSUME ReassemblyAssumption, ReassemblyInv
  PROVE  ContiguousWhileOpen /\ NoFalseEvasion /\ PayloadFaithful
<1>1. Facts /\ Ground
  BY FactsHold DEF ReassemblyInv, TypeOK, Facts
<1>2. PICK a, b \in Offsets : Sound(conn, a, b)
  BY DEF ReassemblyInv, Healthy
<1>3. ASSUME conn.payload # <<>>
      PROVE  LET first == conn.payload[1]
             IN  /\ conn.payload = [i \in 1 .. Len(conn.payload) |-> first + i - 1]
                 /\ conn.expected_seq = SeqNo(first + Len(conn.payload))
                 /\ conn.syn_received => first = 0
  <2>1. a \in Int /\ b \in Int /\ a <= b
    BY <1>1, <1>2 DEF Offsets, Ground, Sound
  <2>2. a < b /\ Len(conn.payload) = b - a
    BY <1>1, <1>2, <1>3, <2>1, PieceEmpty
  <2>3. conn.payload = [i \in 1 .. b - a |-> a + i - 1]
    BY <1>2 DEF Sound, Piece, Bytes
  <2>4. conn.payload[1] = a
    BY <2>1, <2>2, <2>3
  <2>5. conn.expected_seq = SeqNo(b) /\ (conn.syn_received => a = 0) /\ b = a + (b - a)
    BY <1>2, <2>1, <2>2 DEF Sound, Piece
  <2> QED
    BY <2>2, <2>3, <2>4, <2>5
<1>4. NothingStuck
  BY DEF ReassemblyInv, Healthy, Settled, NothingStuck
<1>5. PayloadFaithful
  BY DEF ReassemblyInv, Pushed, Faithful, PayloadFaithful
<1> QED
  BY <1>3, <1>4, <1>5 DEF ReassemblyInv, ContiguousWhileOpen

\* Of a sender whose SYN does not come after data: the inductive invariant.
THEOREM ReassemblyInvariant ==
  ASSUME ReassemblyAssumption, ~ LateSyn
  PROVE  Spec => []ReassemblyInv
  BY InvInitially, InvPreserved, PTL DEF Spec

\* process_ip_packet: the payload of an open connection is one contiguous piece of the
\* stream and expected_seq is the byte after it, for any cut into segments, any order and
\* repetition, any sequence space and on either side of a wraparound; without one, no
\* waiting segment is stuck.
THEOREM ContiguousWhileOpenHolds ==
  ASSUME ReassemblyAssumption, ~ LateSyn
  PROVE  Spec => []ContiguousWhileOpen
  BY ReassemblyInvariant, InvImplies, PTL

\* process_ip_packet: segments of an honest sender never raise the evasion alert,
\* whatever the thresholds.
THEOREM NoFalseEvasionHolds ==
  ASSUME ReassemblyAssumption, ~ LateSyn
  PROVE  Spec => []NoFalseEvasion
  BY ReassemblyInvariant, InvImplies, PTL

\* check_complete_flows, flush_all_flows and evict_stale_state: what a plain sender's
\* payload holds is what arrived, each byte once and in the order of the stream.
THEOREM PayloadFaithfulHolds ==
  ASSUME ReassemblyAssumption, ~ LateSyn
  PROVE  Spec => []PayloadFaithful
  BY ReassemblyInvariant, InvImplies, PTL
===============================================================================
