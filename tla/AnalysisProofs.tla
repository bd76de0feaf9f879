---------------------------- MODULE AnalysisProofs ----------------------------
(* Machine-checked proofs about Analysis: the prompt, the verdicts, what the   *)
(* detectors lose by waiting and what the canonical form keeps, for any flows, *)
(* answers, rules, windows and thresholds, from AnalysisAssumption,            *)
(* DetectorAssumption and, for the canonical form, WebAssumption.              *)
EXTENDS Analysis, FiniteSetTheorems, WellFoundedInduction, TLAPS

-------------------------------------------------------------------------------
(* Numbers and sequences                                                       *)

\* Induction over the natural numbers, as a fact about the sets closed under it.
LEMMA InductiveIsNat ==
  ASSUME NEW S \in SUBSET Nat, 0 \in S, \A n \in S : n + 1 \in S
  PROVE  S = Nat
<1> DEFINE Rest == Nat \ S
           R == OpToRel(<, Nat)
<1>1. IsWellFoundedOn(R, Nat)
  BY NatLessThanWellFounded, Zenon
<1>2. \A x, y \in Nat : y < x => <<y, x>> \in R
  BY DEF OpToRel
<1> HIDE DEF R
<1>3. SUFFICES ASSUME Rest # {} PROVE FALSE
  OBVIOUS
<1>4. PICK x \in Rest : \A y \in Rest : ~ (<<y, x>> \in R)
  <2>1. Rest \subseteq Nat
    OBVIOUS
  <2> HIDE DEF Rest
  <2> QED
    BY <1>1, <1>3, <2>1, WFMin
<1>5. x - 1 \in Rest /\ x - 1 < x
  BY <1>4
<1> QED
  BY <1>2, <1>4, <1>5

\* A set of numbers has a least one.
LEMMA MinIs ==
  ASSUME NEW S \in SUBSET Nat, S # {}
  PROVE  Min(S) \in S /\ \A n \in S : Min(S) <= n
<1> DEFINE R == OpToRel(<, Nat)
<1>0. \A x, y \in Nat : y < x => <<y, x>> \in R
  BY DEF OpToRel
<1>1. PICK x \in S : \A y \in S : ~ (<<y, x>> \in R)
  <2>1. IsWellFoundedOn(R, Nat)
    BY NatLessThanWellFounded, Zenon
  <2>2. S \subseteq Nat
    OBVIOUS
  <2> HIDE DEF R
  <2> QED
    BY <2>1, <2>2, WFMin
<1> HIDE DEF R
<1>2. \A y \in S : x <= y
  <2> SUFFICES ASSUME NEW y \in S PROVE x <= y
    OBVIOUS
  <2>1. x \in Nat /\ y \in Nat /\ ~ (y < x)
    BY <1>0, <1>1
  <2> QED
    BY <2>1
<1>3. \E n \in S : \A y \in S : n <= y
  BY <1>2
<1> QED
  BY <1>3 DEF Min

\* The lesser and the greater of two numbers.
LEMMA MinOfTwo ==
  ASSUME NEW a \in Int, NEW b \in Int
  PROVE  /\ Min({a, b}) = IF a <= b THEN a ELSE b
         /\ Max({a, b}) = IF a <= b THEN b ELSE a
<1>1. \E n \in {a, b} : \A y \in {a, b} : n <= y
  OBVIOUS
<1>2. \E n \in {a, b} : \A y \in {a, b} : n >= y
  OBVIOUS
<1>3. Min({a, b}) \in {a, b} /\ \A y \in {a, b} : Min({a, b}) <= y
  BY <1>1 DEF Min
<1>4. Max({a, b}) \in {a, b} /\ \A y \in {a, b} : Max({a, b}) >= y
  BY <1>2 DEF Max
<1> QED
  BY <1>3, <1>4

\* The largest of a set of places.
LEMMA MaxIs ==
  ASSUME NEW n \in Nat, NEW S \in SUBSET (1 .. n), S # {}
  PROVE  Max(S) \in S /\ \A i \in S : Max(S) >= i
<1> DEFINE D == {n - i : i \in S}
<1>1. D \in SUBSET Nat /\ D # {}
  <2>1. PICK i : i \in S
    OBVIOUS
  <2>2. n - i \in D
    BY <2>1
  <2>3. D \in SUBSET Nat
    OBVIOUS
  <2> QED
    BY <2>2, <2>3
<1>2. Min(D) \in D /\ \A d \in D : Min(D) <= d
  <2> HIDE DEF D
  <2> QED
    BY <1>1, MinIs
<1>3. PICK i \in S : Min(D) = n - i
  BY <1>2
<1>4. \A j \in S : i >= j
  <2> SUFFICES ASSUME NEW j \in S PROVE i >= j
    OBVIOUS
  <2>1. n - j \in D
    OBVIOUS
  <2>2. n - i <= n - j
    BY <1>2, <1>3, <2>1
  <2> QED
    BY <2>2
<1>5. \E m \in S : \A j \in S : m >= j
  BY <1>4
<1> QED
  BY <1>5 DEF Max

\* A window is the beginning of a sequence, as long as it is but at most n.
LEMMA WindowIs ==
  ASSUME NEW X, NEW p \in Seq(X), NEW n \in Nat
  PROVE  /\ Window(p, n) \in Seq(X)
         /\ Len(Window(p, n)) = IF Len(p) <= n THEN Len(p) ELSE n
         /\ Len(Window(p, n)) <= Len(p)
         /\ \A i \in 1 .. Len(Window(p, n)) : Window(p, n)[i] = p[i]
<1> DEFINE m == IF Len(p) <= n THEN Len(p) ELSE n
<1>1. Min({Len(p), n}) = m
  BY MinOfTwo
<1>2. m \in 0 .. Len(p)
  OBVIOUS
<1>3. Window(p, n) = SubSeq(p, 1, m)
  BY <1>1, Zenon DEF Window
<1> HIDE DEF m
<1>4. /\ SubSeq(p, 1, m) \in Seq(X) /\ Len(SubSeq(p, 1, m)) = m
      /\ \A i \in 1 .. m : SubSeq(p, 1, m)[i] = p[i]
  BY <1>2
<1> QED
  BY <1>2, <1>3, <1>4 DEF m

\* c is s followed by t.
Joined(c, s, t) ==
  /\ Len(c) = Len(s) + Len(t)
  /\ \A i \in 1 .. Len(s) : c[i] = s[i]
  /\ \A i \in 1 .. Len(t) : c[Len(s) + i] = t[i]

\* Concatenation, by length and places.
LEMMA ConcatIs ==
  ASSUME NEW X, NEW s \in Seq(X), NEW t \in Seq(X)
  PROVE  s \o t \in Seq(X) /\ Joined(s \o t, s, t)
BY DEF Joined

\* A sequence may be taken for one of its own elements.
LEMMA SeqWithin ==
  ASSUME NEW X, NEW s \in Seq(X), NEW Y, \A i \in 1 .. Len(s) : s[i] \in Y
  PROVE  s \in Seq(Y)
OBVIOUS

-------------------------------------------------------------------------------
-------------------------------------------------------------------------------
(* The canonical form: where its tokens come from                              *)

\* Where a comment ends lies behind its beginning.
LEMMA CommentEnds ==
  ASSUME NEW X, NEW s \in Seq(X), NEW i \in 1 .. Len(s)
  PROVE  /\ After({j \in i + 2 .. Len(s) : Pair(s, j, "*", "/")}, 2, s) \in i + 1 .. Len(s) + 1
         /\ After({j \in i .. Len(s) : s[j] \in LineEnds}, 1, s) \in i + 1 .. Len(s) + 1
<1> DEFINE B == {j \in i + 2 .. Len(s) : Pair(s, j, "*", "/")}
           L == {j \in i .. Len(s) : s[j] \in LineEnds}
<1>0. Len(s) \in Nat
  OBVIOUS
<1>1. /\ B \in SUBSET Nat /\ \A j \in B : j >= i + 2 /\ j < Len(s)
      /\ L \in SUBSET Nat /\ \A j \in L : j >= i /\ j <= Len(s)
  BY DEF Pair
<1> HIDE DEF B, L
<1>2. After(B, 2, s) \in i + 1 .. Len(s) + 1
  <2>1. CASE B = {}
    BY <1>0, <2>1 DEF After
  <2>2. CASE B # {}
    <3>1. Min(B) \in B
      BY <1>1, <2>2, MinIs
    <3>2. After(B, 2, s) = Min(B) + 2
      BY <2>2 DEF After
    <3>3. Min(B) \in Nat /\ Min(B) >= i + 2 /\ Min(B) < Len(s)
      BY <1>1, <3>1
    <3> QED
      BY <1>0, <3>2, <3>3
  <2> QED
    BY <2>1, <2>2
<1>3. After(L, 1, s) \in i + 1 .. Len(s) + 1
  <2>1. CASE L = {}
    BY <1>0, <2>1 DEF After
  <2>2. CASE L # {}
    <3>1. Min(L) \in L
      BY <1>1, <2>2, MinIs
    <3>2. After(L, 1, s) = Min(L) + 1
      BY <2>2 DEF After
    <3>3. Min(L) \in Nat /\ Min(L) >= i /\ Min(L) <= Len(s)
      BY <1>1, <3>1
    <3> QED
      BY <1>0, <3>2, <3>3
  <2> QED
    BY <2>1, <2>2
<1> QED
  BY <1>2, <1>3 DEF B, L

\* What remains from place i on, when g says it for the places behind.
Remaining(s, g, i) ==
  IF i > Len(s) THEN <<>>
  ELSE IF Pair(s, i, "/", "*")
    THEN g[After({j \in i + 2 .. Len(s) : Pair(s, j, "*", "/")}, 2, s)]
  ELSE IF Pair(s, i, "-", "-")
    THEN g[After({j \in i .. Len(s) : s[j] \in LineEnds}, 1, s)]
  ELSE <<s[i]>> \o g[i + 1]

\* One step of the walk through comments gives a sequence, and looks only further on.
LEMMA RemainingIs ==
  ASSUME NEW X, NEW s \in Seq(X), NEW i \in 1 .. Len(s) + 1, NEW g, NEW h,
         \A j \in i + 1 .. Len(s) + 1 : g[j] \in Seq(X) /\ h[j] = g[j]
  PROVE  Remaining(s, g, i) \in Seq(X) /\ Remaining(s, h, i) = Remaining(s, g, i)
<1>0. Len(s) \in Nat
  OBVIOUS
<1>1. CASE i > Len(s)
  <2>1. Remaining(s, g, i) = <<>> /\ Remaining(s, h, i) = <<>>
    BY <1>1 DEF Remaining
  <2>2. <<>> \in Seq(X)
    OBVIOUS
  <2> QED
    BY <2>1, <2>2
<1>2. CASE ~(i > Len(s))
  <2> DEFINE B == After({j \in i + 2 .. Len(s) : Pair(s, j, "*", "/")}, 2, s)
             L == After({j \in i .. Len(s) : s[j] \in LineEnds}, 1, s)
  <2>1. i \in 1 .. Len(s)
    BY <1>0, <1>2
  <2>2. B \in i + 1 .. Len(s) + 1 /\ L \in i + 1 .. Len(s) + 1
    BY <2>1, CommentEnds
  <2>3. i + 1 \in i + 1 .. Len(s) + 1 /\ s[i] \in X
    BY <1>0, <2>1
  <2>4. \A f : Remaining(s, f, i) = IF Pair(s, i, "/", "*") THEN f[B]
                                    ELSE IF Pair(s, i, "-", "-") THEN f[L]
                                    ELSE <<s[i]>> \o f[i + 1]
    BY <1>2, Zenon DEF Remaining
  <2> HIDE DEF B, L
  <2>5. g[B] \in Seq(X) /\ g[L] \in Seq(X) /\ g[i + 1] \in Seq(X)
        /\ h[B] = g[B] /\ h[L] = g[L] /\ h[i + 1] = g[i + 1]
    BY <2>2, <2>3
  <2>6. <<s[i]>> \o g[i + 1] \in Seq(X)
    BY <2>3, <2>5
  <2> QED
    BY <2>4, <2>5, <2>6
<1> QED
  BY <1>1, <1>2

\* Text without its comments is what remains from the first place on.
LEMMA UncommentedUnfolds ==
  ASSUME NEW X, NEW s \in Seq(X)
  PROVE  \E g \in [1 .. Len(s) + 1 -> Seq(X)] :
           /\ \A i \in 1 .. Len(s) + 1 : g[i] = Remaining(s, g, i)
           /\ Uncommented(s) = g[1]
<1> DEFINE n == Len(s)
           Follows(g) == g = [i \in 1 .. Len(s) + 1 |->
                                IF i > Len(s) THEN <<>>
                                ELSE IF Pair(s, i, "/", "*")
                                  THEN g[After({j \in i + 2 .. Len(s) :
                                                  Pair(s, j, "*", "/")}, 2, s)]
                                ELSE IF Pair(s, i, "-", "-")
                                  THEN g[After({j \in i .. Len(s) : s[j] \in LineEnds}, 1, s)]
                                ELSE <<s[i]>> \o g[i + 1]]
           From(k) == n + 1 - k .. n + 1
           S == {k \in Nat : k <= n => \E g \in [From(k) -> Seq(X)] :
                                         \A i \in From(k) : g[i] = Remaining(s, g, i)}
           rest == CHOOSE g : Follows(g)
<1>0. n \in Nat
  OBVIOUS
<1>1. Uncommented(s) = rest[1]
  BY Zenon DEF Uncommented
<1>2. \A g : Follows(g) <=> g = [i \in 1 .. n + 1 |-> Remaining(s, g, i)]
  BY Zenon DEF Remaining
<1> HIDE DEF Follows
<1>3. 0 \in S
  <2> DEFINE g == [i \in From(0) |-> <<>>]
  <2>1. \A i \in From(0) : i > n /\ g[i] = <<>>
    BY <1>0
  <2>2. g \in [From(0) -> Seq(X)]
    <3> HIDE DEF From, Follows, S, rest, n
    <3> QED
      OBVIOUS
  <2> HIDE DEF g
  <2>3. \A i \in From(0) : Remaining(s, g, i) = <<>>
    BY <2>1 DEF Remaining
  <2> HIDE DEF From
  <2>4. \E f \in [From(0) -> Seq(X)] : \A i \in From(0) : f[i] = Remaining(s, f, i)
    BY <2>1, <2>2, <2>3
  <2> QED
    BY <2>4
<1>4. ASSUME NEW k \in S
      PROVE  k + 1 \in S
  <2>0. k \in Nat /\ k + 1 \in Nat
    OBVIOUS
  <2>1. ASSUME k + 1 <= n
        PROVE  \E g \in [From(k + 1) -> Seq(X)] :
                 \A i \in From(k + 1) : g[i] = Remaining(s, g, i)
    <3>0. k <= n
      BY <1>0, <2>0, <2>1
    <3>1. PICK g \in [From(k) -> Seq(X)] : \A i \in From(k) : g[i] = Remaining(s, g, i)
      <4> HIDE DEF From, n, rest
      <4> QED
        BY <3>0
    <3> DEFINE first == n - k
               h == [i \in From(k + 1) |-> IF i = first THEN Remaining(s, g, i) ELSE g[i]]
    <3>2. /\ first \in 1 .. n /\ From(k + 1) = {first} \cup From(k) /\ first \notin From(k)
          /\ \A i \in From(k + 1) : i \in 1 .. n + 1
                                    /\ \A j \in i + 1 .. n + 1 : j \in From(k)
      BY <1>0, <2>0, <2>1
    <3> HIDE DEF From, first, S, rest
    <3>3. /\ h[first] = Remaining(s, g, first)
          /\ \A i \in From(k) : h[i] = g[i] /\ g[i] \in Seq(X)
      BY <3>1, <3>2
    <3>4. \A i \in From(k + 1) : /\ Remaining(s, g, i) \in Seq(X)
                                 /\ Remaining(s, h, i) = Remaining(s, g, i)
      <4> SUFFICES ASSUME NEW i \in From(k + 1)
                   PROVE  /\ Remaining(s, g, i) \in Seq(X)
                          /\ Remaining(s, h, i) = Remaining(s, g, i)
        OBVIOUS
      <4> HIDE DEF h
      <4>1. \A j \in i + 1 .. n + 1 : g[j] \in Seq(X) /\ h[j] = g[j]
        BY <3>2, <3>3
      <4>2. i \in 1 .. Len(s) + 1
        BY <3>2
      <4> QED
        BY <4>1, <4>2, RemainingIs
    <3>5. \A i \in From(k + 1) : h[i] = Remaining(s, h, i) /\ h[i] \in Seq(X)
      <4> HIDE DEF h
      <4>1. \A i \in From(k + 1) : h[i] = Remaining(s, g, i)
        BY <3>1, <3>2, <3>3
      <4> QED
        BY <3>4, <4>1
    <3>6. h \in [From(k + 1) -> Seq(X)]
      BY <3>5
    <3> HIDE DEF h
    <3> QED
      BY <3>5, <3>6
  <2> HIDE DEF From, n
  <2> QED
    BY <2>0, <2>1
<1>5. n \in S
  <2>1. S \in SUBSET Nat
    OBVIOUS
  <2> HIDE DEF S
  <2> QED
    BY <1>0, <1>3, <1>4, <2>1, InductiveIsNat
<1>6. \E g : Follows(g)
  <2>1. PICK g \in [From(n) -> Seq(X)] : \A i \in From(n) : g[i] = Remaining(s, g, i)
    <3>1. n <= n
      BY <1>0
    <3> HIDE DEF From, n, rest
    <3> QED
      BY <1>5, <3>1
  <2>2. From(n) = 1 .. n + 1
    BY <1>0
  <2>3. g = [i \in 1 .. n + 1 |-> Remaining(s, g, i)]
    <3> HIDE DEF From, n, rest, S
    <3> QED
      BY <2>1, <2>2
  <2> QED
    BY <1>2, <2>3
<1>7. rest = [i \in 1 .. n + 1 |-> Remaining(s, rest, i)]
  <2>1. Follows(rest)
    BY <1>6, Zenon
  <2> HIDE DEF rest
  <2> QED
    BY <1>2, <2>1
<1> HIDE DEF rest, S, From
<1> DEFINE Q == {k \in Nat : \A i \in 1 .. n + 1 : i + k >= n + 1 => rest[i] \in Seq(X)}
<1>8. 0 \in Q
  <2> SUFFICES ASSUME NEW i \in 1 .. n + 1, i + 0 >= n + 1 PROVE rest[i] \in Seq(X)
    OBVIOUS
  <2>1. i > n
    BY <1>0
  <2>2. rest[i] = <<>>
    BY <1>7, <2>1 DEF Remaining
  <2>3. <<>> \in Seq(X)
    OBVIOUS
  <2> QED
    BY <2>2, <2>3
<1>9. ASSUME NEW k \in Q
      PROVE  k + 1 \in Q
  <2> SUFFICES ASSUME NEW i \in 1 .. n + 1, i + (k + 1) >= n + 1 PROVE rest[i] \in Seq(X)
    OBVIOUS
  <2>1. \A j \in i + 1 .. n + 1 : rest[j] \in Seq(X) /\ rest[j] = rest[j]
    BY <1>0
  <2>2. Remaining(s, rest, i) \in Seq(X)
    <3> HIDE DEF Q
    <3> QED
      BY <2>1, RemainingIs
  <2> HIDE DEF n, Q
  <2> QED
    BY <1>7, <2>2
<1>10. n \in Q
  <2>1. Q \in SUBSET Nat
    OBVIOUS
  <2> HIDE DEF Q
  <2> QED
    BY <1>0, <1>8, <1>9, <2>1, InductiveIsNat
<1>11. rest \in [1 .. n + 1 -> Seq(X)]
  <2>1. \A i \in 1 .. n + 1 : rest[i] \in Seq(X)
    BY <1>0, <1>10
  <2> HIDE DEF n, Q
  <2> QED
    BY <1>7, <2>1
<1>12. \A i \in 1 .. n + 1 : rest[i] = Remaining(s, rest, i)
  <2> HIDE DEF n, Q
  <2> QED
    BY <1>7
<1> HIDE DEF Q
<1> QED
  BY <1>1, <1>11, <1>12

\* It has only tokens of the text.
LEMMA UncommentedIs ==
  ASSUME NEW X, NEW s \in Seq(X)
  PROVE  Uncommented(s) \in Seq(X)
<1>1. PICK g \in [1 .. Len(s) + 1 -> Seq(X)] : Uncommented(s) = g[1]
  BY UncommentedUnfolds
<1>2. 1 \in 1 .. Len(s) + 1
  OBVIOUS
<1> QED
  BY <1>1, <1>2

\* Of a set of places that may end at k + 1, without the last.
LEMMA WithoutLast ==
  ASSUME NEW k \in Nat, NEW T \in SUBSET (1 .. k + 1)
  PROVE  /\ k + 1 \in T => Max(T) = k + 1
         /\ k + 1 \notin T => T \in SUBSET (1 .. k)
         /\ T # {} => Max(T) \in 1 .. k + 1 /\ T \ {Max(T)} \in SUBSET (1 .. k)
<1>1. CASE T = {}
  BY <1>1
<1>2. CASE T # {}
  <2> DEFINE m == Max(T)
  <2>1. m \in T /\ \A i \in T : m >= i
    <3>1. k + 1 \in Nat
      OBVIOUS
    <3> QED
      BY <1>2, <3>1, MaxIs
  <2> HIDE DEF m
  <2>2. m \in Nat /\ m <= k + 1 /\ m >= 1
    BY <2>1
  <2>3. \A i \in T : i \in Nat /\ i <= k + 1 /\ i >= 1 /\ i <= m
    BY <2>1
  <2>4. k + 1 \in T => m = k + 1
    BY <2>2, <2>3
  <2>5. \A i \in T \ {m} : i \in 1 .. k
    BY <2>2, <2>3
  <2>6. k + 1 \notin T => \A i \in T : i \in 1 .. k
    BY <2>3
  <2>7. m \in 1 .. k + 1 /\ T \ {m} \in SUBSET (1 .. k)
    BY <2>2, <2>5
  <2>8. k + 1 \notin T => T \in SUBSET (1 .. k)
    BY <2>6
  <2> QED
    BY <2>4, <2>7, <2>8, Zenon DEF m
<1> QED
  BY <1>1, <1>2

Space == Plain(" ")

\* What Collapsed adds for the token x.
Kept(out, x) ==
  IF x \notin White THEN Append(out, Folded(x))
  ELSE IF out # <<>> /\ Last(out) = Space THEN out
  ELSE Append(out, Space)

\* The text is collapsed one token after the other; every token of the outcome is a
\* space or a folded token.
LEMMA CollapsedUnfolds ==
  ASSUME NEW X, NEW s \in Seq(X), NEW Y, Space \in Y,
         \A x \in X : x \notin White => Folded(x) \in Y
  PROVE  \E g \in [0 .. Len(s) -> Seq(Y)] :
           /\ g[0] = <<>> /\ \A k \in 1 .. Len(s) : g[k] = Kept(g[k - 1], s[k])
           /\ Collapsed(s) = g[Len(s)]
<1> DEFINE n == Len(s)
           Goes(g, T) == IF T = {} THEN <<>> ELSE Kept(g[T \ {Max(T)}], s[Max(T)])
           Follows(g) == g = [T \in SUBSET DOMAIN s |-> Goes(g, T)]
           h == CHOOSE g : Follows(g)
<1>0. n \in Nat /\ DOMAIN s = 1 .. n
  OBVIOUS
<1>1. Collapsed(s) = h[DOMAIN s]
  BY Zenon DEF Collapsed, FoldLeft, MapThenFoldSet, Kept, Space
<1>2. ASSUME NEW out \in Seq(Y), NEW x \in X
      PROVE  Kept(out, x) \in Seq(Y)
  <2>1. /\ x \notin White => Append(out, Folded(x)) \in Seq(Y)
        /\ Append(out, Space) \in Seq(Y)
    OBVIOUS
  <2> QED
    BY <2>1 DEF Kept
<1>3. ASSUME NEW k \in Nat, k < n, NEW T \in SUBSET (1 .. k + 1)
      PROVE  /\ k + 1 \notin T => T \in SUBSET (1 .. k)
             /\ T # {} => s[Max(T)] \in X /\ T \ {Max(T)} \in SUBSET (1 .. k)
  <2> DEFINE m == Max(T)
  <2>1. /\ k + 1 \notin T => T \in SUBSET (1 .. k)
        /\ T # {} => m \in 1 .. k + 1 /\ T \ {m} \in SUBSET (1 .. k)
    BY WithoutLast
  <2> HIDE DEF m
  <2>2. \A i \in 1 .. k + 1 : s[i] \in X
    <3>1. \A i \in 1 .. k + 1 : i \in 1 .. n
      BY <1>0, <1>3
    <3> QED
      BY <3>1
  <2>3. T # {} => s[m] \in X
    BY <2>1, <2>2
  <2> QED
    BY <2>1, <2>3 DEF m
<1> DEFINE S == {k \in Nat : k <= n => \E g \in [SUBSET (1 .. k) -> Seq(Y)] :
                                         \A T \in SUBSET (1 .. k) : g[T] = Goes(g, T)}
<1>4. 0 \in S
  <2> DEFINE g == [T \in SUBSET (1 .. 0) |-> <<>>]
  <2>1. 1 .. 0 = {} /\ <<>> \in Seq(Y)
    OBVIOUS
  <2>2. \A T \in SUBSET (1 .. 0) : T = {} /\ g[T] = <<>>
    BY <2>1
  <2>3. g \in [SUBSET (1 .. 0) -> Seq(Y)]
    <3> HIDE DEF S, n, Goes, Follows, h
    <3> QED
      BY <2>1
  <2> HIDE DEF g
  <2>4. \A T \in SUBSET (1 .. 0) : g[T] = Goes(g, T)
    BY <2>2
  <2> HIDE DEF Goes, n
  <2> QED
    BY <2>3, <2>4
<1>5. ASSUME NEW k \in S
      PROVE  k + 1 \in S
  <2>0. k \in Nat /\ k + 1 \in Nat
    OBVIOUS
  <2>1. ASSUME k + 1 <= n
        PROVE  \E g \in [SUBSET (1 .. k + 1) -> Seq(Y)] :
                 \A T \in SUBSET (1 .. k + 1) : g[T] = Goes(g, T)
    <3>0. k <= n /\ k < n
      BY <1>0, <2>0, <2>1
    <3>1. PICK g \in [SUBSET (1 .. k) -> Seq(Y)] :
            \A T \in SUBSET (1 .. k) : g[T] = Goes(g, T)
      <4> HIDE DEF n, Goes
      <4> QED
        BY <3>0
    <3> DEFINE w == [T \in SUBSET (1 .. k + 1) |->
                       IF k + 1 \in T THEN Goes(g, T) ELSE g[T]]
    <3>2. ASSUME NEW T \in SUBSET (1 .. k + 1)
          PROVE  w[T] = Goes(g, T) /\ Goes(w, T) = Goes(g, T) /\ w[T] \in Seq(Y)
      <4>1. w[T] = Goes(g, T)
        <5> HIDE DEF Goes
        <5> QED
          BY <1>3, <3>0, <3>1, <2>0
      <4>2. CASE T = {}
        <5>1. <<>> \in Seq(Y)
          OBVIOUS
        <5>2. Goes(g, T) = <<>> /\ Goes(w, T) = <<>>
          BY <4>2
        <5> QED
          BY <4>1, <5>1, <5>2
      <4>3. CASE T # {}
        <5> DEFINE R == T \ {Max(T)}
        <5>1. R \in SUBSET (1 .. k) /\ s[Max(T)] \in X
          BY <1>3, <2>0, <3>0, <4>3
        <5>2. R \in SUBSET (1 .. k + 1) /\ k + 1 \notin R
          BY <2>0, <5>1
        <5>3. Goes(g, T) = Kept(g[R], s[Max(T)]) /\ Goes(w, T) = Kept(w[R], s[Max(T)])
          <6> HIDE DEF w
          <6> QED
            BY <4>3
        <5> HIDE DEF Goes, R
        <5>4. w[R] = g[R] /\ g[R] \in Seq(Y)
          BY <5>1, <5>2
        <5>5. Kept(g[R], s[Max(T)]) \in Seq(Y)
          <6> HIDE DEF w
          <6> QED
            BY <1>2, <5>1, <5>4
        <5> HIDE DEF w
        <5> QED
          BY <4>1, <5>3, <5>4, <5>5
      <4> QED
        BY <4>2, <4>3
    <3> HIDE DEF Goes
    <3>3. w \in [SUBSET (1 .. k + 1) -> Seq(Y)]
      BY <3>2
    <3>4. \A T \in SUBSET (1 .. k + 1) : w[T] = Goes(w, T)
      <4> HIDE DEF w
      <4> QED
        BY <3>2
    <3> HIDE DEF w
    <3> QED
      BY <3>3, <3>4
  <2> HIDE DEF Goes, n
  <2> QED
    BY <2>0, <2>1
<1>6. n \in S
  <2>1. S \in SUBSET Nat
    OBVIOUS
  <2> HIDE DEF S
  <2> QED
    BY <1>0, <1>4, <1>5, <2>1, InductiveIsNat
<1>7. Follows(h)
  <2>1. PICK g \in [SUBSET (1 .. n) -> Seq(Y)] : \A T \in SUBSET (1 .. n) : g[T] = Goes(g, T)
    <3>1. n <= n
      BY <1>0
    <3> HIDE DEF n, Goes
    <3> QED
      BY <1>6, <3>1
  <2> HIDE DEF Goes, S
  <2>2. g = [T \in SUBSET DOMAIN s |-> Goes(g, T)]
    BY <1>0, <2>1
  <2>3. \E f : Follows(f)
    BY <2>2
  <2> HIDE DEF Follows
  <2> QED
    BY <2>3, Zenon
<1>8. \A T \in SUBSET (1 .. n) : h[T] = Goes(h, T)
  <2> HIDE DEF h, Goes, S
  <2>1. h = [T \in SUBSET (1 .. n) |-> Goes(h, T)]
    BY <1>0, <1>7
  <2> HIDE DEF Follows, n
  <2> QED
    BY <2>1
<1> HIDE DEF h, Follows, S
<1> DEFINE Q == {k \in Nat : k <= n => \A T \in SUBSET (1 .. k) : h[T] \in Seq(Y)}
<1>9. 0 \in Q
  <2> SUFFICES ASSUME NEW T \in SUBSET (1 .. 0) PROVE h[T] \in Seq(Y)
    OBVIOUS
  <2>1. T = {} /\ T \in SUBSET (1 .. n)
    OBVIOUS
  <2>2. h[T] = <<>>
    BY <1>8, <2>1
  <2>3. <<>> \in Seq(Y)
    OBVIOUS
  <2> QED
    BY <2>2, <2>3
<1>10. ASSUME NEW k \in Q
       PROVE  k + 1 \in Q
  <2>0. k \in Nat /\ k + 1 \in Nat
    OBVIOUS
  <2> SUFFICES ASSUME k + 1 <= n, NEW T \in SUBSET (1 .. k + 1) PROVE h[T] \in Seq(Y)
    BY <2>0
  <2>1. k <= n /\ k < n /\ T \in SUBSET (1 .. n)
    BY <1>0, <2>0
  <2>2. h[T] = Goes(h, T)
    <3> HIDE DEF Goes, n, Q
    <3> QED
      BY <1>8, <2>1
  <2>3. CASE T = {}
    <3>1. <<>> \in Seq(Y)
      OBVIOUS
    <3>2. Goes(h, T) = <<>>
      BY <2>3
    <3> QED
      BY <2>2, <3>1, <3>2
  <2>4. CASE T # {}
    <3> DEFINE R == T \ {Max(T)}
    <3>1. R \in SUBSET (1 .. k) /\ s[Max(T)] \in X
      BY <1>3, <2>0, <2>1, <2>4
    <3>2. Goes(h, T) = Kept(h[R], s[Max(T)])
      BY <2>4
    <3> HIDE DEF Goes, R, n
    <3>3. h[R] \in Seq(Y)
      BY <2>1, <3>1
    <3> QED
      BY <1>2, <2>2, <3>1, <3>2, <3>3
  <2> QED
    BY <2>3, <2>4
<1>11. n \in Q
  <2>1. Q \in SUBSET Nat
    OBVIOUS
  <2> HIDE DEF Q
  <2> QED
    BY <1>0, <1>9, <1>10, <2>1, InductiveIsNat
<1> DEFINE g == [k \in 0 .. n |-> h[1 .. k]]
<1>12. \A k \in 0 .. n : h[1 .. k] \in Seq(Y)
  <2>1. n <= n
    BY <1>0
  <2>2. \A T \in SUBSET (1 .. n) : h[T] \in Seq(Y)
    <3> HIDE DEF n, Goes
    <3> QED
      BY <1>11, <2>1
  <2>3. \A k \in 0 .. n : 1 .. k \in SUBSET (1 .. n)
    BY <1>0
  <2> HIDE DEF n, Goes, Q
  <2> QED
    BY <2>2, <2>3
<1>13. g \in [0 .. n -> Seq(Y)]
  <2> HIDE DEF n, Goes, Q
  <2> QED
    BY <1>12
<1>14. g[0] = <<>>
  <2>1. 1 .. 0 = {} /\ {} \in SUBSET (1 .. n) /\ 0 \in 0 .. n
    BY <1>0
  <2>2. h[{}] = <<>>
    BY <1>8, <2>1
  <2> HIDE DEF n, Goes, Q
  <2> QED
    BY <2>1, <2>2
<1>15. ASSUME NEW k \in 1 .. n
       PROVE  g[k] = Kept(g[k - 1], s[k])
  <2> DEFINE T == 1 .. k
  <2>1. /\ k - 1 \in Nat /\ k = (k - 1) + 1 /\ k \in T /\ T # {}
        /\ T \in SUBSET (1 .. n) /\ T \ {k} = 1 .. k - 1
        /\ k \in 0 .. n /\ k - 1 \in 0 .. n
    BY <1>0, SMTT(30)
  <2>2. Max(T) = k
    BY <2>1, WithoutLast
  <2>3. Goes(h, T) = Kept(h[1 .. k - 1], s[k])
    <3> HIDE DEF T, n
    <3> QED
      BY <2>1, <2>2
  <2>4. h[T] = Goes(h, T)
    <3> HIDE DEF T, n, Goes
    <3> QED
      BY <1>8, <2>1
  <2>5. g[k] = h[T] /\ g[k - 1] = h[1 .. k - 1]
    <3> HIDE DEF n, Goes, Q
    <3> QED
      BY <2>1
  <2> HIDE DEF g, T, Goes, n, Q
  <2> QED
    BY <2>3, <2>4, <2>5
<1>16. Collapsed(s) = g[n]
  <2>1. n \in 0 .. n
    BY <1>0
  <2> HIDE DEF n, Goes, Q
  <2> QED
    BY <1>0, <1>1, <2>1
<1> HIDE DEF g, Goes, Q
<1> QED
  BY <1>13, <1>14, <1>15, <1>16

LEMMA CollapsedIs ==
  ASSUME NEW X, NEW s \in Seq(X), NEW Y, Space \in Y,
         \A x \in X : x \notin White => Folded(x) \in Y
  PROVE  Collapsed(s) \in Seq(Y)
<1>1. PICK g \in [0 .. Len(s) -> Seq(Y)] : Collapsed(s) = g[Len(s)]
  BY CollapsedUnfolds
<1>2. Len(s) \in 0 .. Len(s)
  OBVIOUS
<1> QED
  BY <1>1, <1>2

\* One pass of decoding takes this of a token.
Plus == "+"
Once(x) ==
  IF x.t = "byte" THEN x
  ELSE IF x.k > 0 THEN [x EXCEPT !.k = @ - 1]
  ELSE IF x.t = Plus THEN Space
  ELSE x

ControlWords == {"<|", "|>", "[Context]", "[Payload]", "[Decoded]"}
InertWords == {"< |", "| >", "(Context)", "(Payload)", "(Decoded)"}

\* Plain tokens are apart as their words are.
LEMMA PlainIs ==
  \A v, w : (Plain(v) = Plain(w) <=> v = w) /\ Plain(v).t = v /\ Plain(v).k = 0
BY Zenon DEF Plain, Encoded

\* The control tokens, and what they are defused to, by their words.
LEMMA ControlsAre ==
  /\ Controls = {Plain(w) : w \in ControlWords}
  /\ \A c \in Controls : \E w \in InertWords : Inert[c] = Plain(w)
<1>1. Controls = {Plain(w) : w \in ControlWords}
  BY Zenon DEF Controls, ControlWords
<1>2. ASSUME NEW c \in Controls
      PROVE  \E w \in InertWords : Inert[c] = Plain(w)
  <2>1. PICK w \in ControlWords : c.t = w
    <3>1. PICK w \in ControlWords : c = Plain(w)
      BY <1>1, Zenon
    <3> QED
      BY <3>1, PlainIs, Zenon
  <2>2. Inert[c] = Plain(CASE c.t = "<|" -> "< |" [] c.t = "|>" -> "| >"
                           [] c.t = "[Context]" -> "(Context)"
                           [] c.t = "[Payload]" -> "(Payload)"
                           [] c.t = "[Decoded]" -> "(Decoded)")
    BY Zenon DEF Inert
  <2>3. \/ Inert[c] = Plain("< |") \/ Inert[c] = Plain("| >")
        \/ Inert[c] = Plain("(Context)") \/ Inert[c] = Plain("(Payload)")
        \/ Inert[c] = Plain("(Decoded)")
    BY <2>1, <2>2, Zenon DEF ControlWords
  <2> QED
    BY <2>3, Zenon DEF InertWords
<1> QED
  BY <1>1, <1>2, Zenon

\* What a control token is defused to is none.
LEMMA InertIs ==
  \A c \in Controls : Inert[c] \notin Controls
<1>1. \A w \in InertWords : w \notin ControlWords
  BY Zenon DEF ControlWords, InertWords
<1>2. ASSUME NEW c \in Controls, Inert[c] \in Controls
      PROVE  FALSE
  <2>1. PICK w \in InertWords : Inert[c] = Plain(w)
    BY ControlsAre, Zenon
  <2>2. PICK v \in ControlWords : Inert[c] = Plain(v)
    BY <1>2, ControlsAre, Zenon
  <2>3. v = w
    BY <2>1, <2>2, PlainIs, Zenon
  <2> QED
    BY <1>1, <2>3, Zenon
<1> QED
  BY <1>2, Zenon

\* A space is neither a raw byte nor a control token; nor is a dot.
LEMMA SpaceIs ==
  /\ Space.k = 0 /\ Space.t # "byte" /\ Space.t # Plus
  /\ Space \in White /\ Space \notin Controls /\ Space \in Heading
  /\ Plain(".") \notin Controls
<1>1. Space = [t |-> " ", k |-> 0]
  BY Zenon DEF Space, Plain, Encoded
<1>2. Space.t = " " /\ Space.k = 0 /\ Space.t # "byte" /\ Space.t # Plus
  BY <1>1, Zenon DEF Plus
<1>3. Space \in White /\ Space \in Heading
  BY Zenon DEF Space, White, Heading
<1>4. " " \notin ControlWords /\ "." \notin ControlWords
  BY Zenon DEF ControlWords
<1>5. Space \notin Controls /\ Plain(".") \notin Controls
  BY <1>4, PlainIs, ControlsAre, Zenon DEF Space
<1> QED
  BY <1>2, <1>3, <1>5, Zenon

\* What a token becomes when it is decoded, before its letters are folded.
Decoded(x) == Encoded(x.t, Max({0, x.k - 3}))

\* A token with fewer than n layers left has none, one with more has n less; a plus may
\* have become a space.
Peeled(x, n) == [t |-> x.t, k |-> IF x.k <= n THEN 0 ELSE x.k - n]

\* One pass takes one layer off a token, or makes a space of a plus.
LEMMA OnceIs ==
  ASSUME NEW x \in Tokens
  PROVE  /\ x.t = "byte" => Once(x) = x
         /\ x.t # "byte" => Once(x) \in {Peeled(x, 1), Space}
         /\ Once(Space) = Space
         /\ \A n \in Nat : x.t # "byte" =>
              Once(Peeled(x, n)) \in {Peeled(x, n + 1), Space}
<1>1. x = [t |-> x.t, k |-> x.k] /\ x.k \in Nat
  BY DEF Tokens
<1>2. Once(Space) = Space
  BY SpaceIs DEF Once
<1>3. ASSUME NEW y, NEW m \in Nat, y = [t |-> x.t, k |-> m], x.t # "byte"
      PROVE  Once(y) \in {[t |-> x.t, k |-> IF m = 0 THEN 0 ELSE m - 1], Space}
  <2>1. y.t = x.t /\ y.k = m
    BY <1>3
  <2>2. CASE m > 0
    <3>1. Once(y) = [y EXCEPT !.k = @ - 1]
      BY <1>3, <2>1, <2>2 DEF Once
    <3>2. [y EXCEPT !.k = @ - 1] = [t |-> x.t, k |-> m - 1]
      BY <1>3, <2>1
    <3> QED
      BY <2>2, <3>1, <3>2
  <2>3. CASE m = 0
    BY <1>3, <2>1, <2>3 DEF Once
  <2> QED
    BY <2>2, <2>3
<1>4. x.t # "byte" => Once(x) \in {Peeled(x, 1), Space}
  <2> SUFFICES ASSUME x.t # "byte" PROVE Once(x) \in {Peeled(x, 1), Space}
    OBVIOUS
  <2>1. Once(x) \in {[t |-> x.t, k |-> IF x.k = 0 THEN 0 ELSE x.k - 1], Space}
    BY <1>1, <1>3
  <2>2. (IF x.k = 0 THEN 0 ELSE x.k - 1) = (IF x.k <= 1 THEN 0 ELSE x.k - 1)
    BY <1>1
  <2> QED
    BY <2>1, <2>2 DEF Peeled
<1>5. ASSUME NEW n \in Nat, x.t # "byte"
      PROVE  Once(Peeled(x, n)) \in {Peeled(x, n + 1), Space}
  <2> DEFINE m == IF x.k <= n THEN 0 ELSE x.k - n
  <2>1. m \in Nat
    BY <1>1
  <2>2. Peeled(x, n) = [t |-> x.t, k |-> m]
    BY DEF Peeled
  <2>3. (IF m = 0 THEN 0 ELSE m - 1) = (IF x.k <= n + 1 THEN 0 ELSE x.k - (n + 1))
    BY <1>1
  <2> HIDE DEF m
  <2>4. Once(Peeled(x, n)) \in {[t |-> x.t, k |-> IF m = 0 THEN 0 ELSE m - 1], Space}
    BY <1>3, <1>5, <2>1, <2>2
  <2> QED
    BY <2>3, <2>4 DEF Peeled
<1>6. x.t = "byte" => Once(x) = x
  BY DEF Once
<1> QED
  BY <1>2, <1>4, <1>5, <1>6

\* Decoding peels three layers.
LEMMA DecodedIs ==
  ASSUME NEW x \in Tokens
  PROVE  Decoded(x) = Peeled(x, 3) /\ Decoded(x) \in Tokens
<1>1. x.k \in Nat /\ x.k - 3 \in Int /\ x.t \in STRING
  BY DEF Tokens
<1>2. Max({0, x.k - 3}) = IF 0 <= x.k - 3 THEN x.k - 3 ELSE 0
  <2> DEFINE d == x.k - 3
  <2>1. d \in Int
    BY <1>1
  <2> HIDE DEF d
  <2>2. Max({0, d}) = IF 0 <= d THEN d ELSE 0
    BY <2>1, MinOfTwo
  <2> QED
    BY <2>2 DEF d
<1>3. Max({0, x.k - 3}) = IF x.k <= 3 THEN 0 ELSE x.k - 3
  BY <1>1, <1>2
<1>4. Decoded(x) = Peeled(x, 3)
  BY <1>3 DEF Peeled, Decoded, Encoded
<1>5. Peeled(x, 3) \in Tokens
  BY <1>1 DEF Peeled, Tokens
<1> QED
  BY <1>4, <1>5

\* Three passes take at most three layers off.
LEMMA ThreeTimes ==
  ASSUME NEW x \in Tokens
  PROVE  /\ x.t = "byte" => Once(Once(Once(x))) = x
         /\ x.t # "byte" => Once(Once(Once(x))) \in {Decoded(x), Space}
<1>1. x.t = "byte" => Once(Once(Once(x))) = x
  BY OnceIs
<1>2. ASSUME x.t # "byte"
      PROVE  Once(Once(Once(x))) \in {Decoded(x), Space}
  <2>1. Once(Space) = Space /\ Once(x) \in {Peeled(x, 1), Space}
    BY <1>2, OnceIs
  <2>2. /\ Once(Peeled(x, 1)) \in {Peeled(x, 1 + 1), Space}
        /\ Once(Peeled(x, 2)) \in {Peeled(x, 2 + 1), Space}
    BY <1>2, OnceIs
  <2>3. 1 + 1 = 2 /\ 2 + 1 = 3
    OBVIOUS
  <2>4. Once(Once(Once(x))) \in {Peeled(x, 3), Space}
    BY <2>1, <2>2, <2>3
  <2>5. Peeled(x, 3) = Decoded(x)
    BY DecodedIs
  <2> QED
    BY <2>4, <2>5
<1> QED
  BY <1>1, <1>2

\* Decoding works on each token by itself.
LEMMA DecodeIs ==
  ASSUME NEW p
  PROVE  Decode(p) = [i \in DOMAIN p |-> Once(Once(Once(p[i])))]
<1>1. \A q : DecodeOnce(q) = [i \in DOMAIN q |-> Once(q[i])]
  BY Zenon DEF DecodeOnce, Once, Plus, Space
<1>2. \A q : /\ DOMAIN DecodeOnce(q) = DOMAIN q
             /\ \A i \in DOMAIN q : DecodeOnce(q)[i] = Once(q[i])
  BY <1>1
<1>3. Decode(p) = [i \in DOMAIN p |-> Once(DecodeOnce(DecodeOnce(p))[i])]
  BY <1>1, <1>2 DEF Decode
<1> QED
  BY <1>2, <1>3

\* Folding leaves a byte as it is.
LEMMA ByteStays ==
  ASSUME NEW x, x.t = "byte"
  PROVE  Folded(x) = x
BY AnalysisAssumption, Zenon DEF AnalysisAssumption, Folded

\* The canonical form is made of spaces and of the folded tokens of the payload.
LEMMA NormalIs ==
  ASSUME NEW p \in Seq(Tokens), NEW Y, Space \in Y,
         \A j \in 1 .. Len(p) : /\ p[j].t = "byte" => p[j] \in Y
                                /\ Folded(Decoded(p[j])) \in Y
  PROVE  normalize_payload(p) \in Seq(Y)
<1> DEFINE q == Window(p, MaxNorm)
           X == {Once(Once(Once(q[i]))) : i \in 1 .. Len(q)}
<1>1. /\ q \in Seq(Tokens) /\ Len(q) <= Len(p) /\ \A i \in 1 .. Len(q) : q[i] = p[i]
  <2>1. MaxNorm \in Nat
    BY AnalysisAssumption DEF AnalysisAssumption
  <2> QED
    BY <2>1, WindowIs
<1> HIDE DEF q
<1>2. Decode(q) \in Seq(X)
  <2>1. Decode(q) = [i \in 1 .. Len(q) |-> Once(Once(Once(q[i])))]
    BY <1>1, DecodeIs
  <2>2. \A i \in 1 .. Len(q) : Once(Once(Once(q[i]))) \in X
    OBVIOUS
  <2>3. Len(q) \in Nat
    BY <1>1
  <2> HIDE DEF X
  <2>4. Decode(q) \in [1 .. Len(q) -> X]
    BY <2>1, <2>2
  <2> QED
    BY <2>3, <2>4
<1>3. Uncommented(Decode(q)) \in Seq(X)
  <2> HIDE DEF X
  <2> QED
    BY <1>2, UncommentedIs
<1>4. ASSUME NEW x \in X, x \notin White
      PROVE  Folded(x) \in Y
  <2>1. PICK i \in 1 .. Len(q) : x = Once(Once(Once(q[i])))
    OBVIOUS
  <2>2. i \in 1 .. Len(p) /\ q[i] = p[i] /\ p[i] \in Tokens
    BY <1>1
  <2>3. CASE p[i].t = "byte"
    <3>1. x = p[i]
      BY <2>1, <2>2, <2>3, ThreeTimes
    <3> QED
      BY <2>2, <2>3, <3>1, ByteStays
  <2>4. CASE p[i].t # "byte"
    <3>1. x \in {Decoded(p[i]), Space}
      BY <2>1, <2>2, <2>4, ThreeTimes
    <3>2. x = Decoded(p[i])
      BY <1>4, <3>1, SpaceIs
    <3> QED
      BY <2>2, <3>2
  <2> QED
    BY <2>3, <2>4
<1>5. Collapsed(Uncommented(Decode(q))) \in Seq(Y)
  <2> HIDE DEF X
  <2> QED
    BY <1>3, <1>4, CollapsedIs
<1> QED
  BY <1>5 DEF normalize_payload, q

\* What a flow may put into a prompt or an alert.
FlowWords(p) == Heading \cup UNION {Forms(p[j]) : j \in DOMAIN p}

\* What Forms holds, one form after the other.
LEMMA FormsHave ==
  ASSUME NEW x
  PROVE  /\ {Decoded(x), Folded(Decoded(x)), x} \subseteq Forms(x)
         /\ \A y \in {Decoded(x), Folded(Decoded(x)), x} :
              y \in Controls => Inert[y] \in Forms(x)
         /\ ~Ink(x) => Plain(".") \in Forms(x)
BY Zenon DEF Forms, Decoded

\* What the sanitizer leaves of a token that is the flow's: one that is the flow's, and
\* none that structures the prompt.
LEMMA SanitizedIs ==
  ASSUME NEW X, NEW s \in Seq(X), NEW Y,
         \A x \in X : IF x \in Controls THEN Inert[x] \in Y ELSE x \in Y
  PROVE  /\ sanitize_for_prompt(s) \in Seq(Y)
         /\ Len(sanitize_for_prompt(s)) = Len(s)
         /\ \A i \in 1 .. Len(s) : sanitize_for_prompt(s)[i] \notin Controls
<1> DEFINE C(x) == IF x \in Controls THEN Inert[x] ELSE x
<1>1. sanitize_for_prompt(s) = [i \in 1 .. Len(s) |-> C(s[i])]
  BY DEF sanitize_for_prompt
<1>2. \A x \in X : C(x) \in Y /\ C(x) \notin Controls
  BY InertIs
<1>3. \A i \in 1 .. Len(s) : s[i] \in X
  OBVIOUS
<1>4. Len(s) \in Nat
  OBVIOUS
<1> HIDE DEF C
<1>5. \A i \in 1 .. Len(s) : sanitize_for_prompt(s)[i] \in Y
                             /\ sanitize_for_prompt(s)[i] \notin Controls
  BY <1>1, <1>2, <1>3
<1>6. sanitize_for_prompt(s) \in [1 .. Len(s) -> Y]
  BY <1>1, <1>2, <1>3
<1> QED
  BY <1>4, <1>5, <1>6

\* Short texts, written out.
LEMMA TextIs ==
  /\ \A a : Text(<<a>>) = <<Plain(a)>>
  /\ \A a, b, c : Text(<<a, b, c>>) = <<Plain(a), Plain(b), Plain(c)>>
  /\ \A a, b, c, d : Text(<<a, b, c, d>>) = <<Plain(a), Plain(b), Plain(c), Plain(d)>>
BY DEF Text

\* The heading of the decoded text, on a line of its own.
NewLine == Plain("\n")
DecodedHeading == Plain("[Decoded]")
Middle == <<NewLine, DecodedHeading, NewLine>>

\* The heading's line, token by token.
LEMMA MiddleIs ==
  /\ Text(<<"\n", "[Decoded]", "\n">>) = Middle
  /\ Middle \in Seq(Heading) /\ Len(Middle) = 3 /\ NewLine \notin Controls
  /\ Middle[1] = NewLine /\ Middle[2] = DecodedHeading /\ Middle[3] = NewLine
<1>1. Text(<<"\n", "[Decoded]", "\n">>) = Middle
  BY TextIs, Zenon DEF Middle, NewLine, DecodedHeading
<1>2. NewLine \in Heading /\ DecodedHeading \in Heading
  BY Zenon DEF Heading, NewLine, DecodedHeading
<1>3. NewLine \notin Controls
  <2>1. "\n" \notin ControlWords
    BY Zenon DEF ControlWords
  <2> QED
    BY <2>1, PlainIs, ControlsAre, Zenon DEF NewLine
<1>4. Middle \in Seq(Heading) /\ Len(Middle) = 3
      /\ Middle[1] = NewLine /\ Middle[2] = DecodedHeading /\ Middle[3] = NewLine
  BY <1>2 DEF Middle
<1> QED
  BY <1>1, <1>3, <1>4

\* In s, only the heading of the decoded text structures the prompt, at one place at most,
\* after the end of a line.
OnlyHeading(s) ==
  \E h \in Nat : \A i \in 1 .. Len(s) :
    s[i] \in Controls => i = h /\ h > 1 /\ s[i] = DecodedHeading /\ s[i - 1] = NewLine

\* What the model is shown is the flow's, and holds no token that structures a prompt
\* but that one.
LEMMA FlowTextIs ==
  ASSUME NEW p \in Seq(Tokens)
  PROVE  /\ FlowText(p, normalize_payload(p)) \in Seq(FlowWords(p))
         /\ OnlyHeading(FlowText(p, normalize_payload(p)))
<1> DEFINE Y == FlowWords(p)
           a == sanitize_for_prompt(Shown(p))
           n == Window(normalize_payload(p), CharLimit)
           b == sanitize_for_prompt(n)
           w == Window(p, CharLimit)
<1>0. CharLimit \in Nat
  BY AnalysisAssumption DEF AnalysisAssumption
<1>1. /\ \A j \in 1 .. Len(p) : Forms(p[j]) \subseteq Y
      /\ Heading \subseteq Y
  BY DEF FlowWords
<1>2. a \in Seq(Y) /\ \A i \in 1 .. Len(a) : a[i] \notin Controls
  <2> DEFINE X == {x \in Y : x \in Controls => Inert[x] \in Y}
  <2>1. w \in Seq(Tokens) /\ Len(w) <= Len(p) /\ \A i \in 1 .. Len(w) : w[i] = p[i]
    BY <1>0, WindowIs
  <2> HIDE DEF w
  <2>2. /\ Len(w) \in Nat
        /\ Shown(p) = [i \in 1 .. Len(w) |-> IF Ink(p[i]) THEN p[i] ELSE Plain(".")]
    BY <2>1 DEF Shown, w
  <2>3. ASSUME NEW i \in 1 .. Len(w)
        PROVE  Shown(p)[i] \in X
    <3>1. i \in 1 .. Len(p)
      BY <2>1
    <3>2. Forms(p[i]) \subseteq Y
      BY <1>1, <3>1
    <3> HIDE DEF Y
    <3>3. p[i] \in X
      BY <3>2, FormsHave
    <3> DEFINE dot == Plain(".")
    <3>4. ~Ink(p[i]) => dot \in X
      <4>1. ~Ink(p[i]) => dot \in Forms(p[i])
        BY FormsHave
      <4>2. dot \notin Controls
        BY SpaceIs
      <4> HIDE DEF dot
      <4> QED
        BY <3>2, <4>1, <4>2
    <3>5. Shown(p)[i] = IF Ink(p[i]) THEN p[i] ELSE dot
      <4> HIDE DEF X
      <4> DEFINE S(d) == [j \in 1 .. Len(w) |-> IF Ink(p[j]) THEN p[j] ELSE d]
      <4>1. \A d : S(d)[i] = IF Ink(p[i]) THEN p[i] ELSE d
        OBVIOUS
      <4>2. Shown(p) = S(dot)
        BY <2>2, Zenon
      <4> HIDE DEF S, dot
      <4> QED
        BY <4>1, <4>2
    <3> HIDE DEF X, dot
    <3> QED
      BY <3>3, <3>4, <3>5
  <2>4. Shown(p) \in Seq(X)
    <3> HIDE DEF X
    <3>1. DOMAIN Shown(p) = 1 .. Len(w)
      BY DEF Shown, w
    <3>2. Shown(p) = [i \in 1 .. Len(w) |-> Shown(p)[i]]
      <4> DEFINE S(d) == [j \in 1 .. Len(w) |-> IF Ink(p[j]) THEN p[j] ELSE d]
      <4>1. \A d : S(d) = [i \in 1 .. Len(w) |-> S(d)[i]]
        OBVIOUS
      <4>2. \E d : Shown(p) = S(d)
        BY <2>2, Zenon
      <4> HIDE DEF S
      <4> QED
        BY <4>1, <4>2
    <3>3. Shown(p) \in [1 .. Len(w) -> X]
      BY <2>3, <3>2
    <3> QED
      BY <2>2, <3>3
  <2>5. \A x \in X : IF x \in Controls THEN Inert[x] \in Y ELSE x \in Y
    <3> HIDE DEF Y
    <3> QED
      OBVIOUS
  <2> HIDE DEF X, Y
  <2> QED
    BY <2>4, <2>5, SanitizedIs
<1>3. b \in Seq(Y) /\ \A i \in 1 .. Len(b) : b[i] \notin Controls
  <2> DEFINE X == {x \in Y : x \in Controls => Inert[x] \in Y}
  <2>1. Space \in X
    BY <1>1, SpaceIs
  <2>2. ASSUME NEW j \in 1 .. Len(p)
        PROVE  p[j] \in X /\ Folded(Decoded(p[j])) \in X
    <3>1. Forms(p[j]) \subseteq Y
      BY <1>1
    <3> HIDE DEF Y
    <3> QED
      BY <3>1, FormsHave
  <2>3. \A x \in X : IF x \in Controls THEN Inert[x] \in Y ELSE x \in Y
    <3> HIDE DEF Y
    <3> QED
      OBVIOUS
  <2> HIDE DEF X
  <2>4. normalize_payload(p) \in Seq(X)
    BY <2>1, <2>2, NormalIs
  <2>5. n \in Seq(X)
    BY <1>0, <2>4, WindowIs
  <2> HIDE DEF Y, n
  <2> QED
    BY <2>3, <2>5, SanitizedIs
<1>4. Middle \in Seq(Y) /\ Len(Middle) = 3 /\ NewLine \notin Controls
      /\ Middle[1] = NewLine /\ Middle[2] = DecodedHeading /\ Middle[3] = NewLine
  <2> HIDE DEF Y
  <2>1. Middle \in Seq(Y)
    BY <1>1, MiddleIs, SeqWithin
  <2> QED
    BY <2>1, MiddleIs
<1>5. \/ FlowText(p, normalize_payload(p)) = a
      \/ FlowText(p, normalize_payload(p)) = (a \o Middle) \o b
  BY MiddleIs, Zenon DEF FlowText
<1> HIDE DEF a, b, Y, n, w
<1>6. OnlyHeading(a)
  BY <1>2 DEF OnlyHeading
<1>7. OnlyHeading((a \o Middle) \o b)
  <2> DEFINE s == (a \o Middle) \o b
             h == Len(a) + 2
  <2>0. Len(a) \in Nat /\ Len(b) \in Nat
    BY <1>2, <1>3
  <2>1. /\ Len(s) = Len(a) + 3 + Len(b)
        /\ \A i \in 1 .. Len(a) : s[i] = a[i]
        /\ s[Len(a) + 1] = NewLine /\ s[Len(a) + 2] = DecodedHeading
        /\ s[Len(a) + 3] = NewLine
        /\ \A i \in 1 .. Len(b) : s[Len(a) + 3 + i] = b[i]
    <3> DEFINE am == a \o Middle
    <3>1. am \in Seq(Y) /\ Joined(am, a, Middle)
      BY <1>2, <1>4, ConcatIs
    <3> HIDE DEF am
    <3>2. Joined(am \o b, am, b)
      BY <1>3, <3>1, ConcatIs
    <3>3. s = am \o b
      BY DEF am
    <3> HIDE DEF s
    <3>4. Len(am) = Len(a) + 3 /\ Len(s) = Len(am) + Len(b)
      BY <1>4, <3>1, <3>2, <3>3 DEF Joined
    <3>5. \A i \in 1 .. Len(a) : s[i] = a[i]
      BY <2>0, <3>1, <3>2, <3>3, <3>4 DEF Joined
    <3>6. \A i \in 1 .. 3 : s[Len(a) + i] = Middle[i]
      BY <1>4, <2>0, <3>1, <3>2, <3>3, <3>4, SMTT(30) DEF Joined
    <3>7. \A i \in 1 .. Len(b) : s[Len(am) + i] = b[i]
      BY <3>2, <3>3 DEF Joined
    <3> QED
      BY <1>4, <3>4, <3>5, <3>6, <3>7
  <2> HIDE DEF s
  <2>2. ASSUME NEW i \in 1 .. Len(s), s[i] \in Controls
        PROVE  i = h /\ h > 1 /\ s[i] = DecodedHeading /\ s[i - 1] = NewLine
    <3>1. \/ i \in 1 .. Len(a) \/ i = Len(a) + 1 \/ i = Len(a) + 2 \/ i = Len(a) + 3
          \/ i - Len(a) - 3 \in 1 .. Len(b)
      <4>1. Len(s) = Len(a) + 3 + Len(b)
        BY <2>1
      <4> QED
        BY <2>0, <4>1
    <3>2. CASE i \in 1 .. Len(a)
      BY <1>2, <2>1, <2>2, <3>2
    <3>3. CASE i = Len(a) + 1 \/ i = Len(a) + 3
      BY <1>4, <2>1, <2>2, <3>3
    <3>4. CASE i = Len(a) + 2
      <4>1. i - 1 = Len(a) + 1
        BY <2>0, <3>4
      <4> QED
        BY <2>0, <2>1, <3>4, <4>1
    <3>5. CASE i - Len(a) - 3 \in 1 .. Len(b)
      <4>1. i = Len(a) + 3 + (i - Len(a) - 3)
        BY <2>0
      <4>2. s[i] = b[i - Len(a) - 3]
        BY <2>1, <3>5, <4>1
      <4> QED
        BY <1>3, <2>2, <3>5, <4>2
    <3> QED
      BY <3>1, <3>2, <3>3, <3>4, <3>5
  <2>3. h \in Nat
    BY <2>0
  <2> HIDE DEF h
  <2> QED
    BY <2>2, <2>3 DEF OnlyHeading, s
<1>8. (a \o Middle) \o b \in Seq(Y)
  <2>1. a \o Middle \in Seq(Y)
    BY <1>2, <1>4, ConcatIs
  <2> QED
    BY <1>3, <2>1, ConcatIs
<1> QED
  BY <1>2, <1>5, <1>6, <1>7, <1>8 DEF Y

-------------------------------------------------------------------------------
(* The verdicts: what an answer can become                                     *)

Colon == Plain(":")
Open == Plain("{")
Close == Plain("}")
Keys == {"threat_type", "severity", "snippet"}
JsonTokens == Tokens \cup {Quote, Escape, Colon, Open, Close} \cup {Plain(w) : w \in Keys}

\* A member of an answer's object, written out, is tokens of JSON.
LEMMA MemberIs ==
  ASSUME NEW key \in Keys, NEW v \in Seq(Tokens)
  PROVE  Member(key, v) \in Seq(JsonTokens)
<1> DEFINE K == Plain(key)
           body == [i \in DOMAIN v |-> IF v[i] = Quote THEN Escape ELSE v[i]]
           edge == <<Quote>>
           head == <<Quote, K, Quote, Colon>>
<1>1. Member(key, v) = head \o ((edge \o body) \o edge)
  BY Zenon DEF Member, QuotedText, Colon
<1>2. /\ Quote \in JsonTokens /\ Escape \in JsonTokens /\ Colon \in JsonTokens
      /\ K \in JsonTokens /\ Tokens \subseteq JsonTokens
  BY DEF JsonTokens
<1> HIDE DEF K
<1>3. head \in Seq(JsonTokens) /\ edge \in Seq(JsonTokens)
  BY <1>2
<1>4. body \in Seq(JsonTokens)
  <2>1. \A i \in 1 .. Len(v) : (IF v[i] = Quote THEN Escape ELSE v[i]) \in JsonTokens
    BY <1>2
  <2>2. body \in [1 .. Len(v) -> JsonTokens]
    BY <2>1
  <2>3. Len(v) \in Nat
    OBVIOUS
  <2> HIDE DEF body
  <2> QED
    BY <2>2, <2>3
<1> HIDE DEF head, edge, body
<1>5. edge \o body \in Seq(JsonTokens)
  BY <1>3, <1>4, ConcatIs
<1>6. (edge \o body) \o edge \in Seq(JsonTokens)
  BY <1>3, <1>5, ConcatIs
<1>7. head \o ((edge \o body) \o edge) \in Seq(JsonTokens)
  BY <1>3, <1>6, ConcatIs
<1> QED
  BY <1>1, <1>7

\* So is an answer, whatever follows its object.
LEMMA JsonIs ==
  ASSUME NEW a, {a.type, a.severity, a.snippet, a.rest} \subseteq Seq(Tokens)
  PROVE  Json(a) \in Seq(JsonTokens)
<1> DEFINE m1 == Member("threat_type", a.type)
           m2 == Member("severity", a.severity)
           m3 == Member("snippet", a.snippet)
           o == <<Open>>
           c == <<Close>>
           oc == <<Open, Close>>
<1>1. m1 \in Seq(JsonTokens) /\ m2 \in Seq(JsonTokens) /\ m3 \in Seq(JsonTokens)
  BY MemberIs DEF Keys
<1>2. \A x, y : Text(<<x, y>>) = <<Plain(x), Plain(y)>>
  BY DEF Text
<1>3. \/ Json(a) = oc
      \/ Json(a) = (((((o \o m1) \o m2) \o m3) \o c) \o a.rest)
  <2>1. Text(<<"{", "}">>) = oc
    BY <1>2, Zenon DEF Open, Close
  <2>2. Text(<<"{">>) = o /\ Text(<<"}">>) = c
    BY TextIs, Zenon DEF Open, Close
  <2> HIDE DEF o, c, oc
  <2> QED
    BY <2>1, <2>2, Zenon DEF Json
<1>4. o \in Seq(JsonTokens) /\ c \in Seq(JsonTokens) /\ oc \in Seq(JsonTokens)
      /\ a.rest \in Seq(JsonTokens)
  <2>1. Open \in JsonTokens /\ Close \in JsonTokens /\ Tokens \subseteq JsonTokens
    BY DEF JsonTokens
  <2> QED
    BY <2>1
<1> HIDE DEF o, c, oc, m1, m2, m3
<1>5. o \o m1 \in Seq(JsonTokens)
  BY <1>1, <1>4, ConcatIs
<1>6. (o \o m1) \o m2 \in Seq(JsonTokens)
  BY <1>1, <1>5, ConcatIs
<1>7. ((o \o m1) \o m2) \o m3 \in Seq(JsonTokens)
  BY <1>1, <1>6, ConcatIs
<1>8. (((o \o m1) \o m2) \o m3) \o c \in Seq(JsonTokens)
  BY <1>4, <1>7, ConcatIs
<1>9. ((((o \o m1) \o m2) \o m3) \o c) \o a.rest \in Seq(JsonTokens)
  BY <1>4, <1>8, ConcatIs
<1> QED
  BY <1>3, <1>4, <1>9

\* So is what is left when it is cut at its first closing brace.
LEMMA TrimmedIs ==
  ASSUME NEW json \in Seq(JsonTokens)
  PROVE  Trimmed(json) \in Seq(JsonTokens)
<1> DEFINE C == Closings(json)
<1>1. C \in SUBSET (1 .. Len(json))
  <2>1. C = {i \in DOMAIN json : json[i] = Close}
    BY Zenon DEF Closings, Close
  <2> QED
    BY <2>1
<1>2. Trimmed(json) = IF C = {} THEN json ELSE SubSeq(json, 1, Min(C))
  BY Zenon DEF Trimmed
<1> HIDE DEF C
<1>3. C # {} => Min(C) \in 1 .. Len(json)
  <2>1. C \in SUBSET Nat
    BY <1>1
  <2> QED
    BY <1>1, <2>1, MinIs
<1>4. C # {} => SubSeq(json, 1, Min(C)) \in Seq(JsonTokens)
  BY <1>3
<1> QED
  BY <1>2, <1>4

\* A field that is found is a text, whatever lies around it.
LEMMA FieldIs ==
  ASSUME NEW json \in Seq(JsonTokens), NEW key
  PROVE  extract_json_field(json, key) \in Seq(JsonTokens)
<1> DEFINE n == Len(json)
           keys == {i \in 1 .. Len(json) - 2 :
                     json[i] = Quote /\ json[i + 1] = Plain(key) /\ json[i + 2] = Quote}
           after(from, x) == {i \in from .. Len(json) : json[i] = x}
           colon == IF keys = {} THEN {} ELSE after(Min(keys) + 3, Colon)
           open == IF colon = {} THEN {} ELSE after(Min(colon) + 1, Quote)
           close == IF open = {} THEN {} ELSE after(Min(open) + 1, Quote)
           field == [i \in 1 .. Min(close) - Min(open) - 1 |->
                      IF json[Min(open) + i] = Escape THEN Quote ELSE json[Min(open) + i]]
<1>1. extract_json_field(json, key) = IF close = {} THEN <<>> ELSE field
  BY Zenon DEF extract_json_field, Colon
<1>2. ASSUME NEW from \in Nat, NEW x
      PROVE  after(from, x) \in SUBSET Nat /\ \A i \in after(from, x) : from <= i /\ i <= n
  OBVIOUS
<1>3. n \in Nat /\ <<>> \in Seq(JsonTokens)
  BY SMTT(30)
<1> SUFFICES ASSUME close # {} PROVE field \in Seq(JsonTokens)
  BY <1>1, <1>3
<1>4. keys # {} /\ colon # {} /\ open # {}
  OBVIOUS
<1>5. Min(keys) \in Nat
  <2>1. keys \in SUBSET Nat
    OBVIOUS
  <2> HIDE DEF keys
  <2> QED
    BY <1>4, <2>1, MinIs
<1>6. Min(colon) \in Nat
  <2> DEFINE k == Min(keys) + 3
  <2>1. k \in Nat
    BY <1>5
  <2>2. colon = after(k, Colon)
    BY <1>4
  <2> HIDE DEF k, colon, after
  <2>3. colon \in SUBSET Nat
    BY <1>2, <2>1, <2>2
  <2> QED
    BY <1>4, <2>3, MinIs
<1>7. Min(open) \in Nat
  <2> DEFINE k == Min(colon) + 1
  <2>1. k \in Nat
    BY <1>6
  <2>2. open = after(k, Quote)
    BY <1>4
  <2> HIDE DEF k, open, after
  <2>3. open \in SUBSET Nat
    BY <1>2, <2>1, <2>2
  <2> QED
    BY <1>4, <2>3, MinIs
<1>8. Min(close) \in Nat /\ Min(open) + 1 <= Min(close) /\ Min(close) <= n
  <2> DEFINE k == Min(open) + 1
  <2>1. k \in Nat
    <3> HIDE DEF open
    <3> QED
      BY <1>7
  <2>2. close = after(k, Quote)
    BY <1>4
  <2>3. close # {}
    OBVIOUS
  <2> HIDE DEF k, close, after
  <2>4. close \in SUBSET Nat /\ \A i \in close : k <= i /\ i <= n
    BY <1>2, <2>1, <2>2
  <2>5. Min(close) \in close
    BY <2>3, <2>4, MinIs
  <2> QED
    BY <2>4, <2>5 DEF k
<1>9. \A i \in 1 .. Min(close) - Min(open) - 1 : json[Min(open) + i] \in JsonTokens
  <2> DEFINE p == Min(open)
             q == Min(close)
  <2>1. p \in Nat /\ q \in Nat /\ q <= n
    BY <1>7, <1>8
  <2> HIDE DEF p, q, keys, colon, open, close, after, field
  <2>2. \A i \in 1 .. q - p - 1 : p + i \in 1 .. n
    BY <1>3, <2>1
  <2>3. \A i \in 1 .. n : json[i] \in JsonTokens
    OBVIOUS
  <2>4. \A i \in 1 .. q - p - 1 : json[p + i] \in JsonTokens
    <3> HIDE DEF n
    <3> QED
      BY <2>2, <2>3
  <2> QED
    BY <2>4 DEF p, q
<1>10. Quote \in JsonTokens
  BY DEF JsonTokens
<1> DEFINE p == Min(open)
           q == Min(close)
<1>11. p \in Nat /\ q \in Nat /\ q - p - 1 \in Nat
  <2> HIDE DEF open, close, field
  <2> QED
    BY <1>7, <1>8
<1>12. field = [i \in 1 .. q - p - 1 |-> IF json[p + i] = Escape THEN Quote ELSE json[p + i]]
  OBVIOUS
<1>13. \A i \in 1 .. q - p - 1 : json[p + i] \in JsonTokens
  BY <1>9
<1> HIDE DEF keys, colon, open, close, after, field, p, q
<1>14. field \in [1 .. q - p - 1 -> JsonTokens]
  BY <1>10, <1>12, <1>13
<1> QED
  BY <1>11, <1>14

\* A resolved severity is no graver than the curated one.
LEMMA ResolvedIs ==
  \A type, said : resolve_severity(type, said) <= severity_for_threat(type)
<1>1. \A type : severity_for_threat(type) \in Int
  BY DEF severity_for_threat, Critical, High, Medium
<1>2. \A said \in DOMAIN Words : Words[said] \in Int
  BY DEF Words, Critical, High, Medium, Low, Info
<1> QED
  BY <1>1, <1>2 DEF resolve_severity

\* A snippet that occurs in the text, in any case of letters, has its tokens from there.
LEMMA QuotedIs ==
  ASSUME NEW X, NEW t \in Seq(X), NEW Z, NEW s \in Seq(Z), payload_contains_snippet(t, s)
  PROVE  \A j \in DOMAIN s : \E i \in 1 .. Len(t) : Folded(s[j]) = Folded(t[i])
<1> DEFINE lt == Lower(t)
           ls == Lower(s)
<1>0. Len(s) \in Nat /\ Len(t) \in Nat
  OBVIOUS
<1>1. /\ Len(lt) = Len(t) /\ \A i \in 1 .. Len(t) : lt[i] = Folded(t[i])
      /\ Len(ls) = Len(s) /\ DOMAIN ls = 1 .. Len(s)
      /\ \A j \in 1 .. Len(s) : ls[j] = Folded(s[j])
  BY <1>0 DEF Lower
<1>2. Occurs(lt, ls)
  BY DEF payload_contains_snippet
<1> HIDE DEF lt, ls
<1>3. PICK i \in 0 .. Len(t) - Len(s) : \A j \in 1 .. Len(s) : lt[i + j] = ls[j]
  BY <1>1, <1>2 DEF Occurs
<1>4. ASSUME NEW j \in 1 .. Len(s)
      PROVE  i + j \in 1 .. Len(t) /\ Folded(s[j]) = Folded(t[i + j])
  <2>1. i + j \in 1 .. Len(t)
    BY <1>0
  <2> QED
    BY <1>1, <1>3, <2>1
<1> QED
  BY <1>4

\* An alert on an answer, for the text t of the flow f.
Grounded(v, t, f) ==
  /\ \A j \in DOMAIN v.snippet : \E i \in 1 .. Len(t) : Folded(v.snippet[j]) = Folded(t[i])
  /\ f.server => v.type \in FromServers
  /\ v.level <= severity_for_threat(v.type)

\* Every alert that an answer raises is grounded: the checks that led to it were passed.
LEMMA JudgedIs ==
  ASSUME NEW a, {a.type, a.severity, a.snippet, a.rest} \subseteq Seq(Tokens),
         NEW X, NEW t \in Seq(X), NEW f, NEW v \in Judged(a, t, f)
  PROVE  Grounded(v, t, f)
<1> DEFINE json == Trimmed(Json(a))
           type == canonical(Word(extract_json_field(json, "threat_type")))
           said == Word(Lower(extract_json_field(json, "severity")))
           snippet == extract_json_field(json, "snippet")
           alarm == [type |-> type, level |-> resolve_severity(type, said),
                     snippet |-> snippet]
<1>1. /\ payload_contains_snippet(t, snippet) /\ ~is_false_positive(type, snippet, t, f)
      /\ v = alarm
  <2>1. Judged(a, t, f) =
          IF \/ IsEmptyJson(Json(a)) \/ type = "" \/ said = "" \/ snippet = <<>>
             \/ ~payload_contains_snippet(t, snippet)
             \/ is_false_positive(type, snippet, t, f)
            THEN {} ELSE {alarm}
    BY Zenon DEF Judged
  <2> DEFINE mute == IsEmptyJson(Json(a)) \/ type = "" \/ said = "" \/ snippet = <<>>
  <2> HIDE DEF json, type, said, snippet, alarm, mute
  <2>2. Judged(a, t, f) =
          IF mute \/ ~payload_contains_snippet(t, snippet)
             \/ is_false_positive(type, snippet, t, f) THEN {} ELSE {alarm}
    BY <2>1, Zenon DEF mute
  <2> QED
    BY <2>2
<1>2. snippet \in Seq(JsonTokens)
  BY JsonIs, TrimmedIs, FieldIs
<1>3. f.server => type \in FromServers
  BY <1>1, Zenon DEF is_false_positive
<1> HIDE DEF json, type, said, snippet
<1>4. v.type = type /\ v.level = resolve_severity(type, said) /\ v.snippet = snippet
  BY <1>1
<1>5. \A j \in DOMAIN snippet : \E i \in 1 .. Len(t) : Folded(snippet[j]) = Folded(t[i])
  <2>1. payload_contains_snippet(t, snippet)
    BY <1>1, Zenon
  <2> HIDE DEF alarm
  <2> QED
    BY <1>2, <2>1, QuotedIs
<1>6. v.level <= severity_for_threat(v.type)
  BY <1>4, ResolvedIs
<1> QED
  BY <1>3, <1>4, <1>5, <1>6 DEF Grounded

-------------------------------------------------------------------------------
(* The invariant                                                               *)

\* A payload holds the tokens of its flow; one with a script is a beginning of it; and
\* the model has not been asked before the flow is judged.
FlowInv ==
  /\ flow \in Flows /\ payload \in Seq(Tokens)
  /\ flow.script # <<>> => payload = Window(flow.script, Len(payload))
  /\ stage \in {"arriving", "inspected"} => answer = {} /\ alert = {}

\* It holds initially ...
LEMMA InitFlowInv == Init => FlowInv
BY AnalysisAssumption DEF AnalysisAssumption, Init, FlowInv

\* The payload grows at its end, by tokens of the flow.
Grows ==
  /\ payload' \in Seq(Tokens) /\ Len(payload) <= Len(payload')
  /\ \A i \in 1 .. Len(payload) : payload'[i] = payload[i]

\* A segment of the menu makes the payload grow; such a flow has no script.
LEMMA ArriveGrows ==
  ASSUME FlowInv, Arrive
  PROVE  Grows /\ flow'.script = <<>>
<1>1. flow' = flow /\ \E c \in flow.menu : payload' = payload \o c.sent
  BY DEF Arrive
<1>2. PICK c \in flow.menu : payload' = payload \o c.sent
  BY <1>1
<1>3. c.sent \in Seq(Tokens) /\ flow.script = <<>> /\ payload \in Seq(Tokens)
  BY AnalysisAssumption DEF FlowInv, AnalysisAssumption
<1>4. payload' \in Seq(Tokens) /\ Joined(payload', payload, c.sent)
  BY <1>2, <1>3, ConcatIs
<1>5. Len(payload) \in Nat /\ Len(c.sent) \in Nat
  BY <1>3
<1> QED
  BY <1>1, <1>3, <1>4, <1>5 DEF Grows, Joined

\* The next piece of a script does too, and leaves a beginning of the script.
LEMMA ContinueGrows ==
  ASSUME FlowInv, Continue
  PROVE  Grows /\ payload' = Window(flow.script, Len(payload'))
<1> DEFINE s == flow.script
<1>0. payload \in Seq(Tokens) /\ s \in Seq(Tokens) /\ Len(payload) < Len(s)
  BY AnalysisAssumption DEF FlowInv, AnalysisAssumption, Continue
<1>1. PICK n \in 1 .. flow.piece : payload' = Window(s, Len(payload) + n)
  BY DEF Continue
<1> DEFINE m == Len(payload) + n
<1>2. Len(payload) \in Nat /\ m \in Nat /\ m >= Len(payload)
  BY <1>0
<1>3. s # <<>> /\ payload = Window(s, Len(payload))
  BY <1>0 DEF FlowInv
<1> HIDE DEF s, m
<1>4. /\ payload' \in Seq(Tokens) /\ Len(payload') \in Nat
      /\ Len(payload') = IF Len(s) <= m THEN Len(s) ELSE m
      /\ \A i \in 1 .. Len(payload') : payload'[i] = s[i]
  <2>1. payload' = Window(s, m)
    BY <1>1 DEF m
  <2> QED
    BY <1>0, <1>2, <2>1, WindowIs
<1>5. \A i \in 1 .. Len(payload) : payload[i] = s[i]
  BY <1>0, <1>2, <1>3, WindowIs
<1>6. Len(payload) <= Len(payload')
  BY <1>0, <1>2, <1>4
<1>7. payload' = Window(s, Len(payload'))
  <2>1. /\ Window(s, Len(payload')) \in Seq(Tokens)
        /\ Len(Window(s, Len(payload'))) = Len(payload')
        /\ \A i \in 1 .. Len(payload') : Window(s, Len(payload'))[i] = s[i]
    BY <1>0, <1>2, <1>4, WindowIs, SMTT(30)
  <2> DEFINE w == Window(s, Len(payload'))
  <2> HIDE DEF w
  <2>2. w \in Seq(Tokens) /\ Len(w) = Len(payload')
        /\ \A i \in 1 .. Len(payload') : w[i] = s[i]
    BY <2>1 DEF w
  <2>3. payload' = w
    BY <1>4, <2>2
  <2> QED
    BY <2>3 DEF w
<1> QED
  BY <1>2, <1>4, <1>5, <1>6, <1>7 DEF Grows, s

\* ... and every step keeps it ...
LEMMA StepFlowInv ==
  ASSUME FlowInv, [Next]_vars
  PROVE  FlowInv'
<1>1. CASE Arrive
  BY <1>1, ArriveGrows DEF FlowInv, Arrive, Grows
<1>2. CASE Continue
  BY <1>2, ContinueGrows DEF FlowInv, Continue, Grows
<1>3. CASE Inspect
  BY <1>3 DEF FlowInv, Inspect
<1>4. CASE ReportNamed
  BY <1>4 DEF FlowInv, ReportNamed
<1>5. CASE Ask
  BY <1>5 DEF FlowInv, Ask
<1>6. CASE UNCHANGED vars
  BY <1>6 DEF FlowInv, vars
<1> QED
  BY <1>1, <1>2, <1>3, <1>4, <1>5, <1>6 DEF Next

\* ... so that it always holds.
LEMMA FlowInvHolds == Spec => []FlowInv
<1>1. FlowInv /\ [Next]_vars => FlowInv'
  BY StepFlowInv
<1> QED
  BY <1>1, InitFlowInv, PTL DEF Spec

\* Whatever the model answers, an alert raised on its word quotes what the flow sent,
\* says of a server's response only what a server can do, and is no graver than the
\* curated level of its type (llm_inference.cpp:369-505, 1672-1690).
THEOREM VerdictsAreGroundedHolds == Spec => []VerdictsAreGrounded
<1>1. Init => VerdictsAreGrounded
  BY DEF Init, VerdictsAreGrounded
<1>2. ASSUME FlowInv, VerdictsAreGrounded, [Next]_vars
      PROVE  VerdictsAreGrounded'
  <2>1. CASE Arrive \/ Continue \/ Inspect
    <3>1. alert' = {}
      BY <1>2, <2>1 DEF FlowInv, Arrive, Continue, Inspect
    <3> QED
      BY <3>1 DEF VerdictsAreGrounded
  <2>2. CASE ReportNamed
    <3>1. answer' = {}
      BY <1>2, <2>2 DEF FlowInv, ReportNamed
    <3> QED
      BY <3>1 DEF VerdictsAreGrounded
  <2>3. CASE Ask
    <3>0. payload' = payload /\ flow' = flow /\ payload \in Seq(Tokens) /\ flow \in Flows
          /\ alert = {}
      BY <1>2, <2>3 DEF FlowInv, Ask
    <3>1. CASE alert' = {}
      BY <3>1 DEF VerdictsAreGrounded
    <3>2. CASE alert' # {}
      <4>1. PICK a \in Answers \cup flow.answers : alert' = Judged(a, text, flow)
        BY <2>3, <3>0, <3>2 DEF Ask
      <4>2. {a.type, a.severity, a.snippet, a.rest} \subseteq Seq(Tokens)
        BY <3>0, AnalysisAssumption DEF AnalysisAssumption
      <4>3. text \in Seq(FlowWords(payload))
        BY <3>0, FlowTextIs DEF text, normal
      <4>4. ASSUME NEW v \in alert'
            PROVE  /\ \A j \in DOMAIN v.snippet :
                        \E x \in FlowWords(payload) : Folded(v.snippet[j]) = Folded(x)
                   /\ flow.server => v.type \in FromServers
                   /\ v.level <= severity_for_threat(v.type)
        <5>1. Grounded(v, text, flow)
          BY <4>1, <4>2, <4>3, JudgedIs
        <5>2. \A i \in 1 .. Len(text) : text[i] \in FlowWords(payload)
          BY <4>3
        <5> QED
          BY <5>1, <5>2 DEF Grounded
      <4> QED
        BY <3>0, <4>4, Zenon DEF VerdictsAreGrounded, FlowWords
    <3> QED
      BY <3>1, <3>2
  <2>4. CASE UNCHANGED vars
    BY <1>2, <2>4 DEF VerdictsAreGrounded, vars
  <2> QED
    BY <1>2, <2>1, <2>2, <2>3, <2>4 DEF Next
<1>3. FlowInv /\ VerdictsAreGrounded /\ [Next]_vars => VerdictsAreGrounded'
  BY <1>2
<1> QED
  BY <1>1, <1>3, FlowInvHolds, PTL DEF Spec

-------------------------------------------------------------------------------
(* The prompt                                                                  *)

\* Words of a prompt: the flow's are in V.
OurWords == {Plain(w) : w \in STRING \cup ControlWords \cup {"assistant", "{"}}
Pieces(V) == [word : V \cup OurWords, by : {"us", "flow"}]

Forged(x) == x.by = "flow" /\ x.word \in Controls
NoneForged(s) == \A i \in 1 .. Len(s) : ~Forged(s[i])
OneForged(s) ==
  \E h \in Nat : \A i \in 1 .. Len(s) : Forged(s[i]) => i = h /\ s[i].word = DecodedHeading
EndsWith(s, t) ==
  Len(t) <= Len(s) /\ \A i \in 1 .. Len(t) : s[Len(s) - Len(t) + i] = t[i]

\* w is the text s, said by who.
Said(w, who, s) ==
  Len(w) = Len(s) /\ \A i \in 1 .. Len(s) : w[i].word = s[i] /\ w[i].by = who

\* A text with its origin, by length and places.
LEMMA ByIs ==
  ASSUME NEW V, NEW who \in {"us", "flow"}, NEW s \in Seq(V \cup OurWords)
  PROVE  By(who, s) \in Seq(Pieces(V)) /\ Said(By(who, s), who, s)
<1>0. Len(s) \in Nat /\ \A i \in 1 .. Len(s) : s[i] \in V \cup OurWords
  OBVIOUS
<1>1. By(who, s) = [i \in 1 .. Len(s) |-> [word |-> s[i], by |-> who]]
  BY DEF By
<1>2. \A i \in 1 .. Len(s) : [word |-> s[i], by |-> who] \in Pieces(V)
  BY <1>0 DEF Pieces
<1>3. By(who, s) \in [1 .. Len(s) -> Pieces(V)]
  BY <1>1, <1>2
<1>4. \A i \in 1 .. Len(s) : By(who, s)[i] = [word |-> s[i], by |-> who]
  BY <1>1
<1>5. Len(By(who, s)) = Len(s)
  BY <1>0, <1>1
<1> DEFINE w == By(who, s)
<1> HIDE DEF w
<1>6. ASSUME NEW i \in 1 .. Len(s)
      PROVE  w[i].word = s[i] /\ w[i].by = who
  <2>1. w[i] = [word |-> s[i], by |-> who]
    BY <1>4 DEF w
  <2> QED
    BY <2>1
<1>7. Said(w, who, s)
  BY <1>5, <1>6 DEF Said, w
<1> QED
  BY <1>0, <1>3, <1>7 DEF w

\* Of two texts joined, the control tokens of the flow are those of the two.
LEMMA JoinForged ==
  ASSUME NEW X, NEW s \in Seq(X), NEW t \in Seq(X)
  PROVE  /\ NoneForged(s) /\ NoneForged(t) => NoneForged(s \o t)
         /\ NoneForged(s) /\ OneForged(t) => OneForged(s \o t)
         /\ OneForged(s) /\ NoneForged(t) => OneForged(s \o t)
         /\ EndsWith(s \o t, t)
<1> DEFINE c == s \o t
<1>0. Len(s) \in Nat /\ Len(t) \in Nat
  OBVIOUS
<1>1. Joined(c, s, t)
  BY ConcatIs
<1> HIDE DEF c
<1>2. \A i \in 1 .. Len(c) :
        \/ i \in 1 .. Len(s) /\ c[i] = s[i]
        \/ i - Len(s) \in 1 .. Len(t) /\ c[i] = t[i - Len(s)]
  <2> SUFFICES ASSUME NEW i \in 1 .. Len(c)
               PROVE  \/ i \in 1 .. Len(s) /\ c[i] = s[i]
                      \/ i - Len(s) \in 1 .. Len(t) /\ c[i] = t[i - Len(s)]
    OBVIOUS
  <2>1. CASE i <= Len(s)
    BY <1>0, <1>1, <2>1 DEF Joined
  <2>2. CASE ~(i <= Len(s))
    <3>1. i - Len(s) \in 1 .. Len(t) /\ i = Len(s) + (i - Len(s))
      BY <1>0, <1>1, <2>2 DEF Joined
    <3>2. c[Len(s) + (i - Len(s))] = t[i - Len(s)]
      BY <1>1, <3>1 DEF Joined
    <3> QED
      BY <3>1, <3>2
  <2> QED
    BY <2>1, <2>2
<1>3. NoneForged(s) /\ NoneForged(t) => NoneForged(c)
  BY <1>2 DEF NoneForged
<1>4. ASSUME NoneForged(s), OneForged(t)
      PROVE  OneForged(c)
  <2>1. PICK h \in Nat : \A i \in 1 .. Len(t) :
                           Forged(t[i]) => i = h /\ t[i].word = DecodedHeading
    BY <1>4 DEF OneForged
  <2> DEFINE k == Len(s) + h
  <2>2. k \in Nat
    BY <1>0
  <2>3. ASSUME NEW i \in 1 .. Len(c), Forged(c[i])
        PROVE  i = k /\ c[i].word = DecodedHeading
    <3>1. i - Len(s) \in 1 .. Len(t) /\ c[i] = t[i - Len(s)]
      BY <1>2, <1>4, <2>3 DEF NoneForged
    <3>2. i - Len(s) = h /\ c[i].word = DecodedHeading
      BY <2>1, <2>3, <3>1
    <3> QED
      BY <1>0, <3>2
  <2> HIDE DEF k
  <2> QED
    BY <2>2, <2>3 DEF OneForged
<1>5. ASSUME OneForged(s), NoneForged(t)
      PROVE  OneForged(c)
  <2>1. PICK h \in Nat : \A i \in 1 .. Len(s) :
                           Forged(s[i]) => i = h /\ s[i].word = DecodedHeading
    BY <1>5 DEF OneForged
  <2>2. ASSUME NEW i \in 1 .. Len(c), Forged(c[i])
        PROVE  i = h /\ c[i].word = DecodedHeading
    <3>1. i \in 1 .. Len(s) /\ c[i] = s[i]
      BY <1>2, <1>5, <2>2 DEF NoneForged
    <3> QED
      BY <2>1, <2>2, <3>1
  <2> QED
    BY <2>2 DEF OneForged
<1>6. EndsWith(c, t)
  BY <1>0, <1>1 DEF Joined, EndsWith
<1> QED
  BY <1>3, <1>4, <1>5, <1>6 DEF c

\* The first line of a text ends before a heading on a line of its own.
LEMMA HttpLineIs ==
  ASSUME NEW V, NEW t \in Seq(V), OnlyHeading(t)
  PROVE  /\ HttpLine(t) \in Seq(V)
         /\ \A i \in 1 .. Len(HttpLine(t)) : HttpLine(t)[i] \notin Controls
<1> DEFINE ends == {i \in DOMAIN t : t[i] \in LineEnds}
           m == IF ends = {} THEN Len(t) ELSE Min(ends) - 1
<1>0. Len(t) \in Nat /\ DOMAIN t = 1 .. Len(t)
  OBVIOUS
<1>1. HttpLine(t) = <<>> \/ HttpLine(t) = SubSeq(t, 1, m)
  BY Zenon DEF HttpLine, LineEnds
<1>2. /\ m \in 0 .. Len(t)
      /\ \A i \in 1 .. Len(t) : t[i] \in LineEnds => i > m
  <2>1. ends \in SUBSET Nat /\ \A i \in ends : i >= 1 /\ i <= Len(t)
    BY <1>0
  <2>2. \A i \in 1 .. Len(t) : t[i] \in LineEnds => i \in ends
    BY <1>0
  <2> HIDE DEF ends
  <2>3. CASE ends = {}
    BY <1>0, <2>2, <2>3
  <2>4. CASE ends # {}
    <3>1. Min(ends) \in ends /\ \A i \in ends : Min(ends) <= i
      BY <2>1, <2>4, MinIs
    <3>2. Min(ends) \in Nat /\ Min(ends) >= 1 /\ Min(ends) <= Len(t)
      BY <2>1, <3>1
    <3>3. m = Min(ends) - 1
      BY <2>4
    <3> HIDE DEF m
    <3> QED
      BY <1>0, <2>2, <3>1, <3>2, <3>3
  <2> QED
    BY <2>3, <2>4
<1> HIDE DEF m, ends
<1>3. /\ SubSeq(t, 1, m) \in Seq(V) /\ Len(SubSeq(t, 1, m)) = m
      /\ \A i \in 1 .. m : SubSeq(t, 1, m)[i] = t[i]
  BY <1>2
<1>4. \A i \in 1 .. m : t[i] \notin Controls
  <2>1. PICK h \in Nat : \A i \in 1 .. Len(t) :
          t[i] \in Controls => i = h /\ h > 1 /\ t[i] = DecodedHeading /\ t[i - 1] = NewLine
    BY DEF OnlyHeading
  <2>2. NewLine \in LineEnds
    BY Zenon DEF NewLine, LineEnds
  <2> SUFFICES ASSUME NEW i \in 1 .. m, t[i] \in Controls PROVE FALSE
    OBVIOUS
  <2>3. i \in 1 .. Len(t)
    BY <1>0, <1>2
  <2>4. i > 1 /\ t[i - 1] \in LineEnds
    BY <2>1, <2>2, <2>3
  <2>5. i - 1 \in 1 .. Len(t) /\ i - 1 < m
    BY <1>2, <2>3, <2>4
  <2>6. i - 1 > m
    BY <1>2, <2>4, <2>5
  <2> QED
    BY <1>2, <2>5, <2>6
<1>5. <<>> \in Seq(V) /\ Len(<<>>) = 0
  OBVIOUS
<1> DEFINE l == HttpLine(t)
           first == SubSeq(t, 1, m)
<1> HIDE DEF l, first
<1>6. /\ first \in Seq(V) /\ Len(first) = m
      /\ \A i \in 1 .. m : first[i] = t[i]
  BY <1>3 DEF first
<1>7. l = <<>> \/ l = first
  BY <1>1 DEF l, first
<1>8. l \in Seq(V) /\ \A i \in 1 .. Len(l) : l[i] \notin Controls
  <2>1. CASE l = <<>>
    BY <1>5, <2>1
  <2>2. CASE l = first
    <3>1. \A i \in 1 .. m : first[i] \notin Controls
      BY <1>4, <1>6
    <3> QED
      BY <1>6, <2>2, <3>1
  <2> QED
    BY <1>7, <2>1, <2>2
<1> QED
  BY <1>8 DEF l

\* The parts of the prompt that are not the flow's, but for the one that ends it.
Opening == Text(SystemPrompt) \o Text(<<"[Context]">>)
Between == Text(<<"[Payload]">>)

\* The prompt's own parts consist of its own words.
LEMMA OursAre ==
  /\ Opening \in Seq(OurWords) /\ Between \in Seq(OurWords)
  /\ Primer \in Seq(OurWords) /\ Len(Primer) = 4
<1>1. Text(SystemPrompt) \in Seq(OurWords)
  <2>0. SystemPrompt \in Seq(STRING)
    BY AnalysisAssumption DEF AnalysisAssumption
  <2>1. Len(SystemPrompt) \in Nat
        /\ \A i \in 1 .. Len(SystemPrompt) : Plain(SystemPrompt[i]) \in OurWords
    <3>1. \A w \in STRING : Plain(w) \in OurWords
      BY Zenon DEF OurWords
    <3> DEFINE S == STRING
    <3> HIDE DEF S
    <3>2. SystemPrompt \in Seq(S) /\ \A w \in S : Plain(w) \in OurWords
      BY <2>0, <3>1, Zenon DEF S
    <3> QED
      BY <3>2
  <2>2. Text(SystemPrompt) = [i \in 1 .. Len(SystemPrompt) |-> Plain(SystemPrompt[i])]
    <3>1. DOMAIN SystemPrompt = 1 .. Len(SystemPrompt)
      BY <2>0
    <3> QED
      BY <3>1, Zenon DEF Text
  <2>3. Text(SystemPrompt) \in [1 .. Len(SystemPrompt) -> OurWords]
    BY <2>1, <2>2
  <2> QED
    BY <2>1, <2>3
<1>2. \A w \in ControlWords \cup {"assistant", "{"} : Plain(w) \in OurWords
  BY Zenon DEF OurWords
<1> DEFINE c == Plain("[Context]")
           p == Plain("[Payload]")
           l == Plain("<|")
           r == Plain("|>")
           b == Plain("{")
           a == Plain("assistant")
<1>3. /\ c \in OurWords /\ p \in OurWords /\ l \in OurWords /\ r \in OurWords
      /\ b \in OurWords /\ a \in OurWords
  BY <1>2, Zenon DEF ControlWords
<1>4. /\ Text(<<"[Context]">>) = <<c>> /\ Between = <<p>> /\ Primer = <<l, a, r, b>>
  BY TextIs, Zenon DEF Between, Primer
<1> HIDE DEF c, p, l, r, b, a
<1>5. <<c>> \in Seq(OurWords) /\ <<p>> \in Seq(OurWords)
      /\ <<l, a, r, b>> \in Seq(OurWords) /\ Len(<<l, a, r, b>>) = 4
  BY <1>3
<1>6. Opening \in Seq(OurWords)
  BY <1>1, <1>4, <1>5, ConcatIs DEF Opening
<1> QED
  BY <1>4, <1>5, <1>6

\* A full prompt has the one heading at most, and ends with the primer.
LEMMA FullPromptIs ==
  ASSUME NEW V, NEW t \in Seq(V), OnlyHeading(t)
  PROVE  /\ FullPrompt(t) \in Seq(Pieces(V)) /\ OneForged(FullPrompt(t))
         /\ EndsWith(FullPrompt(t), By("us", Primer))
<1> DEFINE a == By("us", Opening)
           l == By("flow", HttpLine(t))
           b == By("us", Between)
           f == By("flow", t)
           o == By("us", Primer)
           Q == Pieces(V)
<1>1. FullPrompt(t) = ((((a \o l) \o b) \o f) \o o)
  BY Zenon DEF FullPrompt, Opening, Between
<1>2. \A s : s \in Seq(OurWords) \/ s \in Seq(V) => s \in Seq(V \cup OurWords)
  OBVIOUS
<1>3. ASSUME NEW s \in Seq(OurWords)
      PROVE  By("us", s) \in Seq(Q) /\ NoneForged(By("us", s))
  <2> DEFINE us == By("us", s)
  <2>1. s \in Seq(V \cup OurWords)
    BY <1>2
  <2>2. us \in Seq(Q) /\ Said(us, "us", s)
    BY <2>1, ByIs
  <2> HIDE DEF us
  <2>3. NoneForged(us)
    BY <2>2 DEF NoneForged, Forged, Said
  <2> QED
    BY <2>2, <2>3 DEF us
<1>4. a \in Seq(Q) /\ b \in Seq(Q) /\ o \in Seq(Q)
      /\ NoneForged(a) /\ NoneForged(b) /\ NoneForged(o)
  BY <1>3, OursAre
<1>5. l \in Seq(Q) /\ NoneForged(l)
  <2> DEFINE s == HttpLine(t)
  <2>1. s \in Seq(V) /\ \A i \in 1 .. Len(s) : s[i] \notin Controls
    BY HttpLineIs
  <2> HIDE DEF s
  <2>2. s \in Seq(V \cup OurWords)
    BY <1>2, <2>1
  <2> DEFINE w == By("flow", s)
  <2>3. w \in Seq(Q) /\ Said(w, "flow", s)
    BY <2>2, ByIs
  <2> HIDE DEF w
  <2>4. NoneForged(w)
    BY <2>1, <2>3 DEF NoneForged, Forged, Said
  <2> QED
    BY <2>3, <2>4 DEF w, s
<1>6. f \in Seq(Q) /\ OneForged(f)
  <2>1. t \in Seq(V \cup OurWords)
    BY <1>2
  <2>2. f \in Seq(Q) /\ Said(f, "flow", t)
    BY <2>1, ByIs
  <2>3. PICK h \in Nat : \A i \in 1 .. Len(t) :
          t[i] \in Controls => i = h /\ t[i] = DecodedHeading
    BY DEF OnlyHeading
  <2> HIDE DEF f
  <2>4. \A i \in 1 .. Len(f) : Forged(f[i]) => i = h /\ f[i].word = DecodedHeading
    BY <2>2, <2>3 DEF Forged, Said
  <2> QED
    BY <2>2, <2>4 DEF OneForged
<1> HIDE DEF a, l, b, f, o, Q
<1>7. a \o l \in Seq(Q) /\ NoneForged(a \o l)
  BY <1>4, <1>5, ConcatIs, JoinForged
<1>8. (a \o l) \o b \in Seq(Q) /\ NoneForged((a \o l) \o b)
  BY <1>4, <1>7, ConcatIs, JoinForged
<1>9. ((a \o l) \o b) \o f \in Seq(Q) /\ OneForged(((a \o l) \o b) \o f)
  BY <1>6, <1>8, ConcatIs, JoinForged
<1> DEFINE w == ((a \o l) \o b) \o f
<1> HIDE DEF w
<1>10. w \in Seq(Q) /\ OneForged(w) /\ FullPrompt(t) = w \o o
  BY <1>1, <1>9 DEF w
<1>11. w \o o \in Seq(Q) /\ OneForged(w \o o) /\ EndsWith(w \o o, o)
  BY <1>4, <1>10, ConcatIs, JoinForged
<1> QED
  BY <1>10, <1>11 DEF o, Q

\* Cutting out its middle keeps a prompt small, adds nothing forged and leaves its end.
LEMMA TruncatedIs ==
  ASSUME NEW X, NEW w \in Seq(X), OneForged(w),
         NEW o, Len(o) \in Nat, EndsWith(w, o),
         Len(o) <= TailMax, Len(o) <= MaxPrompt \div 2
  PROVE  /\ Truncated(w) \in Seq(X) /\ Len(Truncated(w)) <= MaxPrompt
         /\ OneForged(Truncated(w)) /\ EndsWith(Truncated(w), o)
<1> DEFINE n == Len(w)
           tail == Min({TailMax, MaxPrompt \div 2})
           head == MaxPrompt - tail
           left == SubSeq(w, 1, head)
           right == SubSeq(w, n - tail + 1, n)
<1>0. n \in Nat /\ TailMax \in Nat /\ MaxPrompt \in Nat /\ MaxPrompt \div 2 \in Nat
      /\ MaxPrompt \div 2 <= MaxPrompt
  BY AnalysisAssumption DEF AnalysisAssumption
<1>1. Truncated(w) = IF n <= MaxPrompt THEN w ELSE left \o right
  BY Zenon DEF Truncated
<1>2. tail \in Nat /\ tail <= MaxPrompt /\ Len(o) <= tail
  <2> DEFINE half == MaxPrompt \div 2
  <2>1. half \in Nat
    BY <1>0
  <2> HIDE DEF half
  <2>2. Min({TailMax, half}) = IF TailMax <= half THEN TailMax ELSE half
    BY <1>0, <2>1, MinOfTwo
  <2>3. tail = IF TailMax <= half THEN TailMax ELSE half
    BY <2>2 DEF half
  <2> HIDE DEF tail
  <2>4. half <= MaxPrompt /\ Len(o) <= half
    BY <1>0 DEF half
  <2> QED
    BY <1>0, <2>1, <2>3, <2>4
<1>3. CASE n <= MaxPrompt
  BY <1>1, <1>3
<1>4. CASE ~(n <= MaxPrompt)
  <2> HIDE DEF tail
  <2>1. head \in Nat /\ head + tail = MaxPrompt /\ MaxPrompt < n
    BY <1>0, <1>2, <1>4
  <2> HIDE DEF head
  <2>2. /\ left \in Seq(X) /\ Len(left) = head
        /\ \A i \in 1 .. head : left[i] = w[i]
    BY <1>0, <1>2, <2>1
  <2>3. /\ right \in Seq(X) /\ Len(right) = tail
        /\ \A i \in 1 .. tail : right[i] = w[n - tail + i]
    <3> DEFINE m == n - tail + 1
    <3>1. m \in 1 .. n + 1
      BY <1>0, <1>2, <2>1
    <3> HIDE DEF m, n
    <3>2. /\ SubSeq(w, m, n) \in Seq(X) /\ Len(SubSeq(w, m, n)) = n - m + 1
          /\ \A i \in 1 .. n - m + 1 : SubSeq(w, m, n)[i] = w[m + i - 1]
      BY <1>0, <3>1 DEF n
    <3>3. n - m + 1 = tail /\ \A i \in 1 .. tail : m + i - 1 = n - tail + i
      BY <1>0, <1>2 DEF m
    <3> QED
      BY <3>2, <3>3 DEF m
  <2> DEFINE c == left \o right
  <2>4. Truncated(w) = c
    BY <1>1, <1>4
  <2> HIDE DEF left, right
  <2>5. c \in Seq(X) /\ Joined(c, left, right)
    BY <2>2, <2>3, ConcatIs
  <2> HIDE DEF c
  <2>6. /\ Len(c) = MaxPrompt
        /\ \A i \in 1 .. head : c[i] = w[i]
        /\ \A i \in 1 .. tail : c[head + i] = w[n - tail + i]
    BY <2>1, <2>2, <2>3, <2>5 DEF Joined
  <2>7. EndsWith(c, o)
    <3>1. Len(o) <= Len(c)
      BY <1>0, <1>2, <2>6
    <3>2. ASSUME NEW i \in 1 .. Len(o)
          PROVE  c[Len(c) - Len(o) + i] = o[i]
      <4> DEFINE j == tail - Len(o) + i
      <4>1. j \in 1 .. tail /\ head + j = Len(c) - Len(o) + i /\ n - tail + j = n - Len(o) + i
        BY <1>0, <1>2, <2>1, <2>6
      <4> HIDE DEF j
      <4>2. c[head + j] = w[n - tail + j]
        BY <2>6, <4>1
      <4>3. w[n - Len(o) + i] = o[i]
        BY DEF EndsWith
      <4> QED
        BY <4>1, <4>2, <4>3
    <3> QED
      BY <3>1, <3>2 DEF EndsWith
  <2>8. OneForged(c)
    <3>1. PICK h \in Nat : \A i \in 1 .. n : Forged(w[i]) => i = h /\ w[i].word = DecodedHeading
      BY DEF OneForged
    <3> DEFINE k == IF h <= head THEN h ELSE h - n + MaxPrompt
    <3>2. ASSUME NEW i \in 1 .. Len(c), Forged(c[i])
          PROVE  i = k /\ c[i].word = DecodedHeading
      <4>1. CASE i <= head
        <5>1. i \in 1 .. n /\ c[i] = w[i]
          BY <1>0, <1>2, <2>1, <2>6, <4>1
        <5> QED
          BY <3>1, <3>2, <4>1, <5>1
      <4>2. CASE ~(i <= head)
        <5> DEFINE j == n - MaxPrompt + i
        <5>1. i - head \in 1 .. tail /\ i = head + (i - head) /\ j = n - tail + (i - head)
              /\ j \in 1 .. n
          BY <1>0, <1>2, <2>1, <2>6, <4>2
        <5>2. c[i] = w[j]
          BY <2>6, <5>1
        <5>3. j = h /\ c[i].word = DecodedHeading
          <6> HIDE DEF j
          <6> QED
            BY <3>1, <3>2, <5>1, <5>2
        <5>4. h > head /\ i = h - n + MaxPrompt
          BY <1>0, <2>1, <4>2, <5>3
        <5> QED
          BY <2>1, <5>3, <5>4
      <4> QED
        BY <2>1, <4>1, <4>2
    <3> HIDE DEF k
    <3>3. CASE k \in Nat
      BY <3>2, <3>3 DEF OneForged
    <3>4. CASE k \notin Nat
      <4>1. \A i \in 1 .. Len(c) : ~Forged(c[i])
        BY <3>2, <3>4
      <4> QED
        BY <4>1 DEF OneForged
    <3> QED
      BY <3>3, <3>4
  <2> QED
    BY <1>0, <2>4, <2>5, <2>6, <2>7, <2>8
<1> QED
  BY <1>3, <1>4

\* However the payload is encoded or cut, no token that structures the prompt comes
\* from the flow (but for the one heading of the decoded text), and the prompt, if cut,
\* still ends with what primes the answer (llm_inference.cpp:98-131, 1543-1570).
THEOREM PromptIntactHolds == Spec => []PromptIntact
<1>1. ASSUME FlowInv
      PROVE  PromptIntact
  <2> DEFINE w == Prompt(text)
             o == By("us", Primer)
             n == Len(w)
             V == FlowWords(payload)
             forged == {i \in DOMAIN w : w[i].by = "flow" /\ w[i].word \in Controls}
  <2>1. text \in Seq(V) /\ OnlyHeading(text)
    BY <1>1, FlowTextIs DEF text, normal, FlowInv
  <2>2. o \in Seq(Pieces(V)) /\ Len(o) = 4
    <3>1. Primer \in Seq(V \cup OurWords) /\ Len(Primer) = 4
      BY OursAre
    <3> HIDE DEF V
    <3>2. o \in Seq(Pieces(V)) /\ Said(o, "us", Primer)
      BY <3>1, ByIs
    <3> HIDE DEF o
    <3> QED
      BY <3>1, <3>2 DEF Said
  <2>3. /\ w \in Seq(Pieces(V)) /\ n <= MaxPrompt /\ OneForged(w) /\ EndsWith(w, o)
    <3> DEFINE f == FullPrompt(text)
    <3>1. f \in Seq(Pieces(V)) /\ OneForged(f) /\ EndsWith(f, o)
      BY <2>1, FullPromptIs
    <3>2. Len(o) <= TailMax /\ Len(o) <= MaxPrompt \div 2 /\ Len(o) \in Nat
      <4>1. TailMax >= Len(Primer) /\ MaxPrompt \div 2 >= Len(Primer)
        BY AnalysisAssumption, Zenon DEF AnalysisAssumption
      <4>2. TailMax \in Nat /\ MaxPrompt \div 2 \in Nat
        BY AnalysisAssumption DEF AnalysisAssumption
      <4> HIDE DEF o
      <4> QED
        BY <2>2, <4>1, <4>2, OursAre
    <3> HIDE DEF f, o, V
    <3>3. /\ Truncated(f) \in Seq(Pieces(V)) /\ Len(Truncated(f)) <= MaxPrompt
          /\ OneForged(Truncated(f)) /\ EndsWith(Truncated(f), o)
      BY <3>1, <3>2, TruncatedIs
    <3> QED
      BY <3>3 DEF Prompt, f
  <2> HIDE DEF w, o, V
  <2>4. DOMAIN w = 1 .. n /\ n \in Nat
    BY <2>3
  <2>5. PICK h \in Nat : \A i \in 1 .. n : Forged(w[i]) => i = h /\ w[i].word = DecodedHeading
    BY <2>3 DEF OneForged
  <2>6. forged \subseteq {h} /\ \A i \in forged : w[i].word = DecodedHeading
    BY <2>4, <2>5 DEF Forged
  <2> HIDE DEF forged, n
  <2>7. Cardinality(forged) <= 1
    <3>1. forged = {} \/ forged = {h}
      BY <2>6
    <3>2. Cardinality({}) = 0 /\ Cardinality({h}) = 1
      BY FS_EmptySet, FS_Singleton
    <3> QED
      BY <3>1, <3>2
  <2>8. SubSeq(w, n - Len(o) + 1, n) = o
    <3> DEFINE m == n - Len(o) + 1
               s == SubSeq(w, m, n)
    <3>1. Len(o) <= n /\ \A i \in 1 .. Len(o) : w[n - Len(o) + i] = o[i]
      BY <2>3 DEF EndsWith, n
    <3>2. m \in 1 .. n + 1 /\ n - m + 1 = 4
      BY <2>2, <2>4, <3>1
    <3> HIDE DEF m
    <3>3. /\ s \in Seq(Pieces(V)) /\ Len(s) = 4
          /\ \A i \in 1 .. 4 : s[i] = w[m + i - 1]
      BY <2>3, <2>4, <3>2 DEF n
    <3>4. \A i \in 1 .. 4 : w[m + i - 1] = o[i]
      BY <2>2, <2>4, <3>1, SMTT(30) DEF m
    <3> HIDE DEF s
    <3>5. s = o
      BY <2>2, <3>3, <3>4
    <3> QED
      BY <3>5 DEF s, m
  <2> QED
    BY <2>3, <2>6, <2>7, <2>8, Zenon DEF PromptIntact, forged, w, o, n, DecodedHeading
<1> QED
  BY <1>1, FlowInvHolds, PTL

-------------------------------------------------------------------------------
(* The detectors, when a payload grows                                         *)

\* q begins with p.
Extends(q, p) ==
  /\ p \in Seq(Tokens) /\ q \in Seq(Tokens) /\ Len(p) <= Len(q)
  /\ \A i \in 1 .. Len(p) : q[i] = p[i]

\* What extending says of lengths and places.
LEMMA ExtendsIs ==
  ASSUME NEW p, NEW q, Extends(q, p)
  PROVE  /\ Len(p) \in Nat /\ Len(q) \in Nat /\ Len(p) <= Len(q)
         /\ \A i \in 1 .. Len(p) : q[i] = p[i] /\ p[i] \in Tokens /\ i \in 1 .. Len(q)
         /\ DOMAIN p = 1 .. Len(p) /\ DOMAIN q = 1 .. Len(q)
BY DEF Extends

\* The window of a payload that grows only grows.
LEMMA WindowExtends ==
  ASSUME NEW p, NEW q, Extends(q, p), NEW n \in Nat
  PROVE  Extends(Window(q, n), Window(p, n))
<1> DEFINE u == Window(p, n)
           v == Window(q, n)
<1>1. p \in Seq(Tokens) /\ q \in Seq(Tokens) /\ Len(p) <= Len(q)
      /\ \A i \in 1 .. Len(p) : q[i] = p[i]
  BY DEF Extends
<1>2. /\ u \in Seq(Tokens) /\ Len(u) = (IF Len(p) <= n THEN Len(p) ELSE n)
      /\ \A i \in 1 .. Len(u) : u[i] = p[i]
  BY <1>1, WindowIs
<1>3. /\ v \in Seq(Tokens) /\ Len(v) = (IF Len(q) <= n THEN Len(q) ELSE n)
      /\ \A i \in 1 .. Len(v) : v[i] = q[i]
  BY <1>1, WindowIs
<1> HIDE DEF u, v
<1>4. Len(p) \in Nat /\ Len(q) \in Nat
  BY <1>1
<1>5. Len(u) <= Len(v) /\ Len(u) <= Len(p)
  BY <1>1, <1>2, <1>3, <1>4
<1>6. \A i \in 1 .. Len(u) : v[i] = u[i]
  BY <1>1, <1>2, <1>3, <1>4, <1>5
<1> QED
  BY <1>2, <1>3, <1>5, <1>6 DEF Extends, u, v

\* The places of S, in a text of length n, are those of R up to there.
Begins(S, R, n) ==
  S \subseteq R /\ S \subseteq 1 .. n /\ R \in SUBSET Nat /\ \A i \in R : i <= n => i \in S

\* The places of a word stay, and new ones lie behind the old end.
LEMMA AtExtends ==
  ASSUME NEW p, NEW q, Extends(q, p), NEW w
  PROVE  Begins(At(p, w), At(q, w), Len(p)) /\ At(q, w) \subseteq 1 .. Len(q)
<1>1. At(p, w) \subseteq 1 .. Len(p) /\ At(q, w) \subseteq 1 .. Len(q)
  BY ExtendsIs DEF At
<1>2. \A i \in 1 .. Len(p) : i \in At(p, w) <=> i \in At(q, w)
  BY ExtendsIs DEF At
<1>3. \A i \in At(q, w) : i <= Len(p) => i \in At(p, w)
  BY <1>1, <1>2, ExtendsIs
<1> QED
  BY <1>1, <1>2, <1>3 DEF Begins

\* So the first of the places stays the first.
LEMMA LeastStays ==
  ASSUME NEW n \in Nat, NEW S, NEW R, Begins(S, R, n), S # {}
  PROVE  Min(R) = Min(S) /\ Min(S) \in S
<1>1. S \in SUBSET Nat /\ R \in SUBSET Nat /\ R # {} /\ S \subseteq R
      /\ \A i \in S : i <= n
  <2>1. S \subseteq R /\ S \subseteq 1 .. n /\ R \in SUBSET Nat
    BY Zenon DEF Begins
  <2>2. \A i \in S : i \in Nat /\ i <= n
    BY <2>1
  <2>3. R # {}
    BY <2>1
  <2> QED
    BY <2>1, <2>2, <2>3
<1>2. Min(S) \in S /\ (\A i \in S : Min(S) <= i) /\ Min(R) \in R /\ \A i \in R : Min(R) <= i
  BY <1>1, MinIs
<1>3. Min(R) <= Min(S) /\ Min(S) <= n /\ Min(R) \in Nat /\ Min(S) \in Nat
  BY <1>1, <1>2
<1>4. Min(R) \in S
  BY <1>2, <1>3 DEF Begins
<1> QED
  BY <1>2, <1>3, <1>4

\* There are at most as many places in a smaller set.
LEMMA CountGrows ==
  ASSUME NEW n \in Nat, NEW R \in SUBSET (1 .. n), NEW S \in SUBSET R
  PROVE  Cardinality(S) \in Nat /\ Cardinality(R) \in Nat /\ Cardinality(S) <= Cardinality(R)
<1>1. IsFiniteSet(1 .. n)
  BY FS_Interval
<1>2. IsFiniteSet(R)
  BY <1>1, FS_Subset
<1> QED
  BY <1>2, FS_Subset, FS_CardinalityType

\* Heartbleed: a complete heartbeat record stays one, with the same lengths.
LEMMA HeartbleedStays ==
  ASSUME NEW p, NEW q, Extends(q, p), detect_heartbleed(p)
  PROVE  detect_heartbleed(q)
<1>1. PICK i \in 1 .. Len(p) - 7 :
        /\ \A j \in i .. i + 7 : p[j].t = "byte"
        /\ IsByte(p, i, {24}) /\ IsByte(p, i + 1, {3}) /\ IsByte(p, i + 2, 0 .. 3)
        /\ U16(p, i + 3) >= 3 /\ i + 4 + U16(p, i + 3) <= Len(p)
        /\ IsByte(p, i + 5, {1, 2})
        /\ U16(p, i + 6) > U16(p, i + 3) - 3 + 16
  BY Zenon DEF detect_heartbleed
<1>2. /\ Len(p) \in Nat /\ Len(q) \in Nat /\ Len(p) <= Len(q)
      /\ \A j \in 1 .. Len(p) : q[j] = p[j] /\ p[j] \in Tokens
  BY ExtendsIs
<1>3. \A j \in i .. i + 7 : q[j] = p[j] /\ p[j] \in Tokens
  BY <1>2
<1>4. i \in 1 .. Len(q) - 7
  BY <1>2
<1>5. /\ \A V : /\ IsByte(q, i, V) <=> IsByte(p, i, V)
                /\ IsByte(q, i + 1, V) <=> IsByte(p, i + 1, V)
                /\ IsByte(q, i + 2, V) <=> IsByte(p, i + 2, V)
                /\ IsByte(q, i + 5, V) <=> IsByte(p, i + 5, V)
      /\ U16(q, i + 3) = U16(p, i + 3) /\ U16(q, i + 6) = U16(p, i + 6)
      /\ U16(p, i + 3) \in Nat
  <2>1. i + 1 \in i .. i + 7 /\ i + 2 \in i .. i + 7 /\ i + 5 \in i .. i + 7
        /\ i + 3 \in i .. i + 7 /\ (i + 3) + 1 \in i .. i + 7
        /\ i + 6 \in i .. i + 7 /\ (i + 6) + 1 \in i .. i + 7 /\ i \in i .. i + 7
    OBVIOUS
  <2>2. \A j \in i .. i + 7 : p[j].k \in Nat
    BY <1>3 DEF Tokens
  <2>3. U16(p, i + 3) \in Nat
    BY <2>1, <2>2 DEF U16
  <2>4. U16(q, i + 3) = U16(p, i + 3) /\ U16(q, i + 6) = U16(p, i + 6)
    BY <1>3, <2>1 DEF U16
  <2> QED
    BY <1>3, <2>1, <2>3, <2>4 DEF IsByte
<1>6. i + 4 + U16(q, i + 3) <= Len(q)
  BY <1>1, <1>2, <1>5
<1>7. \A j \in i .. i + 7 : q[j].t = "byte"
  BY <1>1, <1>3
<1> QED
  BY <1>1, <1>4, <1>5, <1>6, <1>7, Zenon DEF detect_heartbleed

SmbMarker == "\\xFFSMB"

\* SMB headers with one of some commands stay where they are.
LEMMA CommandsGrow ==
  ASSUME NEW p, NEW q, Extends(q, p), NEW V
  PROVE  Commands(p, V) \subseteq Commands(q, V)
<1>1. \A s : Commands(s, V) = {i \in At(s, SmbMarker) : i + 1 < Len(s) /\ IsByte(s, i + 1, V)}
  BY Zenon DEF Commands, SmbMarker
<1>2. ASSUME NEW i \in Commands(p, V)
      PROVE  i \in Commands(q, V)
  <2>1. i \in At(p, SmbMarker) /\ i + 1 < Len(p) /\ IsByte(p, i + 1, V)
    BY <1>1
  <2>2. i \in At(q, SmbMarker) /\ i \in 1 .. Len(p)
    BY <2>1, AtExtends DEF Begins
  <2>3. i + 1 \in 1 .. Len(p) /\ i + 1 < Len(q)
    BY <2>1, <2>2, ExtendsIs
  <2>4. IsByte(q, i + 1, V)
    BY <2>1, <2>3, ExtendsIs DEF IsByte
  <2> QED
    BY <1>1, <2>2, <2>3, <2>4
<1> QED
  BY <1>2

\* The SMB exploit: a tree connect, the share behind it, a transaction, a size.
LEMMA SmbStays ==
  ASSUME NEW p, NEW q, Extends(q, p), NEW f, detect_smb_exploit(p, f)
  PROVE  detect_smb_exploit(q, f)
<1>0. BigSmb \in Nat /\ IpcReach \in Nat
  BY DetectorAssumption DEF DetectorAssumption
<1>1. /\ f.ports = "smb" /\ Len(p) > BigSmb /\ Commands(p, {37, 50, 160}) # {}
      /\ \E i \in Commands(p, {117}) : \E j \in i + 2 .. Min({Len(p), i + IpcReach}) :
           p[j] = Plain("IPC")
  BY Zenon DEF detect_smb_exploit
<1>2. PICK i \in Commands(p, {117}) : \E j \in i + 2 .. Min({Len(p), i + IpcReach}) :
        p[j] = Plain("IPC")
  BY <1>1
<1>3. PICK j \in i + 2 .. Min({Len(p), i + IpcReach}) : p[j] = Plain("IPC")
  BY <1>2
<1>4. i \in 1 .. Len(p)
  <2>1. \A s, V : Commands(s, V) = {k \in At(s, SmbMarker) :
                                      k + 1 < Len(s) /\ IsByte(s, k + 1, V)}
    BY Zenon DEF Commands, SmbMarker
  <2>2. i \in At(p, SmbMarker)
    BY <2>1
  <2> QED
    BY <2>2, AtExtends DEF Begins
<1>5. Len(p) \in Nat /\ Len(q) \in Nat /\ Len(p) <= Len(q) /\ i + IpcReach \in Nat
  BY <1>0, <1>4, ExtendsIs
<1>6. /\ Min({Len(p), i + IpcReach}) = IF Len(p) <= i + IpcReach THEN Len(p) ELSE i + IpcReach
      /\ Min({Len(q), i + IpcReach}) = IF Len(q) <= i + IpcReach THEN Len(q) ELSE i + IpcReach
  <2> DEFINE r == i + IpcReach
  <2>1. r \in Nat
    BY <1>5
  <2> HIDE DEF r
  <2>2. /\ Min({Len(p), r}) = IF Len(p) <= r THEN Len(p) ELSE r
        /\ Min({Len(q), r}) = IF Len(q) <= r THEN Len(q) ELSE r
    BY <1>5, <2>1, MinOfTwo, SMTT(30)
  <2> QED
    BY <2>2 DEF r
<1>7. j \in i + 2 .. Min({Len(q), i + IpcReach}) /\ j \in 1 .. Len(p)
  BY <1>4, <1>5, <1>6
<1>8. q[j] = Plain("IPC")
  BY <1>3, <1>7, ExtendsIs
<1>9. i \in Commands(q, {117}) /\ Commands(q, {37, 50, 160}) # {}
  BY <1>1, CommandsGrow
<1>10. Len(q) > BigSmb
  BY <1>0, <1>1, <1>5
<1> QED
  BY <1>1, <1>7, <1>8, <1>9, <1>10, Zenon DEF detect_smb_exploit

\* Where the path of a POST at place i ends, at most.
PathEnd(s, i) ==
  LET spaces == {j \in i + 1 .. Len(s) : s[j] = Space}
  IN  IF spaces = {} THEN Min({i + PathMax, Len(s)}) ELSE Min(spaces) - 1

\* A place of the path stays in it: a space that still comes lies behind the old end.
LEMMA PathGrows ==
  ASSUME NEW u, NEW v, Extends(v, u), NEW i \in 1 .. Len(u), NEW j \in i + 1 .. PathEnd(u, i)
  PROVE  j \in 1 .. Len(u) /\ j \in i + 1 .. PathEnd(v, i)
<1> DEFINE S == {k \in i + 1 .. Len(u) : u[k] = Space}
           R == {k \in i + 1 .. Len(v) : v[k] = Space}
           m == i + PathMax
<1>0. m \in Nat /\ Len(u) \in Nat /\ Len(v) \in Nat /\ Len(u) <= Len(v)
  <2>1. PathMax \in Nat
    BY DetectorAssumption DEF DetectorAssumption
  <2> QED
    BY <2>1, ExtendsIs
<1>1. /\ PathEnd(u, i) = IF S = {} THEN Min({m, Len(u)}) ELSE Min(S) - 1
      /\ PathEnd(v, i) = IF R = {} THEN Min({m, Len(v)}) ELSE Min(R) - 1
  BY Zenon DEF PathEnd
<1>2. /\ S \in SUBSET Nat /\ R \in SUBSET Nat
      /\ \A k \in S : k <= Len(u)
      /\ \A k \in R : k <= Len(v) /\ k >= i + 1
  BY <1>0
<1>3. S \subseteq R /\ \A k \in R : k <= Len(u) => k \in S
  <2>1. \A k \in i + 1 .. Len(u) : k \in i + 1 .. Len(v) /\ v[k] = u[k]
    BY <1>0, ExtendsIs
  <2> QED
    BY <1>0, <2>1
<1> HIDE DEF S, R, m
<1>4. /\ Min({m, Len(u)}) = IF m <= Len(u) THEN m ELSE Len(u)
      /\ Min({m, Len(v)}) = IF m <= Len(v) THEN m ELSE Len(v)
  BY <1>0, MinOfTwo
<1>5. /\ S # {} => Min(S) \in S /\ \A k \in S : Min(S) <= k
      /\ R # {} => Min(R) \in R /\ \A k \in R : Min(R) <= k
  BY <1>2, MinIs
<1>6. j <= Len(u) /\ j \in Nat /\ j >= i + 1
  <2>1. CASE S = {}
    BY <1>0, <1>1, <1>4, <2>1
  <2>2. CASE S # {}
    <3>1. Min(S) \in Nat /\ Min(S) <= Len(u) /\ PathEnd(u, i) = Min(S) - 1
      BY <1>1, <1>2, <1>5, <2>2
    <3> QED
      BY <1>0, <3>1
  <2> QED
    BY <2>1, <2>2
<1>7. ASSUME NEW k \in R
      PROVE  j < k
  <2>0. k \in Nat
    BY <1>2
  <2>1. CASE k <= Len(u)
    <3>1. k \in S
      BY <1>3, <2>1
    <3>2. Min(S) \in Nat /\ Min(S) <= k /\ PathEnd(u, i) = Min(S) - 1
      BY <1>1, <1>2, <1>5, <3>1
    <3> QED
      BY <1>6, <2>0, <3>2
  <2>2. CASE ~(k <= Len(u))
    BY <1>0, <1>6, <2>0, <2>2
  <2> QED
    BY <2>1, <2>2
<1>8. j <= PathEnd(v, i) /\ PathEnd(v, i) \in Int
  <2>1. CASE R = {}
    <3>1. S = {}
      BY <1>3, <2>1
    <3>2. PathEnd(u, i) = Min({m, Len(u)}) /\ PathEnd(v, i) = Min({m, Len(v)})
      BY <1>1, <2>1, <3>1
    <3> QED
      BY <1>0, <1>4, <1>6, <3>2
  <2>2. CASE R # {}
    <3>1. Min(R) \in R /\ PathEnd(v, i) = Min(R) - 1
      BY <1>1, <1>5, <2>2
    <3>2. Min(R) \in Nat /\ j < Min(R)
      BY <1>2, <1>7, <3>1
    <3> QED
      BY <1>6, <3>1, <3>2
  <2> QED
    BY <2>1, <2>2
<1> QED
  BY <1>0, <1>6, <1>8

PostWord == "POST "

\* So requests to log in stay, in the window.
LEMMA LoginPostsGrow ==
  ASSUME NEW u, NEW v, Extends(v, u)
  PROVE  LoginPosts(u) \subseteq LoginPosts(v) /\ LoginPosts(v) \subseteq 1 .. Len(v)
<1>1. \A s : LoginPosts(s) = {i \in At(s, PostWord) :
                \E j \in i + 1 .. PathEnd(s, i) : Folded(s[j]) \in AuthPaths}
  BY Zenon DEF LoginPosts, PathEnd, PostWord, Space
<1>2. ASSUME NEW i \in LoginPosts(u)
      PROVE  i \in LoginPosts(v)
  <2>1. PICK j \in i + 1 .. PathEnd(u, i) : Folded(u[j]) \in AuthPaths
    BY <1>1
  <2>2. i \in At(u, PostWord)
    BY <1>1
  <2>3. i \in 1 .. Len(u) /\ i \in At(v, PostWord)
    BY <2>2, AtExtends DEF Begins
  <2>4. j \in 1 .. Len(u) /\ j \in i + 1 .. PathEnd(v, i)
    BY <2>3, PathGrows
  <2>5. Folded(v[j]) \in AuthPaths
    BY <2>1, <2>4, ExtendsIs
  <2> QED
    BY <1>1, <2>3, <2>4, <2>5
<1>3. LoginPosts(v) \subseteq 1 .. Len(v)
  <2>1. LoginPosts(v) \subseteq At(v, PostWord)
    BY <1>1
  <2>2. At(v, PostWord) \subseteq 1 .. Len(v)
    BY AtExtends
  <2> QED
    BY <2>1, <2>2
<1> QED
  BY <1>2, <1>3

\* Brute force: a size, and a count of those.
LEMMA BruteforceStays ==
  ASSUME NEW p, NEW q, Extends(q, p), detect_http_bruteforce(p)
  PROVE  detect_http_bruteforce(q)
<1> DEFINE u == Window(p, LoginWindow)
           v == Window(q, LoginWindow)
<1>0. LongMin \in Nat /\ LoginWindow \in Nat /\ LoginMin \in Nat
  BY DetectorAssumption DEF DetectorAssumption
<1>1. Len(p) >= LongMin /\ Cardinality(LoginPosts(u)) >= LoginMin
  BY DEF detect_http_bruteforce
<1>2. Extends(v, u)
  BY <1>0, WindowExtends
<1> HIDE DEF u, v
<1>3. Cardinality(LoginPosts(u)) \in Nat /\ Cardinality(LoginPosts(v)) \in Nat
      /\ Cardinality(LoginPosts(u)) <= Cardinality(LoginPosts(v))
  <2>1. LoginPosts(u) \subseteq LoginPosts(v) /\ LoginPosts(v) \subseteq 1 .. Len(v)
        /\ Len(v) \in Nat
    BY <1>2, LoginPostsGrow, ExtendsIs
  <2> QED
    BY <2>1, CountGrows
<1>4. Cardinality(LoginPosts(v)) >= LoginMin
  BY <1>0, <1>1, <1>3
<1>5. Len(q) >= LongMin
  BY <1>0, <1>1, ExtendsIs
<1> QED
  BY <1>4, <1>5 DEF detect_http_bruteforce, v

UserWord == "USER "
PassWord == "PASS "
StorWord == "STOR "
Telling == {Plain("PW_"), Plain("wallet")}

\* FTP: an upload after a login, a telling name behind the first upload, several uploads.
LEMMA FtpStays ==
  ASSUME NEW p, NEW q, Extends(q, p), detect_ftp_activity(p)
  PROVE  detect_ftp_activity(q)
<1> DEFINE u == Window(p, FtpWindow)
           v == Window(q, FtpWindow)
           Named(s) == \E j \in Line(s, Min(At(s, StorWord))) :
                         j <= Min(At(s, StorWord)) + StorName /\ s[j] \in Telling
           Shown1(s) == /\ At(s, StorWord) # {}
                        /\ \/ Has(s, UserWord) /\ Has(s, PassWord)
                           \/ Named(s)
                           \/ Cardinality(At(s, StorWord)) >= 2
<1>0. FtpWindow \in Nat /\ StorName \in Nat /\ TextMin \in Nat
  BY DetectorAssumption DEF DetectorAssumption
<1>1. \A s : detect_ftp_activity(s) <=> Len(s) >= TextMin /\ Shown1(Window(s, FtpWindow))
  BY Zenon DEF detect_ftp_activity, UserWord, PassWord, StorWord, Telling
<1> HIDE DEF Shown1
<1>2. Extends(v, u) /\ Shown1(u) /\ Len(p) >= TextMin
  BY <1>0, <1>1, WindowExtends
<1> HIDE DEF u, v
<1>3. /\ \A w : Begins(At(u, w), At(v, w), Len(u)) /\ At(v, w) \subseteq 1 .. Len(v)
      /\ Len(u) \in Nat /\ Len(v) \in Nat /\ Len(u) <= Len(v)
      /\ \A i \in 1 .. Len(u) : v[i] = u[i]
  BY <1>2, AtExtends, ExtendsIs
<1>4. \A w : Has(u, w) => Has(v, w)
  BY <1>3 DEF Has, Begins
<1>5. At(u, StorWord) # {} /\ At(v, StorWord) # {}
      /\ Min(At(v, StorWord)) = Min(At(u, StorWord)) /\ Min(At(u, StorWord)) \in At(u, StorWord)
  <2>1. At(u, StorWord) # {}
    BY <1>2 DEF Shown1
  <2>2. Begins(At(u, StorWord), At(v, StorWord), Len(u))
    BY <1>3
  <2> QED
    BY <1>3, <2>1, <2>2, LeastStays DEF Begins
<1>6. ASSUME Named(u)
      PROVE  Named(v)
  <2> DEFINE m == Min(At(u, StorWord))
  <2>0. m \in 1 .. Len(u)
    BY <1>3, <1>5 DEF Begins
  <2>1. PICK j \in Line(u, m) : j <= m + StorName /\ u[j] \in Telling
    BY <1>6
  <2>2. m = Min(At(v, StorWord))
    BY <1>5
  <2> HIDE DEF m
  <2>3. j \in m + 1 .. Len(u) /\ \A l \in m + 1 .. j : u[l] \notin LineEnds
    BY <2>1 DEF Line
  <2>4. j \in 1 .. Len(u) /\ j \in m + 1 .. Len(v) /\ \A l \in m + 1 .. j : l \in 1 .. Len(u)
    BY <1>3, <2>0, <2>3
  <2>5. j \in Line(v, m) /\ v[j] \in Telling
    BY <1>3, <2>1, <2>3, <2>4 DEF Line
  <2> QED
    BY <2>1, <2>2, <2>5
<1>7. Cardinality(At(u, StorWord)) >= 2 => Cardinality(At(v, StorWord)) >= 2
  <2> DEFINE S == At(u, StorWord)
             R == At(v, StorWord)
  <2>1. S \subseteq R /\ R \subseteq 1 .. Len(v)
    BY <1>3 DEF Begins
  <2> HIDE DEF S, R
  <2>2. Cardinality(S) \in Nat /\ Cardinality(R) \in Nat /\ Cardinality(S) <= Cardinality(R)
    BY <1>3, <2>1, CountGrows
  <2>3. Cardinality(S) >= 2 => Cardinality(R) >= 2
    BY <2>2
  <2> QED
    BY <2>3 DEF S, R
<1>8. Shown1(v)
  <2> HIDE DEF Named
  <2> QED
    BY <1>2, <1>4, <1>5, <1>6, <1>7 DEF Shown1
<1>9. Len(q) >= TextMin
  BY <1>0, <1>2, ExtendsIs
<1> QED
  BY <1>1, <1>8, <1>9 DEF v

Delimiter == "|'|'|"
ReconWords == {"Administrator", ".exe", "tasklist"}
CmdToken == Plain("cmd")
DigitToken == Plain("7")
RunToken == Plain("b64")

\* Length-prefixed commands stay where they are.
LEMMA FramedGrows ==
  ASSUME NEW u, NEW v, Extends(v, u)
  PROVE  Framed(u) \subseteq Framed(v) /\ Framed(v) \subseteq 1 .. 10
<1> DEFINE Last9(s) == Min({10, Len(s) - 1})
           Frame(s, i) == /\ IsByte(s, i, {0}) /\ s[i + 1] = CmdToken
                          /\ \A j \in 1 .. i - 1 : s[j] = DigitToken
<1>1. \A s : Framed(s) = {i \in 2 .. Last9(s) : Frame(s, i)}
  BY Zenon DEF Framed, CmdToken, DigitToken
<1>2. Len(u) \in Nat /\ Len(v) \in Nat /\ Len(u) <= Len(v)
  BY ExtendsIs
<1>3. /\ Last9(u) = IF 10 <= Len(u) - 1 THEN 10 ELSE Len(u) - 1
      /\ Last9(v) = IF 10 <= Len(v) - 1 THEN 10 ELSE Len(v) - 1
  <2> DEFINE a == Len(u) - 1
             b == Len(v) - 1
  <2>1. a \in Int /\ b \in Int
    BY <1>2
  <2> HIDE DEF a, b
  <2>2. Min({10, a}) = (IF 10 <= a THEN 10 ELSE a) /\ Min({10, b}) = (IF 10 <= b THEN 10 ELSE b)
    BY <2>1, MinOfTwo
  <2> QED
    BY <2>2 DEF a, b
<1> HIDE DEF Last9
<1>4. ASSUME NEW i \in Framed(u)
      PROVE  i \in Framed(v)
  <2>1. i \in 2 .. Last9(u) /\ Frame(u, i)
    <3> HIDE DEF Frame
    <3> QED
      BY <1>1
  <2>2. i \in 2 .. Last9(v) /\ i \in 1 .. Len(u) /\ i + 1 \in 1 .. Len(u)
        /\ \A j \in 1 .. i - 1 : j \in 1 .. Len(u)
    BY <1>2, <1>3, <2>1
  <2>3. Frame(v, i)
    BY <2>1, <2>2, ExtendsIs DEF IsByte
  <2> HIDE DEF Frame
  <2> QED
    BY <1>1, <2>2, <2>3
<1>5. \A i \in Framed(v) : i \in 1 .. 10
  <2> SUFFICES ASSUME NEW i \in Framed(v) PROVE i \in 1 .. 10
    OBVIOUS
  <2>1. i \in 2 .. Last9(v)
    <3> HIDE DEF Frame
    <3> QED
      BY <1>1
  <2> QED
    BY <1>2, <1>3, <2>1
<1> QED
  BY <1>4, <1>5

\* The beginnings of base64 runs stay where they are.
LEMMA RunsGrow ==
  ASSUME NEW u, NEW v, Extends(v, u)
  PROVE  Runs(u) \subseteq Runs(v) /\ Runs(v) \subseteq 1 .. Len(v)
<1>1. \A s : Runs(s) = {i \in At(s, "b64") : i = 1 \/ s[i - 1] # RunToken}
  BY Zenon DEF Runs, RunToken
<1>2. Begins(At(u, "b64"), At(v, "b64"), Len(u)) /\ At(v, "b64") \subseteq 1 .. Len(v)
  BY AtExtends
<1>3. ASSUME NEW i \in Runs(u)
      PROVE  i \in Runs(v)
  <2>1. i \in At(u, "b64") /\ (i = 1 \/ u[i - 1] # RunToken)
    BY <1>1
  <2>2. i \in At(v, "b64") /\ i \in 1 .. Len(u)
    BY <1>2, <2>1 DEF Begins
  <2>3. i # 1 => i - 1 \in 1 .. Len(u)
    BY <2>2, ExtendsIs
  <2>4. i = 1 \/ v[i - 1] # RunToken
    BY <2>1, <2>3, ExtendsIs
  <2> QED
    BY <1>1, <2>2, <2>4
<1> QED
  BY <1>1, <1>2, <1>3

\* Three things are finitely many.
LEMMA FiniteThree ==
  \A a, b, c : IsFiniteSet({a, b, c})
<1> SUFFICES ASSUME NEW a, NEW b, NEW c PROVE IsFiniteSet({a, b, c})
  OBVIOUS
<1>1. IsFiniteSet({a}) /\ {a, b, c} = ({a} \cup {b}) \cup {c}
  BY FS_Singleton
<1>2. IsFiniteSet({a} \cup {b})
  BY <1>1, FS_AddElement
<1>3. IsFiniteSet(({a} \cup {b}) \cup {c})
  BY <1>2, FS_AddElement
<1> QED
  BY <1>1, <1>3

\* The remote-access trojan: each part of its score only gains.
LEMMA RatStays ==
  ASSUME NEW p, NEW q, Extends(q, p), NEW f, detect_rat_protocol(p, f)
  PROVE  detect_rat_protocol(q, f)
<1> DEFINE u == Window(p, RatWindow)
           v == Window(q, RatWindow)
           D(s) == Cardinality(At(s, Delimiter)) >= DelimMin
           F(s) == Cardinality(Framed(s)) >= 2
           N(s) == Cardinality({w \in ReconWords : Has(s, w)}) >= 2
           R(s) == Cardinality(Runs(s)) >= RunMin
           score(s) == 4 * Bit(D(s)) + 2 * Bit(F(s)) + 2 * Bit(N(s)) + Bit(R(s))
<1>0. RatWindow \in Nat /\ TextMin \in Nat /\ DelimMin \in Nat /\ RunMin \in Nat
  BY DetectorAssumption DEF DetectorAssumption
<1>1. \A s : detect_rat_protocol(s, f) <=>
               Len(s) >= TextMin /\ f.ports = "custom" /\ score(Window(s, RatWindow)) >= 4
  BY Zenon DEF detect_rat_protocol, Delimiter, ReconWords
<1>2. Extends(v, u)
  BY <1>0, WindowExtends
<1>3. Len(p) >= TextMin /\ f.ports = "custom" /\ score(u) >= 4
  <2> HIDE DEF score
  <2> QED
    BY <1>1
<1> HIDE DEF u, v
<1>4. Len(v) \in Nat /\ Len(u) \in Nat
  BY <1>2, ExtendsIs
<1>5. D(u) => D(v)
  <2> DEFINE S == At(u, Delimiter)
             T == At(v, Delimiter)
  <2>1. S \subseteq T /\ T \subseteq 1 .. Len(v)
    BY <1>2, AtExtends DEF Begins
  <2> HIDE DEF S, T
  <2>2. Cardinality(S) \in Nat /\ Cardinality(T) \in Nat /\ Cardinality(S) <= Cardinality(T)
    BY <1>4, <2>1, CountGrows
  <2>3. Cardinality(S) >= DelimMin => Cardinality(T) >= DelimMin
    BY <1>0, <2>2
  <2> QED
    BY <2>3 DEF S, T
<1>6. F(u) => F(v)
  <2>1. Framed(u) \subseteq Framed(v) /\ Framed(v) \subseteq 1 .. 10
    BY <1>2, FramedGrows
  <2>2. /\ Cardinality(Framed(u)) \in Nat /\ Cardinality(Framed(v)) \in Nat
        /\ Cardinality(Framed(u)) <= Cardinality(Framed(v))
    BY <2>1, CountGrows
  <2> QED
    BY <2>2
<1>7. N(u) => N(v)
  <2> DEFINE S == {w \in ReconWords : Has(u, w)}
             T == {w \in ReconWords : Has(v, w)}
  <2>1. \A w : Has(u, w) => Has(v, w)
    BY <1>2, AtExtends DEF Has, Begins
  <2>2. S \subseteq T /\ T \subseteq ReconWords
    BY <2>1
  <2>3. IsFiniteSet(ReconWords)
    BY FiniteThree, Zenon DEF ReconWords
  <2> HIDE DEF S, T
  <2>4. IsFiniteSet(T)
    BY <2>2, <2>3, FS_Subset
  <2>5. Cardinality(S) \in Nat /\ Cardinality(T) \in Nat /\ Cardinality(S) <= Cardinality(T)
    BY <2>2, <2>4, FS_Subset, FS_CardinalityType
  <2>6. Cardinality(S) >= 2 => Cardinality(T) >= 2
    BY <2>5
  <2> QED
    BY <2>6 DEF S, T
<1>8. R(u) => R(v)
  <2>1. Runs(u) \subseteq Runs(v) /\ Runs(v) \subseteq 1 .. Len(v)
    BY <1>2, RunsGrow
  <2>2. /\ Cardinality(Runs(u)) \in Nat /\ Cardinality(Runs(v)) \in Nat
        /\ Cardinality(Runs(u)) <= Cardinality(Runs(v))
    BY <1>4, <2>1, CountGrows
  <2> QED
    BY <1>0, <2>2
<1> HIDE DEF D, F, N, R
<1>9. \A b \in BOOLEAN : Bit(b) \in 0 .. 1
  BY DEF Bit
<1>10. /\ Bit(D(u)) \in 0 .. 1 /\ Bit(D(v)) \in 0 .. 1 /\ Bit(D(u)) <= Bit(D(v))
       /\ Bit(F(u)) \in 0 .. 1 /\ Bit(F(v)) \in 0 .. 1 /\ Bit(F(u)) <= Bit(F(v))
       /\ Bit(N(u)) \in 0 .. 1 /\ Bit(N(v)) \in 0 .. 1 /\ Bit(N(u)) <= Bit(N(v))
       /\ Bit(R(u)) \in 0 .. 1 /\ Bit(R(v)) \in 0 .. 1 /\ Bit(R(u)) <= Bit(R(v))
  BY <1>5, <1>6, <1>7, <1>8 DEF Bit
<1>11. score(v) >= 4
  BY <1>3, <1>10
<1> HIDE DEF score
<1>12. Len(q) >= TextMin
  BY <1>0, <1>3, ExtendsIs
<1>13. score(Window(q, RatWindow)) >= 4
  BY <1>11 DEF v
<1> QED
  BY <1>1, <1>3, <1>12, <1>13

\* What has been found in the beginning of a payload is found in all of it: the moment a
\* connection is flushed (a timeout, an eviction, the end) hides nothing the detectors
\* of npu_filter.cpp:146-645 had in front of them before.
THEOREM GrowthNeverHidesHolds == Spec => GrowthNeverHides
<1> DEFINE Keeps == \A r \in Lasting : Shows(payload, r, FALSE) => Shows(payload', r, FALSE)
<1>1. ASSUME FlowInv, [Next]_vars
      PROVE  [Keeps]_vars
  <2>1. CASE Arrive \/ Continue
    <3>1. Grows /\ payload \in Seq(Tokens)
      BY <1>1, <2>1, ArriveGrows, ContinueGrows DEF FlowInv
    <3>2. Extends(payload', payload)
      BY <3>1 DEF Grows, Extends
    <3>3. \A p : /\ Shows(p, "heartbleed", FALSE) <=> detect_heartbleed(p)
                 /\ Shows(p, "smb-exploit", FALSE) <=> detect_smb_exploit(p, flow)
                 /\ Shows(p, "http-bruteforce", FALSE) <=> detect_http_bruteforce(p)
                 /\ Shows(p, "ftp-exfil", FALSE) <=> detect_ftp_activity(p)
                 /\ Shows(p, "rat-c2", FALSE) <=> detect_rat_protocol(p, flow)
      <4>1. \A p : Shows(p, "heartbleed", FALSE) <=> detect_heartbleed(p)
        BY Zenon DEF Shows
      <4>2. \A p : Shows(p, "smb-exploit", FALSE) <=> detect_smb_exploit(p, flow)
        BY Zenon DEF Shows
      <4>3. \A p : Shows(p, "http-bruteforce", FALSE) <=> detect_http_bruteforce(p)
        BY Zenon DEF Shows
      <4>4. \A p : Shows(p, "ftp-exfil", FALSE) <=> detect_ftp_activity(p)
        BY Zenon DEF Shows
      <4>5. \A p : Shows(p, "rat-c2", FALSE) <=> detect_rat_protocol(p, flow)
        BY Zenon DEF Shows
      <4> QED
        BY <4>1, <4>2, <4>3, <4>4, <4>5, Zenon
    <3>4. /\ detect_heartbleed(payload) => detect_heartbleed(payload')
          /\ detect_smb_exploit(payload, flow) => detect_smb_exploit(payload', flow)
          /\ detect_http_bruteforce(payload) => detect_http_bruteforce(payload')
          /\ detect_ftp_activity(payload) => detect_ftp_activity(payload')
          /\ detect_rat_protocol(payload, flow) => detect_rat_protocol(payload', flow)
      BY <3>2, HeartbleedStays, SmbStays, BruteforceStays, FtpStays, RatStays
    <3>5. Keeps
      BY <3>3, <3>4, Zenon DEF Lasting
    <3> QED
      BY <3>5
  <2>2. CASE Inspect \/ ReportNamed \/ Ask \/ UNCHANGED vars
    <3>1. payload' = payload
      BY <2>2 DEF Inspect, ReportNamed, Ask, vars
    <3>2. Keeps
      BY <3>1, Zenon DEF Shows
    <3> QED
      BY <3>2
  <2> QED
    BY <1>1, <2>1, <2>2 DEF Next
<1>2. FlowInv /\ [Next]_vars => [Keeps]_vars
  BY <1>1
<1> QED
  BY <1>2, FlowInvHolds, PTL DEF Spec, GrowthNeverHides

-------------------------------------------------------------------------------
(* The canonical form: what it is                                              *)

\* A token within the layers that are taken off becomes what it stands for.
LEMMA MeaningIs ==
  ASSUME NEW x \in Tokens, x.t # "byte" => x.k <= (IF x.t = "+" THEN 2 ELSE 3)
  PROVE  Once(Once(Once(x))) = Meaning(x)
<1> DEFINE T(k) == [t |-> x.t, k |-> k]
<1>1. x = T(x.k) /\ x.k \in Nat
  BY DEF Tokens
<1>2. x.t # "byte" => x.k <= (IF x.t = Plus THEN 2 ELSE 3)
  BY Zenon DEF Plus
<1>3. /\ x.t = "byte" => Meaning(x) = x
      /\ x.t # "byte" /\ x.t = Plus => Meaning(x) = Space
      /\ x.t # "byte" /\ x.t # Plus => Meaning(x) = T(0)
  <2>1. x.t = "byte" => Meaning(x) = x
    BY Zenon DEF Meaning
  <2>2. x.t # "byte" /\ x.t = Plus => Meaning(x) = Space
    BY Zenon DEF Meaning, Plus, Space
  <2>3. x.t # "byte" /\ x.t # Plus => Meaning(x) = Plain(x.t)
    BY Zenon DEF Meaning, Plus
  <2>4. Plain(x.t) = T(0)
    BY DEF Plain, Encoded
  <2> QED
    BY <2>1, <2>2, <2>3, <2>4
<1>4. ASSUME x.t # "byte", NEW k \in Nat
      PROVE  /\ k > 0 => Once(T(k)) = T(k - 1)
             /\ k = 0 => Once(T(k)) = IF x.t = Plus THEN Space ELSE T(k)
  <2>1. T(k).t = x.t /\ T(k).k = k /\ (k > 0 => [T(k) EXCEPT !.k = @ - 1] = T(k - 1))
    OBVIOUS
  <2> HIDE DEF T
  <2>2. k > 0 => Once(T(k)) = [T(k) EXCEPT !.k = @ - 1]
    BY <1>4, <2>1 DEF Once
  <2>3. k = 0 => Once(T(k)) = IF x.t = Plus THEN Space ELSE T(k)
    BY <1>4, <2>1 DEF Once
  <2> QED
    BY <2>1, <2>2, <2>3
<1> HIDE DEF T
<1>5. CASE x.t = "byte"
  BY <1>3, <1>5, ThreeTimes
<1>6. CASE x.t # "byte"
  <2>0. x.k \in {0, 1, 2, 3} /\ (x.t = Plus => x.k # 3)
    BY <1>1, <1>2, <1>6
  <2>1. /\ Once(T(3)) = T(2) /\ Once(T(2)) = T(1) /\ Once(T(1)) = T(0)
        /\ Once(T(0)) = IF x.t = Plus THEN Space ELSE T(0)
    <3>1. 3 - 1 = 2 /\ 2 - 1 = 1 /\ 1 - 1 = 0 /\ {0, 1, 2, 3} \subseteq Nat
      OBVIOUS
    <3> QED
      BY <1>4, <1>6, <3>1
  <2>2. Once(Space) = Space
    BY OnceIs
  <2>3. CASE x.t = Plus
    <3>1. Once(Once(Once(x))) = Space
      BY <1>1, <2>0, <2>1, <2>2, <2>3
    <3> QED
      BY <1>3, <1>6, <2>3, <3>1
  <2>4. CASE x.t # Plus
    <3>1. Once(Once(Once(x))) = T(0)
      BY <1>1, <2>0, <2>1, <2>4
    <3> QED
      BY <1>3, <1>6, <2>4, <3>1
  <2> QED
    BY <2>3, <2>4
<1> QED
  BY <1>5, <1>6

\* What decoded text is made of.
Written == Tokens \cup {Space}

\* Decoding gives text, of the two halves of a payload one after the other.
LEMMA DecodesParts ==
  ASSUME NEW p \in Seq(Tokens), NEW q \in Seq(Tokens)
  PROVE  /\ Decode(p) \in Seq(Written) /\ Len(Decode(p)) = Len(p)
         /\ Decode(p \o q) = Decode(p) \o Decode(q)
<1>1. ASSUME NEW x \in Tokens PROVE Once(Once(Once(x))) \in Written
  <2>1. Decoded(x) \in Tokens
    BY DecodedIs
  <2> QED
    BY <2>1, ThreeTimes DEF Written
<1>2. ASSUME NEW r \in Seq(Tokens)
      PROVE  /\ Decode(r) \in Seq(Written) /\ Len(Decode(r)) = Len(r)
             /\ \A i \in 1 .. Len(r) : Decode(r)[i] = Once(Once(Once(r[i])))
  <2>1. Decode(r) = [i \in 1 .. Len(r) |-> Once(Once(Once(r[i])))] /\ Len(r) \in Nat
    BY DecodeIs
  <2>2. \A i \in 1 .. Len(r) : r[i] \in Tokens
    OBVIOUS
  <2>3. Decode(r) \in [1 .. Len(r) -> Written]
    BY <1>1, <2>1, <2>2
  <2> QED
    BY <2>1, <2>3
<1>3. /\ p \o q \in Seq(Tokens) /\ Joined(p \o q, p, q)
      /\ Decode(p) \o Decode(q) \in Seq(Written)
      /\ Joined(Decode(p) \o Decode(q), Decode(p), Decode(q))
  BY <1>2, ConcatIs
<1> DEFINE c == p \o q
           d == Decode(p) \o Decode(q)
           e == Decode(c)
<1> HIDE DEF c, d
<1>4. /\ e \in Seq(Written) /\ Len(e) = Len(c)
      /\ \A i \in 1 .. Len(c) : e[i] = Once(Once(Once(c[i])))
  BY <1>2, <1>3 DEF c
<1>5. d \in Seq(Written) /\ Joined(d, Decode(p), Decode(q)) /\ Joined(c, p, q)
  BY <1>3 DEF c, d
<1> HIDE DEF e
<1>6. Len(d) = Len(e)
  BY <1>2, <1>4, <1>5 DEF Joined
<1>7. ASSUME NEW i \in 1 .. Len(e) PROVE e[i] = d[i]
  <2>0. Len(p) \in Nat /\ Len(q) \in Nat /\ Len(c) = Len(p) + Len(q)
    BY <1>5 DEF Joined
  <2>1. CASE i \in 1 .. Len(p)
    <3>1. c[i] = p[i] /\ d[i] = Decode(p)[i]
      BY <1>2, <1>5, <2>1 DEF Joined
    <3> QED
      BY <1>2, <1>4, <2>1, <3>1
  <2>2. CASE i \notin 1 .. Len(p)
    <3> DEFINE j == i - Len(p)
    <3>1. j \in 1 .. Len(q) /\ i = Len(p) + j
      BY <1>4, <2>0, <2>2
    <3> HIDE DEF j
    <3>2. c[Len(p) + j] = q[j] /\ d[Len(p) + j] = Decode(q)[j]
      BY <1>2, <1>5, <3>1 DEF Joined
    <3> QED
      BY <1>2, <1>4, <3>1, <3>2
  <2> QED
    BY <2>1, <2>2
<1>8. e = d
  BY <1>4, <1>5, <1>6, <1>7, SMTT(30)
<1> QED
  BY <1>2, <1>8 DEF c, d, e

-------------------------------------------------------------------------------
(* The canonical form: the payload part by part                                *)

\* The beginnings of comments, and where comments end.
Slash == Plain("/")
Star == Plain("*")
Dash == Plain("-")
Block(s, i) == Pair(s, i, "/", "*")
Dashes(s, i) == Pair(s, i, "-", "-")
BlockEnds(s, i) == {j \in i + 2 .. Len(s) : Pair(s, j, "*", "/")}
LineStops(s, i) == {j \in i .. Len(s) : s[j] \in LineEnds}

\* The beginning of a comment, by its tokens.
LEMMA BeginningIs ==
  ASSUME NEW s, NEW i
  PROVE  /\ Block(s, i) <=> i < Len(s) /\ s[i] = Slash /\ s[i + 1] = Star
         /\ Dashes(s, i) <=> i < Len(s) /\ s[i] = Dash /\ s[i + 1] = Dash
<1>1. Block(s, i) <=> i < Len(s) /\ s[i] = Slash /\ s[i + 1] = Star
  BY Zenon DEF Block, Pair, Slash, Star
<1>2. Dashes(s, i) <=> i < Len(s) /\ s[i] = Dash /\ s[i + 1] = Dash
  BY Zenon DEF Dashes, Pair, Dash
<1> QED
  BY <1>1, <1>2, Zenon

\* The end of a block comment, by its tokens.
LEMMA BlockEndIs ==
  ASSUME NEW s, NEW i, NEW j
  PROVE  j \in BlockEnds(s, i) <=>
           j \in i + 2 .. Len(s) /\ j < Len(s) /\ s[j] = Star /\ s[j + 1] = Slash
BY Zenon DEF BlockEnds, Pair, Slash, Star

\* No token of a text begins both.
LEMMA CommentTokens == Slash # Star /\ Slash # Dash
<1>1. "/" # "*" /\ "/" # "-"
  BY Zenon
<1> QED
  BY <1>1, PlainIs, Zenon DEF Slash, Star, Dash

\* One step of the walk through comments, in these words.
LEMMA WalkIs ==
  ASSUME NEW s, NEW g, NEW i
  PROVE  Remaining(s, g, i) =
           IF i > Len(s) THEN <<>>
           ELSE IF Block(s, i) THEN g[After(BlockEnds(s, i), 2, s)]
           ELSE IF Dashes(s, i) THEN g[After(LineStops(s, i), 1, s)]
           ELSE <<s[i]>> \o g[i + 1]
BY Zenon DEF Remaining, Block, Dashes, BlockEnds, LineStops

\* The places U of c are the places T of t, which begins behind the first m places of c.
Moved(c, t, m, T, U) ==
  /\ m \in Nat /\ Len(t) \in Nat /\ Len(c) = m + Len(t)
  /\ T \subseteq Nat /\ U \subseteq Nat
  /\ \A j \in U : j >= m
  /\ \A j \in Nat : j \in T <=> m + j \in U

\* So the first of them is the same.
LEMMA AfterShifts ==
  ASSUME NEW c, NEW t, NEW m, NEW T, NEW U, Moved(c, t, m, T, U), NEW n \in Nat
  PROVE  After(U, n, c) = m + After(T, n, t)
<1> /\ m \in Nat /\ Len(t) \in Nat /\ Len(c) = m + Len(t)
    /\ T \subseteq Nat /\ U \subseteq Nat
    /\ \A j \in U : j >= m
    /\ \A j \in Nat : j \in T <=> m + j \in U
  BY DEF Moved
<1>0. \A j \in U : j \in Nat /\ j - m \in Nat /\ m + (j - m) = j /\ j - m \in T
  <2> SUFFICES ASSUME NEW j \in U PROVE j \in Nat /\ j - m \in Nat /\ m + (j - m) = j /\ j - m \in T
    OBVIOUS
  <2>1. j \in Nat /\ j >= m
    OBVIOUS
  <2>2. j - m \in Nat /\ m + (j - m) = j
    BY <2>1
  <2> QED
    BY <2>1, <2>2
<1>1. CASE T = {}
  <2>1. U = {}
    BY <1>0, <1>1
  <2>2. After(U, n, c) = Len(c) + 1 /\ After(T, n, t) = Len(t) + 1
    BY <1>1, <2>1 DEF After
  <2> QED
    BY <2>2
<1>2. CASE T # {}
  <2>1. Min(T) \in T /\ \A j \in T : Min(T) <= j
    BY <1>2, MinIs
  <2>2. m + Min(T) \in U
    BY <2>1
  <2>3. Min(U) \in U /\ \A j \in U : Min(U) <= j
    BY <2>2, MinIs
  <2>4. Min(U) <= m + Min(T) /\ Min(T) <= Min(U) - m
    BY <1>0, <2>1, <2>2, <2>3
  <2>5. Min(U) = m + Min(T)
    <3>1. Min(T) \in Nat /\ Min(U) \in Nat
      BY <2>1, <2>3
    <3> DEFINE a == Min(U)
               b == Min(T)
    <3> HIDE DEF a, b
    <3>2. a \in Nat /\ b \in Nat /\ a <= m + b /\ b <= a - m => a = m + b
      OBVIOUS
    <3> QED
      BY <2>4, <3>1, <3>2 DEF a, b
  <2>6. After(U, n, c) = Min(U) + n /\ After(T, n, t) = Min(T) + n
    BY <1>2, <2>2 DEF After
  <2>7. Min(T) \in Nat
    BY <2>1
  <2> DEFINE a == Min(T)
  <2> HIDE DEF a
  <2>8. a \in Nat => (m + a) + n = m + (a + n)
    OBVIOUS
  <2> QED
    BY <2>5, <2>6, <2>7, <2>8, Zenon DEF a
<1> QED
  BY <1>1, <1>2

\* One step of the walk, in the second half of a text and in that half alone.
LEMMA RemainingShifts ==
  ASSUME NEW X, NEW s \in Seq(X), NEW t \in Seq(X), NEW c \in Seq(X), Joined(c, s, t),
         NEW g, NEW h, NEW i \in 1 .. Len(t) + 1,
         \A j \in i + 1 .. Len(t) + 1 : g[Len(s) + j] = h[j]
  PROVE  Remaining(c, g, Len(s) + i) = Remaining(t, h, i)
<1> DEFINE m == Len(s)
<1>0. m \in Nat /\ Len(t) \in Nat /\ Len(c) = m + Len(t) /\ i \in Nat
  BY DEF Joined
<1>1. \A j \in 1 .. Len(t) : c[m + j] = t[j]
  BY DEF Joined
<1>2. \A j \in i + 1 .. Len(t) + 1 : g[m + j] = h[j]
  OBVIOUS
<1> HIDE DEF m
<1>3. CASE i > Len(t)
  <2>1. m + i > Len(c)
    BY <1>0, <1>3
  <2> QED
    BY <1>3, <2>1, WalkIs DEF m
<1>4. CASE ~(i > Len(t))
  <2>1. i \in 1 .. Len(t) /\ ~(m + i > Len(c)) /\ c[m + i] = t[i]
    BY <1>0, <1>1, <1>4
  <2>2. i < Len(t) => m + i < Len(c) /\ c[m + i + 1] = t[i + 1]
    <3> SUFFICES ASSUME i < Len(t) PROVE m + i < Len(c) /\ c[m + i + 1] = t[i + 1]
      OBVIOUS
    <3>1. i + 1 \in 1 .. Len(t) /\ m + (i + 1) = m + i + 1
      BY <1>0
    <3> QED
      BY <1>0, <1>1, <3>1
  <2>3. ~(i < Len(t)) => ~(m + i < Len(c))
    BY <1>0
  <2>4. (Block(c, m + i) <=> Block(t, i)) /\ (Dashes(c, m + i) <=> Dashes(t, i))
    BY <2>1, <2>2, <2>3, BeginningIs, SMTT(30)
  <2>5. After(BlockEnds(c, m + i), 2, c) = m + After(BlockEnds(t, i), 2, t)
    <3> DEFINE T == BlockEnds(t, i)
               U == BlockEnds(c, m + i)
    <3>1. T \subseteq Nat /\ U \subseteq Nat /\ \A j \in U : j >= m
      BY <1>0 DEF BlockEnds
    <3>2. ASSUME NEW j \in Nat PROVE j \in T <=> m + j \in U
      <4>1. j \in i + 2 .. Len(t) <=> m + j \in m + i + 2 .. Len(c)
        BY <1>0
      <4>2. j < Len(t) <=> m + j < Len(c)
        BY <1>0
      <4>3. j \in i + 2 .. Len(t) /\ j < Len(t) => c[m + j] = t[j] /\ c[m + j + 1] = t[j + 1]
        <5> SUFFICES ASSUME j \in i + 2 .. Len(t), j < Len(t)
                     PROVE  c[m + j] = t[j] /\ c[m + j + 1] = t[j + 1]
          OBVIOUS
        <5>1. j \in 1 .. Len(t) /\ j + 1 \in 1 .. Len(t) /\ m + (j + 1) = m + j + 1
          BY <1>0
        <5> QED
          BY <1>1, <5>1
      <4>4. j \in T <=> j \in i + 2 .. Len(t) /\ j < Len(t) /\ t[j] = Star /\ t[j + 1] = Slash
        BY BlockEndIs, Zenon
      <4>5. m + j \in U <=> m + j \in m + i + 2 .. Len(c) /\ m + j < Len(c)
                              /\ c[m + j] = Star /\ c[m + j + 1] = Slash
        BY BlockEndIs, Zenon
      <4> QED
        BY <4>1, <4>2, <4>3, <4>4, <4>5, Zenon
    <3> HIDE DEF T, U
    <3>3. Moved(c, t, m, T, U) /\ 2 \in Nat
      BY <1>0, <3>1, <3>2 DEF Moved
    <3>4. After(U, 2, c) = m + After(T, 2, t)
      BY <3>3, AfterShifts
    <3> QED
      BY <3>4 DEF T, U
  <2>6. After(LineStops(c, m + i), 1, c) = m + After(LineStops(t, i), 1, t)
    <3> DEFINE T == LineStops(t, i)
               U == LineStops(c, m + i)
    <3>1. T \subseteq Nat /\ U \subseteq Nat /\ \A j \in U : j >= m
      BY <1>0 DEF LineStops
    <3>2. ASSUME NEW j \in Nat PROVE j \in T <=> m + j \in U
      <4>1. j \in i .. Len(t) <=> m + j \in m + i .. Len(c)
        BY <1>0
      <4>2. j \in i .. Len(t) => c[m + j] = t[j]
        BY <1>0, <1>1, <2>1
      <4> QED
        BY <4>1, <4>2, Zenon DEF LineStops
    <3> HIDE DEF T, U
    <3>3. Moved(c, t, m, T, U) /\ 1 \in Nat
      BY <1>0, <3>1, <3>2 DEF Moved
    <3>4. After(U, 1, c) = m + After(T, 1, t)
      BY <3>3, AfterShifts
    <3> QED
      BY <3>4 DEF T, U
  <2> DEFINE B == After(BlockEnds(t, i), 2, t)
             L == After(LineStops(t, i), 1, t)
  <2>7. B \in i + 1 .. Len(t) + 1 /\ L \in i + 1 .. Len(t) + 1
    <3>1. /\ After({j \in i + 2 .. Len(t) : Pair(t, j, "*", "/")}, 2, t) \in i + 1 .. Len(t) + 1
          /\ After({j \in i .. Len(t) : t[j] \in LineEnds}, 1, t) \in i + 1 .. Len(t) + 1
      BY <2>1, CommentEnds
    <3> QED
      BY <3>1, Zenon DEF BlockEnds, LineStops
  <2>8. i + 1 \in i + 1 .. Len(t) + 1 /\ m + (i + 1) = m + i + 1
    BY <1>0, <2>1, SMTT(30)
  <2> HIDE DEF B, L
  <2>9. g[m + B] = h[B] /\ g[m + L] = h[L] /\ g[m + i + 1] = h[i + 1]
    BY <1>2, <2>7, <2>8
  <2>10. Remaining(t, h, i) = IF Block(t, i) THEN h[B] ELSE IF Dashes(t, i) THEN h[L]
                              ELSE <<t[i]>> \o h[i + 1]
    BY <1>4, WalkIs DEF B, L
  <2>11. Remaining(c, g, m + i) = IF Block(c, m + i) THEN g[m + B]
                                  ELSE IF Dashes(c, m + i) THEN g[m + L]
                                  ELSE <<c[m + i]>> \o g[m + i + 1]
    BY <2>1, <2>5, <2>6, WalkIs DEF B, L
  <2> QED
    BY <2>1, <2>4, <2>9, <2>10, <2>11 DEF m
<1> QED
  BY <1>3, <1>4 DEF m

\* g is the walk through a text in two halves, and reaches the second as if it were the
\* whole.
Walks(g, X, s, t) ==
  /\ g \in [1 .. Len(s \o t) + 1 -> Seq(X)]
  /\ \A i \in 1 .. Len(s \o t) + 1 : g[i] = Remaining(s \o t, g, i)
  /\ Uncommented(s \o t) = g[1]
  /\ g[Len(s) + 1] = Uncommented(t)

\* There is such a walk through any two halves.
LEMMA HalvesUnfold ==
  ASSUME NEW X, NEW s \in Seq(X), NEW t \in Seq(X)
  PROVE  \E g : Walks(g, X, s, t)
<1> DEFINE c == s \o t
           m == Len(s)
           n == Len(t)
<1>0. m \in Nat /\ n \in Nat
  OBVIOUS
<1>1. c \in Seq(X) /\ Joined(c, s, t)
  BY ConcatIs
<1>2. Len(c) = m + n
  BY <1>1 DEF Joined
<1> HIDE DEF c
<1>3. PICK g \in [1 .. Len(c) + 1 -> Seq(X)] :
        /\ \A i \in 1 .. Len(c) + 1 : g[i] = Remaining(c, g, i)
        /\ Uncommented(c) = g[1]
  BY <1>1, UncommentedUnfolds
<1>4. PICK h \in [1 .. Len(t) + 1 -> Seq(X)] :
        /\ \A i \in 1 .. Len(t) + 1 : h[i] = Remaining(t, h, i)
        /\ Uncommented(t) = h[1]
  BY UncommentedUnfolds
<1>5. ASSUME NEW i \in 1 .. n + 1, \A j \in i + 1 .. n + 1 : g[m + j] = h[j]
      PROVE  g[m + i] = h[i]
  <2>1. Remaining(c, g, m + i) = Remaining(t, h, i)
    BY <1>1, <1>5, RemainingShifts, SMTT(30)
  <2>2. m + i \in 1 .. Len(c) + 1
    BY <1>0, <1>2
  <2>3. g[m + i] = Remaining(c, g, m + i) /\ h[i] = Remaining(t, h, i)
    BY <1>3, <1>4, <2>2
  <2> QED
    BY <2>1, <2>3
<1> HIDE DEF m, n
<1> DEFINE Q == {k \in Nat : \A i \in 1 .. n + 1 : n + 1 - k <= i => g[m + i] = h[i]}
<1>6. 0 \in Q
  <2> SUFFICES ASSUME NEW i \in 1 .. n + 1, n + 1 - 0 <= i PROVE g[m + i] = h[i]
    OBVIOUS
  <2>1. \A j \in i + 1 .. n + 1 : g[m + j] = h[j]
    BY <1>0
  <2> QED
    BY <1>5, <2>1
<1>7. ASSUME NEW k \in Q PROVE k + 1 \in Q
  <2> SUFFICES ASSUME NEW i \in 1 .. n + 1, n + 1 - (k + 1) <= i PROVE g[m + i] = h[i]
    OBVIOUS
  <2>1. \A j \in i + 1 .. n + 1 : g[m + j] = h[j]
    <3> SUFFICES ASSUME NEW j \in i + 1 .. n + 1 PROVE g[m + j] = h[j]
      OBVIOUS
    <3>1. j \in 1 .. n + 1 /\ n + 1 - k <= j
      BY <1>0, <1>7
    <3> QED
      BY <1>7, <3>1
  <2> QED
    BY <1>5, <2>1
<1>8. Q \in SUBSET Nat
  OBVIOUS
<1> HIDE DEF Q
<1>9. Q = Nat
  BY <1>6, <1>7, <1>8, InductiveIsNat
<1>10. g[m + 1] = h[1]
  <2>1. n \in Q /\ 1 \in 1 .. n + 1 /\ n + 1 - n <= 1
    BY <1>0, <1>9
  <2> QED
    BY <2>1 DEF Q
<1> QED
  BY <1>3, <1>4, <1>10, Zenon DEF c, m, Walks

\* Nothing in s begins a comment, also with what comes next.
NothingBegins(s) ==
  \A i \in 1 .. Len(s) : /\ s[i] = Slash => i < Len(s) /\ s[i + 1] # Star
                         /\ s[i] = Dash => i < Len(s) /\ s[i + 1] # Dash

\* Such text stays.
LEMMA ProseStays ==
  ASSUME NEW X, NEW s \in Seq(X), NEW t \in Seq(X), NothingBegins(s)
  PROVE  Uncommented(s \o t) = s \o Uncommented(t)
<1> DEFINE c == s \o t
           m == Len(s)
<1>1. c \in Seq(X) /\ Joined(c, s, t)
  BY ConcatIs
<1>2. m \in Nat /\ Len(t) \in Nat /\ Len(c) = m + Len(t) /\ \A i \in 1 .. m : c[i] = s[i]
  BY <1>1 DEF Joined
<1>0. PICK g : Walks(g, X, s, t)
  BY HalvesUnfold, Zenon
<1>3. /\ g \in [1 .. Len(c) + 1 -> Seq(X)]
      /\ \A i \in 1 .. Len(c) + 1 : g[i] = Remaining(c, g, i)
      /\ Uncommented(c) = g[1] /\ g[m + 1] = Uncommented(t)
  BY <1>0, Zenon DEF Walks
<1> HIDE DEF c
<1>4. ASSUME NEW i \in 1 .. m PROVE g[i] = <<s[i]>> \o g[i + 1]
  <2>1. c[i] = s[i] /\ ~(i > Len(c)) /\ i \in 1 .. Len(c) + 1
    BY <1>2
  <2>2. ~Block(c, i) /\ ~Dashes(c, i)
    <3>1. /\ s[i] = Slash => i < m /\ s[i + 1] # Star
          /\ s[i] = Dash => i < m /\ s[i + 1] # Dash
      BY Zenon DEF NothingBegins
    <3>2. i < m => c[i + 1] = s[i + 1]
      BY <1>2
    <3> HIDE DEF m
    <3> QED
      BY <2>1, <3>1, <3>2, BeginningIs, Zenon
  <2>3. g[i] = Remaining(c, g, i)
    BY <1>3, <2>1
  <2> QED
    BY <2>1, <2>2, <2>3, WalkIs
<1> HIDE DEF m
<1> DEFINE Q == {k \in Nat : k <= m => g[1] = SubSeq(s, 1, k) \o g[k + 1]}
<1>5. 0 \in Q
  <2>1. 1 \in 1 .. Len(c) + 1
    BY <1>2
  <2>2. g[1] \in Seq(X)
    BY <1>3, <2>1
  <2>3. SubSeq(s, 1, 0) = <<>>
    OBVIOUS
  <2>4. <<>> \o g[1] = g[1]
    BY <2>2, SMTT(30)
  <2>5. 0 \in Nat /\ 0 + 1 = 1
    OBVIOUS
  <2> QED
    BY <2>3, <2>4, <2>5, Zenon
<1>6. ASSUME NEW k \in Q PROVE k + 1 \in Q
  <2> k + 1 \in Nat
    OBVIOUS
  <2> SUFFICES ASSUME k + 1 <= m PROVE g[1] = SubSeq(s, 1, k + 1) \o g[k + 1 + 1]
    BY Zenon
  <2>0. k \in Nat /\ k + 1 <= m /\ k <= m /\ k + 1 \in 1 .. m /\ k + 1 + 1 \in 1 .. Len(c) + 1
    BY <1>2
  <2>1. g[1] = SubSeq(s, 1, k) \o g[k + 1]
    BY <2>0
  <2>2. g[k + 1] = <<s[k + 1]>> \o g[k + 1 + 1]
    BY <1>4, <2>0
  <2> DEFINE u == SubSeq(s, 1, k)
             w == <<s[k + 1]>>
             r == g[k + 1 + 1]
  <2>3. u \in Seq(X) /\ w \in Seq(X) /\ r \in Seq(X)
    <3>1. m = Len(s)
      BY DEF m
    <3>2. s[k + 1] \in X
      BY <2>0, <3>1
    <3>3. u \in Seq(X)
      BY <2>0, <3>1, SMTT(30)
    <3>4. r \in Seq(X)
      BY <1>3, <2>0, Zenon
    <3> QED
      BY <3>2, <3>3, <3>4
  <2>4. u \o w = SubSeq(s, 1, k + 1)
    <3>1. m = Len(s)
      BY DEF m
    <3> QED
      BY <2>0, <3>1
  <2> HIDE DEF u, w, r
  <2>5. u \o (w \o r) = (u \o w) \o r
    BY <2>3, SMTT(30)
  <2> QED
    BY <2>1, <2>2, <2>4, <2>5 DEF u, w, r
<1>7. Q \in SUBSET Nat
  OBVIOUS
<1> HIDE DEF Q
<1>8. Q = Nat
  BY <1>5, <1>6, <1>7, InductiveIsNat
<1>9. g[1] = SubSeq(s, 1, m) \o g[m + 1]
  <2>1. m \in Q /\ m <= m
    BY <1>2, <1>8
  <2> QED
    BY <2>1 DEF Q
<1>10. SubSeq(s, 1, m) = s
  BY DEF m
<1> QED
  BY <1>3, <1>9, <1>10 DEF c

\* A block comment that ends where it first may goes.
LEMMA BlockGoes ==
  ASSUME NEW X, NEW s \in Seq(X), NEW t \in Seq(X), Len(s) >= 4,
         s[1] = Slash, s[2] = Star, s[Len(s) - 1] = Star, s[Len(s)] = Slash,
         \A i \in 3 .. Len(s) - 2 : s[i] # Star
  PROVE  Uncommented(s \o t) = Uncommented(t)
<1> DEFINE c == s \o t
           m == Len(s)
<1>1. c \in Seq(X) /\ Joined(c, s, t)
  BY ConcatIs
<1>2. /\ m \in Nat /\ m >= 4 /\ Len(t) \in Nat /\ Len(c) = m + Len(t)
      /\ \A i \in 1 .. m : c[i] = s[i]
  BY <1>1 DEF Joined
<1>0. PICK g : Walks(g, X, s, t)
  BY HalvesUnfold, Zenon
<1>3. /\ g \in [1 .. Len(c) + 1 -> Seq(X)]
      /\ \A i \in 1 .. Len(c) + 1 : g[i] = Remaining(c, g, i)
      /\ Uncommented(c) = g[1] /\ g[m + 1] = Uncommented(t)
  BY <1>0, Zenon DEF Walks
<1> HIDE DEF c
<1>4. /\ c[1] = Slash /\ c[1 + 1] = Star /\ c[m - 1] = Star /\ c[m] = Slash
      /\ \A i \in 3 .. m - 2 : c[i] # Star
  <2>1. 1 \in 1 .. m /\ 2 \in 1 .. m /\ 1 + 1 = 2 /\ m - 1 \in 1 .. m /\ m \in 1 .. m
    BY <1>2
  <2>2. \A i \in 3 .. m - 2 : i \in 1 .. m
    BY <1>2
  <2> QED
    BY <1>2, <2>1, <2>2
<1> HIDE DEF m
<1> DEFINE B == BlockEnds(c, 1)
<1>5. m - 1 \in B
  <2>1. m - 1 \in 1 + 2 .. Len(c) /\ m - 1 < Len(c) /\ (m - 1) + 1 = m
    BY <1>2, SMTT(30)
  <2> QED
    BY <1>4, <2>1, BlockEndIs
<1>6. ASSUME NEW j \in B PROVE j \in Nat /\ m - 1 <= j
  <2>1. j \in 1 + 2 .. Len(c) /\ c[j] = Star
    BY BlockEndIs
  <2>2. j \in Nat /\ j >= 3
    BY <1>2, <2>1
  <2>3. ~(j <= m - 2)
    BY <1>2, <1>4, <2>1, <2>2
  <2> QED
    BY <1>2, <2>2, <2>3
<1> HIDE DEF B
<1>7. Min(B) = m - 1
  <2>1. B \in SUBSET Nat /\ B # {}
    BY <1>5, <1>6
  <2>2. Min(B) \in B /\ Min(B) <= m - 1
    BY <1>5, <2>1, MinIs
  <2>3. m - 1 <= Min(B) /\ Min(B) \in Nat
    BY <1>6, <2>2
  <2> QED
    BY <1>2, <2>2, <2>3
<1>8. After(B, 2, c) = m + 1
  <2>1. After(B, 2, c) = Min(B) + 2
    BY <1>5 DEF After
  <2> QED
    BY <1>2, <1>7, <2>1
<1>9. Block(c, 1) /\ ~(1 > Len(c)) /\ 1 \in 1 .. Len(c) + 1
  <2>1. 1 < Len(c) /\ ~(1 > Len(c)) /\ 1 \in 1 .. Len(c) + 1
    BY <1>2
  <2> QED
    BY <1>4, <2>1, BeginningIs, Zenon
<1>10. Remaining(c, g, 1) = g[After(B, 2, c)]
  BY <1>9, WalkIs DEF B
<1> QED
  BY <1>3, <1>8, <1>9, <1>10 DEF c

\* So does a line comment.
LEMMA LineGoes ==
  ASSUME NEW X, NEW s \in Seq(X), NEW t \in Seq(X), Len(s) >= 3, s[1] = Dash, s[2] = Dash,
         \A i \in 1 .. Len(s) : s[i] \in LineEnds <=> i = Len(s)
  PROVE  Uncommented(s \o t) = Uncommented(t)
<1> DEFINE c == s \o t
           m == Len(s)
<1>1. c \in Seq(X) /\ Joined(c, s, t)
  BY ConcatIs
<1>2. /\ m \in Nat /\ m >= 3 /\ Len(t) \in Nat /\ Len(c) = m + Len(t)
      /\ \A i \in 1 .. m : c[i] = s[i]
  BY <1>1 DEF Joined
<1>0. PICK g : Walks(g, X, s, t)
  BY HalvesUnfold, Zenon
<1>3. /\ g \in [1 .. Len(c) + 1 -> Seq(X)]
      /\ \A i \in 1 .. Len(c) + 1 : g[i] = Remaining(c, g, i)
      /\ Uncommented(c) = g[1] /\ g[m + 1] = Uncommented(t)
  BY <1>0, Zenon DEF Walks
<1> HIDE DEF c
<1>4. /\ c[1] = Dash /\ c[1 + 1] = Dash /\ \A i \in 1 .. m : c[i] \in LineEnds <=> i = m
  <2>1. 1 \in 1 .. m /\ 2 \in 1 .. m /\ 1 + 1 = 2
    BY <1>2
  <2> QED
    BY <1>2, <2>1
<1> HIDE DEF m
<1> DEFINE B == LineStops(c, 1)
<1>5. m \in B
  <2>1. m \in 1 .. Len(c) /\ m \in 1 .. m
    BY <1>2
  <2> QED
    BY <1>4, <2>1 DEF LineStops
<1>6. ASSUME NEW j \in B PROVE j \in Nat /\ m <= j
  <2>1. j \in 1 .. Len(c) /\ c[j] \in LineEnds
    BY DEF LineStops
  <2> QED
    BY <1>2, <1>4, <2>1
<1> HIDE DEF B
<1>7. Min(B) = m
  <2>1. B \in SUBSET Nat /\ B # {}
    BY <1>5, <1>6
  <2>2. Min(B) \in B /\ Min(B) <= m
    BY <1>5, <2>1, MinIs
  <2>3. m <= Min(B) /\ Min(B) \in Nat
    BY <1>6, <2>2
  <2> QED
    BY <1>2, <2>2, <2>3
<1>8. After(B, 1, c) = m + 1
  <2>1. After(B, 1, c) = Min(B) + 1
    BY <1>5 DEF After
  <2> QED
    BY <1>2, <1>7, <2>1
<1>9. Dashes(c, 1) /\ ~Block(c, 1) /\ ~(1 > Len(c)) /\ 1 \in 1 .. Len(c) + 1
  <2>1. 1 < Len(c) /\ ~(1 > Len(c)) /\ 1 \in 1 .. Len(c) + 1
    BY <1>2
  <2>2. c[1] # Slash
    BY <1>4, CommentTokens
  <2> QED
    BY <1>4, <2>1, <2>2, BeginningIs, Zenon
<1>10. Remaining(c, g, 1) = g[After(B, 1, c)]
  BY <1>9, WalkIs DEF B
<1> QED
  BY <1>3, <1>8, <1>9, <1>10 DEF c

\* Whatever text follows, s leaves v of it before the rest.
Passes(s, v) == \A t \in Seq(Written) : Uncommented(s \o t) = v \o Uncommented(t)

\* Every token of white space a space, every other one folded.
Canon(v) == [i \in DOMAIN v |-> IF v[i] \in White THEN Space ELSE Folded(v[i])]

\* One part after another leaves what both leave ...
LEMMA PassesJoin ==
  ASSUME NEW s \in Seq(Written), NEW u \in Seq(Written),
         NEW v \in Seq(Written), NEW w \in Seq(Written), Passes(s, v), Passes(u, w)
  PROVE  Passes(s \o u, v \o w)
<1> SUFFICES ASSUME NEW t \in Seq(Written)
             PROVE  Uncommented((s \o u) \o t) = (v \o w) \o Uncommented(t)
  BY DEF Passes
<1>1. (s \o u) \o t = s \o (u \o t) /\ u \o t \in Seq(Written)
  BY SMTT(30)
<1>2. Uncommented(u \o t) = w \o Uncommented(t)
  BY DEF Passes
<1>3. Uncommented(s \o (u \o t)) = v \o Uncommented(u \o t)
  BY <1>1 DEF Passes
<1>4. Uncommented(t) \in Seq(Written)
  BY UncommentedIs
<1> DEFINE r == Uncommented(t)
<1> HIDE DEF r
<1>5. (v \o w) \o r = v \o (w \o r)
  BY <1>4, SMTT(30) DEF r
<1> QED
  BY <1>1, <1>2, <1>3, <1>5 DEF r

\* ... and at the end that is all that is left.
LEMMA PassesWhole ==
  ASSUME NEW s \in Seq(Written), NEW v \in Seq(Written), Passes(s, v)
  PROVE  Uncommented(s) = v
<1> DEFINE e == <<>>
<1>1. e \in Seq(Written) /\ Len(e) = 0 /\ s \o e = s /\ v \o e = v
  OBVIOUS
<1> HIDE DEF e
<1>2. PICK g \in [1 .. Len(e) + 1 -> Seq(Written)] :
        /\ \A i \in 1 .. Len(e) + 1 : g[i] = Remaining(e, g, i)
        /\ Uncommented(e) = g[1]
  BY <1>1, UncommentedUnfolds
<1>3. 1 \in 1 .. Len(e) + 1 /\ 1 > Len(e)
  BY <1>1
<1>4. Uncommented(e) = e
  BY <1>2, <1>3, WalkIs DEF e
<1>5. Uncommented(s \o e) = v \o Uncommented(e)
  BY <1>1 DEF Passes
<1> QED
  BY <1>1, <1>4, <1>5

\* A part of a request leaves what it stands for.
LEMMA StandsIs ==
  ASSUME NEW s \in Seq(Tokens), NEW m, Stands(s, m)
  PROVE  \E v \in Seq(Written) : Passes(Decode(s), v) /\ m = Canon(v)
<1> DEFINE d == Decode(s)
           n == Len(s)
<1>0. n \in Nat /\ DOMAIN s = 1 .. n
  OBVIOUS
<1>1. d \in Seq(Written) /\ Len(d) = n
  BY DecodesParts
<1>2. ASSUME NEW i \in 1 .. n PROVE d[i] = Meaning(s[i])
  <2>1. s[i] \in Tokens
    OBVIOUS
  <2>2. s[i].t # "byte" => s[i].k <= (IF s[i].t = "+" THEN 2 ELSE 3)
    BY <1>0, Zenon DEF Stands
  <2>3. Once(Once(Once(s[i]))) = Meaning(s[i])
    BY <2>1, <2>2, MeaningIs, Zenon
  <2>4. d = [j \in 1 .. n |-> Once(Once(Once(s[j])))]
    BY DecodeIs
  <2> HIDE DEF d, n
  <2> QED
    BY <2>3, <2>4
<1>3. \/ Prose(s) /\ m = [i \in DOMAIN s |-> Canonical(s[i])]
      \/ (BlockComment(s) \/ LineComment(s)) /\ m = <<>>
  BY Zenon DEF Stands
<1> HIDE DEF d, n
<1>4. ASSUME NEW i \in 1 .. n
      PROVE  /\ Wrote(s, i, "/") <=> d[i] = Slash
             /\ Wrote(s, i, "*") <=> d[i] = Star
             /\ Wrote(s, i, "-") <=> d[i] = Dash
  BY <1>2, Zenon DEF Wrote, Slash, Star, Dash
<1>5. CASE Prose(s) /\ m = [i \in DOMAIN s |-> Canonical(s[i])]
  <2>1. NothingBegins(d)
    <3> SUFFICES ASSUME NEW i \in 1 .. n
                 PROVE  /\ d[i] = Slash => i < n /\ d[i + 1] # Star
                        /\ d[i] = Dash => i < n /\ d[i + 1] # Dash
      BY <1>1, Zenon DEF NothingBegins
    <3>1. /\ Wrote(s, i, "/") => i < n /\ ~Wrote(s, i + 1, "*")
          /\ Wrote(s, i, "-") => i < n /\ ~Wrote(s, i + 1, "-")
      BY <1>0, <1>5, Zenon DEF Prose, n
    <3>2. i < n => i + 1 \in 1 .. n
      BY <1>0
    <3> QED
      BY <1>4, <3>1, <3>2, Zenon
  <2>2. Passes(d, d)
    BY <1>1, <2>1, ProseStays, Zenon DEF Passes
  <2>3. \A i \in 1 .. n : Canonical(s[i]) = IF d[i] \in White THEN Space ELSE Folded(d[i])
    BY <1>2, Zenon DEF Canonical, Space
  <2>4. DOMAIN d = 1 .. n
    BY <1>1
  <2>5. m = Canon(d)
    BY <1>0, <1>5, <2>3, <2>4 DEF Canon
  <2> QED
    BY <1>1, <2>2, <2>5 DEF d
<1>6. CASE (BlockComment(s) \/ LineComment(s)) /\ m = <<>>
  <2>1. \A t \in Seq(Written) : Uncommented(d \o t) = Uncommented(t)
    <3>1. CASE BlockComment(s)
      <4>1. /\ n >= 4 /\ Wrote(s, 1, "/") /\ Wrote(s, 2, "*")
            /\ Wrote(s, n - 1, "*") /\ Wrote(s, n, "/")
            /\ \A i \in 3 .. n - 2 : ~Wrote(s, i, "*")
        BY <3>1, Zenon DEF BlockComment, n
      <4>2. {1, 2, n - 1, n} \subseteq 1 .. n /\ \A i \in 3 .. n - 2 : i \in 1 .. n
        BY <1>0, <4>1
      <4>3. d[1] = Slash /\ d[2] = Star /\ d[n - 1] = Star /\ d[n] = Slash
        BY <1>4, <4>1, <4>2, Zenon
      <4>4. \A i \in 3 .. n - 2 : d[i] # Star
        BY <1>4, <4>1, <4>2, Zenon
      <4> QED
        BY <1>1, <4>1, <4>3, <4>4, BlockGoes
    <3>2. CASE LineComment(s)
      <4>1. /\ n >= 3 /\ Wrote(s, 1, "-") /\ Wrote(s, 2, "-")
            /\ \A i \in DOMAIN s : Meaning(s[i]) \in LineEnds <=> i = n
        BY <3>2, Zenon DEF LineComment, n
      <4>2. {1, 2} \subseteq 1 .. n
        BY <1>0, <4>1
      <4>3. d[1] = Dash /\ d[2] = Dash
        BY <1>4, <4>1, <4>2, Zenon
      <4>4. \A i \in 1 .. n : d[i] \in LineEnds <=> i = n
        BY <1>0, <1>2, <4>1, Zenon
      <4> QED
        BY <1>1, <4>1, <4>3, <4>4, LineGoes
    <3> QED
      BY <1>6, <3>1, <3>2
  <2> DEFINE e == <<>>
  <2>2. e \in Seq(Written) /\ Canon(e) = <<>>
    BY DEF Canon
  <2>3. \A t \in Seq(Written) : e \o Uncommented(t) = Uncommented(t)
    <3> SUFFICES ASSUME NEW t \in Seq(Written) PROVE e \o Uncommented(t) = Uncommented(t)
      OBVIOUS
    <3>1. Uncommented(t) \in Seq(Written)
      BY UncommentedIs
    <3> QED
      BY <3>1
  <2> HIDE DEF e
  <2>4. Passes(d, e)
    BY <2>1, <2>3 DEF Passes
  <2> QED
    BY <1>6, <2>2, <2>4 DEF d
<1> QED
  BY <1>3, <1>5, <1>6

\* A folded token that is not white space is not a space.
LEMMA FoldedIs ==
  ASSUME NEW x, x \notin White
  PROVE  Folded(x) # Space
<1>1. Space \in White
  BY SpaceIs
<1>2. x.t \in DOMAIN LowerCase => Plain(LowerCase[x.t]) # Space
  <2>1. x.t \in DOMAIN LowerCase => LowerCase[x.t] # " "
    BY WebAssumption, Zenon DEF WebAssumption
  <2> QED
    BY <2>1, PlainIs, Zenon DEF Space
<1> QED
  BY <1>1, <1>2, Zenon DEF Folded

\* Collapsing a text squeezes its canonical form.
LEMMA CollapsedSqueezes ==
  ASSUME NEW v \in Seq(Written)
  PROVE  Collapsed(v) = Squeezed(Canon(v))
<1> DEFINE Y == {Space} \cup {Folded(x) : x \in Written}
           m == Canon(v)
           n == Len(v)
           Goes(g, k) == IF k = 0 THEN <<>>
                         ELSE IF k > 1 /\ m[k] = Plain(" ") /\ m[k - 1] = Plain(" ") THEN g[k - 1]
                         ELSE Append(g[k - 1], m[k])
           Follows(g) == g = [k \in 0 .. Len(m) |-> Goes(g, k)]
<1>0. n \in Nat /\ DOMAIN v = 1 .. n /\ \A k \in 1 .. n : v[k] \in Written
  OBVIOUS
<1>1. PICK g \in [0 .. Len(v) -> Seq(Y)] :
        /\ g[0] = <<>> /\ \A k \in 1 .. Len(v) : g[k] = Kept(g[k - 1], v[k])
        /\ Collapsed(v) = g[Len(v)]
  <2>1. Space \in Y /\ \A x \in Written : x \notin White => Folded(x) \in Y
    OBVIOUS
  <2> HIDE DEF Y
  <2> QED
    BY <2>1, CollapsedUnfolds
<1>2. m = [k \in 1 .. n |-> IF v[k] \in White THEN Space ELSE Folded(v[k])] /\ Len(m) = n
  <2>1. m = [k \in 1 .. n |-> IF v[k] \in White THEN Space ELSE Folded(v[k])]
    BY <1>0 DEF Canon
  <2> HIDE DEF m, n
  <2> QED
    BY <1>0, <2>1
<1>3. \A k \in 1 .. n : /\ v[k] \in White => m[k] = Space
                        /\ v[k] \notin White => m[k] = Folded(v[k]) /\ m[k] # Space
  <2> HIDE DEF m, n
  <2> QED
    BY <1>2, FoldedIs
<1>4. Squeezed(m) = (CHOOSE u : Follows(u))[Len(m)]
  BY Zenon DEF Squeezed
<1>5. \A u, k : Goes(u, k) = IF k = 0 THEN <<>>
                             ELSE IF k > 1 /\ m[k] = Space /\ m[k - 1] = Space THEN u[k - 1]
                             ELSE Append(u[k - 1], m[k])
  BY Zenon DEF Space
<1> HIDE DEF Y, m, n, Goes
<1>6. g \in [0 .. n -> Seq(Y)] /\ g[0] = <<>> /\ Collapsed(v) = g[n]
      /\ \A k \in 1 .. n : g[k] = Kept(g[k - 1], v[k])
  BY <1>1 DEF n
<1>7. ASSUME NEW k \in 1 .. n
      PROVE  /\ k - 1 \in 0 .. n /\ g[k - 1] \in Seq(Y)
             /\ g[k] = IF v[k] \in White /\ g[k - 1] # <<>> /\ Last(g[k - 1]) = Space
                       THEN g[k - 1] ELSE Append(g[k - 1], m[k])
  <2>1. k - 1 \in 0 .. n
    BY <1>0
  <2>2. g[k] = Kept(g[k - 1], v[k])
    BY <1>6
  <2> QED
    BY <1>3, <1>6, <2>1, <2>2 DEF Kept
<1> DEFINE J(k) == g[k] # <<>> /\ (Last(g[k]) = Space <=> m[k] = Space)
           Q == {k \in Nat : k < n => J(k + 1)}
<1>8. ASSUME NEW k \in 1 .. n, g[k] = Append(g[k - 1], m[k]) PROVE J(k)
  <2> DEFINE a == g[k - 1]
             b == m[k]
  <2>1. a \in Seq(Y) /\ g[k] = Append(a, b)
    BY <1>7, <1>8
  <2> HIDE DEF a, b
  <2>2. Append(a, b) # <<>> /\ Last(Append(a, b)) = b
    <3>1. Len(Append(a, b)) = Len(a) + 1 /\ Len(a) \in Nat /\ Append(a, b)[Len(a) + 1] = b
      BY <2>1
    <3>2. Append(a, b) # <<>>
      BY <2>1
    <3> QED
      BY <3>1, <3>2 DEF Last
  <2> QED
    BY <2>1, <2>2 DEF b
<1>9. 0 \in Q
  <2> SUFFICES ASSUME 0 < n PROVE J(0 + 1)
    OBVIOUS
  <2>1. 1 \in 1 .. n /\ 1 - 1 = 0 /\ 0 + 1 = 1
    BY <1>0
  <2>2. g[1] = Append(g[1 - 1], m[1])
    BY <1>6, <1>7, <2>1
  <2> QED
    BY <1>8, <2>1, <2>2
<1>10. ASSUME NEW k \in Q PROVE k + 1 \in Q
  <2> k + 1 \in Nat
    OBVIOUS
  <2> SUFFICES ASSUME k + 1 < n PROVE J(k + 1 + 1)
    BY Zenon
  <2> DEFINE j == k + 1 + 1
             i == k + 1
  <2>1. j \in 1 .. n /\ j - 1 = i /\ i \in 1 .. n /\ k < n
    BY <1>0
  <2>2. J(i)
    BY <2>1
  <2> HIDE DEF i, j, Q
  <2>3. CASE g[j] = Append(g[j - 1], m[j])
    <3>1. J(j)
      BY <1>8, <2>1, <2>3
    <3> QED
      BY <3>1 DEF j
  <2>4. CASE g[j] # Append(g[j - 1], m[j])
    <3>1. v[j] \in White /\ g[j] = g[i] /\ Last(g[i]) = Space
      BY <1>7, <2>1, <2>4
    <3>2. J(j)
      BY <1>3, <2>1, <2>2, <3>1
    <3> QED
      BY <3>2 DEF j
  <2> QED
    BY <2>3, <2>4
<1>11. Q \in SUBSET Nat
  OBVIOUS
<1> HIDE DEF Q
<1>12. Q = Nat
  BY <1>9, <1>10, <1>11, InductiveIsNat
<1> HIDE DEF J
<1>13. \A k \in 1 .. n : J(k)
  <2> SUFFICES ASSUME NEW k \in 1 .. n PROVE J(k)
    OBVIOUS
  <2>1. k - 1 \in Q /\ k - 1 < n /\ k - 1 + 1 = k
    BY <1>0, <1>12
  <2> QED
    BY <2>1 DEF Q
<1>14. \A k \in 0 .. n : g[k] = Goes(g, k)
  <2> SUFFICES ASSUME NEW k \in 0 .. n PROVE g[k] = Goes(g, k)
    OBVIOUS
  <2>1. CASE k = 0
    BY <1>5, <1>6, <2>1
  <2>2. CASE k = 1
    <3>1. 1 \in 1 .. n /\ 1 - 1 = 0 /\ ~(1 > 1) /\ 1 # 0
      BY <1>0, <2>2
    <3>2. g[1] = Append(g[1 - 1], m[1])
      BY <1>6, <1>7, <3>1
    <3> QED
      BY <1>5, <2>2, <3>1, <3>2
  <2>3. CASE k > 1
    <3>1. k \in 1 .. n /\ k - 1 \in 1 .. n /\ k # 0
      BY <1>0, <2>3
    <3>2. g[k - 1] # <<>> /\ (Last(g[k - 1]) = Space <=> m[k - 1] = Space)
      BY <1>13, <3>1 DEF J
    <3>3. v[k] \in White <=> m[k] = Space
      BY <1>3, <3>1
    <3>4. g[k] = IF m[k] = Space /\ m[k - 1] = Space THEN g[k - 1] ELSE Append(g[k - 1], m[k])
      BY <1>7, <3>1, <3>2, <3>3
    <3> QED
      BY <1>5, <2>3, <3>1, <3>4
  <2> QED
    BY <1>0, <2>1, <2>2, <2>3
<1>15. Follows(g)
  <2>1. g = [k \in 0 .. n |-> g[k]]
    BY <1>6
  <2>2. g = [k \in 0 .. n |-> Goes(g, k)]
    BY <1>14, <2>1
  <2> QED
    BY <1>2, <2>2
<1> DEFINE u == CHOOSE f : Follows(f)
<1>16. Follows(u)
  BY <1>15
<1> HIDE DEF u
<1>17. \A k \in 0 .. n : u[k] = Goes(u, k)
  BY <1>2, <1>16
<1> HIDE DEF Follows
<1> DEFINE P == {k \in Nat : k <= n => u[k] = g[k]}
<1>18. 0 \in P
  <2>1. 0 \in 0 .. n
    BY <1>0
  <2> QED
    BY <1>5, <1>14, <1>17, <2>1
<1>19. ASSUME NEW k \in P PROVE k + 1 \in P
  <2> k + 1 \in Nat
    OBVIOUS
  <2> SUFFICES ASSUME k + 1 <= n PROVE u[k + 1] = g[k + 1]
    BY Zenon
  <2>1. k + 1 \in 0 .. n /\ k + 1 # 0 /\ k + 1 - 1 = k /\ k <= n
    BY <1>0
  <2>2. u[k] = g[k]
    BY <2>1
  <2>3. Goes(u, k + 1) = Goes(g, k + 1)
    <3> DEFINE j == k + 1
    <3>1. j # 0 /\ j - 1 = k
      BY <2>1
    <3> HIDE DEF j
    <3>2. u[j - 1] = g[j - 1]
      BY <2>2, <3>1
    <3>3. Goes(u, j) = Goes(g, j)
      BY <1>5, <3>1, <3>2
    <3> QED
      BY <3>3 DEF j
  <2>4. u[k + 1] = Goes(u, k + 1) /\ g[k + 1] = Goes(g, k + 1)
    BY <1>14, <1>17, <2>1, Zenon
  <2> QED
    BY <2>3, <2>4, Zenon
<1>20. P \in SUBSET Nat
  OBVIOUS
<1> HIDE DEF P
<1>21. P = Nat
  BY <1>18, <1>19, <1>20, InductiveIsNat
<1>22. u[n] = g[n]
  <2>1. n \in P /\ n <= n
    BY <1>0, <1>21
  <2> QED
    BY <2>1 DEF P
<1>23. Squeezed(m) = u[n]
  BY <1>2, <1>4 DEF u
<1> QED
  BY <1>6, <1>22, <1>23 DEF m

\* The canonical form of two parts is the canonical form of the one and of the other.
LEMMA CanonJoins ==
  ASSUME NEW v \in Seq(Written), NEW w \in Seq(Written)
  PROVE  Canon(v \o w) = Canon(v) \o Canon(w)
<1> DEFINE Y == {Space} \cup {Folded(x) : x \in Written}
           A(x) == IF x \in White THEN Space ELSE Folded(x)
           c == v \o w
           d == Canon(v) \o Canon(w)
<1>1. c \in Seq(Written) /\ Joined(c, v, w)
  BY ConcatIs
<1>2. \A x \in Written : A(x) \in Y
  OBVIOUS
<1>3. \A r : Canon(r) = [i \in DOMAIN r |-> A(r[i])]
  BY DEF Canon
<1> HIDE DEF Y, A, c
<1>4. ASSUME NEW r \in Seq(Written)
      PROVE  /\ Canon(r) \in Seq(Y) /\ Len(Canon(r)) = Len(r)
             /\ \A i \in 1 .. Len(r) : Canon(r)[i] = A(r[i])
  <2>1. DOMAIN r = 1 .. Len(r) /\ Len(r) \in Nat /\ \A i \in 1 .. Len(r) : r[i] \in Written
    OBVIOUS
  <2>2. Canon(r) = [i \in 1 .. Len(r) |-> A(r[i])]
    BY <1>3, <2>1
  <2>3. Canon(r) \in [1 .. Len(r) -> Y]
    BY <1>2, <2>1, <2>2
  <2> QED
    BY <2>1, <2>2, <2>3
<1>5. d \in Seq(Y) /\ Joined(d, Canon(v), Canon(w))
  BY <1>4, ConcatIs
<1> HIDE DEF d
<1> DEFINE e == Canon(c)
<1>6. e \in Seq(Y) /\ Len(e) = Len(c) /\ \A i \in 1 .. Len(c) : e[i] = A(c[i])
  BY <1>1, <1>4
<1> HIDE DEF e
<1>7. Len(d) = Len(e)
  BY <1>1, <1>4, <1>5, <1>6 DEF Joined
<1>8. ASSUME NEW i \in 1 .. Len(e) PROVE e[i] = d[i]
  <2>0. Len(v) \in Nat /\ Len(w) \in Nat /\ Len(c) = Len(v) + Len(w)
    BY <1>1 DEF Joined
  <2>1. CASE i \in 1 .. Len(v)
    <3>1. c[i] = v[i] /\ d[i] = Canon(v)[i]
      BY <1>1, <1>4, <1>5, <2>1 DEF Joined
    <3> QED
      BY <1>4, <1>6, <2>1, <3>1
  <2>2. CASE i \notin 1 .. Len(v)
    <3> DEFINE j == i - Len(v)
    <3>1. j \in 1 .. Len(w) /\ i = Len(v) + j
      BY <1>6, <2>0, <2>2
    <3> HIDE DEF j
    <3>2. c[Len(v) + j] = w[j] /\ d[Len(v) + j] = Canon(w)[j]
      BY <1>1, <1>4, <1>5, <3>1 DEF Joined
    <3> QED
      BY <1>4, <1>6, <3>1, <3>2
  <2> QED
    BY <2>1, <2>2
<1>9. e = d
  BY <1>5, <1>6, <1>7, <1>8, SMTT(30)
<1> QED
  BY <1>9 DEF c, d, e

-------------------------------------------------------------------------------
(* The canonical form: what the sender means                                   *)

\* What has arrived of a web request fits the window, and leaves text whose canonical form
\* is what its sender means.
WebInv ==
  flow.kind = "web" =>
    /\ Len(payload) <= MaxNorm
    /\ \E v \in Seq(Written) : Passes(Decode(payload), v) /\ meant = Canon(v)

\* It holds initially ...
LEMMA InitWebInv == Init => WebInv
<1> SUFFICES ASSUME Init, flow.kind = "web"
             PROVE  /\ Len(payload) <= MaxNorm
                    /\ \E v \in Seq(Written) : Passes(Decode(payload), v) /\ meant = Canon(v)
  BY DEF WebInv
<1>1. /\ flow \in Flows /\ payload = flow.start
      /\ meant = [i \in DOMAIN payload |-> Folded(payload[i])]
  BY DEF Init
<1>2. /\ Len(flow.start) <= MaxNorm
      /\ Stands(flow.start, [i \in DOMAIN flow.start |-> Folded(flow.start[i])])
  BY <1>1, WebAssumption, Zenon DEF WebAssumption
<1>3. flow.start \in Seq(Tokens)
  BY <1>1, AnalysisAssumption, Zenon DEF AnalysisAssumption
<1>4. Stands(payload, meant) /\ payload \in Seq(Tokens) /\ Len(payload) <= MaxNorm
  BY <1>1, <1>2, <1>3, Zenon
<1> QED
  BY <1>4, StandsIs, Zenon

\* ... and every step keeps it ...
LEMMA StepWebInv ==
  ASSUME FlowInv, WebInv, [Next]_vars
  PROVE  WebInv'
<1>1. CASE Arrive
  <2> SUFFICES ASSUME flow'.kind = "web"
               PROVE  /\ Len(payload') <= MaxNorm
                      /\ \E v \in Seq(Written) :
                           Passes(Decode(payload'), v) /\ meant' = Canon(v)
    BY Zenon DEF WebInv
  <2>1. /\ flow' = flow /\ flow \in Flows /\ payload \in Seq(Tokens)
        /\ Len(payload) < flow.most
        /\ \E c \in flow.menu : payload' = payload \o c.sent /\ meant' = meant \o c.meant
    BY <1>1, Zenon DEF Arrive, FlowInv
  <2>2. PICK c \in flow.menu : payload' = payload \o c.sent /\ meant' = meant \o c.meant
    BY <2>1
  <2>3. flow.most \in Nat /\ Stands(c.sent, c.meant) /\ flow.most + Len(c.sent) <= MaxNorm + 1
    BY <2>1, WebAssumption, Zenon DEF WebAssumption
  <2>4. c.sent \in Seq(Tokens) /\ MaxNorm \in Nat
    BY <2>1, AnalysisAssumption DEF AnalysisAssumption
  <2>5. PICK v \in Seq(Written) : Passes(Decode(payload), v) /\ meant = Canon(v)
    BY <2>1, Zenon DEF WebInv
  <2>6. PICK w \in Seq(Written) : Passes(Decode(c.sent), w) /\ c.meant = Canon(w)
    BY <2>3, <2>4, StandsIs, Zenon
  <2>7. Decode(payload') = Decode(payload) \o Decode(c.sent)
    BY <2>1, <2>2, <2>4, DecodesParts, Zenon
  <2>8. Decode(payload) \in Seq(Written) /\ Decode(c.sent) \in Seq(Written)
    BY <2>1, <2>4, DecodesParts, Zenon
  <2>9. Passes(Decode(payload'), v \o w)
    BY <2>5, <2>6, <2>7, <2>8, PassesJoin, Zenon
  <2>10. meant' = Canon(v \o w)
    <3>1. Canon(v \o w) = Canon(v) \o Canon(w)
      BY CanonJoins
    <3> QED
      BY <2>2, <2>5, <2>6, <3>1, Zenon
  <2>11. v \o w \in Seq(Written)
    OBVIOUS
  <2>12. Len(payload') <= MaxNorm
    <3>1. /\ Len(payload') = Len(payload) + Len(c.sent)
          /\ Len(payload) \in Nat /\ Len(c.sent) \in Nat
      BY <2>1, <2>2, <2>4
    <3> QED
      BY <2>1, <2>3, <2>4, <3>1
  <2> QED
    BY <2>9, <2>10, <2>11, <2>12, Zenon
<1>2. CASE Continue
  <2>1. Len(payload) < Len(flow.script) /\ flow \in Flows /\ flow' = flow
        /\ payload \in Seq(Tokens)
    BY <1>2, Zenon DEF Continue, FlowInv
  <2>2. flow.script # <<>>
    BY <2>1
  <2>3. flow.kind # "web"
    BY <2>1, <2>2, WebAssumption, Zenon DEF WebAssumption
  <2> QED
    BY <2>1, <2>3, Zenon DEF WebInv
<1>3. CASE UNCHANGED <<flow, payload, meant>>
  BY <1>3, Zenon DEF WebInv
<1>4. Inspect \/ ReportNamed \/ Ask \/ UNCHANGED vars => UNCHANGED <<flow, payload, meant>>
  BY DEF Inspect, ReportNamed, Ask, vars
<1> QED
  BY <1>1, <1>2, <1>3, <1>4 DEF Next

\* Up to three layers of encoding, comments, case and white space, in any mixture, leave
\* of a web request what its sender means (payload_normalizer.hpp:9).
THEOREM ObfuscationUndoneHolds == Spec => []ObfuscationUndone
<1>1. FlowInv /\ WebInv => ObfuscationUndone
  <2> SUFFICES ASSUME FlowInv, WebInv, flow.kind = "web" PROVE normal = Squeezed(meant)
    BY DEF ObfuscationUndone
  <2>1. payload \in Seq(Tokens) /\ Len(payload) <= MaxNorm
    BY Zenon DEF FlowInv, WebInv
  <2>2. PICK v \in Seq(Written) : Passes(Decode(payload), v) /\ meant = Canon(v)
    BY Zenon DEF WebInv
  <2>3. Window(payload, MaxNorm) = payload
    <3> DEFINE w == Window(payload, MaxNorm)
    <3>1. MaxNorm \in Nat
      BY AnalysisAssumption DEF AnalysisAssumption
    <3>2. w \in Seq(Tokens) /\ Len(w) = Len(payload) /\ \A i \in 1 .. Len(w) : w[i] = payload[i]
      BY <2>1, <3>1, WindowIs
    <3> HIDE DEF w
    <3>3. w = payload
      BY <2>1, <3>2
    <3> QED
      BY <3>3 DEF w
  <2>4. Decode(payload) \in Seq(Written)
    BY <2>1, DecodesParts, Zenon
  <2>5. Uncommented(Decode(payload)) = v
    BY <2>2, <2>4, PassesWhole, Zenon
  <2>6. Collapsed(v) = Squeezed(meant)
    BY <2>2, CollapsedSqueezes, Zenon
  <2>7. normal = Collapsed(Uncommented(Decode(Window(payload, MaxNorm))))
    BY Zenon DEF normal, normalize_payload
  <2> QED
    BY <2>3, <2>5, <2>6, <2>7, Zenon
<1>2. FlowInv /\ WebInv /\ [Next]_vars => WebInv'
  BY StepWebInv
<1> QED
  BY <1>1, <1>2, InitWebInv, FlowInvHolds, PTL DEF Spec
===============================================================================
