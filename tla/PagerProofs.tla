---------------------------- MODULE PagerProofs ----------------------------
(***************************************************************************)
(* Proofs about Pager, for every page size, every output, every sequence   *)
(* of commands and any number of calls.                                    *)
(***************************************************************************)
EXTENDS Pager, TLAPS, WellFoundedInduction, FiniteSetTheorems

-----------------------------------------------------------------------------
(***************************************************************************)
(* Numbers: least and greatest ones, induction, and loops.                 *)
(***************************************************************************)

(* A nonempty set of numbers has a least one.                              *)
LEMMA LeastNumber ==
  ASSUME NEW T \in SUBSET Nat, T # {}
  PROVE  \E k \in T : \A m \in T : k <= m
<1>. DEFINE R == {ss \in Nat \X Nat : ss[1] < ss[2]}
<1>1. IsWellFoundedOn(R, Nat)
  BY NatLessThanWellFounded DEF OpToRel
<1>. HIDE DEF R
<1>2. PICK k \in T : \A m \in T : ~(<<m, k>> \in R)
  BY <1>1, WFMin
<1>3. k \in Nat /\ \A m \in T : m \in Nat /\ ~(m < k)
  BY <1>2 DEF R
<1>. QED BY <1>3

(* Induction: a set of numbers that is closed under successor and holds    *)
(* zero is all of them.                                                    *)
LEMMA Counting ==
  ASSUME NEW T \in SUBSET Nat, 0 \in T, \A k \in T : k + 1 \in T
  PROVE  T = Nat
<1>1. SUFFICES ASSUME Nat \ T # {} PROVE FALSE
  OBVIOUS
<1>2. PICK k \in Nat \ T : \A m \in Nat \ T : k <= m
  BY <1>1, LeastNumber
<1>3. k # 0 /\ k - 1 \in Nat
  BY <1>2
<1>4. k - 1 \in T
  BY <1>2, <1>3
<1>5. (k - 1) + 1 \in T
  BY <1>4
<1>. QED BY <1>2, <1>3, <1>5

(* LeastOf and GreatestOf pick a bound of the set.                         *)
LEMMA LeastOfNumbers ==
  ASSUME NEW S \in SUBSET Nat, S # {}
  PROVE  LeastOf(S) \in S /\ \A y \in S : LeastOf(S) <= y
<1>1. \E x \in S : \A y \in S : x <= y
  BY LeastNumber
<1>. QED BY <1>1 DEF LeastOf

(* A bounded set of numbers has a greatest member.                         *)
LEMMA GreatestOfNumbers ==
  ASSUME NEW n \in Nat, NEW S \in SUBSET Nat, S # {}, \A y \in S : y <= n
  PROVE  GreatestOf(S) \in S /\ \A y \in S : GreatestOf(S) >= y
<1>. DEFINE T == {i \in Nat : i <= n /\ n - i \in S}
<1>1. PICK w \in S : TRUE
  OBVIOUS
<1>2. w \in Nat /\ w <= n /\ n - w \in Nat /\ n - w <= n /\ n - (n - w) = w
  BY <1>1
<1>3. n - w \in T
  BY <1>1, <1>2
<1>4. T # {} /\ T \in SUBSET Nat
  BY <1>3
<1>5. PICK k \in T : \A m \in T : k <= m
  BY <1>4, LeastNumber
<1>6. n - k \in S
  BY <1>5
<1>7. ASSUME NEW y \in S PROVE n - k >= y
  <2>1. y \in Nat /\ y <= n /\ n - y \in Nat /\ n - y <= n /\ n - (n - y) = y
    BY <1>7
  <2>2. n - y \in T
    BY <2>1
  <2>3. k <= n - y /\ k \in Nat
    BY <2>2, <1>5
  <2>. QED BY <2>1, <2>3
<1>8. \E x \in S : \A y \in S : x >= y
  BY <1>6, <1>7
<1>. QED BY <1>8 DEF GreatestOf

(* A loop whose rounds stay in a set V has the function of its rounds.     *)
LEMMA LoopExists ==
  ASSUME NEW V, NEW v \in V, NEW S \in [V -> V]
  PROVE  \E f \in [Nat -> V] : f = [k \in Nat |-> IF k = 0 THEN v ELSE S[f[k - 1]]]
<1>. DEFINE Start(n, g) == /\ g \in [0..n -> V] /\ g[0] = v
                           /\ \A k \in 1..n : g[k] = S[g[k - 1]]
            T == {n \in Nat : \E g : Start(n, g)}
            U == {n \in Nat : \A g, h : \A m \in Nat, l \in Nat :
                     Start(m, g) /\ Start(l, h) /\ n <= m /\ n <= l => g[n] = h[n]}
            F == [n \in Nat |-> (CHOOSE g : Start(n, g))[n]]
<1>1. T = Nat
  <2>1. 0 \in T
    <3>1. Start(0, [i \in 0..0 |-> v])
      OBVIOUS
    <3>. QED BY <3>1
  <2>2. ASSUME NEW k \in T PROVE k + 1 \in T
    <3>1. PICK g : Start(k, g)
      BY <2>2
    <3>. DEFINE h == [i \in 0..(k + 1) |-> IF i = k + 1 THEN S[g[k]] ELSE g[i]]
    <3>2. k \in Nat /\ g[k] \in V
      BY <3>1
    <3>3. h \in [0..(k + 1) -> V]
      BY <3>1, <3>2
    <3>4. h[0] = v
      BY <3>1, <3>2
    <3>5. ASSUME NEW i \in 1..(k + 1) PROVE h[i] = S[h[i - 1]]
      BY <3>1, <3>2
    <3>6. Start(k + 1, h)
      BY <3>3, <3>4, <3>5
    <3>. HIDE DEF h, Start
    <3>. QED BY <3>6, <3>2
  <2>. HIDE DEF T
  <2>3. T \in SUBSET Nat
    BY DEF T
  <2>. QED BY <2>1, <2>2, <2>3, Counting
<1>2. U = Nat
  <2>1. 0 \in U
    <3>1. ASSUME NEW g, NEW h, NEW m \in Nat, NEW l \in Nat, Start(m, g), Start(l, h)
          PROVE  g[0] = h[0]
      BY <3>1
    <3>. HIDE DEF Start
    <3>. QED BY <3>1
  <2>2. ASSUME NEW k \in U PROVE k + 1 \in U
    <3>1. SUFFICES ASSUME NEW g, NEW h, NEW m \in Nat, NEW l \in Nat,
                          Start(m, g), Start(l, h), k + 1 <= m, k + 1 <= l
                   PROVE  g[k + 1] = h[k + 1]
      <4>. HIDE DEF Start
      <4>. QED BY <2>2
    <3>2. k \in Nat /\ k <= m /\ k <= l
      BY <3>1
    <3>3. g[k] = h[k]
      <4>. HIDE DEF Start
      <4>. QED BY <2>2, <3>1, <3>2
    <3>4. k + 1 \in 1..m /\ k + 1 \in 1..l /\ (k + 1) - 1 = k
      BY <3>1, <3>2
    <3>. QED BY <3>1, <3>3, <3>4
  <2>. HIDE DEF U
  <2>3. U \in SUBSET Nat
    BY DEF U
  <2>. QED BY <2>1, <2>2, <2>3, Counting
<1>3. \A n \in Nat : Start(n, CHOOSE g : Start(n, g))
  BY <1>1
<1>4. \A n \in Nat : F[n] \in V
  BY <1>3
<1>5. ASSUME NEW n \in Nat PROVE F[n] = IF n = 0 THEN v ELSE S[F[n - 1]]
  <2>1. CASE n = 0
    BY <1>3, <2>1
  <2>2. CASE n # 0
    <3>. DEFINE g == CHOOSE g : Start(n, g)
                h == CHOOSE h : Start(n - 1, h)
    <3>1. n - 1 \in Nat /\ n - 1 <= n /\ n \in 1..n
      BY <2>2
    <3>2. Start(n, g) /\ Start(n - 1, h)
      BY <1>3, <3>1
    <3>3. n - 1 \in U
      BY <1>2, <3>1
    <3>4. g[n - 1] = h[n - 1]
      <4>. HIDE DEF Start, g, h
      <4>. QED BY <3>1, <3>2, <3>3
    <3>5. g[n] = S[g[n - 1]]
      BY <3>1, <3>2
    <3>6. F[n] = g[n] /\ F[n - 1] = h[n - 1]
      <4>. HIDE DEF Start
      <4>. QED BY <3>1
    <3>. QED BY <2>2, <3>4, <3>5, <3>6
  <2>. QED BY <2>1, <2>2
<1>. HIDE DEF F
<1>6. F \in [Nat -> V]
  BY <1>4 DEF F
<1>7. F = [k \in Nat |-> IF k = 0 THEN v ELSE S[F[k - 1]]]
  BY <1>5, <1>6
<1>. QED BY <1>6, <1>7

-----------------------------------------------------------------------------
(***************************************************************************)
(* Ascending lists the members of a finite set of numbers.                 *)
(***************************************************************************)

(* Every rank below the size of the set is that of a member.               *)
LEMMA EveryRank ==
  ASSUME NEW S \in SUBSET Nat, IsFiniteSet(S), NEW k \in Nat, k < Cardinality(S)
  PROVE  \E x \in S : Cardinality({y \in S : y < x}) = k
<1>. DEFINE Rank(x) == Cardinality({y \in S : y < x})
            T == {n \in Nat : n < Cardinality(S) => \E x \in S : Rank(x) = n}
<1>0. Cardinality(S) \in Nat /\ \A y \in S : y \in Nat
  BY FS_CardinalityType
<1>1. 0 \in T
  <2>1. SUFFICES ASSUME 0 < Cardinality(S) PROVE \E x \in S : Rank(x) = 0
    OBVIOUS
  <2>2. S # {}
    <3>1. Cardinality({}) = 0
      BY FS_EmptySet
    <3>. QED BY <2>1, <3>1
  <2>3. PICK x \in S : \A m \in S : x <= m
    BY <2>2, LeastNumber
  <2>31. \A y \in S : ~(y < x)
    BY <1>0, <2>3
  <2>4. {y \in S : y < x} = {}
    BY <2>31
  <2>5. Cardinality({}) = 0
    BY FS_EmptySet
  <2>. QED BY <2>4, <2>5
<1>2. ASSUME NEW n \in T PROVE n + 1 \in T
  <2>1. SUFFICES ASSUME n + 1 < Cardinality(S) PROVE \E x \in S : Rank(x) = n + 1
    OBVIOUS
  <2>2. n \in Nat /\ n < Cardinality(S)
    BY <2>1, <1>0
  <2>3. PICK x \in S : Rank(x) = n
    BY <1>2, <2>2
  <2>. DEFINE A == {y \in S : y < x}
              B == {y \in S : y <= x}
  <2>31. \A y \in S : y <= x <=> y < x \/ y = x
    BY <1>0
  <2>32. ~(x < x)
    BY <1>0
  <2>4. A \in SUBSET S /\ x \notin A /\ B = A \cup {x}
    BY <2>31, <2>32
  <2>41. IsFiniteSet(A) /\ Cardinality(A) = n
    BY <2>3, <2>4, FS_Subset
  <2>. HIDE DEF A
  <2>42. Cardinality(A \cup {x}) = n + 1
    BY <2>4, <2>41, FS_AddElement
  <2>5. Cardinality(B) = n + 1
    BY <2>4, <2>42
  <2>6. S \ B # {}
    BY <2>1, <2>5, <1>0
  <2>7. PICK z \in S \ B : \A m \in S \ B : z <= m
    BY <2>6, LeastNumber
  <2>8. {y \in S : y < z} = B
    <3>1. \A y \in S : y \in Nat /\ (y \in B <=> y <= x) /\ (y \notin B => z <= y)
      BY <1>0, <2>7
    <3>2. z \in Nat /\ x \in Nat /\ ~(z <= x)
      BY <1>0, <2>7
    <3>3. \A y \in S : y < z <=> y \in B
      BY <3>1, <3>2
    <3>. QED BY <3>3
  <2>. QED BY <2>5, <2>7, <2>8
<1>. HIDE DEF T
<1>3. T \in SUBSET Nat
  BY DEF T
<1>4. k \in T
  BY <1>1, <1>2, <1>3, Counting
<1>. QED BY <1>4 DEF T

(* A finite set in ascending order: member k has k - 1 below it.           *)
LEMMA AscendingMembers ==
  ASSUME NEW S \in SUBSET Nat, IsFiniteSet(S)
  PROVE  /\ Cardinality(S) \in Nat
         /\ Ascending(S) \in Seq(S)
         /\ Len(Ascending(S)) = Cardinality(S)
         /\ \A k \in 1..Cardinality(S) :
               /\ Ascending(S)[k] \in S
               /\ Cardinality({y \in S : y < Ascending(S)[k]}) = k - 1
<1>1. Cardinality(S) \in Nat
  BY FS_CardinalityType
<1>2. ASSUME NEW k \in 1..Cardinality(S)
      PROVE  /\ Ascending(S)[k] \in S
             /\ Cardinality({y \in S : y < Ascending(S)[k]}) = k - 1
  <2>1. k - 1 \in Nat /\ k - 1 < Cardinality(S)
    BY <1>1
  <2>2. \E x \in S : Cardinality({y \in S : y < x}) = k - 1
    BY <2>1, EveryRank
  <2>. QED BY <2>2 DEF Ascending
<1>3. Ascending(S) \in [1..Cardinality(S) -> S]
  BY <1>2 DEF Ascending
<1>. QED BY <1>1, <1>2, <1>3

(* A part of the set with every smaller member of it comes first.          *)
LEMMA AscendingSplit ==
  ASSUME NEW S \in SUBSET Nat, IsFiniteSet(S), NEW W \in SUBSET S,
         \A w \in W : \A y \in S : y < w => y \in W,
         NEW j \in 1..Cardinality(S)
  PROVE  Ascending(S)[j] \in W <=> j <= Cardinality(W)
<1>. DEFINE x == Ascending(S)[j]
            A == {y \in S : y < x}
<1>1. x \in S /\ Cardinality(A) = j - 1 /\ Cardinality(S) \in Nat /\ \A y \in S : y \in Nat
  BY AscendingMembers
<1>. HIDE DEF x
<1>2. IsFiniteSet(A) /\ IsFiniteSet(W) /\ Cardinality(W) \in Nat /\ j \in Nat
  <2>1. A \in SUBSET S
    OBVIOUS
  <2>2. IsFiniteSet(A) /\ IsFiniteSet(W)
    BY <2>1, FS_Subset
  <2>. QED BY <1>1, <2>2, FS_CardinalityType
<1>3. ASSUME x \in W PROVE j <= Cardinality(W)
  <2>1. A \cup {x} \subseteq W /\ x \notin A
    <3>1. ~(x < x)
      BY <1>1
    <3>. QED BY <1>1, <1>3, <3>1
  <2>. HIDE DEF A
  <2>2. Cardinality(A \cup {x}) = j
    <3>1. Cardinality(A \cup {x}) = Cardinality(A) + 1
      BY <1>2, <2>1, FS_AddElement
    <3>. QED BY <1>1, <1>2, <3>1
  <2>3. A \cup {x} \in SUBSET W
    BY <2>1
  <2>. QED BY <1>2, <2>3, <2>2, FS_Subset
<1>4. ASSUME x \notin W PROVE ~(j <= Cardinality(W))
  <2>1. W \in SUBSET A
    BY <1>1, <1>4
  <2>. HIDE DEF A
  <2>2. Cardinality(W) <= j - 1
    BY <1>1, <1>2, <2>1, FS_Subset
  <2>. QED BY <1>2, <2>2
<1>. QED BY <1>3, <1>4 DEF x
-----------------------------------------------------------------------------
(***************************************************************************)
(* Buffers: lines, matches and images.                                     *)
(***************************************************************************)

(* What a text is made of, the two signs of the gap notice among them.     *)
Chars == STRING \cup {"g", "n"}

(* Images stand in the text, in order.                                     *)
GoodBuffer(b) ==
    /\ b \in [text : Seq(Chars), images : Seq(Nat)]
    /\ \A i \in DOMAIN b.images : b.images[i] <= Len(b.text)
    /\ \A i, j \in DOMAIN b.images : i <= j => b.images[i] <= b.images[j]

(* The lines of a buffer lie in it.                                        *)
LEMMA Lines ==
  ASSUME NEW b, GoodBuffer(b)
  PROVE  /\ Length(b) \in Nat
         /\ LineEnds(b) \in SUBSET (1..Length(b))
         /\ LineStarts(b) \in SUBSET (0..(Length(b) - 1))
         /\ Matches(b) \in SUBSET (0..(Length(b) - 1))
         /\ IsFiniteSet(LineEnds(b)) /\ IsFiniteSet(LineStarts(b))
<1>1. Length(b) \in Nat
  BY DEF GoodBuffer, Length
<1>2. LineEnds(b) \in SUBSET (1..Length(b))
  BY DEF LineEnds
<1>3. LineStarts(b) \in SUBSET (0..(Length(b) - 1))
  BY <1>1, <1>2 DEF LineStarts
<1>4. Matches(b) \in SUBSET (0..(Length(b) - 1))
  BY DEF Matches
<1>5. IsFiniteSet(1..Length(b)) /\ IsFiniteSet(0..(Length(b) - 1))
  BY <1>1, FS_Interval
<1>6. IsFiniteSet(LineEnds(b)) /\ IsFiniteSet(LineStarts(b))
  BY <1>2, <1>3, <1>5, FS_Subset
<1>. QED BY <1>1, <1>2, <1>3, <1>4, <1>6

(* The line of a character starts at or before it and ends after it.       *)
LEMMA LineEdges ==
  ASSUME NEW b, GoodBuffer(b), NEW at \in Nat
  PROVE  /\ LineStartOf(b, at) \in 0..Length(b) /\ LineStartOf(b, at) <= at
         /\ LineStartOf(b, at) \in {0} \cup LineEnds(b)
         /\ LineEndOf(b, at) \in 0..Length(b)
         /\ at < Length(b) => at < LineEndOf(b, at)
         /\ LineEndOf(b, at) # Length(b) => LineEndOf(b, at) \in LineEnds(b)
<1>. DEFINE S == {0} \cup {l \in LineEnds(b) : l <= at}
            E == {Length(b)} \cup {l \in LineEnds(b) : l > at}
<1>1. Length(b) \in Nat /\ LineEnds(b) \in SUBSET (1..Length(b))
  BY Lines
<1>2. /\ S \in SUBSET Nat /\ S # {} /\ \A y \in S : y <= Length(b) /\ y <= at
      /\ S \subseteq {0} \cup LineEnds(b)
  BY <1>1
<1>3. E \in SUBSET Nat /\ E # {} /\ \A y \in E : y <= Length(b) /\ (y # Length(b) => y > at /\ y \in LineEnds(b))
  BY <1>1
<1>. HIDE DEF S, E
<1>4. GreatestOf(S) \in S
  BY <1>1, <1>2, GreatestOfNumbers
<1>5. LeastOf(E) \in E
  BY <1>3, LeastOfNumbers
<1>6. LineStartOf(b, at) = GreatestOf(S) /\ LineEndOf(b, at) = LeastOf(E)
  BY DEF LineStartOf, LineEndOf, S, E
<1>7. ASSUME NEW g \in S PROVE g \in 0..Length(b) /\ g <= at /\ g \in {0} \cup LineEnds(b)
  BY <1>1, <1>2
<1>8. ASSUME NEW l \in E
      PROVE  /\ l \in 0..Length(b) /\ (at < Length(b) => at < l)
             /\ l # Length(b) => l \in LineEnds(b)
  BY <1>1, <1>3
<1>. QED BY <1>4, <1>5, <1>6, <1>7, <1>8

(* FindNext finds a match in the range it is given, or none.               *)
LEMMA FindNextFinds ==
  ASSUME NEW b, GoodBuffer(b), NEW s, NEW e, FindNext(b, s, e) # NotFound
  PROVE  FindNext(b, s, e) \in Matches(b) /\ s <= FindNext(b, s, e) /\ FindNext(b, s, e) < e
<1>. DEFINE H == {o \in Matches(b) : s <= o /\ o < e}
<1>1. H \in SUBSET Nat
  BY Lines
<1>2. H # {} /\ FindNext(b, s, e) = LeastOf(H)
  BY DEF FindNext
<1>3. LeastOf(H) \in H
  <2>. HIDE DEF H
  <2>. QED BY <1>1, <1>2, LeastOfNumbers
<1>. QED BY <1>2, <1>3

(* Appending keeps the text before it, and the order of the images.        *)
LEMMA AppendGood ==
  ASSUME NEW b, GoodBuffer(b), NEW t, NEW i, GoodBuffer(Text(t, i))
  PROVE  /\ GoodBuffer(Append2(b, t, i))
         /\ Length(b) <= Length(Append2(b, t, i))
         /\ Matches(b) \subseteq Matches(Append2(b, t, i))
<1>1. /\ b.text \in Seq(Chars) /\ b.images \in Seq(Nat) /\ t \in Seq(Chars) /\ i \in Seq(Nat)
      /\ Len(b.text) \in Nat /\ Len(t) \in Nat /\ Len(i) \in Nat /\ Len(b.images) \in Nat
  BY DEF GoodBuffer, Text
<1>. DEFINE j == [k \in DOMAIN i |-> i[k] + Len(b.text)]
            c == Append2(b, t, i)
<1>2. j \in Seq(Nat) /\ Len(j) = Len(i) /\ \A k \in 1..Len(i) : j[k] = i[k] + Len(b.text)
  <2>1. DOMAIN i = 1..Len(i) /\ \A k \in 1..Len(i) : i[k] + Len(b.text) \in Nat
    BY <1>1
  <2>2. j = [k \in 1..Len(i) |-> i[k] + Len(b.text)]
    BY <2>1
  <2>. QED BY <1>1, <2>1, <2>2
<1>3. c = [text |-> b.text \o t, images |-> b.images \o j]
  BY DEF Append2, Text
<1>. HIDE DEF j, c
<1>4. /\ c.text \in Seq(Chars) /\ c.images \in Seq(Nat)
      /\ Len(c.text) = Len(b.text) + Len(t) /\ Len(c.images) = Len(b.images) + Len(i)
      /\ DOMAIN c.images = 1..(Len(b.images) + Len(i))
  <2>0. ASSUME NEW X, NEW p \in Seq(X), NEW q \in Seq(X)
        PROVE  p \o q \in Seq(X) /\ Len(p \o q) = Len(p) + Len(q)
    OBVIOUS
  <2>1. /\ b.text \o t \in Seq(Chars) /\ Len(b.text \o t) = Len(b.text) + Len(t)
        /\ b.images \o j \in Seq(Nat) /\ Len(b.images \o j) = Len(b.images) + Len(j)
    BY <1>1, <1>2, <2>0
  <2>2. DOMAIN (b.images \o j) = 1..Len(b.images \o j)
    BY <2>1
  <2>3. c.text = b.text \o t /\ c.images = b.images \o j
    BY <1>3
  <2>. QED BY <1>1, <1>2, <2>1, <2>2, <2>3
<1>5. \A k \in 1..Len(b.text) : c.text[k] = b.text[k]
  BY <1>1, <1>3
<1>6. \A k \in 1..(Len(b.images) + Len(i)) :
         c.images[k] = IF k <= Len(b.images) THEN b.images[k] ELSE i[k - Len(b.images)] + Len(b.text)
  <2>1. ASSUME NEW k \in 1..(Len(b.images) + Len(i))
        PROVE  c.images[k] = IF k <= Len(b.images) THEN b.images[k] ELSE j[k - Len(b.images)]
    BY <1>1, <1>2, <1>3, <2>1
  <2>2. ASSUME NEW k \in 1..(Len(b.images) + Len(i)), ~(k <= Len(b.images))
        PROVE  k - Len(b.images) \in 1..Len(i)
    BY <1>1, <2>2
  <2>. QED BY <1>2, <2>1, <2>2
<1>7. /\ \A k \in 1..Len(b.images) : b.images[k] \in Nat /\ b.images[k] <= Len(b.text)
      /\ \A k, l \in 1..Len(b.images) : k <= l => b.images[k] <= b.images[l]
      /\ \A k \in 1..Len(i) : i[k] \in Nat /\ i[k] <= Len(t)
      /\ \A k, l \in 1..Len(i) : k <= l => i[k] <= i[l]
  BY <1>1 DEF GoodBuffer, Text
<1>8. ASSUME NEW k \in 1..(Len(b.images) + Len(i)) PROVE c.images[k] <= Len(c.text)
  <2>1. CASE k <= Len(b.images)
    <3>1. k \in 1..Len(b.images) /\ c.images[k] = b.images[k]
      BY <1>1, <1>6, <2>1
    <3>2. b.images[k] \in Nat /\ b.images[k] <= Len(b.text)
      BY <1>7, <3>1
    <3>3. Len(b.text) <= Len(c.text)
      BY <1>1, <1>4
    <3>4. Len(b.text) \in Nat /\ Len(c.text) \in Nat
      BY <1>1, <1>4
    <3>. QED BY <3>1, <3>2, <3>3, <3>4
  <2>2. CASE ~(k <= Len(b.images))
    <3>1. k - Len(b.images) \in 1..Len(i) /\ c.images[k] = i[k - Len(b.images)] + Len(b.text)
      BY <1>1, <1>6, <2>2
    <3>2. i[k - Len(b.images)] \in Nat /\ i[k - Len(b.images)] <= Len(t)
      BY <1>7, <3>1
    <3>. QED BY <1>1, <1>4, <3>1, <3>2
  <2>. QED BY <2>1, <2>2
<1>9. ASSUME NEW k \in 1..(Len(b.images) + Len(i)), NEW l \in 1..(Len(b.images) + Len(i)), k <= l
      PROVE  c.images[k] <= c.images[l]
  <2>1. CASE l <= Len(b.images)
    BY <1>1, <1>6, <1>7, <1>9, <2>1
  <2>2. CASE k <= Len(b.images) /\ ~(l <= Len(b.images))
    <3>1. l - Len(b.images) \in 1..Len(i) /\ k \in 1..Len(b.images)
      BY <1>1, <2>2
    <3>2. /\ i[l - Len(b.images)] \in Nat /\ b.images[k] \in Nat /\ b.images[k] <= Len(b.text)
          /\ c.images[k] = b.images[k] /\ c.images[l] = i[l - Len(b.images)] + Len(b.text)
      BY <1>6, <1>7, <2>2, <3>1
    <3>3. b.images[k] <= i[l - Len(b.images)] + Len(b.text)
      <4>1. \A x, y, z \in Nat : x <= z => x <= y + z
        OBVIOUS
      <4>2. Len(b.text) \in Nat
        BY <1>1
      <4>. QED BY <3>2, <4>1, <4>2
    <3>. QED BY <3>2, <3>3
  <2>3. CASE ~(k <= Len(b.images))
    <3>1. l - Len(b.images) \in 1..Len(i) /\ k - Len(b.images) \in 1..Len(i) /\ ~(l <= Len(b.images))
          /\ k - Len(b.images) <= l - Len(b.images)
      BY <1>1, <1>9, <2>3
    <3>2. i[k - Len(b.images)] <= i[l - Len(b.images)]
      BY <1>7, <3>1
    <3>3. /\ i[l - Len(b.images)] \in Nat /\ i[k - Len(b.images)] \in Nat
          /\ c.images[k] = i[k - Len(b.images)] + Len(b.text)
          /\ c.images[l] = i[l - Len(b.images)] + Len(b.text)
      BY <1>6, <1>7, <2>3, <3>1
    <3>4. i[k - Len(b.images)] + Len(b.text) <= i[l - Len(b.images)] + Len(b.text)
      <4>1. \A x, y, z \in Nat : x <= y => x + z <= y + z
        OBVIOUS
      <4>2. Len(b.text) \in Nat
        BY <1>1
      <4>. QED BY <3>2, <3>3, <4>1, <4>2
    <3>. QED BY <3>3, <3>4
  <2>. QED BY <2>1, <2>2, <2>3
<1>10. c = [text |-> c.text, images |-> c.images]
  BY <1>3
<1>11. GoodBuffer(c)
  BY <1>4, <1>8, <1>9, <1>10 DEF GoodBuffer
<1>12. Length(b) <= Length(c)
  BY <1>1, <1>4 DEF Length
<1>13. Matches(b) \subseteq Matches(c)
  <2>1. ASSUME NEW o \in Matches(b) PROVE o \in Matches(c)
    <3>1. o \in 0..(Len(b.text) - 1) /\ b.text[o + 1] = "m" /\ o + 1 \in 1..Len(b.text)
      BY <1>1 DEF Matches, Length
    <3>2. o \in 0..(Len(c.text) - 1)
      BY <1>1, <1>4, <3>1
    <3>. QED BY <1>5, <3>1, <3>2 DEF Matches, Length
  <2>. QED BY <2>1
<1>. QED BY <1>11, <1>12, <1>13 DEF c
-----------------------------------------------------------------------------
(***************************************************************************)
(* Where a page ends.                                                      *)
(***************************************************************************)

(* The images of a range are finitely many places of the list.             *)
LEMMA ImagesOfRange ==
  ASSUME NEW b, GoodBuffer(b), NEW s, NEW e
  PROVE  /\ ImagesIn(b, s, e) \in SUBSET (1..Len(b.images)) /\ ImagesIn(b, s, e) \in SUBSET Nat
         /\ IsFiniteSet(ImagesIn(b, s, e)) /\ CountImages(b, s, e) \in Nat
         /\ \A i \in ImagesIn(b, s, e) : b.images[i] \in Nat
<1>1. b.images \in Seq(Nat) /\ Len(b.images) \in Nat
  BY DEF GoodBuffer
<1>2. ImagesIn(b, s, e) \in SUBSET (1..Len(b.images)) /\ ImagesIn(b, s, e) \in SUBSET Nat
  BY <1>1 DEF ImagesIn
<1>3. IsFiniteSet(ImagesIn(b, s, e))
  <2>1. IsFiniteSet(1..Len(b.images))
    BY <1>1, FS_Interval
  <2>. QED BY <1>2, <2>1, FS_Subset
<1>4. CountImages(b, s, e) \in Nat
  BY <1>3, FS_CardinalityType DEF CountImages
<1>. QED BY <1>1, <1>2, <1>3, <1>4

(* page_end_offset ends in the window, and after its start.                *)
LEMMA PageEndInWindow ==
  ASSUME NEW b, GoodBuffer(b), NEW s \in Nat, NEW e \in Nat, s < e
  PROVE  PageEnd(b, s, e, e - s) \in Nat /\ s < PageEnd(b, s, e, e - s) /\ PageEnd(b, s, e, e - s) <= e
<1>. DEFINE T == {l \in LineEnds(b) : s < l /\ l <= e}
<1>1. Smaller(s + (e - s), e) = e
  BY DEF Smaller
<1>2. T \in SUBSET Nat /\ \A y \in T : y <= e /\ s < y
  BY Lines
<1>3. PageEnd(b, s, e, e - s) = IF T = {} THEN e ELSE GreatestOf(T)
  <2>1. ~(s >= e)
    OBVIOUS
  <2>2. PageEnd(b, s, e, e - s)
          = CASE s >= e -> e
              [] s < e /\ T = {} -> e
              [] OTHER -> GreatestOf(T)
    BY <1>1 DEF PageEnd
  <2>3. CASE T = {}
    BY <2>1, <2>2, <2>3
  <2>4. CASE T # {}
    BY <2>1, <2>2, <2>4
  <2>. QED BY <2>3, <2>4
<1>. HIDE DEF T
<1>4. T # {} => GreatestOf(T) \in T
  BY <1>2, GreatestOfNumbers
<1>5. CASE T = {}
  BY <1>3, <1>5
<1>6. CASE T # {}
  <2>1. GreatestOf(T) \in Nat /\ s < GreatestOf(T) /\ GreatestOf(T) <= e
    BY <1>2, <1>4, <1>6
  <2>. QED BY <1>3, <1>6, <2>1
<1>. QED BY <1>5, <1>6

(* page_end_offset_with_images ends in the window, and after its start     *)
(* unless the images at the start fill the page.                           *)
LEMMA PageEndAdvances ==
  ASSUME NEW b, GoodBuffer(b), NEW s \in Nat, NEW e \in Nat, s < e, NEW target \in Int
  PROVE  /\ PageEndWithImages(b, s, e, target) \in Nat
         /\ s <= PageEndWithImages(b, s, e, target) /\ PageEndWithImages(b, s, e, target) <= e
         /\ target = PageChars /\ ~Crowded(b, s) => s < PageEndWithImages(b, s, e, target)
<1>. DEFINE S == ImagesIn(b, s, e)
            W == ImagesIn(b, s, s + 1)
            imgs == Ascending(S)
            At(k) == b.images[imgs[k]]
            known == Smaller(Len(imgs), MaxImages + 1)
            SegmentStart(k) == IF k = 0 THEN s ELSE At(k)
            SegmentEnd(k) == IF k < known THEN At(k + 1) - 1 ELSE e
            Budget(k) == s + Larger(0, target - k * ImageChars)
            Candidate(k) == Smaller(e, Smaller(Budget(k), SegmentEnd(k)))
            Aligned(k) == LET a == PageEnd(b, s, Candidate(k), Candidate(k) - s)
                          IN IF a >= SegmentStart(k) THEN a ELSE Candidate(k)
            fits == {k \in 0..Smaller(known, MaxImages) : Candidate(k) >= SegmentStart(k)}
            Ends == {s} \cup {Aligned(k) : k \in fits}
            Whole == s >= e \/ (e - s <= target /\ Len(imgs) <= MaxImages)
<1>1. PageEndWithImages(b, s, e, target) = IF Whole THEN e ELSE GreatestOf(Ends)
  BY DEF PageEndWithImages
<1>2. /\ MaxImages \in Nat /\ MaxImages > 0 /\ ImageChars \in Nat /\ PageChars \in Nat /\ PageChars > 0
  BY PagerAssumption
<1>3. /\ S \in SUBSET Nat /\ IsFiniteSet(S) /\ W \in SUBSET Nat /\ IsFiniteSet(W)
      /\ Cardinality(W) \in Nat /\ CountImages(b, s, s + 1) = Cardinality(W)
      /\ \A i \in S : b.images[i] \in Nat /\ s <= b.images[i] /\ b.images[i] <= e
  <2>1. /\ S \in SUBSET Nat /\ IsFiniteSet(S) /\ W \in SUBSET Nat /\ IsFiniteSet(W)
        /\ CountImages(b, s, s + 1) \in Nat /\ \A i \in S : b.images[i] \in Nat
    BY ImagesOfRange
  <2>2. \A i \in S : s <= b.images[i] /\ b.images[i] <= e
    BY DEF ImagesIn
  <2>3. CountImages(b, s, s + 1) = Cardinality(W)
    BY DEF CountImages
  <2>. QED BY <2>1, <2>2, <2>3
<1>4. /\ Cardinality(S) \in Nat /\ Len(imgs) = Cardinality(S)
      /\ \A k \in 1..Len(imgs) : imgs[k] \in S
  <2>. HIDE DEF S
  <2>. QED BY <1>3, AscendingMembers
<1>. HIDE DEF S, W, imgs
<1>5. \A k \in 1..Len(imgs) : At(k) \in Nat /\ s <= At(k) /\ At(k) <= e
  BY <1>3, <1>4
<1>6. known \in Nat /\ known <= Len(imgs) /\ known <= MaxImages + 1
  BY <1>2, <1>4 DEF Smaller
<1>. HIDE DEF At, known
<1>7. ASSUME NEW k \in Nat, k <= known
      PROVE  /\ SegmentStart(k) \in Nat /\ s <= SegmentStart(k)
             /\ SegmentEnd(k) \in Int /\ Budget(k) \in Nat /\ s <= Budget(k)
             /\ Candidate(k) \in Int /\ Candidate(k) <= e
  <2>1. SegmentStart(k) \in Nat /\ s <= SegmentStart(k)
    BY <1>4, <1>5, <1>6, <1>7
  <2>2. SegmentEnd(k) \in Int
    <3>1. k < known => k + 1 \in 1..Len(imgs)
      BY <1>4, <1>6
    <3>. QED BY <1>5, <3>1
  <2>3. k * ImageChars \in Nat
    BY <1>2
  <2>4. Budget(k) \in Nat /\ s <= Budget(k)
    BY <2>3 DEF Larger
  <2>. HIDE DEF Budget, SegmentEnd
  <2>5. Candidate(k) \in Int /\ Candidate(k) <= e
    BY <2>2, <2>4 DEF Smaller
  <2>. QED BY <2>1, <2>2, <2>4, <2>5
<1>8. \A k \in fits : k \in Nat /\ k <= known /\ k <= MaxImages /\ Candidate(k) >= SegmentStart(k)
  BY <1>2, <1>6 DEF Smaller
<1>. HIDE DEF SegmentStart, SegmentEnd, Budget, Candidate
<1>9. ASSUME NEW k \in fits
      PROVE  /\ Aligned(k) \in Nat /\ s <= Aligned(k) /\ Aligned(k) <= e
             /\ s < Candidate(k) => s < Aligned(k)
  <2>1. /\ Candidate(k) \in Nat /\ s <= Candidate(k) /\ Candidate(k) <= e
        /\ SegmentStart(k) \in Nat
    BY <1>7, <1>8, <1>9
  <2>2. CASE s < Candidate(k)
    <3>1. /\ PageEnd(b, s, Candidate(k), Candidate(k) - s) \in Nat
          /\ s < PageEnd(b, s, Candidate(k), Candidate(k) - s)
          /\ PageEnd(b, s, Candidate(k), Candidate(k) - s) <= Candidate(k)
      BY <2>1, <2>2, PageEndInWindow
    <3>. QED BY <2>1, <2>2, <3>1
  <2>3. CASE ~(s < Candidate(k))
    <3>1. PageEnd(b, s, Candidate(k), Candidate(k) - s) = Candidate(k)
      BY <2>1, <2>3 DEF PageEnd
    <3>. QED BY <2>1, <2>3, <3>1
  <2>. QED BY <2>2, <2>3
<1>. HIDE DEF Aligned, fits
<1>10. Ends \in SUBSET Nat /\ Ends # {} /\ \A y \in Ends : y <= e /\ s <= y
  BY <1>9
<1>11. GreatestOf(Ends) \in Ends /\ \A y \in Ends : GreatestOf(Ends) >= y
  <2>. HIDE DEF Ends
  <2>. QED BY <1>10, GreatestOfNumbers
<1>12. ASSUME target = PageChars, ~Crowded(b, s), ~Whole PROVE s < GreatestOf(Ends)
  <2>. DEFINE n == Cardinality(W)
  <2>1. n \in Nat /\ n <= MaxImages /\ n * ImageChars \in Nat /\ n * ImageChars < target
    <3>1. n \in Nat /\ n * ImageChars \in Nat
      BY <1>2, <1>3
    <3>2. ~(n > MaxImages) /\ ~(n * ImageChars >= PageChars)
      BY <1>3, <1>12 DEF Crowded
    <3>. QED BY <1>2, <1>12, <3>1, <3>2
  <2>2. /\ W \in SUBSET S
        /\ \A i \in S : i \in W <=> b.images[i] <= s + 1
    <3>1. \A i \in DOMAIN b.images : b.images[i] \in Nat
      BY DEF GoodBuffer
    <3>. QED BY <3>1 DEF S, W, ImagesIn
  <2>3. \A w \in W : \A y \in S : y < w => y \in W
    <3>1. SUFFICES ASSUME NEW w \in W, NEW y \in S, y < w PROVE y \in W
      OBVIOUS
    <3>2. w \in S /\ b.images[w] <= s + 1 /\ w \in Nat /\ y \in Nat
      BY <2>2, <1>3
    <3>3. w \in DOMAIN b.images /\ y \in DOMAIN b.images
      BY <3>2 DEF S, ImagesIn
    <3>4. b.images[y] <= b.images[w]
      BY <3>1, <3>2, <3>3 DEF GoodBuffer
    <3>. QED BY <1>3, <2>2, <3>2, <3>4
  <2>4. n <= Len(imgs)
    BY <1>3, <1>4, <2>2, FS_Subset
  <2>5. \A j \in 1..Len(imgs) : imgs[j] \in W <=> j <= n
    BY <1>3, <1>4, <2>2, <2>3, AscendingSplit DEF imgs
  <2>. HIDE DEF n
  <2>6. n <= known /\ n \in 0..Smaller(known, MaxImages)
    BY <1>2, <1>4, <1>6, <2>1, <2>4 DEF known, Smaller
  <2>7. SegmentStart(n) <= s + 1 /\ SegmentStart(n) \in Nat
    <3>1. CASE n = 0
      BY <3>1 DEF SegmentStart
    <3>2. CASE n # 0
      <4>1. n \in 1..Len(imgs)
        BY <1>4, <2>1, <2>4, <3>2
      <4>2. b.images[imgs[n]] <= s + 1
        BY <1>4, <2>1, <2>2, <2>5, <4>1
      <4>. QED BY <1>5, <4>1, <4>2, <3>2 DEF SegmentStart, At
    <3>. QED BY <3>1, <3>2
  <2>8. SegmentEnd(n) \in Int /\ SegmentEnd(n) >= s + 1
    <3>1. CASE n < known
      <4>1. n + 1 \in 1..Len(imgs) /\ ~(n + 1 <= n)
        BY <1>4, <1>6, <2>1, <3>1
      <4>2. ~(b.images[imgs[n + 1]] <= s + 1)
        BY <1>4, <2>2, <2>5, <4>1
      <4>. QED BY <1>5, <3>1, <4>1, <4>2 DEF SegmentEnd, At
    <3>2. CASE ~(n < known)
      BY <3>2 DEF SegmentEnd
    <3>. QED BY <3>1, <3>2
  <2>9. Budget(n) \in Int /\ Budget(n) >= s + 1
    BY <2>1 DEF Budget, Larger
  <2>10. Candidate(n) \in Int /\ Candidate(n) >= s + 1
    BY <2>8, <2>9 DEF Candidate, Smaller
  <2>11. n \in fits
    BY <2>6, <2>7, <2>10 DEF fits
  <2>12. s < Aligned(n) /\ Aligned(n) \in Nat /\ Aligned(n) \in Ends
    BY <1>9, <2>10, <2>11
  <2>13. GreatestOf(Ends) >= Aligned(n) /\ GreatestOf(Ends) \in Nat
    BY <1>10, <1>11, <2>12
  <2>. QED BY <2>12, <2>13
<1>13. GreatestOf(Ends) \in Nat /\ s <= GreatestOf(Ends) /\ GreatestOf(Ends) <= e
  BY <1>10, <1>11
<1>. HIDE DEF Whole, Ends
<1>. QED BY <1>1, <1>12, <1>13
-----------------------------------------------------------------------------
(***************************************************************************)
(* What a command takes of the buffer.                                     *)
(***************************************************************************)

Offsets(b) == 0..(Length(b) - 1)
Spans == {NoSpan} \cup (Int \X Int)
Takes(b) ==
    [cursor : 0..Length(b), seen : SUBSET Offsets(b), shown : SUBSET Offsets(b),
     elided : SUBSET Offsets(b), images : SUBSET Nat, first : Spans, last : Spans]

(* A part taken from a place on: what was seen and what is shown is seen   *)
(* afterwards, all of what was passed over is, and what is left out was.   *)
Follows(b, cursor, seen, t) ==
    /\ cursor <= t.cursor /\ (cursor..(t.cursor - 1)) \subseteq t.seen
    /\ t.seen = seen \cup t.shown
    /\ t.elided \subseteq t.seen

(* The seen range that covers the cursor ends after it; the next one       *)
(* starts after a cursor that is not covered.                              *)
LEMMA SeenRanges ==
  ASSUME NEW b, GoodBuffer(b), NEW seen \in SUBSET Offsets(b), NEW at \in Offsets(b)
  PROVE  /\ at \in seen => /\ SeenEnd(b, seen, at) \in (at + 1)..Length(b)
                           /\ (at..(SeenEnd(b, seen, at) - 1)) \subseteq seen
         /\ at \notin seen => NextSeen(b, seen, at) \in (at + 1)..Length(b)
<1>1. Length(b) \in Nat /\ at \in Nat /\ at < Length(b)
  BY Lines DEF Offsets
<1>2. ASSUME at \in seen
      PROVE  /\ SeenEnd(b, seen, at) \in (at + 1)..Length(b)
             /\ (at..(SeenEnd(b, seen, at) - 1)) \subseteq seen
  <2>. DEFINE S == (at..Length(b)) \ seen
  <2>1. S \in SUBSET Nat /\ Length(b) \in S /\ \A y \in S : y \in at..Length(b) /\ y # at
    BY <1>1, <1>2 DEF Offsets
  <2>2. \A y \in Nat : at <= y /\ y <= Length(b) /\ y \notin seen => y \in S
    BY <1>1
  <2>. HIDE DEF S
  <2>3. LeastOf(S) \in S /\ \A y \in S : LeastOf(S) <= y
    BY <2>1, LeastOfNumbers
  <2>31. ASSUME NEW y \in S PROVE y \in (at + 1)..Length(b)
    BY <1>1, <2>1
  <2>4. LeastOf(S) \in (at + 1)..Length(b)
    BY <2>3, <2>31
  <2>5. ASSUME NEW o \in at..(LeastOf(S) - 1) PROVE o \in seen
    <3>1. o \in Nat /\ at <= o /\ o <= Length(b) /\ ~(LeastOf(S) <= o)
      BY <1>1, <2>4
    <3>. QED BY <2>2, <2>3, <3>1
  <2>6. SeenEnd(b, seen, at) = LeastOf(S)
    BY DEF SeenEnd, S
  <2>. QED BY <2>4, <2>5, <2>6
<1>3. ASSUME at \notin seen PROVE NextSeen(b, seen, at) \in (at + 1)..Length(b)
  <2>. DEFINE S == {Length(b)} \cup {o \in seen : o >= at}
  <2>0. ASSUME NEW y \in S PROVE y \in Nat /\ y \in (at + 1)..Length(b)
    <3>1. CASE y = Length(b)
      BY <1>1, <3>1
    <3>2. CASE y \in seen /\ y >= at
      <4>1. y \in Offsets(b) /\ y # at
        BY <1>3, <3>2
      <4>. QED BY <1>1, <3>2, <4>1 DEF Offsets
    <3>. QED BY <3>1, <3>2
  <2>1. S \in SUBSET Nat /\ S # {}
    BY <2>0
  <2>. HIDE DEF S
  <2>2. LeastOf(S) \in S
    BY <2>1, LeastOfNumbers
  <2>3. LeastOf(S) \in (at + 1)..Length(b)
    BY <2>0, <2>2
  <2>. QED BY <2>3 DEF NextSeen, S
<1>. QED BY <1>2, <1>3

(* Taking a range, and passing over one that was seen, follow on.          *)
LEMMA TakeRangeFollows ==
  ASSUME NEW b, GoodBuffer(b), NEW cursor \in 0..Length(b), NEW seen \in SUBSET Offsets(b),
         NEW t \in Takes(b), Follows(b, cursor, seen, t),
         NEW e \in Nat, t.cursor < e, e <= Length(b)
  PROVE  /\ TakeRange(b, t, t.cursor, e) \in Takes(b)
         /\ TakeRange(b, t, t.cursor, e).cursor = e
         /\ Follows(b, cursor, seen, TakeRange(b, t, t.cursor, e))
<1>. DEFINE u == TakeRange(b, t, t.cursor, e)
            R == t.cursor..(e - 1)
<1>1. Length(b) \in Nat /\ t.cursor \in Nat /\ cursor \in Nat
  BY Lines DEF Takes
<1>2. R \in SUBSET Offsets(b)
  BY <1>1 DEF Offsets
<1>3. ImagesIn(b, t.cursor, e) \in SUBSET Nat
  BY ImagesOfRange
<1>4. <<t.cursor, e>> \in Spans
  BY <1>1 DEF Spans
<1>. HIDE DEF R
<1>5. u = [t EXCEPT !.cursor = e, !.seen = @ \cup R, !.shown = @ \cup R,
              !.images = @ \cup ImagesIn(b, t.cursor, e),
              !.first = IF t.first = NoSpan THEN <<t.cursor, e>> ELSE @,
              !.last = <<t.cursor, e>>]
  BY DEF TakeRange, R
<1>. HIDE DEF u
<1>6. u \in Takes(b)
  <2>1. /\ t.seen \cup R \in SUBSET Offsets(b) /\ t.shown \cup R \in SUBSET Offsets(b)
        /\ t.images \cup ImagesIn(b, t.cursor, e) \in SUBSET Nat /\ e \in 0..Length(b)
        /\ (IF t.first = NoSpan THEN <<t.cursor, e>> ELSE t.first) \in Spans
    BY <1>1, <1>2, <1>3, <1>4 DEF Takes
  <2>. QED BY <1>4, <1>5, <2>1 DEF Takes
<1>7. u.cursor = e /\ u.seen = t.seen \cup R /\ u.shown = t.shown \cup R /\ u.elided = t.elided
  BY <1>5 DEF Takes
<1>8. (cursor..(e - 1)) \subseteq (cursor..(t.cursor - 1)) \cup R
  BY <1>1 DEF R
<1>9. Follows(b, cursor, seen, u)
  BY <1>1, <1>7, <1>8 DEF Follows
<1>. QED BY <1>6, <1>7, <1>9 DEF u

(* Passing over text that was seen keeps what a take promises.             *)
LEMMA ElideFollows ==
  ASSUME NEW b, GoodBuffer(b), NEW cursor \in 0..Length(b), NEW seen \in SUBSET Offsets(b),
         NEW t \in Takes(b), Follows(b, cursor, seen, t),
         NEW e \in Nat, t.cursor < e, e <= Length(b), (t.cursor..(e - 1)) \subseteq t.seen
  PROVE  Elide(t, e) \in Takes(b) /\ Elide(t, e).cursor = e /\ Follows(b, cursor, seen, Elide(t, e))
<1>. DEFINE u == Elide(t, e)
            R == t.cursor..(e - 1)
<1>1. Length(b) \in Nat /\ t.cursor \in Nat /\ cursor \in Nat
  BY Lines DEF Takes
<1>2. R \in SUBSET Offsets(b)
  BY <1>1 DEF Offsets
<1>3. (cursor..(e - 1)) \subseteq (cursor..(t.cursor - 1)) \cup R
  BY <1>1
<1>. HIDE DEF R
<1>5. u = [t EXCEPT !.cursor = e, !.elided = @ \cup R]
  BY DEF Elide, R
<1>. HIDE DEF u
<1>6. u \in Takes(b)
  <2>1. t.elided \cup R \in SUBSET Offsets(b) /\ e \in 0..Length(b)
    BY <1>1, <1>2 DEF Takes
  <2>. QED BY <1>5, <2>1 DEF Takes
<1>7. u.cursor = e /\ u.seen = t.seen /\ u.shown = t.shown /\ u.elided = t.elided \cup R
  BY <1>5 DEF Takes
<1>8. R \subseteq t.seen
  BY DEF R
<1>9. Follows(b, cursor, seen, u)
  BY <1>1, <1>3, <1>7, <1>8 DEF Follows
<1>. QED BY <1>6, <1>7, <1>9 DEF u

(* The states of the loop of take_next_page.                               *)
PageStates(b, cursor, seen) ==
    {x \in [t : Takes(b), budget : Int, done : BOOLEAN] : Follows(b, cursor, seen, x.t)}
PageStart(cursor, seen) == [t |-> Taken(cursor, seen), budget |-> PageChars, done |-> FALSE]

(* A take that shows nothing yet.                                          *)
LEMMA NothingTaken ==
  ASSUME NEW b, GoodBuffer(b), NEW cursor \in 0..Length(b), NEW seen \in SUBSET Offsets(b)
  PROVE  Taken(cursor, seen) \in Takes(b) /\ Follows(b, cursor, seen, Taken(cursor, seen))
<1>1. cursor \in Nat
  BY Lines
<1>2. Taken(cursor, seen) \in Takes(b)
  BY DEF Taken, Takes, Spans
<1>3. (cursor..(cursor - 1)) = {}
  BY <1>1
<1>. QED BY <1>1, <1>2, <1>3 DEF Taken, Follows

(* A round keeps them, and never moves the cursor back; the first one      *)
(* moves it unless the images at it fill the page.                         *)
LEMMA PageRoundFollows ==
  ASSUME NEW b, GoodBuffer(b), NEW cursor \in 0..Length(b), NEW seen \in SUBSET Offsets(b),
         NEW x \in PageStates(b, cursor, seen)
  PROVE  /\ PageRound(b, x) \in PageStates(b, cursor, seen)
         /\ x.t.cursor <= PageRound(b, x).t.cursor
         /\ x = PageStart(cursor, seen) /\ cursor < Length(b) /\ ~Crowded(b, cursor)
               => cursor < PageRound(b, x).t.cursor
<1>. DEFINE t == x.t
            at == t.cursor
            next == NextSeen(b, t.seen, at)
            end == PageEndWithImages(b, at, next, x.budget)
            used == (end - at) + CountImages(b, at, end) * ImageChars
            spent == \/ end < Smaller(at + x.budget, next)
                     \/ used >= x.budget
<1>1. /\ t \in Takes(b) /\ Follows(b, cursor, seen, t) /\ x.budget \in Int /\ x.done \in BOOLEAN
      /\ x \in [t : Takes(b), budget : Int, done : BOOLEAN]
  BY DEF PageStates
<1>2. Length(b) \in Nat /\ at \in Nat /\ at <= Length(b) /\ t.seen \in SUBSET Offsets(b)
  BY <1>1, Lines DEF Takes
<1>3. x = PageStart(cursor, seen) => at = cursor /\ ~x.done /\ x.budget = PageChars
  BY DEF PageStart, Taken
<1>. HIDE DEF t
<1>4. CASE x.done \/ at >= Length(b)
  <2>1. PageRound(b, x) = x
    BY <1>4 DEF PageRound, t
  <2>2. ~(x = PageStart(cursor, seen) /\ cursor < Length(b))
    BY <1>2, <1>3, <1>4
  <2>3. x.t.cursor <= x.t.cursor
    BY <1>2 DEF t
  <2>. QED BY <2>1, <2>2, <2>3
<1>5. CASE ~x.done /\ ~(at >= Length(b)) /\ at \in t.seen
  <2>. DEFINE e == SeenEnd(b, t.seen, at)
  <2>1. PageRound(b, x) = [x EXCEPT !.t = Elide(t, e)]
    BY <1>5 DEF PageRound, t
  <2>2. at \in Offsets(b)
    BY <1>2, <1>5 DEF Offsets
  <2>3. e \in (at + 1)..Length(b) /\ (at..(e - 1)) \subseteq t.seen
    BY <1>2, <1>5, <2>2, SeenRanges
  <2>. HIDE DEF e
  <2>4. e \in Nat /\ at < e /\ e <= Length(b)
    BY <1>2, <2>3
  <2>5. Elide(t, e) \in Takes(b) /\ Elide(t, e).cursor = e /\ Follows(b, cursor, seen, Elide(t, e))
    BY <1>1, <2>3, <2>4, ElideFollows
  <2>6. PageRound(b, x) \in PageStates(b, cursor, seen) /\ PageRound(b, x).t = Elide(t, e)
    BY <1>1, <2>1, <2>5 DEF PageStates
  <2>7. x.t.cursor = at
    BY DEF t
  <2>. QED BY <1>2, <1>3, <2>4, <2>5, <2>6, <2>7
<1>6. CASE ~x.done /\ ~(at >= Length(b)) /\ at \notin t.seen
  <2>1. at \in Offsets(b)
    BY <1>2, <1>6 DEF Offsets
  <2>2. next \in (at + 1)..Length(b)
    BY <1>2, <1>6, <2>1, SeenRanges
  <2>. HIDE DEF next
  <2>3. next \in Nat /\ at < next /\ next <= Length(b)
    BY <1>2, <2>2
  <2>4. /\ end \in Nat /\ at <= end /\ end <= next
        /\ x.budget = PageChars /\ ~Crowded(b, at) => at < end
    BY <1>1, <1>2, <2>3, PageEndAdvances
  <2>. HIDE DEF end
  <2>5. x.t.cursor = at
    BY DEF t
  <2>6. CASE end <= at
    <3>1. PageRound(b, x) = [x EXCEPT !.done = TRUE]
      BY <1>6, <2>6 DEF PageRound, PageTaken, PageShown, t, next, end
    <3>2. PageRound(b, x) \in PageStates(b, cursor, seen) /\ PageRound(b, x).t = t
      BY <1>1, <3>1 DEF PageStates, t
    <3>3. ~(x.budget = PageChars /\ ~Crowded(b, at))
      BY <1>2, <2>4, <2>6
    <3>. QED BY <1>2, <1>3, <3>2, <3>3, <2>5
  <2>7. CASE ~(end <= at)
    <3>1. PageRound(b, x) = [t |-> TakeRange(b, t, at, end), budget |-> x.budget - used, done |-> spent]
      BY <1>6, <2>7 DEF PageRound, PageTaken, PageShown, t, next, end
    <3>2. end \in Nat /\ at < end /\ end <= Length(b)
      BY <1>2, <2>3, <2>4, <2>7
    <3>3. used \in Int
      <4>1. CountImages(b, at, end) \in Nat /\ ImageChars \in Nat
        BY ImagesOfRange, PagerAssumption
      <4>2. CountImages(b, at, end) * ImageChars \in Int
        BY <4>1
      <4>. QED BY <1>2, <3>2, <4>2
    <3>4. spent \in BOOLEAN
      OBVIOUS
    <3>. HIDE DEF used, spent
    <3>5. x.budget - used \in Int
      BY <1>1, <3>3
    <3>6. /\ TakeRange(b, t, at, end) \in Takes(b) /\ TakeRange(b, t, at, end).cursor = end
          /\ Follows(b, cursor, seen, TakeRange(b, t, at, end))
      BY <1>1, <3>2, TakeRangeFollows
    <3>7. /\ PageRound(b, x) \in PageStates(b, cursor, seen)
          /\ PageRound(b, x).t = TakeRange(b, t, at, end)
      BY <3>1, <3>4, <3>5, <3>6 DEF PageStates
    <3>. QED BY <1>2, <1>3, <3>2, <3>6, <3>7, <2>5
  <2>. QED BY <2>6, <2>7
<1>. QED BY <1>4, <1>5, <1>6

(* The loop is the sequence of its rounds.                                 *)
LEMMA PageLoopRounds ==
  ASSUME NEW b, GoodBuffer(b), NEW cursor \in 0..Length(b), NEW seen \in SUBSET Offsets(b)
  PROVE  /\ PageLoop(b, PageStart(cursor, seen))[0] = PageStart(cursor, seen)
         /\ \A k \in Nat :
               /\ PageLoop(b, PageStart(cursor, seen))[k] \in PageStates(b, cursor, seen)
               /\ PageLoop(b, PageStart(cursor, seen))[k + 1]
                     = PageRound(b, PageLoop(b, PageStart(cursor, seen))[k])
<1>. DEFINE V == PageStates(b, cursor, seen)
            x == PageStart(cursor, seen)
            S == [v \in V |-> PageRound(b, v)]
            L == PageLoop(b, x)
<1>1. x \in V
  <2>1. Taken(cursor, seen) \in Takes(b) /\ Follows(b, cursor, seen, Taken(cursor, seen))
    BY NothingTaken
  <2>. QED BY <2>1, PagerAssumption DEF PageStart, PageStates
<1>2. \A v \in V : PageRound(b, v) \in V
  BY PageRoundFollows
<1>3. S \in [V -> V]
  BY <1>2
<1>. HIDE DEF V, x
<1>4. PICK f \in [Nat -> V] : f = [k \in Nat |-> IF k = 0 THEN x ELSE S[f[k - 1]]]
  <2>. HIDE DEF S
  <2>. QED BY <1>1, <1>3, LoopExists
<1>5. f = [k \in Nat |-> IF k = 0 THEN x ELSE PageRound(b, f[k - 1])]
  <2>1. \A k \in Nat : k # 0 => S[f[k - 1]] = PageRound(b, f[k - 1])
    BY <1>4
  <2>. HIDE DEF S
  <2>. QED BY <1>4, <2>1
<1>6. L = [k \in Nat |-> IF k = 0 THEN x ELSE PageRound(b, L[k - 1])]
  BY <1>5 DEF PageLoop
<1>. HIDE DEF L, S
<1>7. L[0] = x
  BY <1>6
<1>8. \A k \in Nat : L[k + 1] = PageRound(b, L[k])
  <2>1. ASSUME NEW k \in Nat PROVE L[k + 1] = PageRound(b, L[k])
    <3>1. k + 1 \in Nat /\ k + 1 # 0 /\ (k + 1) - 1 = k
      OBVIOUS
    <3>. QED BY <1>6, <3>1
  <2>. QED BY <2>1
<1>. DEFINE T == {k \in Nat : L[k] \in V}
<1>9. 0 \in T /\ T \in SUBSET Nat /\ \A k \in T : k + 1 \in T
  BY <1>1, <1>2, <1>7, <1>8
<1>10. T = Nat
  <2>. HIDE DEF T
  <2>. QED BY <1>9, Counting
<1>. QED BY <1>7, <1>8, <1>10 DEF L, x, V

(* take_next_page follows on, and advances unless the images at the        *)
(* cursor fill the page.                                                   *)
LEMMA TakePageFollows ==
  ASSUME NEW b, GoodBuffer(b), NEW cursor \in 0..Length(b), NEW seen \in SUBSET Offsets(b)
  PROVE  /\ TakePage(b, cursor, seen) \in Takes(b)
         /\ Follows(b, cursor, seen, TakePage(b, cursor, seen))
         /\ cursor < Length(b) /\ ~Crowded(b, cursor) => cursor < TakePage(b, cursor, seen).cursor
<1>. DEFINE L == PageLoop(b, PageStart(cursor, seen))
<1>1. Length(b) \in Nat /\ cursor \in Nat
  BY Lines
<1>2. /\ L[0] = PageStart(cursor, seen)
      /\ \A k \in Nat : L[k] \in PageStates(b, cursor, seen) /\ L[k + 1] = PageRound(b, L[k])
  BY PageLoopRounds
<1>3. TakePage(b, cursor, seen) = L[Length(b) + 1].t
  BY DEF TakePage, PageStart
<1>. HIDE DEF L
<1>4. \A k \in Nat : L[k].t \in Takes(b) /\ Follows(b, cursor, seen, L[k].t)
  BY <1>2 DEF PageStates
<1>5. ASSUME cursor < Length(b), ~Crowded(b, cursor) PROVE cursor < L[Length(b) + 1].t.cursor
  <2>. DEFINE T == {k \in Nat : cursor < L[k + 1].t.cursor}
  <2>1. 0 \in T
    <3>1. L[0] \in PageStates(b, cursor, seen) /\ L[0 + 1] = PageRound(b, L[0])
      BY <1>2
    <3>. QED BY <1>2, <1>5, <3>1, PageRoundFollows
  <2>2. ASSUME NEW k \in T PROVE k + 1 \in T
    <3>1. k + 1 \in Nat /\ cursor < L[k + 1].t.cursor
      BY <2>2
    <3>2. L[k + 1] \in PageStates(b, cursor, seen) /\ L[(k + 1) + 1] = PageRound(b, L[k + 1])
      BY <1>2, <3>1
    <3>3. L[k + 1].t.cursor <= L[(k + 1) + 1].t.cursor
      BY <3>2, PageRoundFollows
    <3>4. L[k + 1].t.cursor \in Nat /\ L[(k + 1) + 1].t.cursor \in Nat
      <4>1. (k + 1) + 1 \in Nat
        BY <3>1
      <4>2. L[k + 1].t \in Takes(b) /\ L[(k + 1) + 1].t \in Takes(b)
        BY <1>4, <3>1, <4>1
      <4>. QED BY <1>1, <4>2 DEF Takes
    <3>5. cursor < L[(k + 1) + 1].t.cursor
      BY <1>1, <3>1, <3>3, <3>4
    <3>. QED BY <3>1, <3>5
  <2>3. T \in SUBSET Nat
    OBVIOUS
  <2>4. Length(b) \in T
    <3>. HIDE DEF T
    <3>. QED BY <1>1, <2>1, <2>2, <2>3, Counting
  <2>. QED BY <2>4
<1>6. Length(b) + 1 \in Nat
  BY <1>1
<1>. QED BY <1>3, <1>4, <1>5, <1>6

(* Pages taken one after the other follow on.                              *)
LEMMA JoinedFollows ==
  ASSUME NEW b, GoodBuffer(b), NEW cursor \in 0..Length(b), NEW seen \in SUBSET Offsets(b),
         NEW t \in Takes(b), Follows(b, cursor, seen, t),
         NEW u \in Takes(b), Follows(b, t.cursor, t.seen, u)
  PROVE  /\ Joined(t, u) \in Takes(b) /\ Joined(t, u).cursor = u.cursor
         /\ Follows(b, cursor, seen, Joined(t, u))
<1>. DEFINE j == Joined(t, u)
<1>1. Length(b) \in Nat /\ t.cursor \in Nat /\ u.cursor \in Nat /\ cursor \in Nat
  BY Lines DEF Takes
<1>2. /\ u.shown \cup t.shown \in SUBSET Offsets(b) /\ u.elided \cup t.elided \in SUBSET Offsets(b)
      /\ u.images \cup t.images \in SUBSET Nat
      /\ (IF t.first = NoSpan THEN u.first ELSE t.first) \in Spans
      /\ (IF u.last = NoSpan THEN t.last ELSE u.last) \in Spans
  BY DEF Takes
<1>3. j = [u EXCEPT !.shown = @ \cup t.shown, !.elided = @ \cup t.elided,
              !.images = @ \cup t.images,
              !.first = IF t.first = NoSpan THEN @ ELSE t.first,
              !.last = IF @ = NoSpan THEN t.last ELSE @]
  BY DEF Joined
<1>. HIDE DEF j
<1>4. j \in Takes(b)
  BY <1>2, <1>3 DEF Takes
<1>5. /\ j.cursor = u.cursor /\ j.seen = u.seen
      /\ j.shown = u.shown \cup t.shown /\ j.elided = u.elided \cup t.elided
  BY <1>3 DEF Takes
<1>6. (cursor..(u.cursor - 1)) \subseteq (cursor..(t.cursor - 1)) \cup (t.cursor..(u.cursor - 1))
  BY <1>1
<1>7. Follows(b, cursor, seen, j)
  <2>1. /\ cursor <= t.cursor /\ (cursor..(t.cursor - 1)) \subseteq t.seen
        /\ t.seen = seen \cup t.shown /\ t.elided \subseteq t.seen
        /\ t.cursor <= u.cursor /\ (t.cursor..(u.cursor - 1)) \subseteq u.seen
        /\ u.seen = t.seen \cup u.shown /\ u.elided \subseteq u.seen
    BY DEF Follows
  <2>2. cursor <= u.cursor
    BY <1>1, <2>1
  <2>. QED BY <1>5, <1>6, <2>1, <2>2 DEF Follows
<1>. QED BY <1>4, <1>5, <1>7 DEF j

(* The loop of take_next_pages.                                            *)
PagesStates(b, cursor, seen) ==
    {x \in [t : Takes(b), done : BOOLEAN] : Follows(b, cursor, seen, x.t)}
PagesStart(cursor, seen) == [t |-> Taken(cursor, seen), done |-> FALSE]

(* A round takes a page, or has nothing more to do.                        *)
LEMMA PagesRoundFollows ==
  ASSUME NEW b, GoodBuffer(b), NEW cursor \in 0..Length(b), NEW seen \in SUBSET Offsets(b),
         NEW x \in PagesStates(b, cursor, seen)
  PROVE  /\ PagesRound(b, x) \in PagesStates(b, cursor, seen)
         /\ x.t.cursor <= PagesRound(b, x).t.cursor
         /\ x = PagesStart(cursor, seen) /\ cursor < Length(b) /\ ~Crowded(b, cursor)
               => cursor < PagesRound(b, x).t.cursor
<1>. DEFINE t == x.t
            page == TakePage(b, t.cursor, t.seen)
<1>1. /\ t \in Takes(b) /\ Follows(b, cursor, seen, t) /\ x.done \in BOOLEAN
      /\ x \in [t : Takes(b), done : BOOLEAN]
  BY DEF PagesStates
<1>2. Length(b) \in Nat /\ t.cursor \in 0..Length(b) /\ t.seen \in SUBSET Offsets(b)
  BY <1>1, Lines DEF Takes
<1>3. x = PagesStart(cursor, seen) => t.cursor = cursor /\ ~x.done
  BY DEF PagesStart, Taken
<1>. HIDE DEF t
<1>4. /\ page \in Takes(b) /\ Follows(b, t.cursor, t.seen, page)
      /\ t.cursor < Length(b) /\ ~Crowded(b, t.cursor) => t.cursor < page.cursor
  BY <1>2, TakePageFollows
<1>. HIDE DEF page
<1>5. CASE x.done
  <2>1. PagesRound(b, x) = x
    BY <1>5 DEF PagesRound
  <2>2. x.t.cursor <= x.t.cursor
    BY <1>2 DEF t
  <2>. QED BY <1>3, <1>5, <2>1, <2>2
<1>6. CASE ~x.done
  <2>1. PagesRound(b, x)
          = [t |-> Joined(t, page), done |-> Nothing(page) \/ PagesLeft(b, page.cursor) = 0]
    BY <1>6 DEF PagesRound, PagesJoined, t, page
  <2>2. /\ Joined(t, page) \in Takes(b) /\ Joined(t, page).cursor = page.cursor
        /\ Follows(b, cursor, seen, Joined(t, page))
    BY <1>1, <1>4, JoinedFollows
  <2>3. PagesRound(b, x) \in PagesStates(b, cursor, seen) /\ PagesRound(b, x).t = Joined(t, page)
    BY <2>1, <2>2 DEF PagesStates
  <2>4. t.cursor <= page.cursor
    BY <1>4 DEF Follows
  <2>5. x.t.cursor <= PagesRound(b, x).t.cursor
    BY <2>2, <2>3, <2>4 DEF t
  <2>. QED BY <1>3, <1>4, <2>2, <2>3, <2>5
<1>. QED BY <1>5, <1>6

(* The loop is the sequence of its rounds.                                 *)
LEMMA PagesLoopRounds ==
  ASSUME NEW b, GoodBuffer(b), NEW cursor \in 0..Length(b), NEW seen \in SUBSET Offsets(b)
  PROVE  /\ PagesLoop(b, PagesStart(cursor, seen))[0] = PagesStart(cursor, seen)
         /\ \A k \in Nat :
               /\ PagesLoop(b, PagesStart(cursor, seen))[k] \in PagesStates(b, cursor, seen)
               /\ PagesLoop(b, PagesStart(cursor, seen))[k + 1]
                     = PagesRound(b, PagesLoop(b, PagesStart(cursor, seen))[k])
<1>. DEFINE V == PagesStates(b, cursor, seen)
            x == PagesStart(cursor, seen)
            S == [v \in V |-> PagesRound(b, v)]
            L == PagesLoop(b, x)
<1>1. x \in V
  <2>1. Taken(cursor, seen) \in Takes(b) /\ Follows(b, cursor, seen, Taken(cursor, seen))
    BY NothingTaken
  <2>. QED BY <2>1 DEF PagesStart, PagesStates
<1>2. \A v \in V : PagesRound(b, v) \in V
  BY PagesRoundFollows
<1>3. S \in [V -> V]
  BY <1>2
<1>. HIDE DEF V, x
<1>4. PICK f \in [Nat -> V] : f = [k \in Nat |-> IF k = 0 THEN x ELSE S[f[k - 1]]]
  <2>. HIDE DEF S
  <2>. QED BY <1>1, <1>3, LoopExists
<1>5. f = [k \in Nat |-> IF k = 0 THEN x ELSE PagesRound(b, f[k - 1])]
  <2>1. \A k \in Nat : k # 0 => S[f[k - 1]] = PagesRound(b, f[k - 1])
    BY <1>4
  <2>. HIDE DEF S
  <2>. QED BY <1>4, <2>1
<1>6. L = [k \in Nat |-> IF k = 0 THEN x ELSE PagesRound(b, L[k - 1])]
  BY <1>5 DEF PagesLoop
<1>. HIDE DEF L, S
<1>7. L[0] = x
  BY <1>6
<1>8. \A k \in Nat : L[k + 1] = PagesRound(b, L[k])
  <2>1. ASSUME NEW k \in Nat PROVE L[k + 1] = PagesRound(b, L[k])
    <3>1. k + 1 \in Nat /\ k + 1 # 0 /\ (k + 1) - 1 = k
      OBVIOUS
    <3>. QED BY <1>6, <3>1
  <2>. QED BY <2>1
<1>. DEFINE T == {k \in Nat : L[k] \in V}
<1>9. 0 \in T /\ T \in SUBSET Nat /\ \A k \in T : k + 1 \in T
  BY <1>1, <1>2, <1>7, <1>8
<1>10. T = Nat
  <2>. HIDE DEF T
  <2>. QED BY <1>9, Counting
<1>. QED BY <1>7, <1>8, <1>10 DEF L, x, V

(* take_next_pages follows on, and advances unless the images at the       *)
(* cursor fill a page.                                                     *)
LEMMA TakePagesFollows ==
  ASSUME NEW b, GoodBuffer(b), NEW cursor \in 0..Length(b), NEW seen \in SUBSET Offsets(b),
         NEW count \in Nat
  PROVE  /\ TakePages(b, cursor, seen, count) \in Takes(b)
         /\ Follows(b, cursor, seen, TakePages(b, cursor, seen, count))
         /\ count > 0 /\ cursor < Length(b) /\ ~Crowded(b, cursor)
               => cursor < TakePages(b, cursor, seen, count).cursor
<1>. DEFINE L == PagesLoop(b, PagesStart(cursor, seen))
            n == Smaller(count, MaxPagesTaken)
<1>0. n \in Nat /\ (count > 0 => n > 0)
  BY DEF Smaller, MaxPagesTaken
<1>1. Length(b) \in Nat /\ cursor \in Nat
  BY Lines
<1>2. /\ L[0] = PagesStart(cursor, seen)
      /\ \A k \in Nat : L[k] \in PagesStates(b, cursor, seen) /\ L[k + 1] = PagesRound(b, L[k])
  BY PagesLoopRounds
<1>3. TakePages(b, cursor, seen, count) = L[n].t
  BY DEF TakePages, PagesStart
<1>. HIDE DEF L, n
<1>4. \A k \in Nat : L[k].t \in Takes(b) /\ Follows(b, cursor, seen, L[k].t)
  BY <1>2 DEF PagesStates
<1>5. ASSUME n > 0, cursor < Length(b), ~Crowded(b, cursor) PROVE cursor < L[n].t.cursor
  <2>. DEFINE T == {k \in Nat : cursor < L[k + 1].t.cursor}
  <2>1. 0 \in T
    <3>1. L[0] \in PagesStates(b, cursor, seen) /\ L[0 + 1] = PagesRound(b, L[0])
      BY <1>2
    <3>. QED BY <1>2, <1>5, <3>1, PagesRoundFollows
  <2>2. ASSUME NEW k \in T PROVE k + 1 \in T
    <3>1. k + 1 \in Nat /\ cursor < L[k + 1].t.cursor
      BY <2>2
    <3>2. L[k + 1] \in PagesStates(b, cursor, seen) /\ L[(k + 1) + 1] = PagesRound(b, L[k + 1])
      BY <1>2, <3>1
    <3>3. L[k + 1].t.cursor <= L[(k + 1) + 1].t.cursor
      BY <3>2, PagesRoundFollows
    <3>4. L[k + 1].t.cursor \in Nat /\ L[(k + 1) + 1].t.cursor \in Nat
      <4>1. (k + 1) + 1 \in Nat
        BY <3>1
      <4>2. L[k + 1].t \in Takes(b) /\ L[(k + 1) + 1].t \in Takes(b)
        BY <1>4, <3>1, <4>1
      <4>. QED BY <1>1, <4>2 DEF Takes
    <3>5. cursor < L[(k + 1) + 1].t.cursor
      BY <1>1, <3>1, <3>3, <3>4
    <3>. QED BY <3>1, <3>5
  <2>3. T \in SUBSET Nat
    OBVIOUS
  <2>4. n - 1 \in Nat /\ (n - 1) + 1 = n
    BY <1>0, <1>5
  <2>5. n - 1 \in T
    <3>. HIDE DEF T
    <3>. QED BY <2>1, <2>2, <2>3, <2>4, Counting
  <2>. QED BY <2>4, <2>5
<1>. QED BY <1>0, <1>3, <1>4, <1>5

(* The cursor of skip_pages_and_take_next stays in the buffer.             *)
LEMMA SkipStays ==
  ASSUME NEW b, GoodBuffer(b), NEW cursor \in 0..Length(b), NEW seen \in SUBSET Offsets(b),
         NEW n \in Nat
  PROVE  SkipLoop(b, cursor, seen)[n] \in 0..Length(b)
<1>. DEFINE V == 0..Length(b)
            Step(v) == Larger(v, AdvanceForPage(b, v, seen))
            S == [v \in V |-> Step(v)]
            x == cursor
            L == SkipLoop(b, cursor, seen)
<1>1. \A v \in V : Step(v) \in V
  <2>1. ASSUME NEW v \in V PROVE Step(v) \in V
    <3>1. TakePage(b, v, seen) \in Takes(b)
      BY TakePageFollows
    <3>2. TakePage(b, v, seen).cursor \in V
      BY <3>1 DEF Takes
    <3>. QED BY <3>2 DEF AdvanceForPage, Larger
  <2>. QED BY <2>1
<1>. HIDE DEF Step
<1>2. S \in [V -> V] /\ x \in V
  BY <1>1
<1>. HIDE DEF V, x
<1>3. PICK f \in [Nat -> V] : f = [k \in Nat |-> IF k = 0 THEN x ELSE S[f[k - 1]]]
  <2>. HIDE DEF S
  <2>. QED BY <1>2, LoopExists
<1>4. f = [k \in Nat |-> IF k = 0 THEN x ELSE Step(f[k - 1])]
  <2>1. \A k \in Nat : k # 0 => S[f[k - 1]] = Step(f[k - 1])
    BY <1>3
  <2>. HIDE DEF S
  <2>. QED BY <1>3, <2>1
<1>5. L = [k \in Nat |-> IF k = 0 THEN x ELSE Step(L[k - 1])]
  BY <1>4 DEF SkipLoop, Step, x
<1>. HIDE DEF L, S
<1>. DEFINE T == {k \in Nat : L[k] \in V}
<1>6. 0 \in T /\ T \in SUBSET Nat
  BY <1>2, <1>5
<1>7. ASSUME NEW k \in T PROVE k + 1 \in T
  <2>1. k \in Nat /\ k + 1 \in Nat /\ k + 1 # 0 /\ (k + 1) - 1 = k /\ L[k] \in V
    BY <1>7
  <2>2. L[k + 1] = Step(L[k])
    BY <1>5, <2>1
  <2>. QED BY <1>1, <2>1, <2>2
<1>8. n \in T
  <2>. HIDE DEF T
  <2>. QED BY <1>6, <1>7, Counting
<1>. QED BY <1>8 DEF L, V

(* take_unseen_segments_in_range shows what of the range was not seen, and *)
(* leaves out only what was.                                               *)
UnseenTaken(b, cursor, seen, s, e, t) ==
    /\ t.cursor = cursor /\ t.seen \in SUBSET Offsets(b) /\ t.seen = seen \cup t.shown
    /\ t.elided \subseteq t.seen /\ (s..(e - 1)) \subseteq t.seen
    /\ t = [cursor |-> cursor, seen |-> t.seen, shown |-> t.shown, elided |-> t.elided,
            images |-> t.images, first |-> t.first, last |-> t.last]

(* take_range shows exactly what of the range was not seen.                *)
LEMMA TakeUnseenFollows ==
  ASSUME NEW b, GoodBuffer(b), NEW cursor \in 0..Length(b), NEW seen \in SUBSET Offsets(b),
         NEW s \in Int, NEW e \in Int, 0 <= s, e <= Length(b)
  PROVE  UnseenTaken(b, cursor, seen, s, e, TakeUnseen(b, cursor, seen, s, e))
<1>. DEFINE new == (s..(e - 1)) \ seen
            t == TakeUnseen(b, cursor, seen, s, e)
<1>1. Length(b) \in Nat /\ new \in SUBSET Offsets(b)
  BY Lines DEF Offsets
<1>2. CASE new = {}
  <2>1. t = Taken(cursor, seen)
    BY <1>2 DEF TakeUnseen
  <2>2. (s..(e - 1)) \subseteq seen
    BY <1>2
  <2>. HIDE DEF t, new
  <2>3. t = [cursor |-> cursor, seen |-> seen, shown |-> {}, elided |-> {}, images |-> {},
             first |-> NoSpan, last |-> NoSpan]
    BY <2>1 DEF Taken
  <2>4. /\ t.cursor = cursor /\ t.seen \in SUBSET Offsets(b) /\ t.seen = seen \cup t.shown
        /\ t.elided \subseteq t.seen /\ (s..(e - 1)) \subseteq t.seen
    BY <2>2, <2>3
  <2>5. t = [cursor |-> cursor, seen |-> t.seen, shown |-> t.shown, elided |-> t.elided,
             images |-> t.images, first |-> t.first, last |-> t.last]
    BY <2>3
  <2>. QED BY <2>4, <2>5 DEF UnseenTaken, t
<1>3. CASE new # {}
  <2>. DEFINE E == {o \in s..GreatestOf(new) : o \in seen}
              I == UNION {ImagesIn(b, o, o + 1) : o \in new}
              F == <<LeastOf(new), LeastOf((LeastOf(new)..e) \ new)>>
              Z == <<LeastOf({o \in new : (o..GreatestOf(new)) \subseteq new}), GreatestOf(new) + 1>>
  <2>1. t = [cursor |-> cursor, seen |-> seen \cup new, shown |-> new, elided |-> E,
             images |-> I, first |-> F, last |-> Z]
    BY <1>3 DEF TakeUnseen
  <2>2. E \subseteq seen /\ (s..(e - 1)) \subseteq seen \cup new
    OBVIOUS
  <2>. HIDE DEF t, E, I, F, Z, new
  <2>3. /\ t.cursor = cursor /\ t.seen = seen \cup new /\ t.shown = new /\ t.elided = E
        /\ t.images = I /\ t.first = F /\ t.last = Z
    BY <2>1
  <2>4. t = [cursor |-> cursor, seen |-> t.seen, shown |-> t.shown, elided |-> t.elided,
             images |-> t.images, first |-> t.first, last |-> t.last]
    BY <2>1
  <2>5. /\ t.cursor = cursor /\ t.seen \in SUBSET Offsets(b) /\ t.seen = seen \cup t.shown
        /\ t.elided \subseteq t.seen /\ (s..(e - 1)) \subseteq t.seen
    BY <1>1, <2>2, <2>3
  <2>. QED BY <2>4, <2>5 DEF UnseenTaken, t
<1>. QED BY <1>2, <1>3

(* The lines of a range are lines of the buffer.                           *)
LEMMA LineOfRank ==
  ASSUME NEW b, GoodBuffer(b), NEW idx \in Nat, idx < LineCount(b)
  PROVE  LineBounds(b, idx)[1] \in Offsets(b) /\ LineBounds(b, idx)[2] \in 0..Length(b)
<1>. DEFINE S == LineStarts(b)
            E == LineEnds(b)
<1>1. /\ S \in SUBSET Nat /\ IsFiniteSet(S) /\ S \in SUBSET Offsets(b)
      /\ E \in SUBSET Nat /\ IsFiniteSet(E) /\ 0 \notin E /\ Length(b) \in Nat
      /\ S = {l \in {0} \cup E : l < Length(b)}
  BY Lines DEF Offsets, LineStarts
<1>2. idx < Cardinality(S)
  BY DEF LineCount
<1>. HIDE DEF S, E
<1>3. PICK x \in S : Cardinality({y \in S : y < x}) = idx
  BY <1>1, <1>2, EveryRank
<1>. DEFINE B == {l \in E : l < x}
<1>4. x \in Nat /\ x < Length(b) /\ (x = 0 \/ x \in E) /\ \A y \in E : y \in Nat
  BY <1>1, <1>3
<1>5. B \in SUBSET E /\ IsFiniteSet(B) /\ x \notin B /\ 0 \notin B
  <2>1. B \in SUBSET E /\ 0 \notin B
    BY <1>1
  <2>2. ~(x < x)
    BY <1>4
  <2>. QED BY <1>1, <2>1, <2>2, FS_Subset
<1>6. Cardinality({l \in E : l <= x}) = idx
  <2>1. CASE x = 0
    <3>1. \A y \in E : ~(y <= x)
      BY <1>1, <1>4, <2>1
    <3>2. \A y \in S : ~(y < x)
      BY <1>1, <2>1
    <3>3. {l \in E : l <= x} = {} /\ {y \in S : y < x} = {}
      BY <3>1, <3>2
    <3>. QED BY <1>3, <3>3
  <2>2. CASE x # 0
    <3>0. 0 < x /\ 0 < Length(b) /\ \A y \in E : y < x => y < Length(b)
      BY <1>1, <1>4, <2>2
    <3>1. \A y : y \in S /\ y < x <=> y \in B \/ y = 0
      BY <1>1, <3>0
    <3>2. \A y : y \in E /\ y <= x <=> y \in B \/ y = x
      BY <1>4, <2>2
    <3>3. {y \in S : y < x} = B \cup {0} /\ {l \in E : l <= x} = B \cup {x}
      BY <3>1, <3>2
    <3>. HIDE DEF B
    <3>4. Cardinality(B \cup {0}) = Cardinality(B) + 1 /\ Cardinality(B \cup {x}) = Cardinality(B) + 1
      BY <1>5, FS_AddElement
    <3>. QED BY <1>3, <3>3, <3>4
  <2>. QED BY <2>1, <2>2
<1>7. \E l \in S : LineOf(b, l) = idx
  BY <1>3, <1>6 DEF LineOf, E
<1>. DEFINE l == CHOOSE l \in S : LineOf(b, l) = idx
<1>8. l \in S
  BY <1>7
<1>9. LineBounds(b, idx) = <<l, LineEndOf(b, l)>>
  BY DEF LineBounds, S
<1>. HIDE DEF l
<1>10. l \in Offsets(b) /\ l \in Nat
  BY <1>1, <1>8
<1>11. LineEndOf(b, l) \in 0..Length(b)
  BY <1>10, LineEdges
<1>. QED BY <1>9, <1>10, <1>11

(* A range of lines is a range of the buffer.                              *)
LEMMA LineRangeInBuffer ==
  ASSUME NEW b, GoodBuffer(b), NEW l1 \in Nat, NEW l2 \in Nat, l1 > 0, l2 > 0,
         LineRange(b, l1, l2) # NoSpan
  PROVE  LineRange(b, l1, l2)[1] \in Offsets(b) /\ LineRange(b, l1, l2)[2] \in 0..Length(b)
<1>1. /\ Larger(l1, l2) \in Nat /\ Smaller(l1, l2) \in Nat
      /\ Larger(l1, l2) > 0 /\ Smaller(l1, l2) > 0 /\ Smaller(l1, l2) <= Larger(l1, l2)
  BY DEF Larger, Smaller
<1>2. LineCount(b) \in Nat
  BY Lines, FS_CardinalityType DEF LineCount
<1>3. ~(Larger(l1, l2) > LineCount(b))
  BY DEF LineRange
<1>4. LineRange(b, l1, l2)
        = <<LineBounds(b, Smaller(l1, l2) - 1)[1], LineBounds(b, Larger(l1, l2) - 1)[2]>>
  BY <1>3 DEF LineRange
<1>5. /\ Smaller(l1, l2) - 1 \in Nat /\ Smaller(l1, l2) - 1 < LineCount(b)
      /\ Larger(l1, l2) - 1 \in Nat /\ Larger(l1, l2) - 1 < LineCount(b)
  BY <1>1, <1>2, <1>3
<1>6. /\ LineBounds(b, Smaller(l1, l2) - 1)[1] \in Offsets(b)
      /\ LineBounds(b, Larger(l1, l2) - 1)[2] \in 0..Length(b)
  BY <1>5, LineOfRank
<1>. QED BY <1>4, <1>6

(* Where :seek and :tail go lies in the buffer.                            *)
LEMMA LineStartInBuffer ==
  ASSUME NEW b, GoodBuffer(b), NEW line, LineStartOffset(b, line) # NotFound
  PROVE  LineStartOffset(b, line) \in 0..Length(b)
<1>. DEFINE S == {0} \cup LineEnds(b)
            starts == Ascending(S)
<1>1. Length(b) \in Nat /\ S \in SUBSET Nat /\ S \in SUBSET (0..Length(b)) /\ IsFiniteSet(S)
  <2>1. Length(b) \in Nat /\ LineEnds(b) \in SUBSET (1..Length(b))
    BY Lines
  <2>2. S \in SUBSET Nat /\ S \in SUBSET (0..Length(b))
    BY <2>1
  <2>3. IsFiniteSet(0..Length(b))
    BY <2>1, FS_Interval
  <2>. HIDE DEF S
  <2>. QED BY <2>1, <2>2, <2>3, FS_Subset
<1>2. line \in DOMAIN starts /\ LineStartOffset(b, line) = starts[line]
  BY DEF LineStartOffset
<1>. HIDE DEF S
<1>3. starts \in Seq(S)
  BY <1>1, AscendingMembers
<1>. HIDE DEF starts
<1>4. starts[line] \in S
  BY <1>2, <1>3
<1>. QED BY <1>1, <1>2, <1>4

(* The tail starts at an offset.                                           *)
LEMMA TailStarts ==
  ASSUME NEW b, GoodBuffer(b), NEW cursor \in 0..Length(b), NEW n \in Nat
  PROVE  TailStart(b, cursor, n) \in Int /\ TailStartOfLines(b, n) \in Int
<1>1. Length(b) \in Nat /\ cursor \in Nat /\ LineEnds(b) \in SUBSET (1..Length(b))
  BY Lines
<1>2. TailStart(b, cursor, n) \in Int
  <2>. DEFINE d == Larger(cursor, Length(b) - n)
              T == {l \in LineEnds(b) : l <= d}
  <2>1. d \in Int
    BY <1>1 DEF Larger
  <2>2. T \in SUBSET Nat /\ \A y \in T : y <= Length(b)
    BY <1>1
  <2>3. TailStart(b, cursor, n) = IF T = {} THEN d ELSE GreatestOf(T)
    BY DEF TailStart
  <2>. HIDE DEF d, T
  <2>4. T # {} => GreatestOf(T) \in T
    BY <1>1, <2>2, GreatestOfNumbers
  <2>5. CASE T = {}
    BY <2>1, <2>3, <2>5
  <2>6. CASE T # {}
    <3>1. GreatestOf(T) \in Nat
      BY <2>2, <2>4, <2>6
    <3>. QED BY <2>3, <2>6, <3>1
  <2>. QED BY <2>5, <2>6
<1>3. TailStartOfLines(b, n) \in Int
  <2>. DEFINE S == LineStarts(b)
              a == Ascending(S)
              r == Reverse(a)
  <2>1. S \in SUBSET Nat /\ IsFiniteSet(S)
    BY Lines
  <2>. HIDE DEF S
  <2>2. a \in Seq(S) /\ Len(a) \in Nat
    BY <2>1, AscendingMembers
  <2>. HIDE DEF a
  <2>3. r = [k \in 1..Len(a) |-> a[(Len(a) - k) + 1]] /\ Len(r) = Len(a)
    BY <2>2 DEF Reverse
  <2>. HIDE DEF r
  <2>4. ASSUME n # 0, n <= Len(r) PROVE r[n] \in Int
    <3>1. n \in 1..Len(a) /\ (Len(a) - n) + 1 \in 1..Len(a)
      BY <2>2, <2>3, <2>4
    <3>2. r[n] = a[(Len(a) - n) + 1]
      BY <2>3, <3>1
    <3>3. a[(Len(a) - n) + 1] \in S
      BY <2>2, <3>1
    <3>4. a[(Len(a) - n) + 1] \in Nat
      BY <2>1, <3>3
    <3>. QED BY <3>2, <3>4
  <2>5. TailStartOfLines(b, n) = IF n = 0 THEN Length(b) ELSE IF n <= Len(r) THEN r[n] ELSE 0
    BY DEF TailStartOfLines, S, a, r
  <2>. QED BY <1>1, <2>4, <2>5
<1>. QED BY <1>2, <1>3
-----------------------------------------------------------------------------
(***************************************************************************)
(* The search session: its hits are matches of the buffer.                 *)
(***************************************************************************)

GoodSession(b, s) ==
    /\ s = [hits |-> s.hits, current |-> s.current, anchor |-> s.anchor, limit |-> s.limit,
            length |-> s.length, next |-> s.next, complete |-> s.complete,
            fromStart |-> s.fromStart]
    /\ s.hits \in Seq(Matches(b)) /\ s.current \in Nat /\ s.limit \in Nat

(* Without a session there is nothing to keep.                             *)
LEMMA NoSessionGood ==
  ASSUME NEW b
  PROVE  GoodSession(b, NoSession)
BY DEF GoodSession, NoSession

(* The first hits of the lines are matches.                                *)
LEMMA FirstHitsMatch ==
  ASSUME NEW b, GoodBuffer(b), NEW from
  PROVE  FirstHits(b, from) \in Seq(Matches(b))
<1>. DEFINE S == HitLines(b, from)
            lines == Ascending(S)
<1>1. /\ S \in SUBSET LineStarts(b) /\ LineStarts(b) \in SUBSET Nat /\ IsFiniteSet(LineStarts(b))
      /\ \A l \in S : FindNext(b, l, LineEndOf(b, l)) # NotFound
  BY Lines DEF HitLines
<1>2. S \in SUBSET Nat /\ IsFiniteSet(S)
  BY <1>1, FS_Subset
<1>. HIDE DEF S
<1>3. lines \in Seq(S)
  BY <1>2, AscendingMembers
<1>. HIDE DEF lines
<1>4. \A k \in DOMAIN lines : FindNext(b, lines[k], LineEndOf(b, lines[k])) \in Matches(b)
  BY <1>1, <1>3, FindNextFinds
<1>5. FirstHits(b, from) = [k \in DOMAIN lines |-> FindNext(b, lines[k], LineEndOf(b, lines[k]))]
  BY DEF FirstHits, lines, S
<1>6. DOMAIN lines = 1..Len(lines) /\ Len(lines) \in Nat
  BY <1>3
<1>. QED BY <1>4, <1>5, <1>6

(* Finding a match again in the full text finds a match.                   *)
LEMMA FullOffsetMatches ==
  ASSUME NEW b, GoodBuffer(b), NEW at \in Matches(b), NEW start
  PROVE  FullOffset(b, at, start) \in Matches(b)
BY FindNextFinds DEF FullOffset

(* build_full_search_session and build_bounded_search_session.             *)
LEMMA BuildIndexedGood ==
  ASSUME NEW b, GoodBuffer(b), NEW start, NEW limit \in Nat
  PROVE  GoodSession(b, BuildIndexed(b, start, limit))
<1>. DEFINE all == FirstHits(b, 0)
            bounded == limit > 0 /\ Len(all) >= limit
            n == IF bounded THEN limit ELSE Len(all)
            hits == [k \in 1..n |-> FullOffset(b, all[k], start)]
            later == {k \in DOMAIN hits : hits[k] >= start}
<1>1. all \in Seq(Matches(b))
  BY FirstHitsMatch
<1>. HIDE DEF all
<1>2. CASE all = <<>>
  BY <1>2, NoSessionGood DEF BuildIndexed, IndexHits, all
<1>3. CASE all # <<>>
  <2>1. n \in Nat /\ n <= Len(all) /\ Len(all) \in Nat
    BY <1>1
  <2>2. \A k \in 1..n : all[k] \in Matches(b)
    BY <1>1, <2>1
  <2>3. hits \in Seq(Matches(b)) /\ Len(hits) \in Nat /\ DOMAIN hits \subseteq Nat \ {0}
    <3>. HIDE DEF n
    <3>1. \A k \in 1..n : FullOffset(b, all[k], start) \in Matches(b)
      BY <2>2, FullOffsetMatches
    <3>2. hits \in [1..n -> Matches(b)]
      BY <3>1
    <3>3. DOMAIN hits = 1..n
      OBVIOUS
    <3>4. hits \in Seq(Matches(b))
      BY <2>1, <3>2
    <3>. HIDE DEF hits
    <3>. QED BY <2>1, <3>3, <3>4
  <2>. DEFINE s == Session(b, start, limit, bounded, hits)
  <2>4. BuildIndexed(b, start, limit) = s
    BY <1>3 DEF BuildIndexed, IndexHits, all
  <2>. HIDE DEF bounded, n
  <2>5. s = [hits |-> hits,
             current |-> IF later = {} THEN Len(hits) ELSE LeastOf(later) - 1,
             anchor |-> start, limit |-> limit, length |-> Length(b),
             next |-> IF bounded THEN LineEndOf(b, hits[Len(hits)]) ELSE Length(b),
             complete |-> ~bounded, fromStart |-> TRUE]
    BY DEF Session
  <2>. HIDE DEF s, hits
  <2>6. later \in SUBSET Nat /\ \A k \in later : k \in Nat /\ k # 0
    BY <2>3
  <2>. HIDE DEF later
  <2>7. (IF later = {} THEN Len(hits) ELSE LeastOf(later) - 1) \in Nat
    <3>1. CASE later = {}
      BY <2>3, <3>1
    <3>2. CASE later # {}
      <4>1. LeastOf(later) \in later
        BY <2>6, <3>2, LeastOfNumbers
      <4>2. LeastOf(later) \in Nat /\ LeastOf(later) # 0
        BY <2>6, <4>1
      <4>. QED BY <3>2, <4>2
    <3>. QED BY <3>1, <3>2
  <2>8. s.hits = hits /\ s.current \in Nat /\ s.limit = limit
    BY <2>5, <2>7
  <2>9. s = [hits |-> s.hits, current |-> s.current, anchor |-> s.anchor, limit |-> s.limit,
             length |-> s.length, next |-> s.next, complete |-> s.complete,
             fromStart |-> s.fromStart]
    BY <2>5
  <2>. QED BY <2>3, <2>4, <2>8, <2>9 DEF GoodSession
<1>. QED BY <1>2, <1>3

(* build_forward_search_session.                                           *)
LEMMA BuildForwardGood ==
  ASSUME NEW b, GoodBuffer(b), NEW start
  PROVE  GoodSession(b, BuildForward(b, start))
<1>. DEFINE at == FindNext(b, start, Length(b))
            s == BuildForward(b, start)
<1>1. CASE at = NotFound
  BY <1>1, NoSessionGood DEF BuildForward
<1>2. CASE at # NotFound
  <2>1. at \in Matches(b)
    BY <1>2, FindNextFinds
  <2>2. s = [hits |-> <<at>>, current |-> 0, anchor |-> at, limit |-> 0,
             length |-> Length(b), next |-> LineEndOf(b, at),
             complete |-> FALSE, fromStart |-> start = 0]
    BY <1>2 DEF BuildForward
  <2>. HIDE DEF at, s
  <2>3. <<at>> \in Seq(Matches(b))
    BY <2>1
  <2>4. s.hits = <<at>> /\ s.current = 0 /\ s.limit = 0
    BY <2>2
  <2>5. s = [hits |-> s.hits, current |-> s.current, anchor |-> s.anchor, limit |-> s.limit,
             length |-> s.length, next |-> s.next, complete |-> s.complete,
             fromStart |-> s.fromStart]
    BY <2>2
  <2>6. GoodSession(b, s)
    BY <2>3, <2>4, <2>5 DEF GoodSession
  <2>. QED BY <2>6 DEF s
<1>. QED BY <1>1, <1>2

(* extend_search_session_forward.                                          *)
LEMMA ExtendGood ==
  ASSUME NEW b, GoodBuffer(b), NEW s, GoodSession(b, s), NEW needed \in Nat
  PROVE  GoodSession(b, Extend(b, s, needed))
<1>. DEFINE more == FirstHits(b, s.next)
            count == needed - Len(s.hits)
            m == Smaller(Len(more), count)
            hits == s.hits \o SubSeq(more, 1, m)
            all == Len(more) < count
            end == LineEndOf(b, hits[Len(hits)])
            done == all \/ end >= Length(b)
            u == Extended(b, s, hits, all)
<1>1. CASE s.complete \/ Len(s.hits) >= needed
  BY <1>1 DEF Extend
<1>2. CASE ~(s.complete \/ Len(s.hits) >= needed)
  <2>1. s.hits \in Seq(Matches(b)) /\ Len(s.hits) \in Nat /\ more \in Seq(Matches(b))
    BY FirstHitsMatch DEF GoodSession
  <2>. HIDE DEF more
  <2>2. m \in Int /\ m <= Len(more) /\ Len(more) \in Nat /\ m >= 0
    BY <1>2, <2>1 DEF Smaller
  <2>. HIDE DEF m
  <2>3. SubSeq(more, 1, m) \in Seq(Matches(b))
    BY <2>1, <2>2
  <2>4. hits \in Seq(Matches(b))
    BY <2>1, <2>3
  <2>5. Extend(b, s, needed) = u
    BY <1>2 DEF Extend, ExtendBy, more, m
  <2>6. u = [s EXCEPT !.hits = hits, !.complete = done, !.next = IF done THEN Length(b) ELSE end]
    BY DEF Extended
  <2>. HIDE DEF hits, all, end, done, u
  <2>7. s = [hits |-> s.hits, current |-> s.current, anchor |-> s.anchor, limit |-> s.limit,
             length |-> s.length, next |-> s.next, complete |-> s.complete,
             fromStart |-> s.fromStart] /\ s.current \in Nat /\ s.limit \in Nat
    BY DEF GoodSession
  <2>8. u = [hits |-> hits, current |-> s.current, anchor |-> s.anchor, limit |-> s.limit,
             length |-> s.length, next |-> IF done THEN Length(b) ELSE end, complete |-> done,
             fromStart |-> s.fromStart]
    BY <2>6, <2>7
  <2>9. GoodSession(b, u)
    BY <2>4, <2>7, <2>8 DEF GoodSession
  <2>. QED BY <2>5, <2>9
<1>. QED BY <1>1, <1>2

(* A session that only stands elsewhere.                                   *)
LEMMA StandsElsewhere ==
  ASSUME NEW b, NEW s, GoodSession(b, s), NEW c \in Nat, NEW a
  PROVE  GoodSession(b, [s EXCEPT !.current = c, !.anchor = a])
<1>. DEFINE u == [s EXCEPT !.current = c, !.anchor = a]
<1>0. ASSUME NEW d
      PROVE  [s EXCEPT !.current = d, !.anchor = a]
                = [hits |-> s.hits, current |-> d, anchor |-> a, limit |-> s.limit,
                   length |-> s.length, next |-> s.next, complete |-> s.complete,
                   fromStart |-> s.fromStart]
  <2>. DEFINE v == [s EXCEPT !.current = d, !.anchor = a]
  <2>1. s = [hits |-> s.hits, current |-> s.current, anchor |-> s.anchor, limit |-> s.limit,
             length |-> s.length, next |-> s.next, complete |-> s.complete,
             fromStart |-> s.fromStart]
    BY DEF GoodSession
  <2>2. v = [s EXCEPT !.current = d, !.anchor = a]
    OBVIOUS
  <2>. HIDE DEF v
  <2>3. v = [hits |-> s.hits, current |-> d, anchor |-> a, limit |-> s.limit,
             length |-> s.length, next |-> s.next, complete |-> s.complete,
             fromStart |-> s.fromStart]
    BY <2>1, <2>2
  <2>. QED BY <2>3 DEF v
<1>1. u = [hits |-> s.hits, current |-> c, anchor |-> a, limit |-> s.limit,
           length |-> s.length, next |-> s.next, complete |-> s.complete,
           fromStart |-> s.fromStart]
  BY <1>0
<1>. HIDE DEF u
<1>2. GoodSession(b, u)
  BY <1>1 DEF GoodSession
<1>. QED BY <1>2 DEF u

(* move_search_session and goto_search_hit.                                *)
LEMMA MoveGood ==
  ASSUME NEW b, NEW s, GoodSession(b, s), NEW count \in Nat, count > 0, NEW forward \in BOOLEAN
  PROVE  GoodSession(b, Move(s, count, forward))
<1>. DEFINE n == Len(s.hits)
            B == {k \in 1..n : s.hits[k] < s.anchor}
            boundary == Cardinality(B)
            between == s.current >= n
            to == CASE forward /\ between ->
                         IF boundary >= n THEN s.current
                         ELSE Smaller(boundary + count - 1, n - 1)
                    [] forward /\ ~between -> Smaller(s.current + count, n - 1)
                    [] ~forward /\ between ->
                         IF boundary = 0 THEN s.current ELSE Larger(0, boundary - count)
                    [] OTHER -> Larger(0, s.current - count)
<1>1. n \in Nat /\ s.current \in Nat
  BY DEF GoodSession
<1>2. boundary \in Nat
  <2>0. B \in SUBSET (1..n)
    OBVIOUS
  <2>. HIDE DEF B, n
  <2>1. IsFiniteSet(1..n) /\ B \in SUBSET (1..n)
    BY <1>1, <2>0, FS_Interval
  <2>. QED BY <2>1, FS_Subset, FS_CardinalityType
<1>3. Move(s, count, forward) = IF to = s.current THEN s
                                ELSE [s EXCEPT !.current = to, !.anchor = s.hits[to + 1]]
  BY DEF Move
<1>. HIDE DEF n, boundary
<1>4. to \in Nat
  <2>1. CASE forward /\ between
    BY <1>1, <1>2, <2>1 DEF Smaller
  <2>2. CASE forward /\ ~between
    BY <1>1, <1>2, <2>2 DEF Smaller
  <2>3. CASE ~forward /\ between
    BY <1>1, <1>2, <2>3 DEF Larger
  <2>4. CASE ~forward /\ ~between
    BY <1>1, <1>2, <2>4 DEF Larger
  <2>. QED BY <2>1, <2>2, <2>3, <2>4
<1>. HIDE DEF to
<1>5. GoodSession(b, [s EXCEPT !.current = to, !.anchor = s.hits[to + 1]])
  BY <1>4, StandsElsewhere
<1>. QED BY <1>3, <1>5

(* search_goto moves among the hits of the session.                        *)
LEMMA GotoGood ==
  ASSUME NEW b, NEW s, GoodSession(b, s), NEW index \in Nat, index > 0
  PROVE  GoodSession(b, Goto(s, index))
<1>1. index - 1 \in Nat
  OBVIOUS
<1>. QED BY <1>1, StandsElsewhere DEF Goto

(* A session between hits.                                                 *)
LEMMA BetweenGood ==
  ASSUME NEW b, NEW s, GoodSession(b, s)
  PROVE  GoodSession(b, Between(s))
<1>. DEFINE u == [s EXCEPT !.current = Len(s.hits)]
<1>1. Len(s.hits) \in Nat
  BY DEF GoodSession
<1>2. u = [hits |-> s.hits, current |-> Len(s.hits), anchor |-> s.anchor, limit |-> s.limit,
           length |-> s.length, next |-> s.next, complete |-> s.complete,
           fromStart |-> s.fromStart]
  BY DEF GoodSession
<1>. HIDE DEF u
<1>3. GoodSession(b, u)
  BY <1>1, <1>2 DEF GoodSession
<1>. QED BY <1>3 DEF Between, u

(* rebuild_search_session, ensure_search_session_fresh and                 *)
(* ensure_search_session_complete.                                         *)
LEMMA RebuildGood ==
  ASSUME NEW b, GoodBuffer(b), NEW s, GoodSession(b, s)
  PROVE  GoodSession(b, Rebuild(b, s))
<1>. DEFINE x == BuildIndexed(b, s.anchor, Larger(Len(s.hits), s.limit))
            y == BuildIndexed(b, s.anchor, 0)
            z == BuildForward(b, s.anchor)
            new == IF s.limit > 0 THEN x ELSE IF s.complete \/ s.fromStart THEN y ELSE z
<1>1. Larger(Len(s.hits), s.limit) \in Nat
  BY DEF GoodSession, Larger
<1>2. GoodSession(b, x) /\ GoodSession(b, y) /\ GoodSession(b, z)
  BY <1>1, BuildIndexedGood, BuildForwardGood
<1>. HIDE DEF x, y, z
<1>3. GoodSession(b, new)
  BY <1>2
<1>4. GoodSession(b, Between(new))
  BY <1>3, BetweenGood
<1>5. Rebuild(b, s) = IF s.current >= Len(s.hits) THEN Between(new) ELSE new
  BY DEF Rebuild, x, y, z
<1>. QED BY <1>3, <1>4, <1>5

(* A session made again for a changed buffer is a session of it.           *)
LEMMA FreshGood ==
  ASSUME NEW b, GoodBuffer(b), NEW s, GoodSession(b, s), NEW reseed, NEW cursor
  PROVE  GoodSession(b, Fresh(b, s, reseed, cursor))
<1>1. GoodSession(b, Reseed(b, cursor))
  BY BuildIndexedGood, BetweenGood DEF Reseed
<1>2. GoodSession(b, Rebuild(b, s))
  BY RebuildGood
<1>. QED BY <1>1, <1>2 DEF Fresh

(* Completing the hits of a session keeps it one.                          *)
LEMMA CompletedGood ==
  ASSUME NEW b, GoodBuffer(b), NEW s, GoodSession(b, s)
  PROVE  GoodSession(b, Completed(b, s))
BY BuildIndexedGood DEF Completed

(* A longer buffer keeps the hits of a session.                            *)
LEMMA SessionOfLonger ==
  ASSUME NEW b, NEW c, Matches(b) \subseteq Matches(c), NEW s, GoodSession(b, s), NEW n
  PROVE  GoodSession(c, s) /\ GoodSession(c, [s EXCEPT !.length = n])
<1>1. s.hits \in Seq(Matches(c))
  <2>1. s.hits \in [1..Len(s.hits) -> Matches(b)] /\ Len(s.hits) \in Nat
    BY DEF GoodSession
  <2>2. s.hits \in [1..Len(s.hits) -> Matches(c)]
    BY <2>1
  <2>. QED BY <2>1, <2>2
<1>2. GoodSession(c, s)
  BY <1>1 DEF GoodSession
<1>. DEFINE u == [s EXCEPT !.length = n]
<1>3. u = [hits |-> s.hits, current |-> s.current, anchor |-> s.anchor, limit |-> s.limit,
           length |-> n, next |-> s.next, complete |-> s.complete,
           fromStart |-> s.fromStart]
  BY DEF GoodSession
<1>. HIDE DEF u
<1>4. GoodSession(c, u)
  BY <1>2, <1>3 DEF GoodSession
<1>. QED BY <1>2, <1>4 DEF u
-----------------------------------------------------------------------------
(***************************************************************************)
(* What the commands do.                                                   *)
(***************************************************************************)

GoodPager(p) ==
    /\ p = [active |-> p.active, buffer |-> p.buffer, sourceEnd |-> p.sourceEnd,
            cursor |-> p.cursor, seen |-> p.seen, images |-> p.images, emitted |-> p.emitted,
            session |-> p.session, reseed |-> p.reseed, viewed |-> p.viewed]
    /\ GoodBuffer(p.buffer) /\ p.cursor \in 0..Length(p.buffer)
    /\ p.seen \in SUBSET Offsets(p.buffer)
    /\ GoodSession(p.buffer, p.session)

(* A command marks as seen only what it shows or lists, leaves out only    *)
(* what was seen, and adds to the view history only what it shows.         *)
GoodTake(p, t) ==
    /\ t.cursor \in 0..Length(p.buffer) /\ t.seen \in SUBSET Offsets(p.buffer)
    /\ t.seen \subseteq p.seen \cup t.shown
    /\ t.elided \subseteq p.seen \cup t.shown
GoodOutcome(p, o) ==
    /\ o.take.cursor \in 0..Length(p.buffer) /\ o.take.seen \in SUBSET Offsets(p.buffer)
    /\ o.take.seen \subseteq p.seen \cup o.take.shown \cup o.listed \cup o.cut
    /\ o.take.elided \subseteq p.seen \cup o.take.shown
    /\ o.views \subseteq o.take.shown \cup o.listed
    /\ GoodSession(p.buffer, o.session)

(* The pager before any output.                                            *)
LEMMA NoPagerGood == GoodPager(NoPager)
<1>. DEFINE b == Text(<<>>, <<>>)
<1>1. b = [text |-> <<>>, images |-> <<>>]
  BY DEF Text
<1>2. GoodBuffer(b) /\ Length(b) = 0
  <2>1. b.text = <<>> /\ b.images = <<>> /\ DOMAIN b.images = {}
    BY <1>1
  <2>2. b \in [text : Seq(Chars), images : Seq(Nat)]
    <3>1. <<>> \in Seq(Chars) /\ <<>> \in Seq(Nat)
      OBVIOUS
    <3>2. \A x \in Seq(Chars), y \in Seq(Nat) :
             [text |-> x, images |-> y] \in [text : Seq(Chars), images : Seq(Nat)]
      OBVIOUS
    <3>. QED BY <1>1, <3>1, <3>2
  <2>3. Length(b) = 0
    BY <2>1 DEF Length
  <2>. QED BY <2>1, <2>2, <2>3 DEF GoodBuffer
<1>. HIDE DEF b
<1>3. NoPager = [active |-> FALSE, buffer |-> b, sourceEnd |-> 0, cursor |-> 0, seen |-> {},
                 images |-> {}, emitted |-> NoSpan, session |-> NoSession, reseed |-> FALSE,
                 viewed |-> {}]
  BY DEF NoPager, b
<1>4. GoodSession(b, NoSession)
  BY NoSessionGood
<1>. QED BY <1>2, <1>3, <1>4 DEF GoodPager

(* What a command leaves, made of a take and a session.                    *)
LEMMA OutcomeGood ==
  ASSUME NEW p, NEW t, GoodTake(p, t), NEW s, GoodSession(p.buffer, s), NEW x
  PROVE  /\ GoodOutcome(p, Outcome(p, t, s)) /\ GoodOutcome(p, Keep(Outcome(p, t, s)))
         /\ GoodOutcome(p, [Outcome(p, t, s) EXCEPT !.closes = x])
<1>. DEFINE o == Outcome(p, t, s)
            c == PagesLeft(p.buffer, t.cursor) = 0
<1>1. o = [take |-> t, session |-> s, views |-> t.shown, closes |-> c,
           emits |-> TRUE, card |-> NotFound, listed |-> {}, cut |-> {}]
  BY DEF Outcome
<1>. HIDE DEF o, c
<1>2. ASSUME NEW y
      PROVE  GoodOutcome(p, [o EXCEPT !.closes = y])
  <2>. DEFINE u == [o EXCEPT !.closes = y]
  <2>1. u.take = t /\ u.session = s /\ u.views = t.shown /\ u.listed = {} /\ u.cut = {}
    BY <1>1
  <2>. HIDE DEF u
  <2>2. GoodOutcome(p, u)
    BY <2>1 DEF GoodOutcome, GoodTake
  <2>. QED BY <2>2 DEF u
<1>3. o.take = t /\ o.session = s /\ o.views = t.shown /\ o.listed = {} /\ o.cut = {}
  BY <1>1
<1>4. GoodOutcome(p, o)
  BY <1>3 DEF GoodOutcome, GoodTake
<1>5. GoodOutcome(p, Keep(o))
  BY <1>2 DEF Keep
<1>. QED BY <1>2, <1>4, <1>5 DEF o

(* A command that shows nothing.                                           *)
LEMMA NoTakeGood ==
  ASSUME NEW p, GoodPager(p)
  PROVE  GoodTake(p, NoTake(p))
<1>1. NoTake(p) = [cursor |-> p.cursor, seen |-> p.seen, shown |-> {}, elided |-> {},
                   images |-> {}, first |-> NoSpan, last |-> NoSpan]
  BY DEF NoTake, Taken
<1>. QED BY <1>1 DEF GoodTake, GoodPager

(* A take that follows on is one the pager may record.                     *)
LEMMA FollowsGood ==
  ASSUME NEW p, GoodPager(p), NEW cursor, NEW t \in Takes(p.buffer),
         Follows(p.buffer, cursor, p.seen, t)
  PROVE  GoodTake(p, t)
BY DEF GoodTake, Follows, Takes

(* :next, :skip, :seek and empty input.                                    *)
LEMMA NextPagesGood ==
  ASSUME NEW p, GoodPager(p), NEW n \in Nat
  PROVE  /\ GoodOutcome(p, NextPages(p, n))
         /\ GoodOutcome(p, Keep([NextPages(p, n) EXCEPT !.session = NoSession]))
<1>. DEFINE t == TakePages(p.buffer, p.cursor, p.seen, n)
<1>1. t \in Takes(p.buffer) /\ Follows(p.buffer, p.cursor, p.seen, t)
  BY TakePagesFollows DEF GoodPager
<1>. HIDE DEF t
<1>2. GoodTake(p, t) /\ GoodSession(p.buffer, p.session) /\ GoodSession(p.buffer, NoSession)
  BY <1>1, FollowsGood, NoSessionGood DEF GoodPager
<1>3. GoodOutcome(p, Outcome(p, t, p.session))
  BY <1>2, OutcomeGood
<1>4. GoodOutcome(p, Keep([Outcome(p, t, p.session) EXCEPT !.session = NoSession]))
  <2>. DEFINE c == PagesLeft(p.buffer, t.cursor) = 0
              o == Outcome(p, t, p.session)
              u == Keep([o EXCEPT !.session = NoSession])
  <2>1. o = [take |-> t, session |-> p.session, views |-> t.shown, closes |-> c,
             emits |-> TRUE, card |-> NotFound, listed |-> {}, cut |-> {}]
    BY DEF Outcome
  <2>. HIDE DEF c, o
  <2>2. u.take = t /\ u.session = NoSession /\ u.views = t.shown /\ u.listed = {} /\ u.cut = {}
    BY <2>1 DEF Keep
  <2>. HIDE DEF u
  <2>3. GoodOutcome(p, u)
    BY <1>2, <2>2 DEF GoodOutcome, GoodTake
  <2>. QED BY <2>3 DEF u, o
<1>6. NextPages(p, n) = Outcome(p, t, p.session)
  BY DEF NextPages, t
<1>. QED BY <1>3, <1>4, <1>6

(* :skip.                                                                  *)
LEMMA SkipGood ==
  ASSUME NEW p, GoodPager(p), NEW n \in Nat
  PROVE  GoodOutcome(p, Skip(p, n))
<1>. DEFINE c == SkipLoop(p.buffer, p.cursor, p.seen)[Smaller(n, MaxPagesSkipped)]
            t == TakePage(p.buffer, c, p.seen)
<1>1. c \in 0..Length(p.buffer)
  <2>1. Smaller(n, MaxPagesSkipped) \in Nat
    BY DEF Smaller, MaxPagesSkipped
  <2>. QED BY <2>1, SkipStays DEF GoodPager
<1>. HIDE DEF c
<1>2. t \in Takes(p.buffer) /\ Follows(p.buffer, c, p.seen, t)
  BY <1>1, TakePageFollows DEF GoodPager
<1>3. SkipPages(p.buffer, p.cursor, p.seen, n) = t
  BY DEF SkipPages, c
<1>. HIDE DEF t
<1>4. GoodTake(p, t) /\ GoodSession(p.buffer, p.session)
  BY <1>2, FollowsGood DEF GoodPager
<1>5. \A x : GoodOutcome(p, [Outcome(p, t, p.session) EXCEPT !.closes = x])
  BY <1>4, OutcomeGood
<1>. QED BY <1>3, <1>5 DEF Skip

(* :seek, to a character, a line or a percentage.                          *)
LEMMA SeekGood ==
  ASSUME NEW p, GoodPager(p), NEW n \in Nat, NEW unit \in {"chars", "percent", "line"},
         unit = "percent" => n <= 100
  PROVE  GoodOutcome(p, Seek(p, n, unit))
<1>. DEFINE end == Length(p.buffer)
            to == CASE unit = "chars" -> Smaller(n, end)
                    [] unit = "percent" -> (end * n) \div 100
                    [] unit = "line" -> LineStartOffset(p.buffer, n)
            t == TakePage(p.buffer, to, p.seen)
<1>1. end \in Nat /\ GoodBuffer(p.buffer)
  BY Lines DEF GoodPager
<1>2. to # NotFound => to \in 0..end
  <2>1. CASE unit = "chars"
    BY <1>1, <2>1 DEF Smaller
  <2>2. CASE unit = "percent"
    <3>1. end * n \in Nat
      BY <1>1
    <3>2. end * n <= end * 100
      <4>1. \A x, y, z \in Nat : y <= z => x * y <= x * z
        OBVIOUS
      <4>. QED BY <1>1, <2>2, <4>1
    <3>3. \A x, y \in Nat : x <= y * 100 => x \div 100 \in 0..y
      OBVIOUS
    <3>4. (end * n) \div 100 \in 0..end
      BY <1>1, <3>1, <3>2, <3>3
    <3>. QED BY <2>2, <3>4
  <2>3. CASE unit = "line"
    BY <1>1, <2>3, LineStartInBuffer
  <2>. QED BY <2>1, <2>2, <2>3
<1>3. Seek(p, n, unit) = IF to = NotFound THEN Outcome(p, NoTake(p), p.session)
                         ELSE Outcome(p, t, p.session)
  BY DEF Seek
<1>. HIDE DEF to
<1>4. GoodSession(p.buffer, p.session)
  BY DEF GoodPager
<1>. DEFINE no == NoTake(p)
            s == p.session
<1>5. CASE to = NotFound
  <2>1. GoodTake(p, no) /\ GoodSession(p.buffer, s)
    BY <1>4, NoTakeGood
  <2>. HIDE DEF no, s
  <2>2. GoodOutcome(p, Outcome(p, no, s))
    BY <2>1, OutcomeGood
  <2>3. Seek(p, n, unit) = Outcome(p, no, s)
    BY <1>3, <1>5 DEF no, s
  <2>. QED BY <2>2, <2>3
<1>6. CASE to # NotFound
  <2>1. t \in Takes(p.buffer) /\ Follows(p.buffer, to, p.seen, t)
    BY <1>2, <1>6, TakePageFollows DEF GoodPager
  <2>2. Seek(p, n, unit) = Outcome(p, t, s)
    BY <1>3, <1>6 DEF s
  <2>. HIDE DEF t, s
  <2>3. GoodTake(p, t)
    BY <2>1, FollowsGood
  <2>4. GoodSession(p.buffer, s)
    BY <1>4 DEF s
  <2>5. GoodOutcome(p, Outcome(p, t, s))
    BY <2>3, <2>4, OutcomeGood
  <2>. QED BY <2>2, <2>5
<1>. QED BY <1>5, <1>6

(* :a, :tail and :range.                                                   *)
LEMMA ShowAllGood ==
  ASSUME NEW p, GoodPager(p)
  PROVE  /\ GoodOutcome(p, ShowAll(p)) /\ ShowAll(p).take.cursor = Length(p.buffer)
         /\ (p.cursor..(Length(p.buffer) - 1)) \subseteq ShowAll(p).take.seen
<1>. DEFINE b == p.buffer
            u == TakeUnseen(b, p.cursor, p.seen, p.cursor, Length(b))
            t == [u EXCEPT !.cursor = Length(b)]
<1>1. GoodBuffer(b) /\ Length(b) \in Nat /\ p.cursor \in 0..Length(b) /\ p.seen \in SUBSET Offsets(b)
  BY Lines DEF GoodPager
<1>2. /\ u.seen \in SUBSET Offsets(b) /\ u.seen = p.seen \cup u.shown /\ u.elided \subseteq u.seen
      /\ (p.cursor..(Length(b) - 1)) \subseteq u.seen
      /\ t = [cursor |-> Length(b), seen |-> u.seen, shown |-> u.shown, elided |-> u.elided,
              images |-> u.images, first |-> u.first, last |-> u.last]
  <2>. DEFINE c == p.cursor
              sn == p.seen
              e == Length(b)
  <2>1. /\ c \in Int /\ e \in Int /\ 0 <= c /\ e <= Length(b) /\ GoodBuffer(b)
        /\ c \in 0..Length(b) /\ sn \in SUBSET Offsets(b)
    BY <1>1
  <2>2. u = TakeUnseen(b, c, sn, c, e)
    OBVIOUS
  <2>. HIDE DEF u, b, c, sn, e
  <2>3. /\ u.seen \in SUBSET Offsets(b) /\ u.seen = sn \cup u.shown /\ u.elided \subseteq u.seen
        /\ (c..(e - 1)) \subseteq u.seen
        /\ u = [cursor |-> c, seen |-> u.seen, shown |-> u.shown, elided |-> u.elided,
                images |-> u.images, first |-> u.first, last |-> u.last]
    <3>1. UnseenTaken(b, c, sn, c, e, u)
      BY <2>1, <2>2, TakeUnseenFollows
    <3>. QED BY <3>1 DEF UnseenTaken
  <2>4. t = [cursor |-> Length(b), seen |-> u.seen, shown |-> u.shown, elided |-> u.elided,
             images |-> u.images, first |-> u.first, last |-> u.last]
    <3>1. u = [cursor |-> c, seen |-> u.seen, shown |-> u.shown, elided |-> u.elided,
               images |-> u.images, first |-> u.first, last |-> u.last]
      BY <2>3
    <3>. QED BY <3>1
  <2>. HIDE DEF t
  <2>. QED BY <2>3, <2>4 DEF c, sn, e
<1>. HIDE DEF u, t
<1>3. /\ t.cursor = Length(b) /\ t.seen = u.seen /\ t.shown = u.shown /\ t.elided = u.elided
  BY <1>2
<1>4. Length(b) \in 0..Length(b)
  BY <1>1
<1>5. GoodTake(p, t)
  BY <1>2, <1>3, <1>4 DEF GoodTake
<1>6. ShowAll(p) = Outcome(p, t, p.session)
  BY DEF ShowAll, TakeAll, t, u
<1>7. GoodSession(b, p.session)
  BY DEF GoodPager
<1>8. Outcome(p, t, p.session).take = t
  BY DEF Outcome
<1>9. GoodOutcome(p, ShowAll(p))
  BY <1>5, <1>6, <1>7, OutcomeGood
<1>. QED BY <1>2, <1>3, <1>6, <1>8, <1>9

(* :tail, by characters or lines.                                          *)
LEMMA TakeTailGood ==
  ASSUME NEW p, GoodPager(p), NEW n \in Nat, NEW unit
  PROVE  GoodOutcome(p, TakeTail(p, n, unit))
<1>. DEFINE b == p.buffer
            start == IF unit = "lines" THEN TailStartOfLines(b, n)
                     ELSE TailStart(b, p.cursor, Larger(1, n))
            from == Larger(p.cursor, start)
            u == TakeUnseen(b, p.cursor, p.seen, from, Length(b))
            t == [u EXCEPT !.cursor = Length(b)]
<1>1. GoodBuffer(b) /\ Length(b) \in Nat /\ p.cursor \in 0..Length(b) /\ p.seen \in SUBSET Offsets(b)
  BY Lines DEF GoodPager
<1>2. Larger(1, n) \in Nat
  BY DEF Larger
<1>3. start \in Int
  BY <1>1, <1>2, TailStarts
<1>4. t = TakeTailFrom(b, p.cursor, p.seen, start)
  BY DEF TakeTailFrom
<1>5. TakeTail(p, n, unit) = [Outcome(p, t, p.session) EXCEPT !.closes = TRUE]
  BY <1>4 DEF TakeTail
<1>. HIDE DEF start
<1>6. from \in Int /\ 0 <= from
  BY <1>1, <1>3 DEF Larger
<1>. HIDE DEF from
<1>7. /\ u.seen \in SUBSET Offsets(b) /\ u.seen = p.seen \cup u.shown /\ u.elided \subseteq u.seen
      /\ t = [cursor |-> Length(b), seen |-> u.seen, shown |-> u.shown, elided |-> u.elided,
              images |-> u.images, first |-> u.first, last |-> u.last]
  <2>. DEFINE c == p.cursor
              sn == p.seen
              e == Length(b)
  <2>1. /\ from \in Int /\ e \in Int /\ 0 <= from /\ e <= Length(b) /\ GoodBuffer(b)
        /\ c \in 0..Length(b) /\ sn \in SUBSET Offsets(b)
    BY <1>1, <1>6
  <2>2. u = TakeUnseen(b, c, sn, from, e)
    OBVIOUS
  <2>. HIDE DEF u, b, c, sn, e
  <2>3. /\ u.seen \in SUBSET Offsets(b) /\ u.seen = sn \cup u.shown /\ u.elided \subseteq u.seen
        /\ u = [cursor |-> c, seen |-> u.seen, shown |-> u.shown, elided |-> u.elided,
                images |-> u.images, first |-> u.first, last |-> u.last]
    <3>1. UnseenTaken(b, c, sn, from, e, u)
      BY <2>1, <2>2, TakeUnseenFollows
    <3>. QED BY <3>1 DEF UnseenTaken
  <2>4. t = [cursor |-> Length(b), seen |-> u.seen, shown |-> u.shown, elided |-> u.elided,
             images |-> u.images, first |-> u.first, last |-> u.last]
    BY <2>3
  <2>. QED BY <2>3, <2>4 DEF sn
<1>. HIDE DEF u, t
<1>8. t.cursor = Length(b) /\ t.seen = u.seen /\ t.shown = u.shown /\ t.elided = u.elided
  BY <1>7
<1>9. Length(b) \in 0..Length(b)
  BY <1>1
<1>10. GoodTake(p, t)
  BY <1>7, <1>8, <1>9 DEF GoodTake
<1>11. GoodSession(b, p.session)
  BY DEF GoodPager
<1>. QED BY <1>5, <1>10, <1>11, OutcomeGood

(* :range, of lines.                                                       *)
LEMMA ShowRangeGood ==
  ASSUME NEW p, GoodPager(p), NEW l1 \in Nat, NEW l2 \in Nat, l1 > 0, l2 > 0
  PROVE  GoodOutcome(p, ShowRange(p, l1, l2))
<1>. DEFINE b == p.buffer
            r == LineRange(b, l1, l2)
            u == TakeUnseen(b, p.cursor, p.seen, r[1], r[2])
            t == IF r = NoSpan THEN NoTake(p) ELSE u
<1>1. GoodBuffer(b) /\ Length(b) \in Nat /\ p.cursor \in 0..Length(b) /\ p.seen \in SUBSET Offsets(b)
  BY Lines DEF GoodPager
<1>2. GoodTake(p, NoTake(p))
  BY NoTakeGood
<1>3. r # NoSpan => GoodTake(p, u)
  <2>1. SUFFICES ASSUME r # NoSpan PROVE GoodTake(p, u)
    OBVIOUS
  <2>2. r[1] \in Offsets(b) /\ r[2] \in 0..Length(b)
    BY <1>1, <2>1, LineRangeInBuffer
  <2>. HIDE DEF r
  <2>3. r[1] \in Int /\ r[2] \in Int /\ 0 <= r[1] /\ r[2] <= Length(b)
    BY <1>1, <2>2 DEF Offsets
  <2>4. /\ u.cursor = p.cursor /\ u.seen \in SUBSET Offsets(b) /\ u.seen = p.seen \cup u.shown
        /\ u.elided \subseteq u.seen
    <3>. DEFINE c == p.cursor
                sn == p.seen
                s == r[1]
                e == r[2]
    <3>0. /\ s \in Int /\ e \in Int /\ 0 <= s /\ e <= Length(b) /\ GoodBuffer(b)
          /\ c \in 0..Length(b) /\ sn \in SUBSET Offsets(b)
      BY <1>1, <2>3
    <3>1. u = TakeUnseen(b, c, sn, s, e)
      OBVIOUS
    <3>. HIDE DEF u, b, c, sn, s, e
    <3>2. /\ u.cursor = c /\ u.seen \in SUBSET Offsets(b) /\ u.seen = sn \cup u.shown
          /\ u.elided \subseteq u.seen
      <4>1. UnseenTaken(b, c, sn, s, e, u)
        BY <3>0, <3>1, TakeUnseenFollows
      <4>. QED BY <4>1 DEF UnseenTaken
    <3>. QED BY <3>2 DEF c, sn
  <2>. QED BY <1>1, <2>4 DEF GoodTake
<1>. HIDE DEF r, u
<1>4. GoodTake(p, t) /\ GoodSession(b, p.session)
  BY <1>2, <1>3 DEF GoodPager
<1>5. ShowRange(p, l1, l2) = Outcome(p, t, p.session)
  BY DEF ShowRange, r, u
<1>. QED BY <1>4, <1>5, OutcomeGood

(* What a list of matches shows of a line is part of what it lists.        *)
LEMMA PrefixListed ==
  ASSUME NEW b, GoodBuffer(b), NEW l \in Nat
  PROVE  VisiblePrefix(b, l) \subseteq ListedText(b, l)
<1>. DEFINE end == LineEndOf(b, l)
            n == LineChars(b, l)
<1>1. end \in Nat /\ Length(b) \in Nat
  BY Lines, LineEdges
<1>2. n = IF end \in LineEnds(b) THEN end - 1 - l ELSE end - l
  BY DEF LineChars
<1>. HIDE DEF end
<1>3. n \in Int /\ l + n <= end
  BY <1>1, <1>2
<1>4. CASE n <= LineMax
  <2>1. PrefixChars(n) = n
    BY <1>4 DEF PrefixChars
  <2>2. VisiblePrefix(b, l) = l..(l + n - 1)
    BY <2>1 DEF VisiblePrefix
  <2>3. ListedText(b, l) = l..(end - 1)
    BY <1>4 DEF ListedText, end
  <2>. HIDE DEF n
  <2>4. (l..(l + n - 1)) \subseteq (l..(end - 1))
    BY <1>1, <1>3
  <2>. QED BY <2>2, <2>3, <2>4
<1>5. CASE ~(n <= LineMax)
  BY <1>5 DEF ListedText
<1>. QED BY <1>4, <1>5

(* snippet_window_around_match shows the match.                            *)
LEMMA SnippetShows ==
  ASSUME NEW b, GoodBuffer(b), NEW at \in Matches(b)
  PROVE  at \in SnippetWindow(b, at)
<1>. DEFINE start == LineStartOf(b, at)
            n == LineChars(b, start)
            end == LineEndOf(b, start)
            from == Larger(0, (at - start) - (LineMax \div 2))
<1>1. at \in Nat /\ at < Length(b) /\ Length(b) \in Nat /\ b.text[at + 1] = "m"
  BY Lines DEF Matches
<1>2. start \in Nat /\ start <= at
  BY <1>1, LineEdges
<1>3. end \in Nat /\ at < end
  <2>. DEFINE E == {Length(b)} \cup {l \in LineEnds(b) : l > start}
              S == {0} \cup {l \in LineEnds(b) : l <= at}
  <2>1. E \in SUBSET Nat /\ E # {} /\ LineEnds(b) \in SUBSET (1..Length(b))
    BY <1>1, Lines
  <2>2. S \in SUBSET Nat /\ S # {} /\ \A y \in S : y <= at
    BY <1>1, <2>1
  <2>3. \A y \in S : GreatestOf(S) >= y
    <3>. HIDE DEF S
    <3>. QED BY <1>1, <2>2, GreatestOfNumbers
  <2>4. start = GreatestOf(S)
    BY DEF LineStartOf
  <2>5. ASSUME NEW l \in LineEnds(b), l > start PROVE at < l
    <3>1. l \in Nat
      BY <1>1, <2>1
    <3>2. l <= at => start >= l
      BY <2>3, <2>4
    <3>. HIDE DEF start
    <3>. QED BY <1>1, <1>2, <2>5, <3>1, <3>2
  <2>6. end = LeastOf(E)
    BY DEF LineEndOf
  <2>7. \A y \in E : y \in Nat /\ at < y
    BY <1>1, <2>1, <2>5
  <2>. HIDE DEF E
  <2>8. LeastOf(E) \in E
    BY <2>1, LeastOfNumbers
  <2>. QED BY <2>6, <2>7, <2>8
<1>4. n = IF end \in LineEnds(b) THEN end - 1 - start ELSE end - start
  BY DEF LineChars
<1>5. end \in LineEnds(b) => at + 1 # end
  <2>1. SUFFICES ASSUME end \in LineEnds(b), at + 1 = end PROVE FALSE
    OBVIOUS
  <2>2. b.text[end] = "n"
    BY <2>1 DEF LineEnds
  <2>3. b.text[at + 1] = "n"
    BY <2>1, <2>2
  <2>. QED BY <1>1, <2>3
<1>. HIDE DEF start, end
<1>6. n \in Int /\ at - start < n
  BY <1>1, <1>2, <1>3, <1>4, <1>5
<1>. HIDE DEF n
<1>7. SnippetWindow(b, at) =
        IF n <= LineMax THEN start..(start + n - 1)
        ELSE IF at - start < LineMax THEN start..(start + LineMax - 1)
        ELSE (start + from)..(start + Smaller(n, from + LineMax) - 1)
  BY DEF SnippetWindow, start, n
<1>8. LineMax \in Nat /\ LineMax > 0
  BY PagerAssumption
<1>9. LineMax \div 2 \in Nat /\ LineMax \div 2 < LineMax
  BY <1>8
<1>. HIDE DEF from
<1>10. from \in Nat /\ from <= at - start /\ at - start < from + LineMax
  BY <1>1, <1>2, <1>8, <1>9 DEF from, Larger
<1>11. CASE n <= LineMax
  BY <1>1, <1>2, <1>6, <1>7, <1>11
<1>12. CASE ~(n <= LineMax) /\ at - start < LineMax
  BY <1>1, <1>2, <1>7, <1>8, <1>12
<1>13. CASE ~(n <= LineMax) /\ ~(at - start < LineMax)
  <2>1. at - start < Smaller(n, from + LineMax) /\ Smaller(n, from + LineMax) \in Int
    BY <1>6, <1>8, <1>10 DEF Smaller
  <2>2. SnippetWindow(b, at) = (start + from)..(start + Smaller(n, from + LineMax) - 1)
    BY <1>7, <1>13
  <2>. QED BY <1>1, <1>2, <1>10, <2>1, <2>2
<1>. QED BY <1>11, <1>12, <1>13

(* render_search_card shows the hit.                                       *)
LEMMA CardGood ==
  ASSUME NEW p, GoodPager(p), NEW s, GoodSession(p.buffer, s)
  PROVE  GoodOutcome(p, Card(p, s))
<1>. DEFINE b == p.buffer
            hit == s.hits[s.current + 1]
            line == <<LineStartOf(b, hit), LineEndOf(b, hit)>>
            here == p.cursor \in Span(line)
            moves == ~here \/ hit < p.cursor
            range == IF here THEN NoSpan ELSE <<hit, hit + 1>>
            t == [NoTake(p) EXCEPT !.cursor = IF moves THEN line[1] ELSE @,
                                !.first = range, !.last = range]
            o == [Outcome(p, t, s) EXCEPT
                    !.views = IF here THEN {} ELSE {hit}, !.closes = FALSE, !.emits = FALSE,
                    !.card = hit, !.listed = SnippetWindow(b, hit)]
<1>1. GoodBuffer(b) /\ Length(b) \in Nat /\ p.cursor \in 0..Length(b) /\ p.seen \in SUBSET Offsets(b)
  BY Lines DEF GoodPager
<1>2. Card(p, s) = IF s.current >= Len(s.hits) THEN Keep(Outcome(p, NoTake(p), s)) ELSE o
  BY DEF Card
<1>3. CASE s.current >= Len(s.hits)
  BY <1>2, <1>3, NoTakeGood, OutcomeGood
<1>4. CASE ~(s.current >= Len(s.hits))
  <2>1. hit \in Matches(b)
    <3>1. s.hits \in Seq(Matches(b)) /\ s.current \in Nat /\ Len(s.hits) \in Nat
      BY DEF GoodSession
    <3>2. s.current + 1 \in 1..Len(s.hits)
      BY <1>4, <3>1
    <3>. QED BY <3>1, <3>2
  <2>2. hit \in Nat
    BY <1>1, <2>1, Lines
  <2>3. line[1] \in 0..Length(b)
    BY <1>1, <2>2, LineEdges
  <2>4. hit \in SnippetWindow(b, hit)
    BY <1>1, <2>1, SnippetShows
  <2>. HIDE DEF hit, line, here, moves, range
  <2>. DEFINE c == IF moves THEN line[1] ELSE p.cursor
  <2>5. c \in 0..Length(b)
    BY <1>1, <2>3
  <2>6. t = [cursor |-> c, seen |-> p.seen, shown |-> {}, elided |-> {},
             images |-> {}, first |-> range, last |-> range]
    <3>. DEFINE x == p.cursor
                y == p.seen
                k == NoTake(p)
    <3>1. k = [cursor |-> x, seen |-> y, shown |-> {}, elided |-> {},
               images |-> {}, first |-> NoSpan, last |-> NoSpan]
      BY DEF NoTake, Taken
    <3>2. t = [k EXCEPT !.cursor = IF moves THEN line[1] ELSE @, !.first = range, !.last = range]
      OBVIOUS
    <3>3. c = IF moves THEN line[1] ELSE x
      OBVIOUS
    <3>. HIDE DEF x, y, k, t, c
    <3>4. t = [k EXCEPT !.cursor = c, !.first = range, !.last = range]
      <4>1. k.cursor = x
        BY <3>1
      <4>. QED BY <3>2, <3>3, <4>1
    <3>5. t = [cursor |-> c, seen |-> y, shown |-> {}, elided |-> {},
               images |-> {}, first |-> range, last |-> range]
      BY <3>1, <3>4
    <3>. QED BY <3>5 DEF y
  <2>. HIDE DEF t, c
  <2>7. t.cursor = c /\ t.seen = p.seen /\ t.shown = {} /\ t.elided = {}
    BY <2>6
  <2>. DEFINE v == IF here THEN {} ELSE {hit}
              w == SnippetWindow(b, hit)
              q == PagesLeft(p.buffer, t.cursor) = 0
  <2>8. v \subseteq w
    BY <2>4
  <2>. HIDE DEF v, w, q
  <2>9. Outcome(p, t, s) = [take |-> t, session |-> s, views |-> t.shown, closes |-> q,
             emits |-> TRUE, card |-> NotFound, listed |-> {}, cut |-> {}]
    BY DEF Outcome, q
  <2>10. o = [Outcome(p, t, s) EXCEPT !.views = v, !.closes = FALSE, !.emits = FALSE,
                !.card = hit, !.listed = w]
    BY DEF v, w
  <2>. HIDE DEF o, b
  <2>11. o.take = t /\ o.session = s /\ o.views = v /\ o.listed = w /\ o.cut = {}
    BY <2>9, <2>10
  <2>12. GoodOutcome(p, o)
    BY <1>1, <2>5, <2>7, <2>8, <2>11 DEF GoodOutcome, b
  <2>. QED BY <1>2, <1>4, <2>12 DEF o, b
<1>. QED BY <1>3, <1>4

(* :/, :n, :p and :goto.                                                   *)
LEMMA SearchGood ==
  ASSUME NEW p, GoodPager(p)
  PROVE  GoodOutcome(p, Search(p))
<1>. DEFINE forward == BuildForward(p.buffer, p.cursor)
            full == BuildIndexed(p.buffer, p.cursor, 0)
<1>1. GoodBuffer(p.buffer)
  BY DEF GoodPager
<1>2. GoodSession(p.buffer, forward) /\ GoodSession(p.buffer, full)
  BY <1>1, BuildForwardGood, BuildIndexedGood
<1>. HIDE DEF forward, full
<1>3. GoodSession(p.buffer, Move(full, 1, FALSE))
  <2>1. 1 \in Nat /\ 1 > 0 /\ FALSE \in BOOLEAN
    OBVIOUS
  <2>. QED BY <1>2, <2>1, MoveGood
<1>4. GoodOutcome(p, Card(p, forward)) /\ GoodOutcome(p, Card(p, Move(full, 1, FALSE)))
  BY <1>2, <1>3, CardGood
<1>5. GoodOutcome(p, Keep(Outcome(p, NoTake(p), NoSession)))
  BY NoTakeGood, NoSessionGood, OutcomeGood
<1>6. Search(p) = Found(p, forward, full)
  BY DEF Search, forward, full
<1>7. CASE forward # NoSession
  BY <1>4, <1>6, <1>7 DEF Found
<1>8. CASE forward = NoSession /\ full # NoSession
  BY <1>4, <1>6, <1>8 DEF Found
<1>9. CASE forward = NoSession /\ full = NoSession
  BY <1>5, <1>6, <1>9 DEF Found
<1>. QED BY <1>7, <1>8, <1>9

(* A move to a hit of the session.                                         *)
LEMMA MoveByGood ==
  ASSUME NEW p, GoodPager(p), NEW s, GoodSession(p.buffer, s), NEW n \in Nat, n > 0,
         NEW forward \in BOOLEAN
  PROVE  GoodOutcome(p, MoveBy(p, s, n, forward))
<1>1. GoodSession(p.buffer, Move(s, n, forward))
  BY MoveGood
<1>2. GoodOutcome(p, Card(p, Move(s, n, forward)))
  BY <1>1, CardGood
<1>3. GoodOutcome(p, Keep(Outcome(p, NoTake(p), s)))
  BY NoTakeGood, OutcomeGood
<1>. QED BY <1>2, <1>3 DEF MoveBy, MoveTo

(* :n.                                                                     *)
LEMMA SearchNextGood ==
  ASSUME NEW p, GoodPager(p), NEW n \in Nat, n > 0
  PROVE  GoodOutcome(p, SearchNext(p, n))
<1>. DEFINE s == Fresh(p.buffer, p.session, p.reseed, p.cursor)
<1>1. GoodBuffer(p.buffer) /\ GoodSession(p.buffer, p.session)
  BY DEF GoodPager
<1>2. GoodSession(p.buffer, s)
  BY <1>1, FreshGood
<1>. HIDE DEF s
<1>3. s.current + n + 1 \in Nat
  BY <1>2 DEF GoodSession
<1>4. GoodSession(p.buffer, Extend(p.buffer, s, s.current + n + 1))
  BY <1>1, <1>2, <1>3, ExtendGood
<1>5. GoodOutcome(p, MoveBy(p, Extend(p.buffer, s, s.current + n + 1), n, TRUE))
  BY <1>4, MoveByGood
<1>6. GoodOutcome(p, Keep([NextPages(p, n) EXCEPT !.session = NoSession]))
  BY NextPagesGood
<1>7. SearchNext(p, n) = NextHit(p, s, n)
  BY DEF SearchNext, s
<1>. QED BY <1>5, <1>6, <1>7 DEF NextHit

(* A session that is gone is looked up again.                              *)
LEMMA NavigableGood ==
  ASSUME NEW p, GoodPager(p)
  PROVE  GoodSession(p.buffer, Navigable(p))
<1>1. GoodBuffer(p.buffer) /\ GoodSession(p.buffer, p.session)
  BY DEF GoodPager
<1>2. GoodSession(p.buffer, Fresh(p.buffer, p.session, p.reseed, p.cursor))
  BY <1>1, FreshGood
<1>. QED BY <1>1, <1>2, CompletedGood DEF Navigable

(* :p and :goto.                                                           *)
LEMMA SearchPrevGood ==
  ASSUME NEW p, GoodPager(p), NEW n \in Nat, n > 0
  PROVE  GoodOutcome(p, SearchPrev(p, n)) /\ GoodOutcome(p, GotoHit(p, n))
<1>. DEFINE s == Navigable(p)
<1>1. GoodSession(p.buffer, s)
  BY NavigableGood
<1>. HIDE DEF s
<1>2. GoodOutcome(p, Keep(Outcome(p, NoTake(p), s)))
  BY <1>1, NoTakeGood, OutcomeGood
<1>3. GoodOutcome(p, MoveBy(p, s, n, FALSE))
  BY <1>1, MoveByGood
<1>4. GoodSession(p.buffer, Goto(s, n))
  BY <1>1, GotoGood
<1>5. GoodOutcome(p, Card(p, Goto(s, n)))
  BY <1>4, CardGood
<1>6. SearchPrev(p, n) = PrevHit(p, s, n) /\ GotoHit(p, n) = HitAt(p, s, n)
  BY DEF SearchPrev, GotoHit, s
<1>. QED BY <1>2, <1>3, <1>5, <1>6 DEF PrevHit, HitAt

(* take_matches shows part of the lines it lists.                          *)
LEMMA ListMatchesGood ==
  ASSUME NEW p, GoodPager(p), NEW s, GoodSession(p.buffer, s), NEW limit \in Nat
  PROVE  GoodOutcome(p, ListMatches(p, s, limit))
<1>. DEFINE b == p.buffer
            listed == {s.hits[k] : k \in 1..Smaller(limit, Len(s.hits))}
            Start(h) == LineStartOf(b, h)
            visible == UNION {VisiblePrefix(b, Start(h)) :
                                 h \in {g \in listed : g \in VisiblePrefix(b, Start(g))}}
            first == LeastOf(listed)
            last == GreatestOf(listed)
            f == <<Start(first), LineEndOf(b, first)>>
            l == <<Start(last), LineEndOf(b, last)>>
            t == [NoTake(p) EXCEPT !.first = f, !.last = l]
            text == UNION {ListedText(b, Start(h)) : h \in listed}
            o == [Outcome(p, t, s) EXCEPT !.closes = FALSE, !.emits = FALSE, !.views = visible,
                                       !.listed = text]
<1>1. GoodBuffer(b) /\ Length(b) \in Nat /\ p.cursor \in 0..Length(b) /\ p.seen \in SUBSET Offsets(b)
  BY Lines DEF GoodPager
<1>2. ListMatches(p, s, limit) = o
  BY DEF ListMatches
<1>3. \A h \in listed : h \in Nat
  <2>1. s.hits \in Seq(Matches(b)) /\ Len(s.hits) \in Nat
    BY DEF GoodSession
  <2>2. \A k \in 1..Smaller(limit, Len(s.hits)) : k \in 1..Len(s.hits)
    BY <2>1 DEF Smaller
  <2>3. \A k \in 1..Smaller(limit, Len(s.hits)) : s.hits[k] \in Matches(b)
    BY <2>1, <2>2
  <2>4. Matches(b) \in SUBSET Nat
    BY <1>1, Lines
  <2>. QED BY <2>3, <2>4
<1>. HIDE DEF listed
<1>4. visible \subseteq text
  <2>1. \A h \in listed : Start(h) \in Nat
    BY <1>1, <1>3, LineEdges
  <2>2. \A h \in listed : VisiblePrefix(b, Start(h)) \subseteq ListedText(b, Start(h))
    BY <1>1, <2>1, PrefixListed
  <2>. HIDE DEF Start
  <2>. QED BY <2>2
<1>5. t = [cursor |-> p.cursor, seen |-> p.seen, shown |-> {}, elided |-> {},
           images |-> {}, first |-> f, last |-> l]
  <2>. DEFINE x == p.cursor
              y == p.seen
              k == NoTake(p)
  <2>1. k = [cursor |-> x, seen |-> y, shown |-> {}, elided |-> {},
             images |-> {}, first |-> NoSpan, last |-> NoSpan]
    BY DEF NoTake, Taken
  <2>2. t = [k EXCEPT !.first = f, !.last = l]
    OBVIOUS
  <2>. HIDE DEF x, y, k, t, f, l
  <2>3. t = [cursor |-> x, seen |-> y, shown |-> {}, elided |-> {},
             images |-> {}, first |-> f, last |-> l]
    BY <2>1, <2>2
  <2>. QED BY <2>3 DEF x, y
<1>. HIDE DEF t
<1>6. t.cursor = p.cursor /\ t.seen = p.seen /\ t.shown = {} /\ t.elided = {}
  BY <1>5
<1>. DEFINE q == PagesLeft(p.buffer, t.cursor) = 0
            v == visible
<1>7. Outcome(p, t, s) = [take |-> t, session |-> s, views |-> t.shown, closes |-> q,
             emits |-> TRUE, card |-> NotFound, listed |-> {}, cut |-> {}]
  BY DEF Outcome
<1>8. o = [Outcome(p, t, s) EXCEPT !.closes = FALSE, !.emits = FALSE, !.views = v, !.listed = text]
  OBVIOUS
<1>. HIDE DEF o, v, text, q
<1>9. o.take = t /\ o.session = s /\ o.views = v /\ o.listed = text /\ o.cut = {}
  BY <1>7, <1>8
<1>10. v \subseteq text
  BY <1>4 DEF v, text
<1>. HIDE DEF b
<1>11. GoodOutcome(p, o)
  BY <1>1, <1>6, <1>9, <1>10 DEF GoodOutcome, b
<1>. QED BY <1>2, <1>11

(* :matches, with and without a pattern.                                   *)
LEMMA MatchesGood ==
  ASSUME NEW p, GoodPager(p), NEW limit \in Nat
  PROVE  GoodOutcome(p, MatchPattern(p, limit)) /\ GoodOutcome(p, BareMatches(p, limit))
<1>1. ASSUME NEW s, GoodSession(p.buffer, s) PROVE GoodOutcome(p, MatchesOf(p, s, limit))
  <2>1. GoodOutcome(p, Keep(Outcome(p, NoTake(p), NoSession)))
    BY NoTakeGood, NoSessionGood, OutcomeGood
  <2>2. GoodOutcome(p, ListMatches(p, s, limit))
    BY <1>1, ListMatchesGood
  <2>. QED BY <2>1, <2>2 DEF MatchesOf
<1>. DEFINE s == BuildIndexed(p.buffer, 0, limit + 1)
<1>2. GoodSession(p.buffer, s)
  <2>1. GoodBuffer(p.buffer) /\ limit + 1 \in Nat
    BY DEF GoodPager
  <2>. QED BY <2>1, BuildIndexedGood
<1>. HIDE DEF s
<1>3. GoodSession(p.buffer, FromFirst(s))
  <2>1. GoodSession(p.buffer, Goto(s, 1))
    BY <1>2, GotoGood
  <2>. QED BY <1>2, <2>1 DEF FromFirst
<1>4. GoodSession(p.buffer, Navigable(p))
  BY NavigableGood
<1>5. MatchPattern(p, limit) = MatchesOf(p, FromFirst(s), limit)
  BY DEF MatchPattern, s
<1>. QED BY <1>1, <1>3, <1>4, <1>5 DEF BareMatches

(* :hits marks as seen the lines it lists.                                 *)
LEMMA HitsGood ==
  ASSUME NEW p, GoodPager(p), NEW context \in Nat
  PROVE  GoodOutcome(p, Hits(p, context))
<1>. DEFINE b == p.buffer
            Covered(l) == (l..(LineEndOf(b, l) - 1)) \subseteq p.seen
            found == {o \in Matches(b) : o >= p.cursor /\ ~Covered(LineStartOf(b, o))}
            at == LeastOf(found)
            idx == LineOf(b, at)
            lines == {l \in LineStarts(b) : /\ LineOf(b, l) \in (idx - context)..(idx + context)
                                            /\ ~Covered(l)}
            marked == UNION {l..(LineEndOf(b, l) - 1) : l \in lines}
            first == LeastOf(lines)
            last == GreatestOf(lines)
            f == <<first, LineEndOf(b, first)>>
            z == <<last, LineEndOf(b, last)>>
            e == LineEndOf(b, at)
            t == [NoTake(p) EXCEPT !.cursor = e, !.seen = @ \cup marked, !.first = f, !.last = z]
            visible == UNION {VisiblePrefix(b, l) : l \in lines}
            text == UNION {ListedText(b, l) : l \in lines}
            rest == UNION {(l..(LineEndOf(b, l) - 1)) \ ListedText(b, l) : l \in lines}
            o == [Outcome(p, t, p.session) EXCEPT !.closes = FALSE, !.views = visible,
                    !.listed = text, !.cut = rest]
<1>1. GoodBuffer(b) /\ Length(b) \in Nat /\ p.cursor \in 0..Length(b) /\ p.seen \in SUBSET Offsets(b)
      /\ GoodSession(b, p.session)
  BY Lines DEF GoodPager
<1>2. Hits(p, context) = IF found = {} THEN Keep(Outcome(p, NoTake(p), p.session)) ELSE o
  BY DEF Hits
<1>3. found \in SUBSET Nat
  BY <1>1, Lines
<1>4. lines \in SUBSET LineStarts(b) /\ LineStarts(b) \in SUBSET Nat
  BY <1>1, Lines
<1>. HIDE DEF found, lines
<1>5. marked \in SUBSET Offsets(b) /\ marked \subseteq text \cup rest /\ visible \subseteq text
  <2>1. \A l \in lines : l \in Nat
    BY <1>4
  <2>2. \A l \in lines : LineEndOf(b, l) \in 0..Length(b)
    BY <1>1, <2>1, LineEdges
  <2>3. \A l \in lines : (l..(LineEndOf(b, l) - 1)) \subseteq Offsets(b)
    BY <1>1, <2>1, <2>2 DEF Offsets
  <2>4. \A l \in lines : VisiblePrefix(b, l) \subseteq ListedText(b, l)
    BY <1>1, <2>1, PrefixListed
  <2>5. marked \in SUBSET Offsets(b)
    BY <2>3
  <2>6. marked \subseteq text \cup rest
    OBVIOUS
  <2>7. visible \subseteq text
    BY <2>4
  <2>. QED BY <2>5, <2>6, <2>7
<1>. HIDE DEF marked, visible, text, rest, f, z
<1>6. CASE found = {}
  <2>. HIDE DEF o
  <2>1. GoodOutcome(p, Keep(Outcome(p, NoTake(p), p.session)))
    BY <1>1, NoTakeGood, OutcomeGood
  <2>. QED BY <1>2, <1>6, <2>1
<1>7. CASE found # {}
  <2>1. at \in found
    BY <1>3, <1>7, LeastOfNumbers
  <2>2. at \in Nat
    BY <1>3, <2>1
  <2>3. e \in 0..Length(b)
    BY <1>1, <2>2, LineEdges
  <2>. HIDE DEF e
  <2>4. t = [cursor |-> e, seen |-> p.seen \cup marked, shown |-> {}, elided |-> {},
             images |-> {}, first |-> f, last |-> z]
    <3>. DEFINE x == p.cursor
                y == p.seen
                k == NoTake(p)
    <3>1. k = [cursor |-> x, seen |-> y, shown |-> {}, elided |-> {},
               images |-> {}, first |-> NoSpan, last |-> NoSpan]
      BY DEF NoTake, Taken
    <3>2. t = [k EXCEPT !.cursor = e, !.seen = @ \cup marked, !.first = f, !.last = z]
      OBVIOUS
    <3>. HIDE DEF x, y, k, t
    <3>3. t = [cursor |-> e, seen |-> y \cup marked, shown |-> {}, elided |-> {},
               images |-> {}, first |-> f, last |-> z]
      BY <3>1, <3>2
    <3>. QED BY <3>3 DEF y
  <2>. HIDE DEF t
  <2>5. t.cursor = e /\ t.seen = p.seen \cup marked /\ t.shown = {} /\ t.elided = {}
    BY <2>4
  <2>. DEFINE q == PagesLeft(p.buffer, t.cursor) = 0
              s == p.session
  <2>6. Outcome(p, t, s) = [take |-> t, session |-> s, views |-> t.shown, closes |-> q,
               emits |-> TRUE, card |-> NotFound, listed |-> {}, cut |-> {}]
    BY DEF Outcome
  <2>7. o = [Outcome(p, t, s) EXCEPT !.closes = FALSE, !.views = visible, !.listed = text,
                                  !.cut = rest]
    OBVIOUS
  <2>. HIDE DEF o, q, s
  <2>8. o.take = t /\ o.session = s /\ o.views = visible /\ o.listed = text /\ o.cut = rest
    BY <2>6, <2>7
  <2>. HIDE DEF b
  <2>9. GoodOutcome(p, o)
    BY <1>1, <1>5, <2>3, <2>5, <2>8 DEF GoodOutcome, b, s
  <2>. QED BY <1>2, <1>7, <2>9 DEF b
<1>. QED BY <1>6, <1>7
-----------------------------------------------------------------------------
(***************************************************************************)
(* Commands, and the state they leave.                                     *)
(***************************************************************************)

GoodCommand(c) ==
    /\ c.n \in Nat
    /\ c.op \in {"next", "skip", "a", "tail", "/", "n", "p", "goto", "matches", "hits", "range",
                 "seek", "where", "help", "q"}
    /\ c.op \in {"next", "skip", "n", "p", "goto", "range"} => c.n > 0
    /\ c.op = "seek" => /\ c.unit \in {"chars", "percent", "line"}
                        /\ c.unit = "percent" => c.n <= 100

(* PagerCommand::parse clamps what it parses.                              *)
LEMMA ParseGood ==
  ASSUME NEW i \in Inputs
  PROVE  Parse(i) = NotCommand \/ GoodCommand(Parse(i))
<1>1. /\ i.n \in Int /\ (i.n >= 0 \/ i.head = "matches")
      /\ i.head = "seek" => i.unit \in {"chars", "percent", "line"}
      /\ MatchLimit \in Nat /\ MatchLimitMax \in Nat /\ ContextMax \in Nat /\ PageChars \in Nat
  BY InputAssumption, PagerAssumption
<1>2. ASSUME NEW n \in Nat PROVE /\ Cmd(i, n).op = i.head /\ Cmd(i, n).n = n
                                 /\ Cmd(i, n).unit = i.unit
  BY DEF Cmd
<1>3. CASE i.head \in {"next", "skip", "n", "p"}
  <2>1. Larger(1, i.n) \in Nat /\ Larger(1, i.n) > 0
    BY <1>1, <1>3 DEF Larger
  <2>2. Parse(i) = Cmd(i, Larger(1, i.n))
    BY <1>3 DEF Parse
  <2>. QED BY <1>2, <1>3, <2>1, <2>2 DEF GoodCommand
<1>4. CASE i.head = "goto"
  <2>1. Parse(i) = IF i.n > 0 THEN Cmd(i, i.n) ELSE NotCommand
    BY <1>4 DEF Parse
  <2>. QED BY <1>1, <1>2, <1>4, <2>1 DEF GoodCommand
<1>5. CASE i.head = "matches"
  <2>. DEFINE m == CASE i.n < 0 -> MatchLimit
                     [] i.n = 0 -> MatchLimitMax
                     [] i.n > 0 -> Smaller(i.n, MatchLimitMax)
  <2>1. m \in Nat
    BY <1>1 DEF Smaller
  <2>2. Parse(i) = Cmd(i, m)
    BY <1>5 DEF Parse, MatchSpec
  <2>. HIDE DEF m
  <2>. QED BY <1>2, <1>5, <2>1, <2>2 DEF GoodCommand
<1>6. CASE i.head = "hits"
  <2>1. Smaller(i.n, ContextMax) \in Nat
    BY <1>1, <1>6 DEF Smaller
  <2>2. Parse(i) = Cmd(i, Smaller(i.n, ContextMax))
    BY <1>6 DEF Parse, HitSpec
  <2>. QED BY <1>2, <1>6, <2>1, <2>2 DEF GoodCommand
<1>7. CASE i.head = "tail"
  <2>1. i.n \in Nat
    BY <1>1, <1>7
  <2>2. Parse(i) = IF i.unit = "" THEN [op |-> "tail", n |-> PageChars, unit |-> "chars"]
                   ELSE Cmd(i, i.n)
    BY <1>7 DEF Parse, TailSpec
  <2>3. CASE i.unit = ""
    <3>. DEFINE c == Parse(i)
    <3>1. c = [op |-> "tail", n |-> PageChars, unit |-> "chars"]
      BY <2>2, <2>3
    <3>. HIDE DEF c
    <3>2. c.op = "tail" /\ c.n = PageChars
      BY <3>1
    <3>3. GoodCommand(c)
      BY <1>1, <3>2 DEF GoodCommand
    <3>. QED BY <3>3 DEF c
  <2>4. CASE i.unit # ""
    BY <1>2, <1>7, <2>1, <2>2, <2>4 DEF GoodCommand
  <2>. QED BY <2>3, <2>4
<1>8. CASE i.head = "seek"
  <2>1. i.n \in Nat /\ Smaller(i.n, 100) \in Nat /\ Smaller(i.n, 100) <= 100
    BY <1>1, <1>8 DEF Smaller
  <2>2. Parse(i) = SeekSpec(i)
    BY <1>8 DEF Parse
  <2>3. CASE i.unit = "line" /\ i.n = 0
    BY <2>2, <2>3 DEF SeekSpec
  <2>4. CASE i.unit = "percent"
    <3>1. Parse(i) = Cmd(i, Smaller(i.n, 100))
      BY <2>2, <2>4 DEF SeekSpec
    <3>. QED BY <1>2, <1>8, <2>1, <2>4, <3>1 DEF GoodCommand
  <2>5. CASE ~(i.unit = "line" /\ i.n = 0) /\ i.unit # "percent"
    <3>1. Parse(i) = Cmd(i, i.n)
      BY <2>2, <2>5 DEF SeekSpec
    <3>. QED BY <1>1, <1>2, <1>8, <2>1, <2>5, <3>1 DEF GoodCommand
  <2>. QED BY <2>3, <2>4, <2>5
<1>9. CASE i.head = "range"
  <2>1. i.n \in Nat
    BY <1>1, <1>9
  <2>2. Parse(i) = IF i.n = 0 THEN NotCommand ELSE Cmd(i, i.n)
    BY <1>9 DEF Parse, RangeSpec
  <2>. QED BY <1>2, <1>9, <2>1, <2>2 DEF GoodCommand
<1>10. CASE i.head \in {"/", "a", "where", "help", "q"}
  <2>1. Parse(i) = Cmd(i, 0)
    BY <1>10 DEF Parse
  <2>. QED BY <1>2, <1>10, <2>1 DEF GoodCommand
<1>11. CASE i.head \notin {"next", "skip", "n", "p", "goto", "matches", "hits", "tail", "seek",
                           "range", "/", "a", "where", "help", "q"}
  BY <1>11 DEF Parse
<1>. QED BY <1>3, <1>4, <1>5, <1>6, <1>7, <1>8, <1>9, <1>10, <1>11

(* Every command but :q.                                                   *)
LEMMA RunGood ==
  ASSUME NEW p, GoodPager(p), NEW c, GoodCommand(c), c.op # "q"
  PROVE  GoodOutcome(p, Run(p, c))
<1>1. c.n \in Nat /\ c.n + 1 \in Nat /\ c.n + 1 > 0
  BY DEF GoodCommand
<1>2. GoodOutcome(p, Outcome(p, NoTake(p), p.session))
  BY NoTakeGood, OutcomeGood DEF GoodPager
<1>3. CASE c.op = "next"
  BY <1>1, <1>3, NextPagesGood DEF Run
<1>4. CASE c.op = "skip"
  BY <1>1, <1>4, SkipGood DEF Run
<1>5. CASE c.op = "a"
  BY <1>5, ShowAllGood DEF Run
<1>6. CASE c.op = "tail"
  BY <1>1, <1>6, TakeTailGood DEF Run
<1>7. CASE c.op = "/"
  BY <1>7, SearchGood DEF Run
<1>8. CASE c.op = "n"
  <2>1. c.n > 0
    BY <1>8 DEF GoodCommand
  <2>. QED BY <1>1, <1>8, <2>1, SearchNextGood DEF Run
<1>9. CASE c.op = "p"
  <2>1. c.n > 0
    BY <1>9 DEF GoodCommand
  <2>. QED BY <1>1, <1>9, <2>1, SearchPrevGood DEF Run
<1>10. CASE c.op = "goto"
  <2>1. c.n > 0
    BY <1>10 DEF GoodCommand
  <2>. QED BY <1>1, <1>10, <2>1, SearchPrevGood DEF Run
<1>11. CASE c.op = "matches"
  <2>1. GoodOutcome(p, MatchPattern(p, c.n)) /\ GoodOutcome(p, BareMatches(p, c.n))
    BY <1>1, MatchesGood
  <2>2. Run(p, c) = IF c.unit = "pattern" THEN MatchPattern(p, c.n) ELSE BareMatches(p, c.n)
    BY <1>11 DEF Run
  <2>. QED BY <2>1, <2>2
<1>12. CASE c.op = "hits"
  BY <1>1, <1>12, HitsGood DEF Run
<1>13. CASE c.op = "range"
  <2>1. c.n > 0
    BY <1>13 DEF GoodCommand
  <2>2. GoodOutcome(p, ShowRange(p, c.n, c.n + 1))
    BY <1>1, <2>1, ShowRangeGood
  <2>. QED BY <1>13, <2>2 DEF Run
<1>14. CASE c.op = "seek"
  <2>1. c.unit \in {"chars", "percent", "line"} /\ (c.unit = "percent" => c.n <= 100)
    BY <1>14 DEF GoodCommand
  <2>2. GoodOutcome(p, Seek(p, c.n, c.unit))
    BY <1>1, <2>1, SeekGood
  <2>. QED BY <1>14, <2>2 DEF Run
<1>15. CASE c.op = "where"
  BY <1>2, <1>15 DEF Run, Where
<1>16. CASE c.op = "help"
  BY <1>2, <1>16 DEF Run, Help
<1>17. c.op \in {"next", "skip", "a", "tail", "/", "n", "p", "goto", "matches", "hits", "range",
                 "seek", "where", "help"}
  BY DEF GoodCommand
<1>. QED BY <1>3, <1>4, <1>5, <1>6, <1>7, <1>8, <1>9, <1>10, <1>11, <1>12, <1>13, <1>14, <1>15,
            <1>16, <1>17

(* The state after a command is good again.                                *)
LEMMA AfterGood ==
  ASSUME NEW p, GoodPager(p), NEW c, NEW o, GoodOutcome(p, o)
  PROVE  /\ GoodPager(After(p, c, o)) /\ After(p, c, o).buffer = p.buffer
         /\ After(p, c, o).seen = o.take.seen /\ After(p, c, o).viewed = p.viewed \cup o.views
<1>. DEFINE e == IF o.emits /\ o.take.last # NoSpan THEN o.take.last ELSE p.emitted
            r == /\ o.session # NoSession
                 /\ c.op \notin KeepsAnchor
                 /\ p.reseed \/ o.take.cursor # p.cursor
            x == o.take.cursor
            y == o.take.seen
            s == o.session
            i == o.take.images
            v == o.views
            u == After(p, c, o)
<1>1. u = [p EXCEPT !.cursor = x, !.seen = y, !.session = s, !.images = @ \cup i,
              !.viewed = @ \cup v, !.emitted = e, !.reseed = r]
  BY DEF After
<1>2. p = [active |-> p.active, buffer |-> p.buffer, sourceEnd |-> p.sourceEnd,
           cursor |-> p.cursor, seen |-> p.seen, images |-> p.images, emitted |-> p.emitted,
           session |-> p.session, reseed |-> p.reseed, viewed |-> p.viewed]
  BY DEF GoodPager
<1>. HIDE DEF e, r, x, y, s, i, v, u
<1>3. u = [active |-> p.active, buffer |-> p.buffer, sourceEnd |-> p.sourceEnd,
           cursor |-> x, seen |-> y, images |-> p.images \cup i, emitted |-> e,
           session |-> s, reseed |-> r, viewed |-> p.viewed \cup v]
  BY <1>1, <1>2
<1>4. /\ u.active = p.active /\ u.buffer = p.buffer /\ u.sourceEnd = p.sourceEnd /\ u.cursor = x
      /\ u.seen = y /\ u.images = p.images \cup i /\ u.emitted = e /\ u.session = s
      /\ u.reseed = r /\ u.viewed = p.viewed \cup v
  BY <1>3
<1>5. u = [active |-> u.active, buffer |-> u.buffer, sourceEnd |-> u.sourceEnd,
           cursor |-> u.cursor, seen |-> u.seen, images |-> u.images, emitted |-> u.emitted,
           session |-> u.session, reseed |-> u.reseed, viewed |-> u.viewed]
  BY <1>3, <1>4
<1>6. x \in 0..Length(p.buffer) /\ y \in SUBSET Offsets(p.buffer) /\ GoodSession(p.buffer, s)
  BY DEF GoodOutcome, x, y, s
<1>7. GoodPager(u)
  BY <1>4, <1>5, <1>6 DEF GoodPager
<1>. QED BY <1>4, <1>7 DEF u, y, v

(* :next follows on the page before it.                                    *)
LEMMA NextPagesAdvance ==
  ASSUME NEW p, GoodPager(p), NEW n \in Nat, n > 0
  PROVE  /\ (p.cursor..(NextPages(p, n).take.cursor - 1)) \subseteq NextPages(p, n).take.seen
         /\ ~Crowded(p.buffer, p.cursor) /\ ~NextPages(p, n).closes
               => p.cursor < NextPages(p, n).take.cursor
<1>. DEFINE b == p.buffer
            c == p.cursor
            t == TakePages(b, c, p.seen, n)
<1>1. GoodBuffer(b) /\ Length(b) \in Nat /\ c \in 0..Length(b) /\ p.seen \in SUBSET Offsets(b)
  BY Lines DEF GoodPager
<1>2. /\ t \in Takes(b) /\ Follows(b, c, p.seen, t)
      /\ c < Length(b) /\ ~Crowded(b, c) => c < t.cursor
  BY <1>1, TakePagesFollows
<1>3. NextPages(p, n).take = t /\ (NextPages(p, n).closes <=> PagesLeft(b, t.cursor) = 0)
  BY DEF NextPages, Outcome
<1>. HIDE DEF t, b, c
<1>4. (c..(t.cursor - 1)) \subseteq t.seen /\ c <= t.cursor /\ t.cursor \in 0..Length(b)
  BY <1>2 DEF Follows, Takes
<1>5. ASSUME ~Crowded(b, c), PagesLeft(b, t.cursor) # 0 PROVE c < t.cursor
  <2>1. CASE c < Length(b)
    BY <1>2, <1>5, <2>1
  <2>2. CASE ~(c < Length(b))
    <3>. DEFINE L == Length(b)
    <3>1. c = L /\ t.cursor = L
      BY <1>1, <1>4, <2>2
    <3>2. Smaller(L, L) = L /\ L - L = 0
      BY <1>1 DEF Smaller
    <3>3. PageChars \in Nat /\ 0 <= PageChars /\ MaxImages \in Nat
      BY PagerAssumption
    <3>4. CountImages(b, L, L) <= MaxImages
      <4>1. /\ IsFiniteSet(ImagesIn(b, L, L + 1)) /\ CountImages(b, L, L + 1) \in Nat
            /\ CountImages(b, L, L) \in Nat
        BY <1>1, ImagesOfRange
      <4>2. ImagesIn(b, L, L) \in SUBSET ImagesIn(b, L, L + 1)
        <5>1. \A i \in DOMAIN b.images : b.images[i] \in Nat
          BY <1>1 DEF GoodBuffer
        <5>2. \A i \in DOMAIN b.images : b.images[i] <= L => b.images[i] <= L + 1
          BY <1>1, <5>1
        <5>. QED BY <5>2 DEF ImagesIn
      <4>3. CountImages(b, L, L) <= CountImages(b, L, L + 1)
        BY <4>1, <4>2, FS_Subset DEF CountImages
      <4>4. ~(CountImages(b, L, L + 1) > MaxImages)
        BY <1>5, <3>1 DEF Crowded
      <4>. QED BY <3>3, <4>1, <4>3, <4>4
    <3>5. PagesLeft(b, L) = 0
      BY <3>2, <3>3, <3>4 DEF PagesLeft
    <3>. QED BY <1>5, <3>1, <3>5
  <2>. QED BY <2>1, <2>2
<1>. QED BY <1>3, <1>4, <1>5 DEF b, c

(***************************************************************************)
(* The inductive invariant: a pager marks as seen what a reply has held or *)
(* what :hits has cut off a line it listed, and its view history holds     *)
(* only what a reply has held.                                             *)
(***************************************************************************)
PagerInv ==
    /\ GoodBuffer(Text(ring.text, ring.images))
    /\ GoodPager(pager)
    /\ pager.seen \subseteq shown \cup cut
    /\ pager.viewed \subseteq shown
    /\ ClaimsAreTrue
    /\ PagesFollowOn

(* A reply without text makes no claim.                                    *)
LEMMA EmptyReply ==
  ASSUME NEW op, op \notin {"next", "a"}, reply' = [NoReply EXCEPT !.op = op]
  PROVE  ClaimsAreTrue' /\ PagesFollowOn'
<1>1. reply'.op = op /\ reply'.claimed = {} /\ reply'.early = {}
  BY DEF NoReply
<1>. QED BY <1>1 DEF ClaimsAreTrue, PagesFollowOn

(* A ring that was read to its end is empty.                               *)
LEMMA EmptyRing ==
  ASSUME ring' = RingConsumed
  PROVE  GoodBuffer(Text(ring.text, ring.images))'
<1>1. ring'.text = <<>> /\ ring'.images = <<>>
  BY DEF RingConsumed
<1>2. GoodBuffer(Text(<<>>, <<>>))
  BY NoPagerGood DEF GoodPager, NoPager
<1>3. GoodBuffer(Text(ring'.text, ring'.images))
  BY <1>1, <1>2
<1>. QED BY <1>3

(* It holds before anything is shown.                                      *)
LEMMA PagerInit == Init => PagerInv
<1>1. SUFFICES ASSUME Init PROVE PagerInv
  OBVIOUS
<1>2. ring.text = <<>> /\ ring.images = <<>> /\ GoodBuffer(Text(<<>>, <<>>))
  BY <1>1, NoPagerGood DEF Init, GoodPager, NoPager
<1>3. GoodPager(pager) /\ pager.seen = {} /\ pager.viewed = {}
  BY <1>1, NoPagerGood DEF Init, NoPager
<1>4. reply.claimed = {} /\ reply.early = {} /\ reply.op = "none"
  BY <1>1 DEF Init, NoReply
<1>. QED BY <1>2, <1>3, <1>4 DEF PagerInv, ClaimsAreTrue, PagesFollowOn

(* refresh_from_output adds to the buffer.                                 *)
LEMMA RefreshedGood ==
  ASSUME PagerInv
  PROVE  GoodPager(Refreshed) /\ Refreshed.seen = pager.seen /\ Refreshed.viewed = pager.viewed
<1>1. CASE RingEnd <= pager.sourceEnd
  BY <1>1 DEF Refreshed, PagerInv
<1>2. CASE ~(RingEnd <= pager.sourceEnd)
  <2>. DEFINE b == pager.buffer
              n == IF ring.start > pager.sourceEnd THEN Append2(b, GapNotice, <<>>) ELSE b
              d == Append2(n, ring.text, ring.images)
              s == IF pager.session = NoSession THEN pager.session
                   ELSE [pager.session EXCEPT !.length = 0]
              e == RingEnd
              u == Refreshed
  <2>1. u = [pager EXCEPT !.buffer = d, !.sourceEnd = e, !.session = s]
    BY <1>2 DEF Refreshed
  <2>2. /\ GoodBuffer(b) /\ pager.cursor \in 0..Length(b) /\ pager.seen \in SUBSET Offsets(b)
        /\ GoodSession(b, pager.session)
        /\ pager = [active |-> pager.active, buffer |-> pager.buffer,
                    sourceEnd |-> pager.sourceEnd, cursor |-> pager.cursor, seen |-> pager.seen,
                    images |-> pager.images, emitted |-> pager.emitted,
                    session |-> pager.session, reseed |-> pager.reseed, viewed |-> pager.viewed]
    BY DEF PagerInv, GoodPager
  <2>3. GoodBuffer(Text(GapNotice, <<>>))
    <3>. DEFINE g == Text(GapNotice, <<>>)
    <3>1. GapNotice \in Seq(Chars) /\ <<>> \in Seq(Nat)
      <4>1. "g" \in Chars /\ "n" \in Chars
        BY DEF Chars
      <4>2. \A x, y \in Chars : <<x, y>> \in Seq(Chars)
        OBVIOUS
      <4>3. <<"g", "n">> \in Seq(Chars)
        BY <4>1, <4>2
      <4>4. <<>> \in Seq(Nat)
        OBVIOUS
      <4>. QED BY <4>3, <4>4 DEF GapNotice
    <3>2. g = [text |-> GapNotice, images |-> <<>>]
      BY DEF Text
    <3>. HIDE DEF g
    <3>3. g \in [text : Seq(Chars), images : Seq(Nat)] /\ g.images = <<>> /\ DOMAIN g.images = {}
      <4>1. \A x \in Seq(Chars), y \in Seq(Nat) :
               [text |-> x, images |-> y] \in [text : Seq(Chars), images : Seq(Nat)]
        OBVIOUS
      <4>2. g \in [text : Seq(Chars), images : Seq(Nat)]
        BY <3>1, <3>2, <4>1
      <4>. QED BY <3>2, <4>2
    <3>4. GoodBuffer(g)
      BY <3>3 DEF GoodBuffer
    <3>. QED BY <3>4 DEF g
  <2>. HIDE DEF b
  <2>4. GoodBuffer(n) /\ Length(b) <= Length(n) /\ Matches(b) \subseteq Matches(n)
    <3>1. /\ GoodBuffer(Append2(b, GapNotice, <<>>)) /\ Length(b) <= Length(Append2(b, GapNotice, <<>>))
          /\ Matches(b) \subseteq Matches(Append2(b, GapNotice, <<>>))
      <4>. DEFINE g == GapNotice
                  z == <<>>
      <4>1. GoodBuffer(Text(g, z))
        BY <2>3
      <4>. HIDE DEF g, z
      <4>2. /\ GoodBuffer(Append2(b, g, z)) /\ Length(b) <= Length(Append2(b, g, z))
            /\ Matches(b) \subseteq Matches(Append2(b, g, z))
        BY <2>2, <4>1, AppendGood
      <4>. QED BY <4>2 DEF g, z
    <3>2. Length(b) <= Length(b)
      BY <2>2, Lines
    <3>. QED BY <2>2, <3>1, <3>2
  <2>. HIDE DEF n
  <2>5. GoodBuffer(d) /\ Length(n) <= Length(d) /\ Matches(n) \subseteq Matches(d)
    <3>1. GoodBuffer(Text(ring.text, ring.images))
      BY DEF PagerInv
    <3>. QED BY <2>4, <3>1, AppendGood
  <2>. HIDE DEF d
  <2>6. /\ Length(b) \in Nat /\ Length(n) \in Nat /\ Length(d) \in Nat /\ Length(b) <= Length(d)
        /\ Matches(b) \subseteq Matches(d)
    <3>1. Length(b) \in Nat /\ Length(n) \in Nat /\ Length(d) \in Nat
      BY <2>2, <2>4, <2>5, Lines
    <3>. QED BY <2>4, <2>5, <3>1
  <2>7. pager.cursor \in 0..Length(d) /\ pager.seen \in SUBSET Offsets(d)
    <3>1. pager.cursor \in 0..Length(d)
      BY <2>2, <2>6
    <3>2. Offsets(b) \subseteq Offsets(d)
      BY <2>6 DEF Offsets
    <3>. QED BY <2>2, <3>1, <3>2
  <2>8. GoodSession(d, s)
    BY <2>2, <2>6, SessionOfLonger
  <2>. HIDE DEF s, e, u
  <2>9. u = [active |-> pager.active, buffer |-> d,
             sourceEnd |-> e, cursor |-> pager.cursor, seen |-> pager.seen,
             images |-> pager.images, emitted |-> pager.emitted,
             session |-> s, reseed |-> pager.reseed, viewed |-> pager.viewed]
    BY <2>1, <2>2
  <2>10. GoodPager(u) /\ u.seen = pager.seen /\ u.viewed = pager.viewed
    BY <2>5, <2>7, <2>8, <2>9 DEF GoodPager
  <2>. QED BY <2>10 DEF u
<1>. QED BY <1>1, <1>2

(* What the marker of a gap covers was seen.                               *)
LEMMA GapSeen ==
  ASSUME NEW last, NEW first, NEW seen
  PROVE  GapMarker(last, first, seen) \subseteq seen
BY DEF GapMarker

(* handle_pager_command.                                                   *)
LEMMA HandleKeeps ==
  ASSUME PagerInv, NEW c, c = NotCommand \/ GoodCommand(c), Handle(c)
  PROVE  PagerInv'
<1>. DEFINE p == Refreshed
<1>1. GoodPager(p) /\ p.seen = pager.seen /\ p.viewed = pager.viewed
  BY RefreshedGood
<1>2. /\ ring' = IF p = pager THEN ring ELSE RingConsumed
      /\ \/ /\ c = NotCommand
            /\ pager' = p
            /\ reply' = [NoReply EXCEPT !.op = "help"]
            /\ UNCHANGED <<shown, cut>>
         \/ /\ c.op = "q"
            /\ pager' = NoPager
            /\ reply' = [NoReply EXCEPT !.op = "q"]
            /\ shown' = {} /\ cut' = {}
         \/ /\ c # NotCommand /\ c.op # "q"
            /\ \E o \in {Run(p, c)} :
                  /\ pager' = IF o.closes THEN NoPager ELSE After(p, c, o)
                  /\ reply' = Replied(p, c, o)
                  /\ cut' = cut \cup o.cut
            /\ shown' = shown \cup reply'.shown
  BY DEF Handle
<1>. HIDE DEF p
<1>3. GoodBuffer(Text(ring.text, ring.images))'
  <2>1. CASE ring' = ring
    BY <2>1 DEF PagerInv
  <2>2. CASE ring' = RingConsumed
    BY <2>2, EmptyRing
  <2>. QED BY <1>2, <2>1, <2>2
<1>4. CASE c = NotCommand /\ pager' = p /\ reply' = [NoReply EXCEPT !.op = "help"]
           /\ UNCHANGED <<shown, cut>>
  <2>1. ClaimsAreTrue' /\ PagesFollowOn'
    BY <1>4, EmptyReply
  <2>2. GoodPager(pager)' /\ (pager.seen \subseteq shown \cup cut)' /\ (pager.viewed \subseteq shown)'
    BY <1>1, <1>4 DEF PagerInv
  <2>. QED BY <1>3, <2>1, <2>2 DEF PagerInv
<1>5. CASE pager' = NoPager /\ reply' = [NoReply EXCEPT !.op = "q"] /\ shown' = {} /\ cut' = {}
  <2>1. ClaimsAreTrue' /\ PagesFollowOn'
    BY <1>5, EmptyReply
  <2>2. NoPager.seen = {} /\ NoPager.viewed = {}
    BY DEF NoPager
  <2>3. GoodPager(pager)' /\ (pager.seen \subseteq shown \cup cut)' /\ (pager.viewed \subseteq shown)'
    BY <1>5, <2>2, NoPagerGood
  <2>. QED BY <1>3, <2>1, <2>3 DEF PagerInv
<1>6. ASSUME NEW o, o = Run(p, c), c # NotCommand, c.op # "q",
             pager' = IF o.closes THEN NoPager ELSE After(p, c, o),
             reply' = Replied(p, c, o), cut' = cut \cup o.cut, shown' = shown \cup reply'.shown
      PROVE  PagerInv'
  <2>1. GoodOutcome(p, o) /\ GoodCommand(c)
    BY <1>1, <1>6, RunGood
  <2>2. /\ reply'.op = c.op /\ reply'.shown = o.take.shown \cup o.listed
        /\ reply'.claimed = o.take.elided \cup GapMarker(p.emitted, o.take.first, o.take.seen)
                              \cup ({o.card} \cap p.viewed)
        /\ reply'.early = ({o.card} \cap p.viewed) \ shown
        /\ reply'.span = <<p.cursor, o.take.cursor>>
    BY <1>6 DEF Replied
  <2>3. /\ p.seen \subseteq shown \cup cut /\ p.viewed \subseteq shown
    BY <1>1 DEF PagerInv
  <2>4. o.take.seen \subseteq shown' \cup cut'
    BY <1>6, <2>1, <2>2, <2>3 DEF GoodOutcome
  <2>5. ClaimsAreTrue'
    <3>1. GapMarker(p.emitted, o.take.first, o.take.seen) \subseteq o.take.seen
      BY GapSeen
    <3>2. o.take.elided \subseteq shown' \cup cut'
      BY <1>6, <2>1, <2>2, <2>3 DEF GoodOutcome
    <3>3. reply'.claimed \subseteq shown' \cup cut' /\ reply'.early = {}
      BY <1>6, <2>2, <2>3, <2>4, <3>1, <3>2
    <3>. QED BY <3>3 DEF ClaimsAreTrue
  <2>6. PagesFollowOn'
    <3>1. Span(reply'.span) = p.cursor..(o.take.cursor - 1) /\ reply'.span[1] = p.cursor
          /\ reply'.span[2] = o.take.cursor
      BY <2>2 DEF Span
    <3>2. ASSUME c.op = "next" PROVE /\ (p.cursor..(o.take.cursor - 1)) \subseteq o.take.seen
                                     /\ ~Crowded(p.buffer, p.cursor) /\ ~o.closes
                                           => p.cursor < o.take.cursor
      <4>1. c.n \in Nat /\ c.n > 0
        BY <2>1, <3>2 DEF GoodCommand
      <4>2. o = NextPages(p, c.n)
        BY <1>6, <3>2 DEF Run
      <4>. QED BY <1>1, <4>1, <4>2, NextPagesAdvance
    <3>3. ASSUME c.op = "a" PROVE (p.cursor..(o.take.cursor - 1)) \subseteq o.take.seen
      <4>1. o = ShowAll(p)
        BY <1>6, <3>3 DEF Run
      <4>. QED BY <1>1, <4>1, ShowAllGood
    <3>4. pager'.active => ~o.closes /\ pager'.buffer = p.buffer
      <4>1. NoPager.active = FALSE
        BY DEF NoPager
      <4>2. After(p, c, o).buffer = p.buffer
        BY <1>1, <2>1, AfterGood
      <4>. QED BY <1>6, <4>1, <4>2
    <3>. QED BY <2>2, <2>4, <3>1, <3>2, <3>3, <3>4 DEF PagesFollowOn
  <2>7. GoodPager(pager)' /\ (pager.seen \subseteq shown \cup cut)' /\ (pager.viewed \subseteq shown)'
    <3>1. CASE o.closes
      <4>1. NoPager.seen = {} /\ NoPager.viewed = {} /\ pager' = NoPager
        BY <1>6, <3>1 DEF NoPager
      <4>. QED BY <4>1, NoPagerGood
    <3>2. CASE ~o.closes
      <4>1. pager' = After(p, c, o)
        BY <1>6, <3>2
      <4>2. /\ GoodPager(After(p, c, o)) /\ After(p, c, o).seen = o.take.seen
            /\ After(p, c, o).viewed = p.viewed \cup o.views
        BY <1>1, <2>1, AfterGood
      <4>3. o.views \subseteq o.take.shown \cup o.listed
        BY <2>1 DEF GoodOutcome
      <4>4. p.viewed \cup o.views \subseteq shown'
        BY <1>6, <2>2, <2>3, <4>3
      <4>. QED BY <2>4, <4>1, <4>2, <4>4
    <3>. QED BY <3>1, <3>2
  <2>. QED BY <1>3, <2>5, <2>6, <2>7 DEF PagerInv
<1>. QED BY <1>2, <1>4, <1>5, <1>6

(* The other steps.                                                        *)
LEMMA PollKeeps ==
  ASSUME PagerInv, Poll
  PROVE  PagerInv'
<1>. DEFINE b == Text(ring.text, ring.images)
            page == SnapshotPage(b)
            opens == PagesLeft(b, page.cursor) > 0
<1>1. /\ ring' = RingConsumed /\ reply' = [NoReply EXCEPT !.op = "poll"]
      /\ pager' = IF opens THEN Activated(b, page) ELSE pager
      /\ shown' = IF opens THEN page.shown ELSE shown
      /\ cut' = IF opens THEN {} ELSE cut
  BY DEF Poll
<1>2. GoodBuffer(b)
  BY DEF PagerInv
<1>. HIDE DEF b
<1>3. page \in Takes(b) /\ Follows(b, 0, {}, page)
  <2>1. Length(b) \in Nat
    BY <1>2, Lines
  <2>2. 0 \in 0..Length(b) /\ {} \in SUBSET Offsets(b)
    BY <2>1
  <2>. QED BY <1>2, <2>2, TakePageFollows DEF SnapshotPage
<1>. HIDE DEF page, opens
<1>4. page.cursor \in 0..Length(b) /\ page.seen \in SUBSET Offsets(b) /\ page.seen = page.shown
  BY <1>3 DEF Takes, Follows
<1>5. GoodBuffer(Text(ring.text, ring.images))' /\ ClaimsAreTrue' /\ PagesFollowOn'
  BY <1>1, EmptyRing, EmptyReply
<1>6. CASE opens
  <2>. DEFINE u == Activated(b, page)
              e == RingEnd
  <2>1. u = [active |-> TRUE, buffer |-> b, sourceEnd |-> e, cursor |-> page.cursor,
             seen |-> page.seen, images |-> page.images, emitted |-> page.last,
             session |-> NoSession, reseed |-> FALSE, viewed |-> page.shown]
    <3>. DEFINE y == TRUE
                no == FALSE
                t == Text(<<>>, <<>>)
                none == {}
                p == NoPager
                c == page.cursor
                s == page.seen
                i == page.images
                l == page.last
                h == page.shown
    <3>1. p = [active |-> no, buffer |-> t, sourceEnd |-> 0, cursor |-> 0, seen |-> none,
               images |-> none, emitted |-> NoSpan, session |-> NoSession, reseed |-> no,
               viewed |-> none]
      BY DEF NoPager
    <3>2. u = [p EXCEPT !.active = y, !.buffer = b, !.sourceEnd = e, !.cursor = c, !.seen = s,
                        !.images = i, !.emitted = l, !.viewed = h]
      BY DEF Activated
    <3>. HIDE DEF y, no, t, none, p, c, s, i, l, h, e, u
    <3>3. u = [active |-> y, buffer |-> b, sourceEnd |-> e, cursor |-> c, seen |-> s,
               images |-> i, emitted |-> l, session |-> NoSession, reseed |-> no, viewed |-> h]
      BY <3>1, <3>2
    <3>. QED BY <3>3 DEF y, no, c, s, i, l, h
  <2>. HIDE DEF u, e
  <2>2. GoodSession(b, NoSession)
    BY NoSessionGood
  <2>3. GoodPager(u) /\ u.seen = page.shown /\ u.viewed = page.shown
    BY <1>2, <1>4, <2>1, <2>2 DEF GoodPager
  <2>4. pager' = u /\ shown' = page.shown
    BY <1>1, <1>6 DEF u
  <2>. QED BY <1>5, <2>3, <2>4 DEF PagerInv
<1>7. CASE ~opens
  <2>1. pager' = pager /\ shown' = shown /\ cut' = cut
    BY <1>1, <1>7
  <2>. QED BY <1>5, <2>1 DEF PagerInv
<1>. QED BY <1>6, <1>7

(* Output queued between commands.                                         *)
LEMMA ProduceKeeps ==
  ASSUME PagerInv, NEW out \in Outputs, Produce(out)
  PROVE  PagerInv'
<1>. DEFINE b == Text(ring.text, ring.images)
            o == Text(out.text, out.images)
<1>1. /\ ring' = [start |-> ring.start, text |-> Queued(out).text, images |-> Queued(out).images]
      /\ UNCHANGED <<pager, reply, shown, cut>>
  BY DEF Produce
<1>2. GoodBuffer(o)
  <2>1. /\ out.text \in Seq(STRING) /\ out.images \in Seq(0..Len(out.text))
        /\ \A i, j \in DOMAIN out.images : i <= j => out.images[i] <= out.images[j]
    BY OutputAssumption
  <2>2. Len(out.text) \in Nat
    BY <2>1
  <2>3. \A i \in DOMAIN out.images : out.images[i] \in 0..Len(out.text)
    BY <2>1
  <2>4. \A i \in DOMAIN out.images : out.images[i] \in Nat /\ out.images[i] <= Len(out.text)
    BY <2>2, <2>3
  <2>5. out.images \in Seq(Nat)
    <3>1. out.images \in [1..Len(out.images) -> 0..Len(out.text)] /\ Len(out.images) \in Nat
      BY <2>1
    <3>2. \A i \in 1..Len(out.images) : out.images[i] \in Nat
      BY <2>2, <3>1
    <3>3. out.images \in [1..Len(out.images) -> Nat]
      BY <3>1, <3>2
    <3>. QED BY <3>1, <3>3
  <2>6. o = [text |-> out.text, images |-> out.images]
    BY DEF Text
  <2>8. out.text \in Seq(Chars)
    <3>1. out.text \in [1..Len(out.text) -> STRING] /\ Len(out.text) \in Nat
      BY <2>1
    <3>2. \A c \in STRING : c \in Chars
      BY DEF Chars
    <3>3. out.text \in [1..Len(out.text) -> Chars]
      BY <3>1, <3>2
    <3>. QED BY <3>1, <3>3
  <2>. HIDE DEF o
  <2>7. o.text = out.text /\ o.images = out.images /\ o \in [text : Seq(Chars), images : Seq(Nat)]
    BY <2>8, <2>5, <2>6
  <2>. QED BY <2>1, <2>4, <2>7 DEF GoodBuffer
<1>3. GoodBuffer(b)
  BY DEF PagerInv
<1>. DEFINE q == Append2(b, out.text, out.images)
<1>. HIDE DEF b
<1>4. GoodBuffer(q)
  BY <1>2, <1>3, AppendGood
<1>5. ring'.text = q.text /\ ring'.images = q.images
  BY <1>1 DEF Queued, b
<1>. HIDE DEF q
<1>6. GoodBuffer(Text(ring'.text, ring'.images))
  <2>1. Text(q.text, q.images) = q
    BY <1>4 DEF GoodBuffer, Text
  <2>. QED BY <1>4, <1>5, <2>1
<1>7. ClaimsAreTrue' /\ PagesFollowOn'
  BY <1>1 DEF PagerInv, ClaimsAreTrue, PagesFollowOn
<1>. QED BY <1>1, <1>6, <1>7 DEF PagerInv

(* Every step keeps the invariant.                                         *)
LEMMA PagerStep ==
  ASSUME PagerInv, [Next]_vars
  PROVE  PagerInv'
<1>1. ASSUME NEW out \in Outputs, Produce(out) PROVE PagerInv'
  BY <1>1, ProduceKeeps
<1>2. ASSUME NEW i \in Inputs, Command(i) PROVE PagerInv'
  <2>1. Handle(Parse(i))
    BY <1>2 DEF Command
  <2>2. Parse(i) = NotCommand \/ GoodCommand(Parse(i))
    BY <1>2, ParseGood
  <2>. QED BY <2>1, <2>2, HandleKeeps
<1>3. CASE EmptyInput
  <2>1. CASE Poll
    BY <2>1, PollKeeps
  <2>2. CASE Handle([op |-> "next", n |-> 1, unit |-> ""])
    <3>. DEFINE c == [op |-> "next", n |-> 1, unit |-> ""]
    <3>1. c.op = "next" /\ c.n = 1 /\ Handle(c)
      BY <2>2
    <3>. HIDE DEF c
    <3>2. GoodCommand(c)
      BY <3>1 DEF GoodCommand
    <3>. QED BY <3>1, <3>2, HandleKeeps
  <2>. QED BY <1>3, <2>1, <2>2 DEF EmptyInput
<1>4. CASE BackendInput
  <2>1. /\ pager' = NoPager /\ shown' = {} /\ cut' = {} /\ ring' = ring
        /\ reply' = [NoReply EXCEPT !.op = "q"]
    BY <1>4 DEF BackendInput
  <2>2. ClaimsAreTrue' /\ PagesFollowOn'
    BY <2>1, EmptyReply
  <2>3. NoPager.seen = {} /\ NoPager.viewed = {}
    BY DEF NoPager
  <2>. QED BY <2>1, <2>2, <2>3, NoPagerGood DEF PagerInv
<1>5. CASE UNCHANGED vars
  BY <1>5 DEF PagerInv, ClaimsAreTrue, PagesFollowOn, vars
<1>. QED BY <1>1, <1>2, <1>3, <1>4, <1>5 DEF Next

(* What the pager leaves out as already shown, a reply of this pager has   *)
(* held, or the rest of a long line that :hits has listed, and a hit that  *)
(* a card calls shown earlier an earlier reply has held.                   *)
THEOREM ClaimsCorrect == Spec => []ClaimsAreTrue
<1>1. PagerInv => ClaimsAreTrue
  BY DEF PagerInv
<1>. QED BY <1>1, PagerInit, PagerStep, PTL DEF Spec

(* Paging on with :next, empty input or :a passes over nothing that no     *)
(* reply has held, and a :next that leaves the pager open advances.        *)
THEOREM PagesCorrect == Spec => []PagesFollowOn
<1>1. PagerInv => PagesFollowOn
  BY DEF PagerInv
<1>. QED BY <1>1, PagerInit, PagerStep, PTL DEF Spec
=============================================================================
