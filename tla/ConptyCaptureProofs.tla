-------------------------- MODULE ConptyCaptureProofs --------------------------
(***************************************************************************)
(* Proofs about ConptyCapture, for every raw and IPC script, every cut of  *)
(* the raw bytes into reads and every order of the three threads.          *)
(***************************************************************************)
EXTENDS ConptyCapture, TLAPS, WellFoundedInduction, FiniteSetTheorems, SequenceTheorems

-----------------------------------------------------------------------------
(***************************************************************************)
(* Numbers and loops.                                                      *)
(***************************************************************************)

(* A nonempty set of numbers has a least one.                              *)
LEMMA LeastNumber ==
  ASSUME NEW T \in SUBSET Nat, T # {}
  PROVE  \E k \in T : \A m \in T : k <= m
<1>. DEFINE R == {ss \in Nat \X Nat : ss[1] < ss[2]}
<1>1. IsWellFoundedOn(R, Nat)
  BY NatLessThanWellFounded DEF OpToRel
<1>. HIDE DEF R
<1>2. PICK k \in T : \A m \in T : ~(<<m, k>> \in R)
  BY <1>1, WFMin
<1>3. k \in Nat /\ \A m \in T : m \in Nat /\ ~(m < k)
  BY <1>2 DEF R
<1>. QED BY <1>3

(* Induction: a set of numbers that is closed under successor and holds    *)
(* zero is all of them.                                                    *)
LEMMA Counting ==
  ASSUME NEW T \in SUBSET Nat, 0 \in T, \A k \in T : k + 1 \in T
  PROVE  T = Nat
<1>1. SUFFICES ASSUME Nat \ T # {} PROVE FALSE
  OBVIOUS
<1>2. PICK k \in Nat \ T : \A m \in Nat \ T : k <= m
  BY <1>1, LeastNumber
<1>3. k # 0 /\ k - 1 \in Nat
  BY <1>2
<1>4. k - 1 \in T
  BY <1>2, <1>3
<1>5. (k - 1) + 1 \in T
  BY <1>4
<1>. QED BY <1>2, <1>3, <1>5

(* A loop whose rounds stay in a set V has the function of its rounds.     *)
LEMMA LoopExists ==
  ASSUME NEW V, NEW v \in V, NEW S \in [V -> V]
  PROVE  \E r \in [Nat -> V] : r = [k \in Nat |-> IF k = 0 THEN v ELSE S[r[k - 1]]]
<1>. DEFINE Begins(n, g) == /\ g \in [0..n -> V] /\ g[0] = v
                           /\ \A k \in 1..n : g[k] = S[g[k - 1]]
            T == {n \in Nat : \E g : Begins(n, g)}
            U == {n \in Nat : \A g, h : \A m \in Nat, l \in Nat :
                     Begins(m, g) /\ Begins(l, h) /\ n <= m /\ n <= l => g[n] = h[n]}
            F == [n \in Nat |-> (CHOOSE g : Begins(n, g))[n]]
<1>1. T = Nat
  <2>1. 0 \in T
    <3>1. Begins(0, [i \in 0..0 |-> v])
      OBVIOUS
    <3>. QED BY <3>1
  <2>2. ASSUME NEW k \in T PROVE k + 1 \in T
    <3>1. PICK g : Begins(k, g)
      BY <2>2
    <3>. DEFINE h == [i \in 0..(k + 1) |-> IF i = k + 1 THEN S[g[k]] ELSE g[i]]
    <3>2. k \in Nat /\ g[k] \in V
      BY <3>1
    <3>3. h \in [0..(k + 1) -> V]
      BY <3>1, <3>2
    <3>4. h[0] = v
      BY <3>1, <3>2
    <3>5. ASSUME NEW i \in 1..(k + 1) PROVE h[i] = S[h[i - 1]]
      BY <3>1, <3>2
    <3>6. Begins(k + 1, h)
      BY <3>3, <3>4, <3>5
    <3>. HIDE DEF h, Begins
    <3>. QED BY <3>6, <3>2
  <2>. HIDE DEF T
  <2>3. T \in SUBSET Nat
    BY DEF T
  <2>. QED BY <2>1, <2>2, <2>3, Counting
<1>2. U = Nat
  <2>1. 0 \in U
    <3>1. ASSUME NEW g, NEW h, NEW m \in Nat, NEW l \in Nat, Begins(m, g), Begins(l, h)
          PROVE  g[0] = h[0]
      BY <3>1
    <3>. HIDE DEF Begins
    <3>. QED BY <3>1
  <2>2. ASSUME NEW k \in U PROVE k + 1 \in U
    <3>1. SUFFICES ASSUME NEW g, NEW h, NEW m \in Nat, NEW l \in Nat,
                          Begins(m, g), Begins(l, h), k + 1 <= m, k + 1 <= l
                   PROVE  g[k + 1] = h[k + 1]
      <4>. HIDE DEF Begins
      <4>. QED BY <2>2
    <3>2. k \in Nat /\ k <= m /\ k <= l
      BY <3>1
    <3>3. g[k] = h[k]
      <4>. HIDE DEF Begins
      <4>. QED BY <2>2, <3>1, <3>2
    <3>4. k + 1 \in 1..m /\ k + 1 \in 1..l /\ (k + 1) - 1 = k
      BY <3>1, <3>2
    <3>. QED BY <3>1, <3>3, <3>4
  <2>. HIDE DEF U
  <2>3. U \in SUBSET Nat
    BY DEF U
  <2>. QED BY <2>1, <2>2, <2>3, Counting
<1>3. \A n \in Nat : Begins(n, CHOOSE g : Begins(n, g))
  BY <1>1
<1>4. \A n \in Nat : F[n] \in V
  BY <1>3
<1>5. ASSUME NEW n \in Nat PROVE F[n] = IF n = 0 THEN v ELSE S[F[n - 1]]
  <2>1. CASE n = 0
    BY <1>3, <2>1
  <2>2. CASE n # 0
    <3>. DEFINE g == CHOOSE g : Begins(n, g)
                h == CHOOSE h : Begins(n - 1, h)
    <3>1. n - 1 \in Nat /\ n - 1 <= n /\ n \in 1..n
      BY <2>2
    <3>2. Begins(n, g) /\ Begins(n - 1, h)
      BY <1>3, <3>1
    <3>3. n - 1 \in U
      BY <1>2, <3>1
    <3>4. g[n - 1] = h[n - 1]
      <4>. HIDE DEF Begins, g, h
      <4>. QED BY <3>1, <3>2, <3>3
    <3>5. g[n] = S[g[n - 1]]
      BY <3>1, <3>2
    <3>6. F[n] = g[n] /\ F[n - 1] = h[n - 1]
      <4>. HIDE DEF Begins
      <4>. QED BY <3>1
    <3>. QED BY <2>2, <3>4, <3>5, <3>6
  <2>. QED BY <2>1, <2>2
<1>. HIDE DEF F
<1>6. F \in [Nat -> V]
  BY <1>4 DEF F
<1>7. F = [k \in Nat |-> IF k = 0 THEN v ELSE S[F[k - 1]]]
  BY <1>5, <1>6
<1>. QED BY <1>6, <1>7

-----------------------------------------------------------------------------
(***************************************************************************)
(* Sequences, element by element.                                          *)
(***************************************************************************)

(* Two sequences with the same elements are the same.                      *)
LEMMA SameSeq ==
  ASSUME NEW S, NEW s \in Seq(S), NEW t \in Seq(S), Len(s) = Len(t),
         \A i \in 1..Len(s) : s[i] = t[i]
  PROVE  s = t
<1>1. s \in [1..Len(s) -> S] /\ t \in [1..Len(s) -> S]
  OBVIOUS
<1>. QED BY <1>1

(* SubSeq within a sequence.                                               *)
LEMMA Piecewise ==
  ASSUME NEW S, NEW s \in Seq(S), NEW m \in Nat, NEW n \in Nat, 1 <= m, n <= Len(s), m <= n + 1
  PROVE  /\ SubSeq(s, m, n) \in Seq(S)
         /\ Len(SubSeq(s, m, n)) = n - m + 1
         /\ \A i \in 1..(n - m + 1) : SubSeq(s, m, n)[i] = s[m + i - 1]
<1>1. \A i \in m..n : s[i] \in S
  OBVIOUS
<1>2. /\ SubSeq(s, m, n) \in Seq(S)
      /\ Len(SubSeq(s, m, n)) = IF m <= n THEN n - m + 1 ELSE 0
      /\ \A i \in 1..(n - m + 1) : SubSeq(s, m, n)[i] = s[m + i - 1]
  BY <1>1, SubSeqProperties
<1>. QED BY <1>2

(* What a prefix is.                                                       *)
LEMMA PrefixMeans ==
  ASSUME NEW S, NEW p \in Seq(S), NEW s \in Seq(S)
  PROVE  IsPrefix(p, s) <=> Len(p) <= Len(s) /\ \A i \in 1..Len(p) : p[i] = s[i]
<1>. DEFINE n == Len(p)
<1>1. n \in Nat /\ Len(s) \in Nat
  OBVIOUS
<1>2. SubSeq(p, 1, n) \in Seq(S) /\ Len(SubSeq(p, 1, n)) = n
      /\ \A i \in 1..n : SubSeq(p, 1, n)[i] = p[i]
  BY <1>1, Piecewise
<1>3. ASSUME n <= Len(s)
      PROVE  /\ SubSeq(s, 1, n) \in Seq(S) /\ Len(SubSeq(s, 1, n)) = n
             /\ \A i \in 1..n : SubSeq(s, 1, n)[i] = s[i]
  BY <1>1, <1>3, Piecewise
<1>4. ASSUME n <= Len(s), \A i \in 1..n : p[i] = s[i]
      PROVE  SubSeq(p, 1, n) = SubSeq(s, 1, n)
  <2>. DEFINE a == SubSeq(p, 1, n)
              b == SubSeq(s, 1, n)
  <2>1. /\ a \in Seq(S) /\ b \in Seq(S) /\ Len(a) = Len(b)
        /\ \A i \in 1..Len(a) : a[i] = b[i]
    BY <1>2, <1>3, <1>4
  <2>. HIDE DEF a, b
  <2>2. a = b
    BY <2>1, SameSeq
  <2>. QED BY <2>2 DEF a, b
<1>5. ASSUME n <= Len(s), SubSeq(p, 1, n) = SubSeq(s, 1, n), NEW i \in 1..n
      PROVE  p[i] = s[i]
  BY <1>2, <1>3, <1>5
<1>. QED BY <1>4, <1>5 DEF IsPrefix

(* Least and Most pick a bound of the set.                                 *)
LEMMA LeastBound ==
  ASSUME NEW S \in SUBSET Nat, S # {}
  PROVE  Least(S) \in S /\ \A y \in S : Least(S) <= y
<1>1. \E x \in S : \A y \in S : x <= y
  BY LeastNumber
<1>. QED BY <1>1 DEF Least

(* The same for Most, with a bound of the set.                             *)
LEMMA MostBound ==
  ASSUME NEW S \in SUBSET Int, S # {}, NEW N \in Int, \A y \in S : y <= N
  PROVE  Most(S) \in S /\ \A y \in S : Most(S) >= y
<1>. DEFINE T == {N - y : y \in S}
<1>1. T \in SUBSET Nat /\ T # {}
  <2>1. \A y \in S : y \in Int /\ y <= N /\ N - y \in Nat
    OBVIOUS
  <2>. QED BY <2>1
<1>2. PICK k \in T : \A m \in T : k <= m
  <2>. HIDE DEF T
  <2>. QED BY <1>1, LeastNumber
<1>3. PICK x \in S : k = N - x
  BY <1>2
<1>4. \A y \in S : x >= y
  <2>1. ASSUME NEW y \in S PROVE x >= y
    <3>1. N - y \in T /\ y \in Int /\ x \in Int
      BY <2>1, <1>3
    <3>2. N - x <= N - y
      BY <1>2, <1>3, <3>1
    <3>. QED BY <3>1, <3>2
  <2>. QED BY <2>1
<1>5. \E z \in S : \A y \in S : z >= y
  BY <1>3, <1>4
<1>. QED BY <1>5 DEF Most

(* The last of a bounded set of numbers that holds its bound.              *)
LEMMA MostIs ==
  ASSUME NEW S \in SUBSET Int, NEW N \in S, \A y \in S : y <= N
  PROVE  Most(S) = N
<1>1. Most(S) \in S /\ Most(S) >= N /\ N \in Int
  BY MostBound
<1>2. Most(S) \in Int /\ Most(S) <= N
  BY <1>1
<1>. QED BY <1>1, <1>2

-----------------------------------------------------------------------------
(***************************************************************************)
(* Matches: a complete match is a match of exactly its own bytes.          *)
(***************************************************************************)

Chars == STRING \cup {"e", "h", "j", "s", "o", "t", "m", "f", "b", "n", "r"}
Texts == Seq(Chars)

(* Texts one after the other.                                              *)
LEMMA JoinedTexts ==
  ASSUME NEW s \in Texts, NEW t \in Texts
  PROVE  /\ s \o t \in Texts /\ Len(s \o t) = Len(s) + Len(t)
         /\ \A i \in 1..(Len(s) + Len(t)) :
               (s \o t)[i] = IF i <= Len(s) THEN s[i] ELSE t[i - Len(s)]
  BY ConcatProperties DEF Texts

(* The frames of the filter.                                               *)
LEMMA Frames ==
  /\ StartupModes \in Texts /\ Len(StartupModes) = 4
  /\ Start \in Texts /\ Len(Start) = 2
  /\ BareSimple \in Texts /\ Len(BareSimple) = 4
  /\ BareTitled \in Texts /\ Len(BareTitled) = 4
  /\ ModesOff \in Texts /\ Len(ModesOff) = 2
  /\ LfPrefixed \in Texts /\ Len(LfPrefixed) = 5
  /\ Simple \in Texts /\ Len(Simple) = 6
  /\ Titled \in Texts /\ Len(Titled) = 8
  /\ TitledSuffix \in Texts /\ Len(TitledSuffix) = 3 /\ TitledSuffix[1] = "b"
<1>1. /\ "e" \in Chars /\ "h" \in Chars /\ "j" \in Chars /\ "s" \in Chars /\ "o" \in Chars
      /\ "t" \in Chars /\ "m" \in Chars /\ "f" \in Chars /\ "b" \in Chars /\ "n" \in Chars
  BY DEF Chars
<1>2. \A x, y \in Chars : <<x, y>> \in Texts /\ Len(<<x, y>>) = 2
  BY DEF Texts
<1>3. \A x, y, z, w \in Chars : <<x, y, z, w>> \in Texts /\ Len(<<x, y, z, w>>) = 4
  BY DEF Texts
<1>4. \A x, y, z \in Chars : <<x, y, z>> \in Texts /\ Len(<<x, y, z>>) = 3 /\ <<x, y, z>>[1] = x
  BY DEF Texts
<1>5. \A x \in Chars : <<x>> \in Texts /\ Len(<<x>>) = 1
  BY DEF Texts
<1>7. StartupModes \in Texts /\ Len(StartupModes) = 4 /\ BareSimple \in Texts /\ Len(BareSimple) = 4
      /\ BareTitled \in Texts /\ Len(BareTitled) = 4
  BY <1>1, <1>3 DEF StartupModes, BareSimple, BareTitled
<1>8. Start \in Texts /\ Len(Start) = 2 /\ ModesOff \in Texts /\ Len(ModesOff) = 2
  BY <1>1, <1>2 DEF Start, ModesOff
<1>9. TitledSuffix \in Texts /\ Len(TitledSuffix) = 3 /\ TitledSuffix[1] = "b"
  BY <1>1, <1>4 DEF TitledSuffix
<1>. DEFINE x == <<"n">>
            y == Start
            z == BareSimple
            w == BareTitled
            o == ModesOff
<1>15. x \in Texts /\ y \in Texts /\ z \in Texts /\ w \in Texts /\ o \in Texts
  BY <1>1, <1>5, <1>7, <1>8
<1>10. Len(x) = 1 /\ Len(y) = 2 /\ Len(z) = 4 /\ Len(w) = 4 /\ Len(o) = 2
  BY <1>1, <1>5, <1>7, <1>8
<1>11. LfPrefixed = x \o z /\ Simple = y \o z /\ Titled = (y \o o) \o w
  BY DEF LfPrefixed, Simple, Titled
<1>. HIDE DEF x, y, z, w, o
<1>12. /\ x \o z \in Texts /\ Len(x \o z) = Len(x) + Len(z)
       /\ y \o z \in Texts /\ Len(y \o z) = Len(y) + Len(z)
       /\ y \o o \in Texts /\ Len(y \o o) = Len(y) + Len(o)
  BY <1>15, JoinedTexts
<1>13. (y \o o) \o w \in Texts /\ Len((y \o o) \o w) = Len(y \o o) + Len(w)
  BY <1>15, <1>12, JoinedTexts
<1>14. /\ Len(x \o z) = 5 /\ Len(y \o z) = 6 /\ Len(y \o o) = 4 /\ Len((y \o o) \o w) = 8
  BY <1>10, <1>12, <1>13
<1>. QED BY <1>7, <1>8, <1>9, <1>11, <1>12, <1>13, <1>14

(* None of them is empty.                                                  *)
LEMMA FramesHaveBytes ==
  /\ Start # <<>> /\ BareSimple # <<>> /\ BareTitled # <<>> /\ ModesOff # <<>>
  /\ LfPrefixed # <<>> /\ Simple # <<>> /\ Titled # <<>>
<1>1. \A s : Len(s) > 0 => s # <<>>
  OBVIOUS
<1>2. /\ Len(Start) > 0 /\ Len(BareSimple) > 0 /\ Len(BareTitled) > 0 /\ Len(ModesOff) > 0
      /\ Len(LfPrefixed) > 0 /\ Len(Simple) > 0 /\ Len(Titled) > 0
  BY Frames
<1>. QED BY <1>1, <1>2

\* A matcher's answer n for s: no more than s, and the same for its first n.
Matched(n, s, m) == n \in -1..Len(s) /\ (n > 0 => m = n)

(* The whole of a text, and its beginnings.                                *)
LEMMA Beginnings ==
  ASSUME NEW s \in Texts, NEW n \in 0..Len(s)
  PROVE  /\ SubSeq(s, 1, n) \in Texts /\ Len(SubSeq(s, 1, n)) = n
         /\ \A i \in 1..n : SubSeq(s, 1, n)[i] = s[i]
<1>1. n \in Nat /\ Len(s) \in Nat /\ n <= Len(s) /\ 1 <= n + 1
  BY DEF Texts
<1>2. /\ SubSeq(s, 1, n) \in Texts /\ Len(SubSeq(s, 1, n)) = n - 1 + 1
      /\ \A i \in 1..(n - 1 + 1) : SubSeq(s, 1, n)[i] = s[1 + i - 1]
  BY <1>1, Piecewise DEF Texts
<1>. QED BY <1>1, <1>2

(* The match of a fixed frame.                                             *)
LEMMA FixedMatches ==
  ASSUME NEW s \in Texts, NEW frame \in Texts, frame # <<>>
  PROVE  Matched(FixedMatch(s, frame), s, FixedMatch(SubSeq(s, 1, FixedMatch(s, frame)), frame))
<1>1. Len(s) \in Nat /\ Len(frame) \in Nat /\ Len(frame) > 0
  BY DEF Texts
<1>2. CASE IsPrefix(frame, s)
  <2>. DEFINE n == Len(frame)
              u == SubSeq(s, 1, n)
  <2>1. FixedMatch(s, frame) = n /\ n \in 0..Len(s) /\ \A i \in 1..n : frame[i] = s[i]
    BY <1>1, <1>2, PrefixMeans DEF FixedMatch, Texts
  <2>2. u \in Texts /\ Len(u) = n /\ \A i \in 1..n : u[i] = s[i]
    BY <2>1, Beginnings
  <2>. HIDE DEF u
  <2>3. IsPrefix(frame, u)
    BY <1>1, <2>1, <2>2, PrefixMeans DEF Texts
  <2>4. FixedMatch(u, frame) = n
    BY <2>3 DEF FixedMatch
  <2>. QED BY <1>1, <2>1, <2>4 DEF Matched, u
<1>3. CASE ~IsPrefix(frame, s)
  <2>1. FixedMatch(s, frame) \in {-1, 0}
    BY <1>3 DEF FixedMatch
  <2>. QED BY <1>1, <2>1 DEF Matched
<1>. QED BY <1>2, <1>3

(* A frame with a title ends at the first BEL.                             *)
LEMMA TitledMatches ==
  ASSUME NEW s \in Texts, NEW p \in Texts, p # <<>>
  PROVE  Matched(TitledMatch(s, p), s, TitledMatch(SubSeq(s, 1, TitledMatch(s, p)), p))
<1>. DEFINE k == Len(p)
            rest == From(s, k + 1)
            bels == {i \in 1..Len(rest) : rest[i] = "b"}
            bel == IF bels # {} THEN Min(bels) ELSE 0
            n == TitledMatch(s, p)
<1>1. Len(s) \in Nat /\ k \in Nat /\ k > 0 /\ MaxTitle \in Nat
  BY TitleAssumption DEF Texts
<1>2. CASE IsPrefix(s, p) \/ ~IsPrefix(p, s)
  <2>1. n \in {-1, 0}
    BY <1>2 DEF TitledMatch
  <2>. QED BY <1>1, <2>1 DEF Matched
<1>3. CASE ~IsPrefix(s, p) /\ IsPrefix(p, s)
  <2>1. k <= Len(s) /\ \A i \in 1..k : p[i] = s[i]
    BY <1>3, PrefixMeans DEF Texts
  <2>2. /\ rest \in Texts /\ Len(rest) = Len(s) - k
        /\ \A i \in 1..(Len(s) - k) : rest[i] = s[k + i]
    <3>1. k + 1 \in Nat /\ 1 <= k + 1 /\ Len(s) <= Len(s) /\ k + 1 <= Len(s) + 1
      BY <1>1, <2>1
    <3>2. /\ SubSeq(s, k + 1, Len(s)) \in Seq(Chars)
          /\ Len(SubSeq(s, k + 1, Len(s))) = Len(s) - (k + 1) + 1
          /\ \A i \in 1..(Len(s) - (k + 1) + 1) : SubSeq(s, k + 1, Len(s))[i] = s[(k + 1) + i - 1]
      BY <1>1, <3>1, Piecewise DEF Texts
    <3>. QED BY <1>1, <3>2 DEF From, Texts
  <2>3. n = TitleMatch(rest, bel, k)
    BY <1>3 DEF TitledMatch, SelectInSeq
  <2>. HIDE DEF rest
  <2>4. CASE bels = {}
    <3>1. n \in {-1, 0}
      BY <2>3, <2>4 DEF TitleMatch
    <3>. QED BY <1>1, <3>1 DEF Matched
  <2>5. CASE bels # {}
    <3>1. bels \in SUBSET Nat
      BY <1>1, <2>1, <2>2
    <3>2. PICK l \in bels : \A y \in bels : l <= y
      <4>. HIDE DEF bels
      <4>. QED BY <2>5, <3>1, LeastNumber
    <3>3. bel \in bels /\ \A y \in bels : bel <= y
      <4>. HIDE DEF bels
      <4>. QED BY <2>5, <3>2 DEF Min
    <3>4. bel \in 1..(Len(s) - k) /\ rest[bel] = "b" /\ bel > 0
      BY <1>1, <2>1, <2>2, <3>3
    <3>5. \A i \in 1..(Len(s) - k) : rest[i] = "b" => bel <= i
      BY <1>1, <2>1, <2>2, <3>3
    <3>. HIDE DEF bels, bel
    <3>. DEFINE suffix == From(rest, bel)
    <3>6. /\ suffix \in Texts /\ Len(suffix) = Len(s) - k - bel + 1
          /\ \A i \in 1..(Len(s) - k - bel + 1) : suffix[i] = rest[bel + i - 1]
      <4>1. /\ bel \in Nat /\ 1 <= bel /\ Len(rest) \in Nat /\ Len(rest) <= Len(rest)
            /\ bel <= Len(rest) + 1
        BY <1>1, <2>1, <2>2, <3>4
      <4>2. /\ SubSeq(rest, bel, Len(rest)) \in Seq(Chars)
            /\ Len(SubSeq(rest, bel, Len(rest))) = Len(rest) - bel + 1
            /\ \A i \in 1..(Len(rest) - bel + 1) : SubSeq(rest, bel, Len(rest))[i] = rest[bel + i - 1]
        BY <2>2, <4>1, Piecewise DEF Texts
      <4>. QED BY <2>2, <4>2 DEF From, Texts
    <3>7. n = EndedMatch(bel - 1, suffix, k)
      BY <2>3, <3>4 DEF TitleMatch
    <3>. HIDE DEF suffix
    <3>8. CASE bel - 1 > MaxTitle \/ ~IsPrefix(TitledSuffix, suffix)
      <4>1. n \in {-1, 0}
        BY <3>7, <3>8 DEF EndedMatch
      <4>. QED BY <1>1, <4>1 DEF Matched
    <3>9. CASE ~(bel - 1 > MaxTitle) /\ IsPrefix(TitledSuffix, suffix)
      <4>1. n = k + (bel - 1) + 3
        BY <3>7, <3>9, Frames DEF EndedMatch
      <4>2. 3 <= Len(suffix) /\ \A i \in 1..3 : TitledSuffix[i] = suffix[i]
        <5>1. TitledSuffix \in Texts /\ suffix \in Texts
          BY <3>6, Frames
        <5>2. /\ Len(TitledSuffix) <= Len(suffix)
              /\ \A i \in 1..Len(TitledSuffix) : TitledSuffix[i] = suffix[i]
          BY <3>9, <5>1, PrefixMeans DEF Texts
        <5>. QED BY <5>2, Frames
      <4>3. n \in 0..Len(s) /\ n = k + bel + 2 /\ n > k /\ bel \in Nat
        BY <1>1, <2>1, <3>4, <3>6, <4>1, <4>2
      <4>. DEFINE u == SubSeq(s, 1, n)
                  rest2 == From(u, k + 1)
                  bels2 == {i \in 1..Len(rest2) : rest2[i] = "b"}
                  bel2 == IF bels2 # {} THEN Min(bels2) ELSE 0
                  suffix2 == From(rest2, bel)
      <4>. HIDE DEF n
      <4>4. u \in Texts /\ Len(u) = n /\ \A i \in 1..n : u[i] = s[i]
        BY <4>3, Beginnings
      <4>5. TitledMatch(u, p) = TitleMatch(rest2, bel2, k)
        <5>. HIDE DEF u
        <5>1. ~IsPrefix(u, p) /\ IsPrefix(p, u)
          BY <1>1, <2>1, <4>3, <4>4, PrefixMeans DEF Texts
        <5>. QED BY <5>1 DEF TitledMatch, SelectInSeq
      <4>. HIDE DEF u
      <4>6. /\ rest2 \in Texts /\ Len(rest2) = bel + 2
            /\ \A i \in 1..(bel + 2) : rest2[i] = rest[i]
        <5>1. k + 1 \in Nat /\ 1 <= k + 1 /\ n \in Nat /\ n <= Len(u) /\ k + 1 <= n + 1
          BY <1>1, <4>3, <4>4
        <5>2. /\ SubSeq(u, k + 1, n) \in Seq(Chars)
              /\ Len(SubSeq(u, k + 1, n)) = n - (k + 1) + 1
              /\ \A i \in 1..(n - (k + 1) + 1) : SubSeq(u, k + 1, n)[i] = u[(k + 1) + i - 1]
          BY <4>4, <5>1, Piecewise DEF Texts
        <5>3. rest2 = SubSeq(u, k + 1, n)
          BY <4>4 DEF From
        <5>. HIDE DEF rest2
        <5>4. \A i \in 1..(bel + 2) : /\ (k + 1) + i - 1 = k + i /\ k + i \in 1..n /\ i \in 1..(Len(s) - k)
                                      /\ i \in 1..(n - (k + 1) + 1)
          BY <1>1, <4>3
        <5>5. n - (k + 1) + 1 = bel + 2
          BY <1>1, <4>3
        <5>. QED BY <2>2, <4>4, <5>2, <5>3, <5>4, <5>5 DEF Texts
      <4>. HIDE DEF rest2
      <4>7. bel2 = bel
        <5>1. bel \in bels2 /\ \A y \in bels2 : bel <= y
          <6>1. \A i \in 1..(bel + 2) : i \in 1..(Len(s) - k)
            BY <1>1, <4>3
          <6>2. bel \in 1..(bel + 2) /\ Len(rest2) = bel + 2
            BY <3>4, <4>6
          <6>. QED BY <3>4, <3>5, <4>6, <6>1, <6>2
        <5>2. \A y \in bels2 : y \in Nat
          BY <4>3, <4>6
        <5>. HIDE DEF bels2
        <5>3. Min(bels2) \in bels2 /\ \A y \in bels2 : Min(bels2) <= y
          BY <5>1 DEF Min
        <5>4. Min(bels2) <= bel /\ bel <= Min(bels2) /\ Min(bels2) \in Nat
          BY <5>1, <5>2, <5>3
        <5>. QED BY <4>3, <5>1, <5>4
      <4>8. /\ suffix2 \in Texts /\ Len(suffix2) = 3
            /\ \A i \in 1..3 : suffix2[i] = rest2[bel + i - 1]
        <5>1. bel \in Nat /\ 1 <= bel /\ bel + 2 \in Nat /\ bel + 2 <= Len(rest2) /\ bel <= (bel + 2) + 1
          BY <3>4, <4>6
        <5>2. /\ SubSeq(rest2, bel, bel + 2) \in Seq(Chars)
              /\ Len(SubSeq(rest2, bel, bel + 2)) = (bel + 2) - bel + 1
              /\ \A i \in 1..((bel + 2) - bel + 1) : SubSeq(rest2, bel, bel + 2)[i] = rest2[bel + i - 1]
          BY <4>6, <5>1, Piecewise DEF Texts
        <5>3. (bel + 2) - bel + 1 = 3
          BY <5>1
        <5>. QED BY <4>6, <5>2, <5>3 DEF From, Texts
      <4>. HIDE DEF suffix2, bel2
      <4>9. IsPrefix(TitledSuffix, suffix2)
        <5>1. \A i \in 1..3 : bel + i - 1 \in 1..(bel + 2) /\ i \in 1..(Len(s) - k - bel + 1)
          <6>1. \A c, m, x \in Nat : 1 <= x /\ 3 <= c - m - x + 1 =>
                   \A i \in 1..3 : x + i - 1 \in 1..(x + 2) /\ i \in 1..(c - m - x + 1)
            OBVIOUS
          <6>2. 3 <= Len(s) - k - bel + 1
            BY <3>6, <4>2
          <6>. QED BY <1>1, <3>4, <4>3, <6>1, <6>2
        <5>2. \A i \in 1..3 : TitledSuffix[i] = suffix2[i]
          BY <3>6, <4>2, <4>6, <4>8, <5>1
        <5>3. TitledSuffix \in Texts /\ suffix2 \in Texts
          BY <4>8, Frames
        <5>4. /\ Len(TitledSuffix) <= Len(suffix2)
              /\ \A i \in 1..Len(TitledSuffix) : TitledSuffix[i] = suffix2[i]
          BY <4>8, <5>2, Frames
        <5>. QED BY <5>3, <5>4, PrefixMeans DEF Texts
      <4>10. TitledMatch(u, p) = n
        <5>1. TitleMatch(rest2, bel, k) = EndedMatch(bel - 1, suffix2, k)
          BY <3>4 DEF TitleMatch, suffix2
        <5>2. EndedMatch(bel - 1, suffix2, k) = k + (bel - 1) + 3
          BY <3>9, <4>9, Frames DEF EndedMatch
        <5>. QED BY <4>1, <4>5, <4>7, <5>1, <5>2
      <4>11. Matched(n, s, TitledMatch(u, p))
        BY <1>1, <4>3, <4>10 DEF Matched
      <4>. QED BY <4>11 DEF u, n
    <3>. QED BY <3>8, <3>9
  <2>. QED BY <2>4, <2>5
<1>. QED BY <1>2, <1>3

(* The match of a bare repaint, with or without a title.                   *)
LEMMA BareMatches ==
  ASSUME NEW s \in Texts
  PROVE  Matched(BareMatch(s), s, BareMatch(SubSeq(s, 1, BareMatch(s))))
<1>. DEFINE x == FixedMatch(s, BareSimple)
            y == TitledMatch(s, BareTitled)
            n == BareMatch(s)
            u == SubSeq(s, 1, n)
            x2 == FixedMatch(u, BareSimple)
            y2 == TitledMatch(u, BareTitled)
<1>0. BareSimple \in Texts /\ BareSimple # <<>> /\ BareTitled \in Texts /\ BareTitled # <<>>
  BY Frames, FramesHaveBytes
<1>1. Len(s) \in Nat
  BY DEF Texts
<1>2. Matched(x, s, FixedMatch(SubSeq(s, 1, x), BareSimple))
  BY <1>0, FixedMatches
<1>3. Matched(y, s, TitledMatch(SubSeq(s, 1, y), BareTitled))
  BY <1>0, TitledMatches
<1>4. x \in -1..Len(s) /\ y \in -1..Len(s)
  BY <1>2, <1>3 DEF Matched
<1>5. n = Most({x, y})
  BY DEF BareMatch
<1>6. n \in {x, y}
  <2>. HIDE DEF x, y
  <2>1. {x, y} \in SUBSET Int /\ {x, y} # {} /\ Len(s) \in Int /\ \A z \in {x, y} : z <= Len(s)
    BY <1>1, <1>4
  <2>. QED BY <1>5, <2>1, MostBound
<1>7. n \in -1..Len(s)
  BY <1>4, <1>6
<1>8. ASSUME n > 0 PROVE BareMatch(u) = n
  <2>1. n \in 0..Len(s)
    BY <1>1, <1>7, <1>8
  <2>2. u \in Texts /\ Len(u) = n
    <3>. HIDE DEF n
    <3>. QED BY <2>1, Beginnings
  <2>3. n = x => x2 = n
    BY <1>2, <1>8 DEF Matched
  <2>4. n = y => y2 = n
    BY <1>3, <1>8 DEF Matched
  <2>. HIDE DEF u
  <2>5. x2 \in -1..n /\ y2 \in -1..n
    <3>1. Matched(x2, u, FixedMatch(SubSeq(u, 1, x2), BareSimple))
      BY <1>0, <2>2, FixedMatches
    <3>2. Matched(y2, u, TitledMatch(SubSeq(u, 1, y2), BareTitled))
      BY <1>0, <2>2, TitledMatches
    <3>. QED BY <2>2, <3>1, <3>2 DEF Matched
  <2>6. BareMatch(u) = Most({x2, y2})
    BY DEF BareMatch
  <2>. HIDE DEF n, x, y, x2, y2
  <2>7. {x2, y2} \in SUBSET Int /\ n \in {x2, y2} /\ \A z \in {x2, y2} : z <= n
    BY <1>6, <2>1, <2>3, <2>4, <2>5
  <2>. QED BY <2>6, <2>7, MostIs
<1>. QED BY <1>7, <1>8 DEF Matched

\* What MatchAtStart chooses from.
Found(s) ==
    {FixedMatch(s, LfPrefixed), FixedMatch(s, Simple \o ModesOff),
     FixedMatch(s, Start \o ModesOff \o BareSimple), FixedMatch(s, Simple),
     BareMatch(s), TitledMatch(s, Titled)}

(* Every match that match_at_start compares.                               *)
LEMMA FoundMatches ==
  ASSUME NEW s \in Texts
  PROVE  /\ Found(s) \in SUBSET (-1..Len(s))
         /\ \A n \in Found(s) : n > 0 => n \in Found(SubSeq(s, 1, n))
<1>. DEFINE p1 == LfPrefixed
            p2 == Simple \o ModesOff
            p3 == Start \o ModesOff \o BareSimple
            p4 == Simple
            p5 == Titled
            M(x) == {FixedMatch(x, p1), FixedMatch(x, p2), FixedMatch(x, p3), FixedMatch(x, p4),
                     BareMatch(x), TitledMatch(x, p5)}
<1>1. /\ p1 \in Texts /\ p1 # <<>> /\ p2 \in Texts /\ p2 # <<>> /\ p3 \in Texts /\ p3 # <<>>
      /\ p4 \in Texts /\ p4 # <<>> /\ p5 \in Texts /\ p5 # <<>>
  <2>. DEFINE a == Simple
              b == ModesOff
              c == Start
              d == BareSimple
  <2>1. /\ a \in Texts /\ a # <<>> /\ b \in Texts /\ b # <<>> /\ c \in Texts /\ c # <<>>
        /\ d \in Texts /\ d # <<>>
    BY Frames, FramesHaveBytes
  <2>. HIDE DEF a, b, c, d
  <2>2. \A x, y \in Texts : x # <<>> => x \o y \in Texts /\ x \o y # <<>>
    BY DEF Texts
  <2>3. a \o b \in Texts /\ a \o b # <<>> /\ c \o b \in Texts /\ c \o b # <<>>
    BY <2>1, <2>2
  <2>4. (c \o b) \o d \in Texts /\ (c \o b) \o d # <<>>
    BY <2>1, <2>2, <2>3
  <2>5. p1 \in Texts /\ p1 # <<>> /\ p5 \in Texts /\ p5 # <<>>
    BY Frames, FramesHaveBytes
  <2>. QED BY <2>1, <2>3, <2>4, <2>5 DEF a, b, c, d
<1>2. \A x : Found(x) = M(x)
  BY DEF Found
<1>. HIDE DEF p1, p2, p3, p4, p5
<1>3. /\ Matched(FixedMatch(s, p1), s, FixedMatch(SubSeq(s, 1, FixedMatch(s, p1)), p1))
      /\ Matched(FixedMatch(s, p2), s, FixedMatch(SubSeq(s, 1, FixedMatch(s, p2)), p2))
      /\ Matched(FixedMatch(s, p3), s, FixedMatch(SubSeq(s, 1, FixedMatch(s, p3)), p3))
      /\ Matched(FixedMatch(s, p4), s, FixedMatch(SubSeq(s, 1, FixedMatch(s, p4)), p4))
      /\ Matched(BareMatch(s), s, BareMatch(SubSeq(s, 1, BareMatch(s))))
      /\ Matched(TitledMatch(s, p5), s, TitledMatch(SubSeq(s, 1, TitledMatch(s, p5)), p5))
  BY <1>1, FixedMatches, BareMatches, TitledMatches
<1>4. M(s) \in SUBSET (-1..Len(s))
  BY <1>3 DEF Matched
<1>5. ASSUME NEW n \in M(s), n > 0 PROVE n \in M(SubSeq(s, 1, n))
  BY <1>3, <1>5 DEF Matched
<1>. QED BY <1>2, <1>4, <1>5

(* A complete match is a match of exactly its own bytes.                   *)
LEMMA AnyMatch ==
  ASSUME NEW s \in Texts, NEW eof
  PROVE  Matched(MatchAtStart(s, eof), s, MatchAtStart(SubSeq(s, 1, MatchAtStart(s, eof)), TRUE))
<1>. DEFINE n == MatchAtStart(s, eof)
            u == SubSeq(s, 1, n)
<1>1. Len(s) \in Nat
  BY DEF Texts
<1>2. n = BestMatch(Found(s), eof)
  BY DEF MatchAtStart, Found
<1>3. Found(s) # {} /\ Found(s) \in SUBSET (-1..Len(s))
  BY FoundMatches DEF Found
<1>4. n \in Found(s)
  <2>1. Found(s) \in SUBSET Int /\ Len(s) \in Int /\ \A y \in Found(s) : y <= Len(s)
    BY <1>1, <1>3
  <2>2. Most(Found(s)) \in Found(s)
    BY <1>3, <2>1, MostBound
  <2>. QED BY <1>2, <2>2 DEF BestMatch
<1>5. ASSUME n > 0 PROVE MatchAtStart(u, TRUE) = n
  <2>1. n \in 0..Len(s)
    BY <1>1, <1>3, <1>4, <1>5
  <2>2. u \in Texts /\ Len(u) = n
    <3>. HIDE DEF n
    <3>. QED BY <2>1, Beginnings
  <2>3. n \in Found(u)
    BY <1>4, <1>5, FoundMatches
  <2>. HIDE DEF u, n
  <2>4. Found(u) \in SUBSET Int /\ \A y \in Found(u) : y <= n
    BY <2>1, <2>2, FoundMatches
  <2>5. MatchAtStart(u, TRUE) = Most(Found(u))
    BY DEF MatchAtStart, Found, BestMatch
  <2>. QED BY <2>3, <2>4, <2>5, MostIs
<1>. QED BY <1>1, <1>3, <1>4, <1>5 DEF Matched

(* A bare repaint is one of the frames.                                    *)
LEMMA BareIsFrame ==
  ASSUME NEW s \in Texts, BareMatch(s) = Len(s)
  PROVE  MatchAtStart(s, TRUE) = Len(s)
<1>1. Len(s) \in Nat
  BY DEF Texts
<1>2. Found(s) \in SUBSET Int /\ Len(s) \in Found(s) /\ \A y \in Found(s) : y <= Len(s)
  <2>1. Len(s) \in Found(s)
    BY DEF Found
  <2>. QED BY <1>1, <2>1, FoundMatches
<1>3. MatchAtStart(s, TRUE) = Most(Found(s))
  BY DEF MatchAtStart, Found, BestMatch
<1>. QED BY <1>2, <1>3, MostIs

-----------------------------------------------------------------------------
(***************************************************************************)
(* Pieces of the script.                                                   *)
(***************************************************************************)

Bytes == [c : Chars, id : Nat]
\* The bytes after the first a, up to b.
Piece(a, b) == [i \in 1..(b - a) |-> Byte(a + i)]
Ids(bytes) == {bytes[i].id : i \in DOMAIN bytes}

(* The bytes of a piece.                                                   *)
LEMMA PieceBytes ==
  ASSUME script \in Texts, NEW a \in Nat, NEW b \in Nat, a <= b, b <= Len(script)
  PROVE  /\ Piece(a, b) \in Seq(Bytes)
         /\ Len(Piece(a, b)) = b - a
         /\ DOMAIN Piece(a, b) = 1..(b - a)
         /\ \A i \in 1..(b - a) : Piece(a, b)[i] = Byte(a + i)
<1>1. b - a \in Nat
  OBVIOUS
<1>2. \A i \in 1..(b - a) : Byte(a + i) \in Bytes
  <2>1. ASSUME NEW i \in 1..(b - a) PROVE Byte(a + i) \in Bytes
    <3>1. a + i \in 1..Len(script) /\ a + i \in Nat
      BY DEF Texts
    <3>2. script[a + i] \in Chars
      BY <3>1 DEF Texts
    <3>. QED BY <3>1, <3>2 DEF Byte, Bytes
  <2>. QED BY <2>1
<1>3. Piece(a, b) \in [1..(b - a) -> Bytes]
  BY <1>2 DEF Piece
<1>. QED BY <1>1, <1>3 DEF Piece

(* Its letters are those of the script.                                    *)
LEMMA PieceLetters ==
  ASSUME script \in Texts, NEW a \in Nat, NEW b \in Nat, a <= b, b <= Len(script)
  PROVE  /\ Letters(Piece(a, b)) = SubSeq(script, a + 1, b)
         /\ Letters(Piece(a, b)) \in Texts
         /\ Len(Letters(Piece(a, b))) = b - a
<1>. DEFINE s == Letters(Piece(a, b))
            t == SubSeq(script, a + 1, b)
<1>1. /\ DOMAIN Piece(a, b) = 1..(b - a)
      /\ \A i \in 1..(b - a) : Piece(a, b)[i] = Byte(a + i)
  BY PieceBytes
<1>2. s = [i \in 1..(b - a) |-> Piece(a, b)[i].c]
  BY <1>1 DEF Letters
<1>3. \A i \in 1..(b - a) : s[i] = script[a + i]
  BY <1>1, <1>2 DEF Byte
<1>4. /\ t \in Seq(Chars) /\ Len(t) = b - (a + 1) + 1
      /\ \A i \in 1..(b - (a + 1) + 1) : t[i] = script[(a + 1) + i - 1]
  <2>1. a + 1 \in Nat /\ 1 <= a + 1 /\ a + 1 <= b + 1
    OBVIOUS
  <2>. QED BY <2>1, Piecewise DEF Texts
<1>. HIDE DEF t
<1>5. /\ Len(t) = b - a /\ \A i \in 1..(b - a) : t[i] = script[a + i]
  <2>1. b - (a + 1) + 1 = b - a /\ \A i \in 1..(b - a) : (a + 1) + i - 1 = a + i
    OBVIOUS
  <2>. QED BY <1>4, <2>1
<1>6. s = t
  <2>1. t \in [1..(b - a) -> Chars]
    BY <1>4, <1>5
  <2>. QED BY <1>2, <1>3, <1>5, <2>1
<1>. QED BY <1>4, <1>5, <1>6 DEF t, Texts

(* A piece cut in two.                                                     *)
LEMMA PieceSplit ==
  ASSUME script \in Texts, NEW a \in Nat, NEW b \in Nat, a <= b, b <= Len(script),
         NEW n \in Nat, a + n <= b
  PROVE  /\ SubSeq(Piece(a, b), 1, n) = Piece(a, a + n)
         /\ From(Piece(a, b), n + 1) = Piece(a + n, b)
<1>. DEFINE p == Piece(a, b)
            q == Piece(a, a + n)
            r == Piece(a + n, b)
            x == SubSeq(p, 1, n)
            y == SubSeq(p, n + 1, b - a)
<1>0. a + n \in Nat /\ a <= a + n /\ a + n <= Len(script) /\ b - a \in Nat /\ n <= b - a /\ Len(script) \in Nat
  BY DEF Texts
<1>1. p \in Seq(Bytes) /\ Len(p) = b - a /\ \A i \in 1..(b - a) : p[i] = Byte(a + i)
  BY PieceBytes
<1>2. q \in Seq(Bytes) /\ Len(q) = (a + n) - a /\ \A i \in 1..((a + n) - a) : q[i] = Byte(a + i)
  BY <1>0, PieceBytes
<1>3. r \in Seq(Bytes) /\ Len(r) = b - (a + n) /\ \A i \in 1..(b - (a + n)) : r[i] = Byte((a + n) + i)
  BY <1>0, PieceBytes
<1>. HIDE DEF p, q, r
<1>4. x \in Seq(Bytes) /\ Len(x) = n - 1 + 1 /\ \A i \in 1..(n - 1 + 1) : x[i] = p[1 + i - 1]
  <2>1. 1 \in Nat /\ 1 <= 1 /\ n <= Len(p) /\ 1 <= n + 1
    BY <1>0, <1>1
  <2>. QED BY <1>1, <2>1, Piecewise
<1>5. y \in Seq(Bytes) /\ Len(y) = (b - a) - (n + 1) + 1
      /\ \A i \in 1..((b - a) - (n + 1) + 1) : y[i] = p[(n + 1) + i - 1]
  <2>1. n + 1 \in Nat /\ 1 <= n + 1 /\ b - a \in Nat /\ b - a <= Len(p) /\ n + 1 <= (b - a) + 1
    BY <1>0, <1>1
  <2>. QED BY <1>1, <2>1, Piecewise
<1>. HIDE DEF x, y
<1>6. x = q
  <2>1. n - 1 + 1 = n /\ (a + n) - a = n /\ \A i \in 1..n : 1 + i - 1 = i /\ i \in 1..(b - a)
    BY <1>0
  <2>2. Len(x) = Len(q) /\ \A i \in 1..Len(x) : x[i] = q[i]
    BY <1>1, <1>2, <1>4, <2>1
  <2>. QED BY <1>2, <1>4, <2>2, SameSeq
<1>7. y = r
  <2>1. (b - a) - (n + 1) + 1 = b - (a + n)
    OBVIOUS
  <2>2. \A i \in 1..(b - (a + n)) : /\ (n + 1) + i - 1 = n + i /\ n + i \in 1..(b - a)
                                    /\ a + (n + i) = (a + n) + i
    BY <1>0
  <2>3. \A i \in 1..(b - (a + n)) : y[i] = Byte(a + (n + i))
    BY <1>1, <1>5, <2>1, <2>2
  <2>4. Len(y) = Len(r) /\ \A i \in 1..Len(y) : y[i] = r[i]
    BY <1>3, <1>5, <2>1, <2>2, <2>3
  <2>. QED BY <1>3, <1>5, <2>4, SameSeq
<1>8. From(p, n + 1) = y
  BY <1>1 DEF From, y
<1>. QED BY <1>6, <1>7, <1>8 DEF x, p, q, r

(* Two pieces that meet.                                                   *)
LEMMA PieceJoin ==
  ASSUME script \in Texts, NEW a \in Nat, NEW b \in Nat, NEW c \in Nat,
         a <= b, b <= c, c <= Len(script)
  PROVE  Piece(a, b) \o Piece(b, c) = Piece(a, c)
<1>. DEFINE p == Piece(a, b)
            q == Piece(b, c)
            r == Piece(a, c)
<1>0. Len(script) \in Nat /\ b <= Len(script) /\ a <= c
  BY DEF Texts
<1>1. p \in Seq(Bytes) /\ Len(p) = b - a /\ \A i \in 1..(b - a) : p[i] = Byte(a + i)
  BY <1>0, PieceBytes
<1>2. q \in Seq(Bytes) /\ Len(q) = c - b /\ \A i \in 1..(c - b) : q[i] = Byte(b + i)
  BY <1>0, PieceBytes
<1>3. r \in Seq(Bytes) /\ Len(r) = c - a /\ \A i \in 1..(c - a) : r[i] = Byte(a + i)
  BY <1>0, PieceBytes
<1>. HIDE DEF p, q, r
<1>. DEFINE x == p \o q
<1>4. /\ x \in Seq(Bytes) /\ Len(x) = Len(p) + Len(q)
      /\ \A i \in 1..(Len(p) + Len(q)) : x[i] = IF i <= Len(p) THEN p[i] ELSE q[i - Len(p)]
  BY <1>1, <1>2, ConcatProperties
<1>. HIDE DEF x
<1>5. Len(x) = c - a
  BY <1>1, <1>2, <1>4
<1>6. ASSUME NEW i \in 1..(c - a) PROVE x[i] = r[i]
  <2>1. CASE i <= b - a
    <3>1. i \in 1..(b - a) /\ i \in 1..(Len(p) + Len(q))
      BY <1>1, <1>2, <2>1
    <3>. QED BY <1>1, <1>3, <1>4, <2>1, <3>1
  <2>2. CASE ~(i <= b - a)
    <3>1. i - (b - a) \in 1..(c - b) /\ b + (i - (b - a)) = a + i /\ i \in 1..(Len(p) + Len(q))
      BY <1>1, <1>2, <2>2
    <3>2. x[i] = q[i - (b - a)]
      BY <1>1, <1>4, <2>2, <3>1
    <3>. QED BY <1>2, <1>3, <3>1, <3>2
  <2>. QED BY <2>1, <2>2
<1>7. x = r
  BY <1>3, <1>4, <1>5, <1>6, SameSeq
<1>. QED BY <1>7 DEF x, p, q, r

(* The numbers of its bytes.                                               *)
LEMMA PieceIds ==
  ASSUME script \in Texts, NEW a \in Nat, NEW b \in Nat, a <= b, b <= Len(script)
  PROVE  Ids(Piece(a, b)) = (a + 1)..b
<1>1. DOMAIN Piece(a, b) = 1..(b - a) /\ \A i \in 1..(b - a) : Piece(a, b)[i] = Byte(a + i)
  BY PieceBytes
<1>2. \A i \in 1..(b - a) : Piece(a, b)[i].id = a + i /\ a + i \in (a + 1)..b
  BY <1>1 DEF Byte
<1>3. ASSUME NEW k \in (a + 1)..b PROVE k - a \in 1..(b - a) /\ Piece(a, b)[k - a].id = k
  <2>1. k - a \in 1..(b - a) /\ a + (k - a) = k
    OBVIOUS
  <2>. QED BY <1>2, <2>1
<1>. QED BY <1>1, <1>2, <1>3 DEF Ids

(* The numbers of two parts.                                               *)
LEMMA JoinedIds ==
  ASSUME NEW x \in Seq(Bytes), NEW y \in Seq(Bytes)
  PROVE  x \o y \in Seq(Bytes) /\ Ids(x \o y) = Ids(x) \cup Ids(y)
<1>. DEFINE z == x \o y
<1>1. /\ z \in Seq(Bytes) /\ Len(z) = Len(x) + Len(y)
      /\ \A i \in 1..(Len(x) + Len(y)) : z[i] = IF i <= Len(x) THEN x[i] ELSE y[i - Len(x)]
  BY ConcatProperties
<1>. HIDE DEF z
<1>2. Len(x) \in Nat /\ Len(y) \in Nat /\ DOMAIN x = 1..Len(x) /\ DOMAIN y = 1..Len(y)
      /\ DOMAIN z = 1..(Len(x) + Len(y))
  BY <1>1
<1>3. \A i \in 1..Len(x) : i \in 1..(Len(x) + Len(y)) /\ z[i] = x[i]
  BY <1>1, <1>2
<1>4. ASSUME NEW i \in 1..Len(y) PROVE i + Len(x) \in 1..(Len(x) + Len(y)) /\ z[i + Len(x)] = y[i]
  <2>1. i + Len(x) \in 1..(Len(x) + Len(y)) /\ ~(i + Len(x) <= Len(x)) /\ (i + Len(x)) - Len(x) = i
    BY <1>2
  <2>. QED BY <1>1, <2>1
<1>5. ASSUME NEW i \in 1..(Len(x) + Len(y))
      PROVE  (i \in 1..Len(x) /\ z[i] = x[i]) \/ (i - Len(x) \in 1..Len(y) /\ z[i] = y[i - Len(x)])
  BY <1>1, <1>2
<1>6. Ids(z) \subseteq Ids(x) \cup Ids(y)
  BY <1>2, <1>5 DEF Ids
<1>7. Ids(x) \subseteq Ids(z) /\ Ids(y) \subseteq Ids(z)
  BY <1>2, <1>3, <1>4 DEF Ids
<1>. QED BY <1>1, <1>6, <1>7 DEF z

-----------------------------------------------------------------------------
(***************************************************************************)
(* What the filter takes out.                                              *)
(***************************************************************************)

Offset == Nat \cup {None}
Filters ==
    [prefix : Seq(Bytes), matched : BOOLEAN, started : BOOLEAN, prefixBlocked : BOOLEAN,
     prefixLfAt : Offset, pending : Seq(Bytes), finished : BOOLEAN, armed : BOOLEAN,
     readerFinished : BOOLEAN, closeStarted : BOOLEAN, pairBlocked : BOOLEAN, lfAt : Offset,
     lf : Int, ipcSeen : BOOLEAN, sessionEnd : BOOLEAN, finalized : BOOLEAN]
Drainings == [f : Filters, visible : Seq(Bytes), split : Offset, paired : BOOLEAN]

\* What drain_pending leaves alone.
Kept(g, h) ==
    /\ h.prefix = g.prefix /\ h.matched = g.matched /\ h.started = g.started
    /\ h.finished = g.finished /\ h.armed = g.armed /\ h.lf = g.lf
    /\ h.sessionEnd = g.sessionEnd /\ h.finalized = g.finalized

\* Of the bytes after the first lo, up to m, raw holds all but whole repaints.
Cut(lo, m, raw, armed) ==
    /\ raw \in Seq(Bytes)
    /\ Ids(raw) \subseteq (lo + 1)..m
    /\ \A i \in ((lo + 1)..m) \ Ids(raw) :
          armed /\ \E a \in (lo + 1)..i, b \in i..m : Repaint(a, b) /\ (a..b) \cap Ids(raw) = {}

(* Of no bytes nothing is left out.                                        *)
LEMMA NothingCut ==
  ASSUME NEW lo \in Nat, NEW armed
  PROVE  Cut(lo, lo, <<>>, armed)
<1>1. <<>> \in Seq(Bytes) /\ DOMAIN <<>> = {} /\ (lo + 1)..lo = {}
  OBVIOUS
<1>2. Ids(<<>>) = {}
  BY <1>1 DEF Ids
<1>. QED BY <1>1, <1>2 DEF Cut

(* More bytes are shown.                                                   *)
LEMMA ShowMore ==
  ASSUME script \in Texts, NEW lo \in Nat, NEW m \in Nat, NEW n \in Nat, lo <= m, m + n <= Len(script),
         NEW raw, NEW armed, Cut(lo, m, raw, armed)
  PROVE  Cut(lo, m + n, raw \o Piece(m, m + n), armed)
<1>. DEFINE p == Piece(m, m + n)
            q == raw \o p
<1>1. p \in Seq(Bytes) /\ Ids(p) = (m + 1)..(m + n)
  BY PieceBytes, PieceIds
<1>. HIDE DEF p
<1>2. q \in Seq(Bytes) /\ Ids(q) = Ids(raw) \cup ((m + 1)..(m + n))
  BY <1>1, JoinedIds DEF Cut
<1>. HIDE DEF q
<1>3. Ids(q) \subseteq (lo + 1)..(m + n)
  <2>1. (lo + 1)..m \subseteq (lo + 1)..(m + n) /\ (m + 1)..(m + n) \subseteq (lo + 1)..(m + n)
    OBVIOUS
  <2>. QED BY <1>2, <2>1 DEF Cut
<1>4. ASSUME NEW i \in ((lo + 1)..(m + n)) \ Ids(q)
      PROVE  armed /\ \E a \in (lo + 1)..i, b \in i..(m + n) : Repaint(a, b) /\ (a..b) \cap Ids(q) = {}
  <2>1. i \in ((lo + 1)..m) \ Ids(raw)
    <3>1. i \in (lo + 1)..(m + n) /\ i \notin Ids(raw) /\ i \notin (m + 1)..(m + n)
      BY <1>2
    <3>. QED BY <3>1
  <2>2. PICK a \in (lo + 1)..i, b \in i..m : armed /\ Repaint(a, b) /\ (a..b) \cap Ids(raw) = {}
    BY <2>1 DEF Cut
  <2>3. (a..b) \cap ((m + 1)..(m + n)) = {} /\ b \in i..(m + n)
    OBVIOUS
  <2>4. (a..b) \cap Ids(q) = {}
    BY <1>2, <2>2, <2>3
  <2>. QED BY <2>2, <2>3, <2>4
<1>5. Cut(lo, m + n, q, armed)
  BY <1>2, <1>3, <1>4 DEF Cut
<1>. QED BY <1>5 DEF q, p

(* A repaint is left out.                                                  *)
LEMMA LeaveOut ==
  ASSUME NEW lo \in Nat, NEW m \in Nat, NEW n \in Nat, lo <= m, n > 0,
         NEW raw, NEW armed, Cut(lo, m, raw, armed), armed, Repaint(m + 1, m + n)
  PROVE  Cut(lo, m + n, raw, armed)
<1>1. raw \in Seq(Bytes) /\ Ids(raw) \subseteq (lo + 1)..m
  BY DEF Cut
<1>2. Ids(raw) \subseteq (lo + 1)..(m + n) /\ ((m + 1)..(m + n)) \cap Ids(raw) = {}
  BY <1>1
<1>3. ASSUME NEW i \in ((lo + 1)..(m + n)) \ Ids(raw)
      PROVE  \E a \in (lo + 1)..i, b \in i..(m + n) : Repaint(a, b) /\ (a..b) \cap Ids(raw) = {}
  <2>1. CASE i <= m
    <3>1. i \in ((lo + 1)..m) \ Ids(raw)
      BY <2>1
    <3>2. PICK a \in (lo + 1)..i, b \in i..m : Repaint(a, b) /\ (a..b) \cap Ids(raw) = {}
      BY <3>1 DEF Cut
    <3>3. b \in i..(m + n)
      OBVIOUS
    <3>. QED BY <3>2, <3>3
  <2>2. CASE ~(i <= m)
    <3>1. m + 1 \in (lo + 1)..i /\ m + n \in i..(m + n)
      BY <2>2
    <3>. QED BY <1>2, <3>1
  <2>. QED BY <2>1, <2>2
<1>. QED BY <1>1, <1>2, <1>3 DEF Cut

(* Two parts, one after the other.                                         *)
LEMMA CutJoin ==
  ASSUME NEW lo \in Nat, NEW m \in Nat, NEW k \in Nat, lo <= m, m <= k,
         NEW x, NEW y, NEW armed, Cut(lo, m, x, armed), Cut(m, k, y, armed)
  PROVE  Cut(lo, k, x \o y, armed)
<1>. DEFINE q == x \o y
<1>1. /\ x \in Seq(Bytes) /\ Ids(x) \subseteq (lo + 1)..m
      /\ y \in Seq(Bytes) /\ Ids(y) \subseteq (m + 1)..k
  BY DEF Cut
<1>2. q \in Seq(Bytes) /\ Ids(q) = Ids(x) \cup Ids(y)
  BY <1>1, JoinedIds
<1>. HIDE DEF q
<1>3. Ids(q) \subseteq (lo + 1)..k
  <2>1. (lo + 1)..m \subseteq (lo + 1)..k /\ (m + 1)..k \subseteq (lo + 1)..k
    OBVIOUS
  <2>. QED BY <1>1, <1>2, <2>1
<1>4. ASSUME NEW i \in ((lo + 1)..k) \ Ids(q)
      PROVE  armed /\ \E a \in (lo + 1)..i, b \in i..k : Repaint(a, b) /\ (a..b) \cap Ids(q) = {}
  <2>0. i \notin Ids(x) /\ i \notin Ids(y)
    BY <1>2
  <2>1. CASE i <= m
    <3>1. i \in ((lo + 1)..m) \ Ids(x)
      BY <2>0, <2>1
    <3>2. PICK a \in (lo + 1)..i, b \in i..m : armed /\ Repaint(a, b) /\ (a..b) \cap Ids(x) = {}
      BY <3>1 DEF Cut
    <3>3. (a..b) \cap ((m + 1)..k) = {} /\ b \in i..k
      OBVIOUS
    <3>4. (a..b) \cap Ids(q) = {}
      BY <1>1, <1>2, <3>2, <3>3
    <3>. QED BY <3>2, <3>3, <3>4
  <2>2. CASE ~(i <= m)
    <3>1. i \in ((m + 1)..k) \ Ids(y)
      BY <2>0, <2>2
    <3>2. PICK a \in (m + 1)..i, b \in i..k : armed /\ Repaint(a, b) /\ (a..b) \cap Ids(y) = {}
      BY <3>1 DEF Cut
    <3>3. (a..b) \cap ((lo + 1)..m) = {} /\ a \in (lo + 1)..i
      OBVIOUS
    <3>4. (a..b) \cap Ids(q) = {}
      BY <1>1, <1>2, <3>2, <3>3
    <3>. QED BY <3>2, <3>3, <3>4
  <2>. QED BY <2>1, <2>2
<1>5. Cut(lo, k, q, armed)
  BY <1>2, <1>3, <1>4 DEF Cut
<1>. QED BY <1>5 DEF q

(* Changes of the filter's fields.                                         *)
LEMMA PendingSet ==
  ASSUME NEW g \in Filters, NEW p \in Seq(Bytes)
  PROVE  /\ [g EXCEPT !.pending = p] \in Filters /\ Kept(g, [g EXCEPT !.pending = p])
         /\ [g EXCEPT !.pending = p].pending = p
  BY DEF Filters, Kept

(* Another boundary.                                                       *)
LEMMA LfAtSet ==
  ASSUME NEW g \in Filters, NEW o \in Offset
  PROVE  /\ [g EXCEPT !.lfAt = o] \in Filters /\ Kept(g, [g EXCEPT !.lfAt = o])
         /\ [g EXCEPT !.lfAt = o].pending = g.pending
  BY DEF Filters, Kept

(* Another block.                                                          *)
LEMMA PairBlockedSet ==
  ASSUME NEW g \in Filters, NEW b \in BOOLEAN
  PROVE  /\ [g EXCEPT !.pairBlocked = b] \in Filters /\ Kept(g, [g EXCEPT !.pairBlocked = b])
         /\ [g EXCEPT !.pairBlocked = b].pending = g.pending
  BY DEF Filters, Kept

(* Two steps keep what each of them keeps.                                 *)
LEMMA KeptBoth ==
  ASSUME NEW x, NEW y, NEW z, Kept(x, y), Kept(y, z)
  PROVE  Kept(x, z)
  BY DEF Kept

(* The first pending bytes leave.                                          *)
LEMMA LeaveIs ==
  ASSUME NEW d \in Drainings, NEW n \in Nat, NEW w \in BOOLEAN, NEW rest \in Seq(Bytes),
         NEW first \in Seq(Bytes), From(d.f.pending, n + 1) = rest, SubSeq(d.f.pending, 1, n) = first
  PROVE  /\ Leave(d, n, w) \in Drainings
         /\ Leave(d, n, w).f.pending = rest
         /\ Leave(d, n, w).visible = IF w THEN d.visible \o first ELSE d.visible
         /\ Kept(d.f, Leave(d, n, w).f)
         /\ Leave(d, n, w).paired = d.paired
<1>. DEFINE at == d.f.lfAt
            vis == IF w THEN d.visible \o first ELSE d.visible
            spl == IF at # None /\ at <= n THEN Len(d.visible) + (IF w THEN at ELSE 0) ELSE d.split
            o == IF at = None \/ at <= n THEN None ELSE at - n
            g == [d.f EXCEPT !.pending = rest]
            h == [g EXCEPT !.lfAt = o]
            u == Leave(d, n, w)
<1>1. /\ d.f \in Filters /\ d.visible \in Seq(Bytes) /\ d.split \in Offset /\ d.paired \in BOOLEAN
      /\ d = [f |-> d.f, visible |-> d.visible, split |-> d.split, paired |-> d.paired]
  BY DEF Drainings
<1>2. at \in Offset
  BY <1>1 DEF Filters
<1>3. vis \in Seq(Bytes)
  BY <1>1, ConcatProperties
<1>4. spl \in Offset /\ o \in Offset
  <2>1. Len(d.visible) \in Nat
    BY <1>1
  <2>. QED BY <1>1, <1>2, <2>1 DEF Offset, None
<1>5. u = [f |-> h, visible |-> vis, split |-> spl, paired |-> d.paired]
  <2>1. u = [d EXCEPT !.f.pending = rest, !.visible = vis, !.split = spl, !.f.lfAt = o]
    BY DEF Leave
  <2>. HIDE DEF u, spl, vis, o
  <2>. QED BY <1>1, <2>1
<1>. HIDE DEF u, spl, vis, o
<1>6. g \in Filters /\ Kept(d.f, g) /\ g.pending = rest
  BY <1>1, PendingSet
<1>. HIDE DEF g
<1>7. h \in Filters /\ Kept(g, h) /\ h.pending = rest
  BY <1>4, <1>6, LfAtSet
<1>8. Kept(d.f, h)
  BY <1>6, <1>7, KeptBoth
<1>. HIDE DEF h
<1>9. u \in Drainings /\ u.f = h /\ u.visible = vis /\ u.paired = d.paired
  BY <1>1, <1>3, <1>4, <1>5, <1>7 DEF Drainings
<1>. QED BY <1>7, <1>8, <1>9 DEF u, vis

-----------------------------------------------------------------------------
(***************************************************************************)
(* drain_pending: bytes after the first lo are pending, up to hi.          *)
(***************************************************************************)

Range2(lo, hi) == script \in Texts /\ lo \in Nat /\ hi \in Nat /\ lo <= hi /\ hi <= Len(script)
Drains(g, lo, hi) ==
    {d \in Drainings : /\ Kept(g, d.f)
                       /\ \E m \in lo..hi : d.f.pending = Piece(m, hi) /\ Cut(lo, m, d.visible, g.armed)}

(* Before the first round.                                                 *)
LEMMA DrainStarts ==
  ASSUME NEW lo, NEW hi, Range2(lo, hi), NEW g \in Filters, g.pending = Piece(lo, hi)
  PROVE  Drained(g) \in Drains(g, lo, hi)
<1>. DEFINE d == Drained(g)
            v == <<>>
<1>1. v \in Seq(Bytes) /\ None \in Offset /\ FALSE \in BOOLEAN
  BY DEF Offset
<1>2. Cut(lo, lo, v, g.armed)
  BY NothingCut DEF Range2
<1>3. d = [f |-> g, visible |-> v, split |-> None, paired |-> FALSE]
  BY DEF Drained
<1>. HIDE DEF d, v
<1>4. d \in Drainings /\ d.f = g /\ d.visible = v
  BY <1>1, <1>3 DEF Drainings
<1>5. Kept(g, g) /\ lo \in lo..hi
  BY DEF Kept, Range2
<1>. QED BY <1>2, <1>4, <1>5 DEF Drains, d

(* What is pending while draining.                                         *)
LEMMA DrainPiece ==
  ASSUME NEW lo, NEW hi, Range2(lo, hi), NEW g, NEW d \in Drains(g, lo, hi),
         NEW m \in lo..hi, d.f.pending = Piece(m, hi)
  PROVE  /\ Range2(m, hi) /\ Letters(d.f.pending) \in Texts
         /\ Letters(d.f.pending) = SubSeq(script, m + 1, hi)
         /\ Len(Letters(d.f.pending)) = hi - m /\ Len(d.f.pending) = hi - m
<1>1. Range2(m, hi)
  BY DEF Range2
<1>. QED BY <1>1, PieceBytes, PieceLetters DEF Range2

(* Leaving keeps to it: shown, or a whole frame.                           *)
LEMMA LeaveDrains ==
  ASSUME NEW lo, NEW hi, Range2(lo, hi), NEW g, NEW d \in Drains(g, lo, hi),
         NEW w \in BOOLEAN, NEW n \in 0..Len(d.f.pending), NEW eof,
         ~w => g.armed /\ n > 0 /\ MatchAtStart(Letters(d.f.pending), eof) = n
  PROVE  Leave(d, n, w) \in Drains(g, lo, hi)
<1>. DEFINE p == d.f.pending
            u == Leave(d, n, w)
            s == Letters(p)
<1>1. PICK m \in lo..hi : p = Piece(m, hi) /\ Cut(lo, m, d.visible, g.armed)
  BY DEF Drains
<1>2. Range2(m, hi) /\ s \in Texts /\ s = SubSeq(script, m + 1, hi) /\ Len(s) = hi - m /\ Len(p) = hi - m
  BY <1>1, DrainPiece
<1>3. n \in Nat /\ m \in Nat /\ m + n <= hi /\ m + n \in lo..hi /\ m + n <= Len(script) /\ lo <= m /\ lo \in Nat
      /\ m <= m + n /\ m + n \in Nat /\ hi \in Nat
  BY <1>2 DEF Range2, Texts
<1>4. SubSeq(p, 1, n) = Piece(m, m + n) /\ From(p, n + 1) = Piece(m + n, hi)
  BY <1>1, <1>2, <1>3, PieceSplit DEF Range2
<1>5. Piece(m, m + n) \in Seq(Bytes) /\ Piece(m + n, hi) \in Seq(Bytes)
  BY <1>2, <1>3, PieceBytes DEF Range2
<1>6. d \in Drainings /\ Kept(g, d.f)
  BY DEF Drains
<1>7. /\ u \in Drainings /\ u.f.pending = Piece(m + n, hi)
      /\ u.visible = IF w THEN d.visible \o Piece(m, m + n) ELSE d.visible
      /\ Kept(d.f, u.f)
  BY <1>3, <1>4, <1>5, <1>6, LeaveIs
<1>8. Kept(g, u.f)
  BY <1>6, <1>7, KeptBoth
<1>. HIDE DEF u
<1>9. Cut(lo, m + n, u.visible, g.armed)
  <2>1. CASE w
    <3>1. Cut(lo, m + n, d.visible \o Piece(m, m + n), g.armed)
      BY <1>1, <1>3, ShowMore DEF Range2
    <3>. QED BY <1>7, <2>1, <3>1
  <2>2. CASE ~w
    <3>1. Repaint(m + 1, m + n)
      <4>1. n > 0 /\ MatchAtStart(s, eof) = n
        BY <2>2
      <4>. HIDE DEF s
      <4>2. MatchAtStart(SubSeq(s, 1, n), TRUE) = n
        BY <1>2, <4>1, AnyMatch DEF Matched
      <4>3. SubSeq(s, 1, n) = SubSeq(script, m + 1, m + n)
        <5>. DEFINE x == SubSeq(s, 1, n)
                    y == SubSeq(script, m + 1, m + n)
        <5>2. x \in Texts /\ Len(x) = n /\ \A i \in 1..n : x[i] = s[i]
          <6>1. n \in 0..Len(s)
            BY <1>2, <1>3
          <6>. QED BY <1>2, <6>1, Beginnings
        <5>3. /\ SubSeq(script, m + 1, hi) \in Seq(Chars)
              /\ \A i \in 1..(hi - (m + 1) + 1) : SubSeq(script, m + 1, hi)[i] = script[(m + 1) + i - 1]
          <6>1. m + 1 \in Nat /\ 1 <= m + 1 /\ hi \in Nat /\ hi <= Len(script) /\ m + 1 <= hi + 1
            BY <1>2, <1>3 DEF Range2
          <6>. QED BY <1>2, <6>1, Piecewise DEF Range2, Texts
        <5>4. /\ y \in Seq(Chars) /\ Len(y) = (m + n) - (m + 1) + 1
              /\ \A i \in 1..((m + n) - (m + 1) + 1) : y[i] = script[(m + 1) + i - 1]
          <6>1. m + 1 \in Nat /\ 1 <= m + 1 /\ m + n \in Nat /\ m + n <= Len(script) /\ m + 1 <= (m + n) + 1
            BY <1>3
          <6>. QED BY <1>2, <6>1, Piecewise DEF Range2, Texts
        <5>. HIDE DEF x, y
        <5>5. (m + n) - (m + 1) + 1 = n /\ \A i \in 1..n : i \in 1..(hi - (m + 1) + 1)
          BY <1>2, <1>3 DEF Range2
        <5>6. Len(x) = Len(y) /\ \A i \in 1..Len(x) : x[i] = y[i]
          BY <1>2, <5>2, <5>3, <5>4, <5>5
        <5>7. x = y
          BY <5>2, <5>4, <5>6, SameSeq DEF Texts
        <5>. QED BY <5>7 DEF x, y
      <4>4. (m + n) - (m + 1) + 1 = n
        BY <1>3
      <4>. QED BY <4>2, <4>3, <4>4 DEF Repaint
    <3>2. Cut(lo, m + n, d.visible, g.armed)
      BY <1>1, <1>3, <2>2, <3>1, LeaveOut
    <3>. QED BY <1>7, <2>2, <3>2
  <2>. QED BY <2>1, <2>2
<1>. QED BY <1>3, <1>7, <1>8, <1>9 DEF Drains, u

(* Showing bytes keeps to it.                                              *)
LEMMA EmitDrains ==
  ASSUME NEW lo, NEW hi, Range2(lo, hi), NEW g, NEW d \in Drains(g, lo, hi),
         NEW n \in 0..Len(d.f.pending)
  PROVE  Emit(d, n) \in Drains(g, lo, hi)
<1>1. Leave(d, n, TRUE) \in Drains(g, lo, hi)
  <2>1. TRUE \in BOOLEAN /\ ~(~TRUE)
    OBVIOUS
  <2>. QED BY <2>1, LeaveDrains
<1>. QED BY <1>1 DEF Emit

(* Drained bytes with another boundary, split or block.                    *)
LEMMA SameDrains ==
  ASSUME NEW lo, NEW hi, NEW g, NEW d \in Drains(g, lo, hi), NEW u \in Drainings,
         Kept(d.f, u.f), u.f.pending = d.f.pending, u.visible = d.visible
  PROVE  u \in Drains(g, lo, hi)
<1>1. Kept(g, u.f)
  BY KeptBoth DEF Drains
<1>. QED BY <1>1 DEF Drains

(* The fields of a draining.                                               *)
LEMMA DrainFields ==
  ASSUME NEW d \in Drainings
  PROVE  /\ d.f \in Filters /\ d.visible \in Seq(Bytes) /\ d.split \in Offset /\ d.paired \in BOOLEAN
         /\ d = [f |-> d.f, visible |-> d.visible, split |-> d.split, paired |-> d.paired]
  BY DEF Drainings

(* Taking the block off.                                                   *)
LEMMA UnblockDrains ==
  ASSUME NEW d \in Drainings
  PROVE  /\ Unblock(d) \in Drainings /\ Kept(d.f, Unblock(d).f)
         /\ Unblock(d).f.pending = d.f.pending /\ Unblock(d).visible = d.visible
<1>. DEFINE u == Unblock(d)
            h == [d.f EXCEPT !.pairBlocked = FALSE]
<1>1. /\ d.f \in Filters /\ d.visible \in Seq(Bytes) /\ d.split \in Offset /\ d.paired \in BOOLEAN
      /\ d = [f |-> d.f, visible |-> d.visible, split |-> d.split, paired |-> d.paired]
  BY DrainFields
<1>2. h \in Filters /\ Kept(d.f, h) /\ h.pending = d.f.pending
  BY <1>1, PairBlockedSet
<1>3. u = [d EXCEPT !.f = h]
  BY DEF Unblock
<1>. HIDE DEF u, h
<1>4. u = [f |-> h, visible |-> d.visible, split |-> d.split, paired |-> d.paired]
  BY <1>1, <1>3
<1>5. u \in Drainings /\ u.f = h /\ u.visible = d.visible
  BY <1>1, <1>2, <1>4 DEF Drainings
<1>. QED BY <1>2, <1>5 DEF u

(* Recording the boundary.                                                 *)
LEMMA BoundaryDrains ==
  ASSUME NEW d \in Drainings
  PROVE  /\ RecordBoundary(d) \in Drainings /\ Kept(d.f, RecordBoundary(d).f)
         /\ RecordBoundary(d).f.pending = d.f.pending /\ RecordBoundary(d).visible = d.visible
<1>. DEFINE l == Len(d.visible)
            h == [d.f EXCEPT !.lfAt = None]
            u == [d EXCEPT !.split = l, !.f.lfAt = None]
<1>1. /\ d.f \in Filters /\ d.visible \in Seq(Bytes) /\ d.split \in Offset /\ d.paired \in BOOLEAN
      /\ d = [f |-> d.f, visible |-> d.visible, split |-> d.split, paired |-> d.paired]
  BY DrainFields
<1>2. l \in Offset /\ None \in Offset
  BY <1>1 DEF Offset
<1>3. h \in Filters /\ Kept(d.f, h) /\ h.pending = d.f.pending
  BY <1>1, <1>2, LfAtSet
<1>4. u = [f |-> h, visible |-> d.visible, split |-> l, paired |-> d.paired]
  <2>. DEFINE x == [d EXCEPT !.split = l]
  <2>1. u = [x EXCEPT !.f = [x.f EXCEPT !.lfAt = None]]
    OBVIOUS
  <2>. HIDE DEF l
  <2>2. x = [f |-> d.f, visible |-> d.visible, split |-> l, paired |-> d.paired]
    BY <1>1
  <2>. HIDE DEF x, u
  <2>3. x.f = d.f
    BY <2>2
  <2>4. u = [x EXCEPT !.f = h]
    BY <2>1, <2>3
  <2>. HIDE DEF h
  <2>. QED BY <2>2, <2>4
<1>. HIDE DEF u, h, l
<1>5. u \in Drainings /\ u.f = h /\ u.visible = d.visible
  BY <1>1, <1>2, <1>3, <1>4 DEF Drainings
<1>6. Kept(d.f, d.f)
  BY DEF Kept
<1>7. RecordBoundary(d) = u \/ RecordBoundary(d) = d
  BY DEF RecordBoundary, u, l
<1>. QED BY <1>3, <1>5, <1>6, <1>7

(* What happens before a round decides.                                    *)
LEMMA BeforeRoundDrains ==
  ASSUME NEW lo, NEW hi, NEW g, NEW d \in Drains(g, lo, hi), NEW s, NEW bare, NEW waits
  PROVE  /\ BeforeRound(d, s, bare, waits) \in Drains(g, lo, hi)
         /\ BeforeRound(d, s, bare, waits).f.pending = d.f.pending
<1>. DEFINE r == IF waits THEN d ELSE RecordBoundary(d)
            u == BeforeRound(d, s, bare, waits)
<1>0. d \in Drainings
  BY DEF Drains
<1>1. r \in Drains(g, lo, hi) /\ r.f.pending = d.f.pending
  <2>1. RecordBoundary(d) \in Drains(g, lo, hi) /\ RecordBoundary(d).f.pending = d.f.pending
    BY <1>0, BoundaryDrains, SameDrains
  <2>. QED BY <2>1
<1>2. u = r \/ u = Unblock(r)
  BY DEF BeforeRound
<1>. HIDE DEF r, u
<1>3. Unblock(r) \in Drains(g, lo, hi) /\ Unblock(r).f.pending = r.f.pending
  <2>1. r \in Drainings
    BY <1>1 DEF Drains
  <2>. QED BY <1>1, <2>1, UnblockDrains, SameDrains
<1>. QED BY <1>1, <1>2, <1>3 DEF u

(* What a round decides.                                                   *)
LEMMA SuffixLength ==
  ASSUME NEW s \in Texts
  PROVE  Most({LongestSuffix(s, p) : p \in Candidates}) \in 0..Len(s)
<1>. DEFINE L(p) == {0} \cup {n \in 1 .. Len(p) - 1 : n <= Len(s) /\ From(s, Len(s) - n + 1) = SubSeq(p, 1, n)}
            S == {LongestSuffix(s, p) : p \in Candidates}
<1>0. Len(s) \in Nat
  BY DEF Texts
<1>1. ASSUME NEW p \in Candidates PROVE LongestSuffix(s, p) \in 0..Len(s)
  <2>. DEFINE T == L(p)
  <2>1. Len(p) \in Nat
    BY <1>1, Frames DEF Candidates
  <2>2. \A n \in T : n \in 0..Len(s)
    BY <1>0, <2>1
  <2>3. LongestSuffix(s, p) = Most(T) /\ 0 \in T
    BY DEF LongestSuffix
  <2>. HIDE DEF T
  <2>4. T \in SUBSET Int /\ T # {} /\ Len(s) \in Int /\ \A y \in T : y <= Len(s)
    BY <1>0, <2>2, <2>3
  <2>5. Most(T) \in T
    BY <2>4, MostBound
  <2>. QED BY <2>2, <2>3, <2>5
<1>2. S \in SUBSET (0..Len(s)) /\ S # {}
  <2>1. Start \in Candidates
    BY DEF Candidates
  <2>. QED BY <1>1, <2>1
<1>. HIDE DEF S
<1>3. S \in SUBSET Int /\ Len(s) \in Int /\ \A y \in S : y <= Len(s)
  BY <1>0, <1>2
<1>4. Most(S) \in S
  BY <1>2, <1>3, MostBound
<1>. QED BY <1>2, <1>4 DEF S

\* A round takes what there is, and takes out only a frame, once armed.
GoodRound(r, s, eof, armed) ==
    /\ r.n \in 0..Len(s) /\ r.shown \in BOOLEAN /\ r.pair \in BOOLEAN
    /\ ~r.shown => armed /\ r.n > 0 /\ MatchAtStart(s, eof) = r.n

(* The fields of a decision.                                               *)
LEMMA RoundFields ==
  ASSUME NEW do, NEW n, NEW w, NEW pair
  PROVE  /\ Round(do, n, w, pair).n = n /\ Round(do, n, w, pair).shown = w
         /\ Round(do, n, w, pair).pair = pair /\ Round(do, n, w, pair).do = do
  BY DEF Round

(* A round shows bytes, or drops a whole frame when armed.                 *)
LEMMA PlanGood ==
  ASSUME NEW d \in Drainings, NEW s \in Texts, NEW bare, NEW eof \in BOOLEAN, NEW bareDrop \in BOOLEAN,
         NEW retain \in BOOLEAN, NEW closeTail \in BOOLEAN
  PROVE  GoodRound(PlanRound(d, s, Starts(s), bare, MatchAtStart(s, eof), eof, bareDrop, retain, closeTail),
                   s, eof, d.f.armed)
<1>. DEFINE n == MatchAtStart(s, eof)
            starts == Starts(s)
            r == PlanRound(d, s, starts, bare, n, eof, bareDrop, retain, closeTail)
            armed == d.f.armed
<1>1. Len(s) \in Nat /\ (s # <<>> => Len(s) > 0)
  BY DEF Texts
<1>2. n \in -1..Len(s)
  BY AnyMatch DEF Matched
<1>3. starts \in SUBSET (1..Len(s))
  BY DEF Starts
<1>4. ASSUME NEW do, NEW k \in 0..Len(s) PROVE GoodRound(Round(do, k, TRUE, FALSE), s, eof, armed)
  <2>. DEFINE w == TRUE
              no == FALSE
              x == Round(do, k, w, no)
  <2>1. w \in BOOLEAN /\ no \in BOOLEAN /\ w
    OBVIOUS
  <2>. HIDE DEF w, no
  <2>2. x.n = k /\ x.shown = w /\ x.pair = no
    BY RoundFields
  <2>. HIDE DEF x
  <2>3. GoodRound(x, s, eof, armed)
    BY <2>1, <2>2 DEF GoodRound
  <2>. QED BY <2>3 DEF x, w, no
<1>5. GoodRound(Done, s, eof, armed)
  <2>1. 0 \in 0..Len(s)
    BY <1>1
  <2>. QED BY <2>1, <1>4 DEF Done
<1>6. CASE s = <<>>
  <2>1. starts = {}
    BY <1>3, <1>6
  <2>2. r = Done
    BY <1>6, <2>1 DEF PlanRound
  <2>. QED BY <1>5, <2>2
<1>7. CASE s # <<>> /\ starts = {}
  <2>. DEFINE k == Most({LongestSuffix(s, p) : p \in Candidates})
  <2>1. k \in 0..Len(s)
    BY SuffixLength
  <2>2. r = Round("done", Len(s) - k, TRUE, FALSE)
    BY <1>7 DEF PlanRound
  <2>. HIDE DEF k
  <2>3. Len(s) - k \in 0..Len(s)
    BY <1>1, <2>1
  <2>. QED BY <1>4, <2>2, <2>3
<1>8. CASE starts # {} /\ 1 \notin starts
  <2>1. starts \in SUBSET Nat
    BY <1>1, <1>3
  <2>. HIDE DEF starts
  <2>2. Least(starts) \in starts
    BY <1>8, <2>1, LeastBound
  <2>6. Least(starts) \in 1..Len(s)
    BY <1>3, <2>2
  <2>3. Least(starts) - 1 \in 0..Len(s)
    BY <1>1, <2>6
  <2>4. s # <<>>
    <3>1. Len(s) > 0
      BY <1>1, <2>6
    <3>. QED BY <3>1
  <2>5. r = Round("again", Least(starts) - 1, TRUE, FALSE)
    BY <1>8, <2>4 DEF PlanRound
  <2>7. GoodRound(r, s, eof, armed)
    BY <1>4, <2>3, <2>5
  <2>. QED BY <2>7 DEF starts
<1>9. CASE 1 \in starts
  <2>1. s # <<>> /\ starts # {} /\ 1 \in 0..Len(s) /\ Len(s) \in 0..Len(s)
    BY <1>1, <1>3, <1>9
  <2>2. CASE n > 0
    <3>1. r = WithFrame(d, s, bare, n, eof, bareDrop, retain, closeTail)
      <4>1. n # 0
        BY <1>1, <1>2, <2>2
      <4>. HIDE DEF n, starts
      <4>. QED BY <1>9, <2>1, <2>2, <4>1 DEF PlanRound
    <3>. DEFINE pair == bare = n /\ bareDrop /\ ~d.f.pairBlocked /\ d.visible = <<>>
    <3>. HIDE DEF n
    <3>2. \/ armed /\ r = Round("again", n, FALSE, pair)
          \/ r = Done
          \/ r = Round("again", 1, TRUE, FALSE)
      BY <3>1 DEF WithFrame
    <3>3. armed => GoodRound(Round("again", n, FALSE, pair), s, eof, armed)
      <4>1. n \in 0..Len(s) /\ pair \in BOOLEAN /\ MatchAtStart(s, eof) = n
        BY <1>1, <1>2, <2>2 DEF n
      <4>. DEFINE no == FALSE
                  x == Round("again", n, no, pair)
      <4>2. no \in BOOLEAN
        OBVIOUS
      <4>. HIDE DEF pair, no
      <4>3. x.n = n /\ x.shown = no /\ x.pair = pair
        BY RoundFields
      <4>. HIDE DEF x
      <4>4. armed => GoodRound(x, s, eof, armed)
        BY <2>2, <4>1, <4>2, <4>3 DEF GoodRound
      <4>. QED BY <4>4 DEF x, no
    <3>4. GoodRound(Round("again", 1, TRUE, FALSE), s, eof, armed)
      BY <1>4, <2>1
    <3>. HIDE DEF r, pair, armed
    <3>5. GoodRound(r, s, eof, armed)
      BY <1>5, <3>2, <3>3, <3>4
    <3>. QED BY <3>5 DEF r, n, armed
  <2>3. CASE n = 0
    <3>1. r = Done \/ r = Round("end", Len(s), TRUE, FALSE)
      <4>1. ~(n > 0)
        BY <2>3
      <4>. HIDE DEF n, starts
      <4>. QED BY <1>9, <2>1, <2>3, <4>1 DEF PlanRound
    <3>. QED BY <1>4, <1>5, <2>1, <3>1
  <2>4. CASE ~(n > 0) /\ n # 0
    <3>1. r = Round("again", 1, TRUE, FALSE)
      <4>. HIDE DEF n, starts
      <4>. QED BY <1>9, <2>1, <2>4 DEF PlanRound
    <3>. QED BY <1>4, <2>1, <3>1
  <2>. QED BY <2>2, <2>3, <2>4
<1>. QED BY <1>6, <1>7, <1>8, <1>9

(* Doing what a round decides.                                             *)
LEMMA TakeRoundDrains ==
  ASSUME NEW lo, NEW hi, Range2(lo, hi), NEW g, NEW d \in Drains(g, lo, hi),
         NEW r, NEW eof, GoodRound(r, Letters(d.f.pending), eof, d.f.armed)
  PROVE  TakeRound(d, r) \in Drains(g, lo, hi)
<1>. DEFINE p == d.paired \/ r.pair
            e == [d EXCEPT !.paired = p]
            left == Leave(e, r.n, r.shown)
<1>1. d \in Drainings /\ Kept(g, d.f)
  BY DEF Drains
<1>2. /\ d.f \in Filters /\ d.visible \in Seq(Bytes) /\ d.split \in Offset /\ d.paired \in BOOLEAN
      /\ d = [f |-> d.f, visible |-> d.visible, split |-> d.split, paired |-> d.paired]
  BY <1>1, DrainFields
<1>3. p \in BOOLEAN
  OBVIOUS
<1>4. e \in Drains(g, lo, hi) /\ e.f = d.f
  <2>. HIDE DEF p
  <2>1. e = [f |-> d.f, visible |-> d.visible, split |-> d.split, paired |-> p]
    BY <1>2
  <2>. HIDE DEF e
  <2>2. e \in Drainings /\ e.f = d.f /\ e.visible = d.visible
    BY <1>2, <1>3, <2>1 DEF Drainings
  <2>3. Kept(d.f, e.f)
    BY <2>2 DEF Kept
  <2>. QED BY <2>2, <2>3, SameDrains
<1>5. PICK m \in lo..hi : d.f.pending = Piece(m, hi)
  BY DEF Drains
<1>6. Len(Letters(d.f.pending)) = hi - m /\ Len(d.f.pending) = hi - m
  BY <1>5, DrainPiece
<1>. HIDE DEF e
<1>7. left \in Drains(g, lo, hi)
  <2>1. r.n \in 0..Len(e.f.pending) /\ r.shown \in BOOLEAN
    BY <1>4, <1>6 DEF GoodRound
  <2>2. ~r.shown => g.armed /\ r.n > 0 /\ MatchAtStart(Letters(e.f.pending), eof) = r.n
    BY <1>1, <1>4 DEF GoodRound, Kept
  <2>. QED BY <1>4, <2>1, <2>2, LeaveDrains
<1>. HIDE DEF left
<1>8. Unblock(left) \in Drains(g, lo, hi)
  <2>1. left \in Drainings
    BY <1>7 DEF Drains
  <2>. QED BY <1>7, <2>1, UnblockDrains, SameDrains
<1>9. TakeRound(d, r) = IF r.n = 0 THEN d ELSE IF r.do = "end" THEN left ELSE Unblock(left)
  BY DEF TakeRound, left, e
<1>. QED BY <1>7, <1>8, <1>9

\* The states of the loop.
DrainLoops(g, lo, hi) == [d : Drains(g, lo, hi), bareDrop : BOOLEAN, done : BOOLEAN]

(* A whole round.                                                          *)
LEMMA DrainRoundDrains ==
  ASSUME NEW lo, NEW hi, Range2(lo, hi), NEW g, NEW v \in DrainLoops(g, lo, hi),
         NEW eof \in BOOLEAN, NEW retain \in BOOLEAN, NEW closeTail \in BOOLEAN
  PROVE  DrainRound(v, eof, retain, closeTail) \in DrainLoops(g, lo, hi)
<1>. DEFINE s == Letters(v.d.f.pending)
            bare == BareMatch(s)
            waits == ~eof /\ v.bareDrop /\ s # <<>> /\ bare = 0
            d == BeforeRound(v.d, s, bare, waits)
            r == PlanRound(d, s, Starts(s), bare, MatchAtStart(s, eof), eof, v.bareDrop, retain, closeTail)
            more == v.bareDrop /\ ~r.pair
            done == r.do # "again"
            t == TakeRound(d, r)
<1>1. v.d \in Drains(g, lo, hi) /\ v.bareDrop \in BOOLEAN /\ v.done \in BOOLEAN
  BY DEF DrainLoops
<1>2. s \in Texts
  <2>1. PICK m \in lo..hi : v.d.f.pending = Piece(m, hi)
    BY <1>1 DEF Drains
  <2>. QED BY <1>1, <2>1, DrainPiece
<1>3. DrainRound(v, eof, retain, closeTail)
        = IF v.done THEN v ELSE [d |-> t, bareDrop |-> more, done |-> done]
  BY DEF DrainRound
<1>4. d \in Drains(g, lo, hi) /\ d.f.pending = v.d.f.pending
  <2>. HIDE DEF bare, waits, s
  <2>. QED BY <1>1, BeforeRoundDrains
<1>. HIDE DEF bare, d
<1>5. GoodRound(r, s, eof, d.f.armed)
  <2>1. d \in Drainings
    BY <1>4 DEF Drains
  <2>. HIDE DEF s
  <2>. QED BY <1>1, <1>2, <2>1, PlanGood
<1>6. s = Letters(d.f.pending)
  BY <1>4
<1>. HIDE DEF r, s
<1>7. t \in Drains(g, lo, hi)
  BY <1>4, <1>5, <1>6, TakeRoundDrains
<1>8. more \in BOOLEAN /\ done \in BOOLEAN
  OBVIOUS
<1>. HIDE DEF t, more, done
<1>9. [d |-> t, bareDrop |-> more, done |-> done] \in DrainLoops(g, lo, hi)
  BY <1>7, <1>8 DEF DrainLoops
<1>. QED BY <1>3, <1>9

(* drain_pending, by induction on its rounds.                              *)
LEMMA DrainPendingDrains ==
  ASSUME NEW lo, NEW hi, Range2(lo, hi), NEW g \in Filters, g.pending = Piece(lo, hi),
         NEW eof \in BOOLEAN, NEW bareDrop \in BOOLEAN, NEW retain \in BOOLEAN, NEW closeTail \in BOOLEAN
  PROVE  DrainPending(g, eof, bareDrop, retain, closeTail) \in Drains(g, lo, hi)
<1>. DEFINE V == DrainLoops(g, lo, hi)
            x == [d |-> Drained(g), bareDrop |-> bareDrop, done |-> FALSE]
            S == [v \in V |-> DrainRound(v, eof, retain, closeTail)]
            L == DrainLoop(x, eof, retain, closeTail)
            n == Len(g.pending) + 1
<1>1. x \in V
  <2>1. Drained(g) \in Drains(g, lo, hi) /\ FALSE \in BOOLEAN
    BY DrainStarts
  <2>. QED BY <2>1 DEF DrainLoops
<1>2. \A v \in V : DrainRound(v, eof, retain, closeTail) \in V
  BY DrainRoundDrains
<1>3. S \in [V -> V]
  BY <1>2
<1>4. DrainPending(g, eof, bareDrop, retain, closeTail) = L[n].d
  BY DEF DrainPending
<1>. HIDE DEF V, x
<1>5. PICK q \in [Nat -> V] : q = [k \in Nat |-> IF k = 0 THEN x ELSE S[q[k - 1]]]
  <2>. HIDE DEF S
  <2>. QED BY <1>1, <1>3, LoopExists
<1>6. q = [k \in Nat |-> IF k = 0 THEN x ELSE DrainRound(q[k - 1], eof, retain, closeTail)]
  <2>1. \A k \in Nat : k # 0 => S[q[k - 1]] = DrainRound(q[k - 1], eof, retain, closeTail)
    BY <1>5
  <2>. HIDE DEF S
  <2>. QED BY <1>5, <2>1
<1>7. L = [k \in Nat |-> IF k = 0 THEN x ELSE DrainRound(L[k - 1], eof, retain, closeTail)]
  BY <1>6 DEF DrainLoop
<1>. HIDE DEF L, S
<1>8. L[0] = x
  BY <1>7
<1>9. \A k \in Nat : L[k + 1] = DrainRound(L[k], eof, retain, closeTail)
  <2>1. ASSUME NEW k \in Nat PROVE L[k + 1] = DrainRound(L[k], eof, retain, closeTail)
    <3>1. k + 1 \in Nat /\ k + 1 # 0 /\ (k + 1) - 1 = k
      OBVIOUS
    <3>. QED BY <1>7, <3>1
  <2>. QED BY <2>1
<1>. DEFINE T == {k \in Nat : L[k] \in V}
<1>10. 0 \in T /\ T \in SUBSET Nat /\ \A k \in T : k + 1 \in T
  BY <1>1, <1>2, <1>8, <1>9
<1>11. T = Nat
  <2>. HIDE DEF T
  <2>. QED BY <1>10, Counting
<1>12. n \in Nat
  BY DEF Filters
<1>13. L[n] \in V
  BY <1>11, <1>12
<1>. QED BY <1>4, <1>13 DEF V, DrainLoops

(* Everything leaves.                                                      *)
LEMMA EmitAllDrains ==
  ASSUME NEW lo, NEW hi, Range2(lo, hi), NEW g, NEW d \in Drains(g, lo, hi)
  PROVE  EmitAll(d) \in Drains(g, lo, hi) /\ EmitAll(d).f.pending = Piece(hi, hi)
<1>. DEFINE n == Len(d.f.pending)
            w == TRUE
<1>1. PICK m \in lo..hi : d.f.pending = Piece(m, hi)
  BY DEF Drains
<1>2. Range2(m, hi) /\ n = hi - m /\ n \in Nat /\ n \in 0..n /\ m \in Nat /\ hi \in Nat
  <2>1. Range2(m, hi) /\ n = hi - m
    BY <1>1, DrainPiece
  <2>2. m \in Nat /\ hi \in Nat /\ m <= hi
    BY <2>1 DEF Range2
  <2>. HIDE DEF n
  <2>3. n \in Nat
    BY <2>1, <2>2
  <2>. QED BY <2>1, <2>2, <2>3
<1>3. Emit(d, n) \in Drains(g, lo, hi)
  BY <1>2, EmitDrains
<1>4. CASE n = 0
  <2>1. m = hi
    <3>. HIDE DEF n
    <3>. QED BY <1>2, <1>4
  <2>2. Emit(d, n) = d
    BY <1>4 DEF Emit
  <2>. QED BY <1>1, <1>3, <2>1, <2>2 DEF EmitAll
<1>5. CASE n # 0
  <2>1. Emit(d, n) = Leave(d, n, w)
    BY <1>5 DEF Emit
  <2>2. m \in Nat /\ m + n = hi /\ m + n <= hi /\ m <= hi /\ hi \in Nat /\ hi <= Len(script) /\ script \in Texts
    <3>. HIDE DEF n
    <3>. QED BY <1>2 DEF Range2
  <2>3. SubSeq(d.f.pending, 1, n) = Piece(m, hi) /\ From(d.f.pending, n + 1) = Piece(hi, hi)
    <3>. HIDE DEF n
    <3>1. SubSeq(Piece(m, hi), 1, n) = Piece(m, m + n) /\ From(Piece(m, hi), n + 1) = Piece(m + n, hi)
      BY <1>2, <2>2, PieceSplit
    <3>. QED BY <1>1, <2>2, <3>1
  <2>4. Piece(m, hi) \in Seq(Bytes) /\ Piece(hi, hi) \in Seq(Bytes) /\ d \in Drainings /\ w \in BOOLEAN
    BY <2>2, PieceBytes DEF Drains
  <2>. HIDE DEF n, w
  <2>5. Leave(d, n, w).f.pending = Piece(hi, hi)
    BY <1>2, <2>3, <2>4, LeaveIs
  <2>. QED BY <1>3, <2>1, <2>5 DEF EmitAll, n
<1>. QED BY <1>4, <1>5

(* A piece up to hi says where it begins.                                  *)
LEMMA SamePieces ==
  ASSUME NEW m, NEW k, NEW hi, Range2(m, hi), Range2(k, hi), Piece(m, hi) = Piece(k, hi)
  PROVE  m = k
<1>1. Len(Piece(m, hi)) = hi - m /\ Len(Piece(k, hi)) = hi - k
  BY PieceBytes DEF Range2
<1>. QED BY <1>1 DEF Range2

(* No bytes.                                                               *)
LEMMA EmptyPiece ==
  ASSUME NEW m \in Nat
  PROVE  Piece(m, m) = <<>>
<1>1. m - m = 0 /\ 1..0 = {}
  OBVIOUS
<1>. QED BY <1>1 DEF Piece

(* What is left after draining, and what was shown.                        *)
LEMMA DrainedTo ==
  ASSUME NEW lo, NEW hi, Range2(lo, hi), NEW g, NEW d \in Drains(g, lo, hi),
         NEW m, Range2(m, hi), d.f.pending = Piece(m, hi)
  PROVE  m \in lo..hi /\ Cut(lo, m, d.visible, g.armed)
<1>1. PICK k \in lo..hi : d.f.pending = Piece(k, hi) /\ Cut(lo, k, d.visible, g.armed)
  BY DEF Drains
<1>2. Range2(k, hi)
  BY DEF Range2
<1>3. k = m
  BY <1>1, <1>2, SamePieces
<1>. QED BY <1>1, <1>3

(* A part of the pending bytes, drained on its own.                        *)
LEMMA PartSet ==
  ASSUME NEW h \in Filters, NEW p \in Seq(Bytes)
  PROVE  /\ [h EXCEPT !.pending = p, !.lfAt = None] \in Filters
         /\ Kept(h, [h EXCEPT !.pending = p, !.lfAt = None])
         /\ [h EXCEPT !.pending = p, !.lfAt = None].pending = p
<1>. DEFINE x == [h EXCEPT !.pending = p]
            y == [x EXCEPT !.lfAt = None]
<1>1. x \in Filters /\ Kept(h, x) /\ x.pending = p
  BY PendingSet
<1>2. None \in Offset
  BY DEF Offset
<1>3. [h EXCEPT !.pending = p, !.lfAt = None] = y
  OBVIOUS
<1>. HIDE DEF x
<1>4. y \in Filters /\ Kept(x, y) /\ y.pending = p
  BY <1>1, <1>2, LfAtSet
<1>5. Kept(h, y)
  BY <1>1, <1>4, KeptBoth
<1>. HIDE DEF y
<1>. QED BY <1>3, <1>4, <1>5

Part2(h, bytes) ==
    EmitAll(DrainPending([h EXCEPT !.pending = bytes, !.lfAt = None], TRUE, FALSE, FALSE, FALSE))

(* Both halves of force_pending_ipc_lf_boundary do this.                   *)
LEMMA PartDrains ==
  ASSUME NEW a, NEW b, Range2(a, b), NEW h \in Filters
  PROVE  /\ Part2(h, Piece(a, b)) \in Drainings /\ Kept(h, Part2(h, Piece(a, b)).f)
         /\ Part2(h, Piece(a, b)).f.pending = Piece(b, b)
         /\ Cut(a, b, Part2(h, Piece(a, b)).visible, h.armed)
<1>. DEFINE p == Piece(a, b)
            x == [h EXCEPT !.pending = p, !.lfAt = None]
            d == DrainPending(x, TRUE, FALSE, FALSE, FALSE)
            e == EmitAll(d)
<1>1. p \in Seq(Bytes)
  BY PieceBytes DEF Range2
<1>2. x \in Filters /\ Kept(h, x) /\ x.pending = p
  <2>. HIDE DEF p
  <2>. QED BY <1>1, PartSet
<1>. HIDE DEF x
<1>3. d \in Drains(x, a, b)
  <2>1. TRUE \in BOOLEAN /\ FALSE \in BOOLEAN /\ x.pending = Piece(a, b)
    BY <1>2
  <2>. QED BY <1>2, <2>1, DrainPendingDrains
<1>. HIDE DEF d
<1>4. e \in Drains(x, a, b) /\ e.f.pending = Piece(b, b)
  BY <1>3, EmitAllDrains
<1>. HIDE DEF e
<1>5. Range2(b, b)
  BY DEF Range2
<1>6. Cut(a, b, e.visible, x.armed)
  BY <1>4, <1>5, DrainedTo
<1>7. e \in Drainings /\ Kept(x, e.f)
  BY <1>4 DEF Drains
<1>8. Kept(h, e.f) /\ x.armed = h.armed
  BY <1>2, <1>7, KeptBoth DEF Kept
<1>. QED BY <1>4, <1>6, <1>7, <1>8 DEF Part2, e, d, x, p

(* force_pending_ipc_lf_boundary drains both sides of the boundary.        *)
LEMMA ForceBoundaryDrains ==
  ASSUME NEW lo, NEW hi, Range2(lo, hi), NEW g, NEW d \in Drains(g, lo, hi)
  PROVE  ForceBoundary(d) \in Drains(g, lo, hi)
<1>. DEFINE p == d.f.pending
            at == Least({d.f.lfAt, Len(p)})
            x == SubSeq(p, 1, at)
            y == From(p, at + 1)
            before == Part2(d.f, x)
            mid == [before.f EXCEPT !.pairBlocked = FALSE]
            after == Part2(mid, y)
            v == (d.visible \o before.visible) \o after.visible
            spl == Len(d.visible) + Len(before.visible)
            u == [f |-> after.f, visible |-> v, split |-> spl, paired |-> FALSE]
<1>1. ForceBoundary(d) = IF d.f.lfAt = None THEN d ELSE u
  BY DEF ForceBoundary, Part2
<1>2. d \in Drainings /\ Kept(g, d.f) /\ d.f \in Filters /\ d.visible \in Seq(Bytes)
  BY DrainFields DEF Drains
<1>3. PICK m \in lo..hi : p = Piece(m, hi) /\ Cut(lo, m, d.visible, g.armed)
  BY DEF Drains
<1>4. Range2(m, hi) /\ Len(p) = hi - m
  BY <1>3, DrainPiece
<1>5. ASSUME d.f.lfAt # None PROVE u \in Drains(g, lo, hi)
  <2>1. at \in Nat /\ m + at <= hi
    <3>1. d.f.lfAt \in Nat /\ Len(p) \in Nat /\ hi \in Nat /\ m \in Nat
      BY <1>2, <1>4, <1>5 DEF Filters, Offset, Range2
    <3>. DEFINE S == {d.f.lfAt, Len(p)}
    <3>2. S \in SUBSET Nat /\ S # {} /\ Len(p) \in S
      BY <3>1
    <3>. HIDE DEF S
    <3>3. Least(S) \in S /\ Least(S) <= Len(p)
      BY <3>2, LeastBound
    <3>4. Least(S) \in Nat
      BY <3>2, <3>3
    <3>. DEFINE q == Least(S)
    <3>. HIDE DEF p
    <3>5. q \in Nat /\ q <= hi - m
      BY <1>4, <3>3, <3>4
    <3>. HIDE DEF q
    <3>6. m + q <= hi
      BY <3>1, <3>5
    <3>. QED BY <3>5, <3>6 DEF q, S, p
  <2>. HIDE DEF at
  <2>2. Range2(m, m + at) /\ Range2(m + at, hi)
    BY <1>4, <2>1 DEF Range2, Texts
  <2>3. x = Piece(m, m + at) /\ y = Piece(m + at, hi)
    <3>1. SubSeq(Piece(m, hi), 1, at) = Piece(m, m + at) /\ From(Piece(m, hi), at + 1) = Piece(m + at, hi)
      BY <1>4, <2>1, PieceSplit DEF Range2
    <3>. QED BY <1>3, <3>1
  <2>. HIDE DEF x, y
  <2>4. /\ before \in Drainings /\ Kept(d.f, before.f) /\ Cut(m, m + at, before.visible, d.f.armed)
    BY <1>2, <2>2, <2>3, PartDrains
  <2>. HIDE DEF before
  <2>5. before.f \in Filters /\ before.visible \in Seq(Bytes)
    BY <2>4, DrainFields
  <2>6. mid \in Filters /\ Kept(before.f, mid)
    BY <2>5, PairBlockedSet
  <2>. HIDE DEF mid
  <2>7. /\ after \in Drainings /\ Kept(mid, after.f) /\ Cut(m + at, hi, after.visible, mid.armed)
        /\ after.f.pending = Piece(hi, hi)
    BY <2>2, <2>3, <2>6, PartDrains
  <2>. HIDE DEF after
  <2>8. after.f \in Filters /\ after.visible \in Seq(Bytes)
    BY <2>7, DrainFields
  <2>9. Kept(g, after.f)
    BY <1>2, <2>4, <2>6, <2>7, KeptBoth
  <2>10. d.f.armed = g.armed /\ mid.armed = g.armed
    BY <1>2, <2>4, <2>6 DEF Kept
  <2>11. Cut(lo, hi, v, g.armed)
    <3>1. Cut(lo, m + at, d.visible \o before.visible, g.armed)
      BY <1>3, <1>4, <2>1, <2>2, <2>4, <2>10, CutJoin DEF Range2
    <3>2. lo <= m + at /\ lo \in Nat /\ m + at \in Nat /\ m + at <= hi /\ hi \in Nat
      BY <2>2, <1>4, <2>1 DEF Range2
    <3>. QED BY <2>7, <2>10, <3>1, <3>2, CutJoin
  <2>12. v \in Seq(Bytes)
    BY <2>11 DEF Cut
  <2>13. spl \in Offset
    <3>1. Len(d.visible) \in Nat /\ Len(before.visible) \in Nat
      BY <1>2, <2>5, LenProperties
    <3>2. \A i, j \in Nat : i + j \in Nat
      OBVIOUS
    <3>3. spl \in Nat
      BY <3>1, <3>2
    <3>. QED BY <3>3 DEF Offset
  <2>. HIDE DEF v, spl
  <2>14. u \in Drainings /\ u.f = after.f /\ u.visible = v
    <3>1. FALSE \in BOOLEAN
      OBVIOUS
    <3>. QED BY <2>8, <2>12, <2>13, <3>1 DEF Drainings
  <2>. HIDE DEF u
  <2>15. hi \in lo..hi
    BY DEF Range2
  <2>. QED BY <2>7, <2>9, <2>11, <2>14, <2>15 DEF Drains
<1>. HIDE DEF u
<1>. QED BY <1>1, <1>5

-----------------------------------------------------------------------------
(***************************************************************************)
(* The operations of the filter.  It holds the bytes after the first lo,   *)
(* up to hi: in prefix until the startup noise is over, then in pending.   *)
(***************************************************************************)

Holding(g, lo, hi) ==
    /\ g \in Filters /\ Range2(lo, hi)
    /\ g.started => g.prefix = <<>> /\ g.pending = Piece(lo, hi)
    /\ ~g.started => /\ g.pending = <<>> /\ g.prefix = Piece(lo, hi)
                     /\ g.matched => StartupNoise(1, lo)
                     /\ ~g.matched => lo = 0
\* Where the pending bytes begin.
Floor(g, lo, hi) == IF g.started THEN lo ELSE hi
\* What no operation does: it never disarms or restarts the filter.
Moves(g, h) ==
    /\ g.armed => h.armed
    /\ g.started => h.started
    /\ h.finished = g.finished /\ h.sessionEnd = g.sessionEnd /\ h.finalized = g.finalized
\* Filters that hold the same bytes.
Same(g, h) ==
    /\ h.prefix = g.prefix /\ h.matched = g.matched /\ h.started = g.started
    /\ h.pending = g.pending /\ h.finished = g.finished /\ h.armed = g.armed
    /\ h.sessionEnd = g.sessionEnd /\ h.finalized = g.finalized
\* Up to byte k nothing was left out but startup noise.
Begun(g, lo, k) == k = lo \/ (~g.started /\ StartupNoise(1, k))
\* The result r of an operation on a filter g that held bytes after the first
\* lo; it holds those after the first m, and let the ones before through.
Yields(g, lo, r, hi) ==
    /\ r.f \in Filters /\ r.raw \in Seq(Bytes) /\ r.split \in Nat /\ r.lf \in Int
    /\ Moves(g, r.f)
    /\ \E m \in lo..hi :
          /\ Holding(r.f, m, hi)
          /\ ~r.f.started => Ids(r.raw) = {}
          /\ r.f.started => \E k \in lo..m : Begun(g, lo, k) /\ Cut(k, m, r.raw, r.f.armed)

(* The pending bytes of a filter that holds lo to hi.                      *)
LEMMA HoldingPending ==
  ASSUME NEW g, NEW lo, NEW hi, Holding(g, lo, hi)
  PROVE  /\ Range2(Floor(g, lo, hi), hi) /\ g.pending = Piece(Floor(g, lo, hi), hi)
         /\ g \in Filters
<1>1. CASE g.started
  BY <1>1 DEF Holding, Floor
<1>2. CASE ~g.started
  <2>1. hi \in Nat /\ Range2(hi, hi)
    BY DEF Holding, Range2
  <2>2. Piece(hi, hi) = <<>>
    BY <2>1, EmptyPiece
  <2>. QED BY <1>2, <2>1, <2>2 DEF Holding, Floor
<1>. QED BY <1>1, <1>2

(* Flags and boundaries change nothing of what is held.                    *)
LEMMA SameHolding ==
  ASSUME NEW g, NEW lo, NEW hi, Holding(g, lo, hi), NEW h \in Filters, Same(g, h)
  PROVE  Holding(h, lo, hi)
  BY DEF Holding, Same

(* Flags and boundaries are free.                                          *)
LEMMA SameMoves ==
  ASSUME NEW g, NEW x, NEW h, Moves(g, x), Same(x, h)
  PROVE  Moves(g, h)
  BY DEF Moves, Same

(* Draining neither disarms nor restarts the filter.                       *)
LEMMA KeptMoves ==
  ASSUME NEW g, NEW x, NEW h, Moves(g, x), Kept(x, h)
  PROVE  Moves(g, h)
  BY DEF Moves, Kept

(* A draining of a filter that has passed its startup.                     *)
LEMMA YieldsStarted ==
  ASSUME NEW g, NEW lo, NEW hi, Range2(lo, hi), NEW k \in lo..hi, Begun(g, lo, k),
         NEW x, Moves(g, x), x.started, x.prefix = <<>>, NEW d \in Drains(x, k, hi),
         NEW r, r.f \in Filters, Same(d.f, r.f), r.raw = d.visible, r.split \in Nat, r.lf \in Int
  PROVE  Yields(g, lo, r, hi)
<1>1. Kept(x, d.f) /\ d \in Drainings
  BY DEF Drains
<1>2. PICK m \in k..hi : d.f.pending = Piece(m, hi) /\ Cut(k, m, d.visible, x.armed)
  BY DEF Drains
<1>3. Moves(g, r.f)
  BY <1>1, KeptMoves, SameMoves
<1>4. r.f.started /\ r.f.prefix = <<>> /\ r.f.pending = Piece(m, hi) /\ r.f.armed = x.armed
  BY <1>1, <1>2 DEF Kept, Same
<1>5. m \in lo..hi /\ k \in lo..m /\ Range2(m, hi)
  BY DEF Range2
<1>6. r.raw \in Seq(Bytes) /\ Cut(k, m, r.raw, r.f.armed)
  BY <1>2, <1>4 DEF Cut
<1>7. Holding(r.f, m, hi)
  BY <1>4, <1>5 DEF Holding
<1>. QED BY <1>3, <1>4, <1>5, <1>6, <1>7 DEF Yields

(* A draining of a filter that has not: nothing is pending.                *)
LEMMA YieldsBefore ==
  ASSUME NEW g, NEW lo, NEW hi, Holding(g, lo, hi), ~g.started,
         NEW x, Moves(g, x), x.prefix = g.prefix, x.matched = g.matched, ~x.started,
         NEW d \in Drains(x, hi, hi),
         NEW r, r.f \in Filters, Same(d.f, r.f), r.raw = d.visible, r.split \in Nat, r.lf \in Int
  PROVE  Yields(g, lo, r, hi)
<1>1. Kept(x, d.f) /\ d \in Drainings
  BY DEF Drains
<1>2. hi \in Nat /\ lo \in lo..hi /\ Range2(lo, hi)
  BY DEF Holding, Range2
<1>3. d.f.pending = Piece(hi, hi) /\ Cut(hi, hi, d.visible, x.armed)
  <2>1. PICK m \in hi..hi : d.f.pending = Piece(m, hi) /\ Cut(hi, m, d.visible, x.armed)
    BY DEF Drains
  <2>2. m = hi
    BY <1>2, <2>1
  <2>. QED BY <2>1, <2>2
<1>4. Piece(hi, hi) = <<>>
  BY <1>2, EmptyPiece
<1>5. Ids(r.raw) = {} /\ r.raw \in Seq(Bytes)
  <2>1. (hi + 1)..hi = {}
    BY <1>2
  <2>. QED BY <1>3, <2>1 DEF Cut
<1>6. Moves(g, r.f)
  BY <1>1, KeptMoves, SameMoves
<1>7. ~r.f.started /\ r.f.prefix = g.prefix /\ r.f.matched = g.matched /\ r.f.pending = <<>>
  BY <1>1, <1>3, <1>4 DEF Kept, Same
<1>8. Holding(r.f, lo, hi)
  BY <1>7 DEF Holding
<1>. QED BY <1>2, <1>5, <1>6, <1>7, <1>8 DEF Yields

(* Either.                                                                 *)
LEMMA YieldsDrained ==
  ASSUME NEW g, NEW lo, NEW hi, Holding(g, lo, hi),
         NEW x, Moves(g, x), x.prefix = g.prefix, x.matched = g.matched, x.started = g.started,
         NEW d \in Drains(x, Floor(g, lo, hi), hi),
         NEW r, r.f \in Filters, Same(d.f, r.f), r.raw = d.visible, r.split \in Nat, r.lf \in Int
  PROVE  Yields(g, lo, r, hi)
<1>1. Range2(lo, hi) /\ lo \in lo..hi
  BY DEF Holding, Range2
<1>2. CASE g.started
  <2>1. x.started /\ x.prefix = <<>> /\ d \in Drains(x, lo, hi) /\ Begun(g, lo, lo)
    BY <1>2 DEF Holding, Floor, Begun
  <2>. QED BY <1>1, <2>1, YieldsStarted
<1>3. CASE ~g.started
  <2>1. ~x.started /\ d \in Drains(x, hi, hi)
    BY <1>3 DEF Floor
  <2>. QED BY <1>3, <2>1, YieldsBefore
<1>. QED BY <1>2, <1>3

(* What a call hands on.                                                   *)
LEMMA ResultFields ==
  ASSUME NEW g, NEW raw, NEW lf, NEW split
  PROVE  /\ Result(g, raw, lf, split).f = g /\ Result(g, raw, lf, split).raw = raw
         /\ Result(g, raw, lf, split).lf = lf /\ Result(g, raw, lf, split).split = split
  BY DEF Result

(* None is no offset of a byte.                                            *)
LEMMA NoneIsInt ==
  /\ None \in Int /\ None \in Offset /\ None \notin Nat /\ 0 \in Nat /\ Nat \subseteq Int
  /\ Nat \subseteq Offset
  BY DEF None, Offset

(* take_pending_ipc_shutdown_lf_for_output.                                *)
LEMMA TakeLfFields ==
  ASSUME NEW g \in Filters, NEW raw, NEW split \in Nat
  PROVE  /\ TakeLf(g, raw, split).f \in Filters /\ Same(g, TakeLf(g, raw, split).f)
         /\ TakeLf(g, raw, split).raw = raw /\ TakeLf(g, raw, split).split \in Nat
         /\ TakeLf(g, raw, split).lf \in Int /\ TakeLf(g, raw, split).f.lf = None
<1>1. g.lf \in Int
  BY DEF Filters
<1>2. CASE g.lf = None
  <2>1. TakeLf(g, raw, split) = Result(g, raw, None, 0)
    BY <1>2 DEF TakeLf
  <2>. QED BY <1>2, <2>1, ResultFields, NoneIsInt DEF Same
<1>3. CASE g.lf # None
  <2>. DEFINE h == [g EXCEPT !.lf = None, !.ipcSeen = TRUE]
  <2>1. h \in Filters /\ Same(g, h) /\ h.lf = None
    BY NoneIsInt DEF Filters, Same
  <2>2. TakeLf(g, raw, split) = Result(h, raw, g.lf, split)
    BY <1>3 DEF TakeLf
  <2>. HIDE DEF h
  <2>. QED BY <1>1, <2>1, <2>2, ResultFields
<1>. QED BY <1>2, <1>3

(* flush_pending_before_observable_event.                                  *)
LEMMA FlushDrains ==
  ASSUME NEW lo, NEW hi, Range2(lo, hi), NEW g \in Filters, g.pending = Piece(lo, hi)
  PROVE  FlushBeforeEvent(g) \in Drains(g, lo, hi)
<1>. DEFINE s == Letters(g.pending)
            d == IF ~g.armed /\ ~g.finished /\ s = <<"n">> THEN EmitAll(Drained(g)) ELSE Drained(g)
            t == Letters(d.f.pending)
            e == [d EXCEPT !.f.pairBlocked = TRUE]
            u == EmitAll(d)
<1>1. FlushBeforeEvent(g) = IF g.finished \/ t = <<>> \/ BareMatch(t) = -1 THEN d
                            ELSE IF IsPrefix(t, Start) THEN e ELSE Unblock(u)
  BY DEF FlushBeforeEvent
<1>2. Drained(g) \in Drains(g, lo, hi)
  BY DrainStarts
<1>3. d \in Drains(g, lo, hi)
  BY <1>2, EmitAllDrains
<1>. HIDE DEF d
<1>4. d \in Drainings
  BY <1>3 DEF Drains
<1>5. e \in Drains(g, lo, hi)
  <2>1. /\ d.f \in Filters /\ d.visible \in Seq(Bytes) /\ d.split \in Offset /\ d.paired \in BOOLEAN
        /\ d = [f |-> d.f, visible |-> d.visible, split |-> d.split, paired |-> d.paired]
    BY <1>4, DrainFields
  <2>. DEFINE h == [d.f EXCEPT !.pairBlocked = TRUE]
  <2>2. TRUE \in BOOLEAN
    OBVIOUS
  <2>3. h \in Filters /\ Kept(d.f, h) /\ h.pending = d.f.pending
    BY <2>1, <2>2, PairBlockedSet
  <2>. DEFINE z == [d EXCEPT !.f = h]
  <2>6. e = z
    OBVIOUS
  <2>. HIDE DEF h
  <2>4. z = [f |-> h, visible |-> d.visible, split |-> d.split, paired |-> d.paired]
    BY <2>1
  <2>. HIDE DEF z, e
  <2>5. e \in Drainings /\ e.f = h /\ e.visible = d.visible
    BY <2>1, <2>3, <2>4, <2>6 DEF Drainings
  <2>. QED BY <1>3, <2>3, <2>5, SameDrains
<1>6. Unblock(u) \in Drains(g, lo, hi)
  <2>1. u \in Drains(g, lo, hi)
    BY <1>3, EmitAllDrains
  <2>. HIDE DEF u
  <2>2. u \in Drainings
    BY <2>1 DEF Drains
  <2>. QED BY <2>1, <2>2, UnblockDrains, SameDrains
<1>. HIDE DEF e, u, t
<1>. QED BY <1>1, <1>3, <1>5, <1>6

(* The boundary in the startup prefix, and the one in the pending bytes.   *)
LEMMA ForcePrefixDrains ==
  ASSUME NEW lo, NEW hi, Range2(lo, hi), NEW g, NEW d \in Drains(g, lo, hi)
  PROVE  ForcePrefix(d) \in Drains(g, lo, hi)
<1>. DEFINE e == [d EXCEPT !.split = Len(d.visible), !.f.prefixLfAt = None]
            w == Len(d.visible)
            h == [d.f EXCEPT !.prefixLfAt = None]
<1>1. d \in Drainings
  BY DEF Drains
<1>2. /\ d.f \in Filters /\ d.visible \in Seq(Bytes) /\ d.split \in Offset /\ d.paired \in BOOLEAN
      /\ d = [f |-> d.f, visible |-> d.visible, split |-> d.split, paired |-> d.paired]
  BY <1>1, DrainFields
<1>3. w \in Offset
  BY <1>2, LenProperties DEF Offset
<1>4. h \in Filters /\ Kept(d.f, h) /\ h.pending = d.f.pending
  BY <1>2, NoneIsInt DEF Filters, Kept
<1>5. e = [f |-> h, visible |-> d.visible, split |-> w, paired |-> d.paired]
  <2>. DEFINE x == [d EXCEPT !.split = w]
  <2>1. e = [x EXCEPT !.f = [x.f EXCEPT !.prefixLfAt = None]]
    OBVIOUS
  <2>. HIDE DEF w
  <2>2. x = [f |-> d.f, visible |-> d.visible, split |-> w, paired |-> d.paired]
    BY <1>2
  <2>. HIDE DEF x, e
  <2>3. x.f = d.f
    BY <2>2
  <2>4. e = [x EXCEPT !.f = h]
    BY <2>1, <2>3
  <2>. HIDE DEF h
  <2>. QED BY <2>2, <2>4
<1>. HIDE DEF h, w
<1>6. e \in Drainings /\ e.f = h /\ e.visible = d.visible
  BY <1>2, <1>3, <1>4, <1>5 DEF Drainings
<1>7. ForcePrefix(d) = ForceBoundary(IF d.f.prefixLfAt = None THEN d ELSE e)
  BY DEF ForcePrefix
<1>. HIDE DEF e
<1>8. e \in Drains(g, lo, hi)
  BY <1>4, <1>6, SameDrains
<1>. QED BY <1>7, <1>8, ForceBoundaryDrains

(* flush_pending_raw_before_observable_event.                              *)
LEMMA FlushEventYields ==
  ASSUME NEW g, NEW lo, NEW hi, Holding(g, lo, hi)
  PROVE  Yields(g, lo, FlushEvent(g), hi) /\ FlushEvent(g).f.lf = None
<1>. DEFINE L == Floor(g, lo, hi)
            x == IF ~g.started /\ ~g.matched /\ g.prefix # <<>> THEN [g EXCEPT !.prefixBlocked = TRUE] ELSE g
            d == ForcePrefix(FlushBeforeEvent(x))
            spl == Most({d.split, 0})
            r == TakeLf(d.f, d.visible, spl)
<1>1. FlushEvent(g) = r
  BY DEF FlushEvent, TakeFlushed
<1>2. Range2(L, hi) /\ g.pending = Piece(L, hi) /\ g \in Filters
  BY HoldingPending
<1>3. x \in Filters /\ Same(g, x)
  BY <1>2 DEF Filters, Same
<1>4. /\ Moves(g, x) /\ x.prefix = g.prefix /\ x.matched = g.matched /\ x.started = g.started
      /\ x.pending = Piece(L, hi)
  BY <1>2, <1>3 DEF Moves, Same
<1>. HIDE DEF x, L
<1>5. d \in Drains(x, L, hi)
  BY <1>2, <1>3, <1>4, FlushDrains, ForcePrefixDrains
<1>. HIDE DEF d
<1>6. d.f \in Filters /\ d.split \in Offset
  BY <1>5, DrainFields DEF Drains
<1>7. spl \in Nat
  <2>1. d.split \in Int /\ (d.split \in Nat \/ d.split = -1)
    BY <1>6 DEF Offset, None
  <2>2. CASE d.split \in Nat
    <3>. DEFINE S == {d.split, 0}
    <3>1. S \in SUBSET Int /\ d.split \in S /\ \A y \in S : y <= d.split
      BY <2>2
    <3>. HIDE DEF S
    <3>2. Most(S) = d.split
      BY <3>1, MostIs
    <3>. QED BY <2>2, <3>2 DEF S
  <2>3. CASE d.split = -1
    <3>. DEFINE S == {d.split, 0}
    <3>1. S \in SUBSET Int /\ 0 \in S /\ \A y \in S : y <= 0
      BY <2>3
    <3>. HIDE DEF S
    <3>2. Most(S) = 0
      BY <3>1, MostIs
    <3>. QED BY <3>2 DEF S
  <2>. QED BY <2>1, <2>2, <2>3
<1>. HIDE DEF spl
<1>8. /\ r.f \in Filters /\ Same(d.f, r.f) /\ r.raw = d.visible /\ r.split \in Nat /\ r.lf \in Int
      /\ r.f.lf = None
  BY <1>6, <1>7, TakeLfFields
<1>. HIDE DEF r
<1>9. Yields(g, lo, r, hi)
  BY <1>4, <1>5, <1>8, YieldsDrained DEF L
<1>. QED BY <1>1, <1>8, <1>9

(* arm_shutdown_reset.                                                     *)
LEMMA ArmYields ==
  ASSUME NEW g, NEW lo, NEW hi, Holding(g, lo, hi)
  PROVE  Yields(g, lo, ArmShutdownReset(g), hi)
<1>. DEFINE L == Floor(g, lo, hi)
            x == [g EXCEPT !.armed = TRUE]
            drop == (g.lf # None)
            d == DrainPending(x, g.readerFinished, drop, TRUE, FALSE)
            h == [d.f EXCEPT !.ipcSeen = FALSE]
            r == IF g.armed THEN Result(g, <<>>, None, 0) ELSE Result(h, d.visible, None, 0)
<1>1. ArmShutdownReset(g) = r
  BY DEF ArmShutdownReset
<1>2. Range2(L, hi) /\ g.pending = Piece(L, hi) /\ g \in Filters
  BY HoldingPending
<1>3. CASE g.armed
  <2>. DEFINE e == Drained(g)
  <2>1. e \in Drains(g, L, hi) /\ e.f = g /\ e.visible = <<>>
    BY <1>2, DrainStarts DEF Drained
  <2>2. Moves(g, g) /\ Same(g, g)
    BY DEF Moves, Same
  <2>3. r = Result(g, <<>>, None, 0)
    BY <1>3
  <2>. HIDE DEF e, r, L
  <2>4. r.f = g /\ r.raw = e.visible /\ r.split \in Nat /\ r.lf \in Int
    BY <2>1, <2>3, ResultFields, NoneIsInt
  <2>5. Yields(g, lo, r, hi)
    BY <1>2, <2>1, <2>2, <2>4, YieldsDrained DEF L
  <2>. QED BY <1>1, <2>5
<1>4. CASE ~g.armed
  <2>1. x \in Filters /\ Moves(g, x) /\ x.prefix = g.prefix /\ x.matched = g.matched /\ x.started = g.started
        /\ x.pending = Piece(L, hi)
    BY <1>2 DEF Filters, Moves
  <2>2. g.readerFinished \in BOOLEAN /\ drop \in BOOLEAN /\ TRUE \in BOOLEAN /\ FALSE \in BOOLEAN
    BY <1>2 DEF Filters
  <2>. HIDE DEF x, drop, L
  <2>3. d \in Drains(x, L, hi)
    BY <1>2, <2>1, <2>2, DrainPendingDrains
  <2>. HIDE DEF d
  <2>4. d.f \in Filters
    BY <2>3, DrainFields DEF Drains
  <2>5. h \in Filters /\ Same(d.f, h)
    BY <2>4 DEF Filters, Same
  <2>6. r = Result(h, d.visible, None, 0)
    BY <1>4
  <2>. HIDE DEF h, r
  <2>7. r.f = h /\ r.raw = d.visible /\ r.split \in Nat /\ r.lf \in Int
    BY <2>6, ResultFields, NoneIsInt
  <2>8. Yields(g, lo, r, hi)
    BY <2>1, <2>3, <2>5, <2>7, YieldsDrained DEF L
  <2>. QED BY <1>1, <2>8
<1>. QED BY <1>3, <1>4

(* What drain_pending hands on in filter and finish_reader.                *)
LEMMA SettleFields ==
  ASSUME NEW d \in Drainings
  PROVE  /\ Settle(d).f \in Filters /\ Same(d.f, Settle(d).f)
         /\ Settle(d).raw = d.visible /\ Settle(d).split \in Nat /\ Settle(d).lf \in Int
<1>1. d.f \in Filters /\ d.split \in Offset
  BY DrainFields
<1>2. CASE d.paired
  <2>. DEFINE h == [d.f EXCEPT !.lf = None]
  <2>1. h \in Filters /\ Same(d.f, h)
    BY <1>1, NoneIsInt DEF Filters, Same
  <2>2. Settle(d) = Result(h, d.visible, None, 0)
    BY <1>2 DEF Settle
  <2>. HIDE DEF h
  <2>. QED BY <2>1, <2>2, ResultFields, NoneIsInt
<1>3. CASE ~d.paired /\ d.split # None
  <2>1. d.split \in Nat
    BY <1>1, <1>3 DEF Offset
  <2>2. Settle(d) = TakeLf(d.f, d.visible, d.split)
    BY <1>3 DEF Settle
  <2>. QED BY <1>1, <2>1, <2>2, TakeLfFields
<1>4. CASE ~d.paired /\ d.split = None
  <2>1. Settle(d) = Result(d.f, d.visible, None, 0)
    BY <1>4 DEF Settle
  <2>2. Same(d.f, d.f)
    BY DEF Same
  <2>. QED BY <1>1, <2>1, <2>2, ResultFields, NoneIsInt
<1>. QED BY <1>2, <1>3, <1>4

-----------------------------------------------------------------------------
(***************************************************************************)
(* The startup noise.                                                      *)
(***************************************************************************)

\* What filter_startup hands to the shutdown filter.
Staged(g, lo, s, hi) ==
    /\ s.f \in Filters /\ s.raw \in Seq(Bytes) /\ s.lfAt \in Offset /\ Moves(g, s.f)
    /\ \E k \in lo..hi :
          /\ Begun(g, lo, k)
          /\ s.f.started => s.f.prefix = <<>> /\ s.f.pending \o s.raw = Piece(k, hi)
          /\ ~s.f.started => Holding(s.f, k, hi) /\ s.raw = <<>>

(* A difference that is cut off at zero.                                   *)
LEMMA MostZero ==
  ASSUME NEW a \in Int
  PROVE  Most({a, 0}) \in Nat
<1>. DEFINE S == {a, 0}
<1>1. CASE a >= 0
  <2>1. S \in SUBSET Int /\ a \in S /\ \A y \in S : y <= a
    BY <1>1
  <2>. HIDE DEF S
  <2>2. Most(S) = a
    BY <2>1, MostIs
  <2>. QED BY <1>1, <2>2 DEF S
<1>2. CASE ~(a >= 0)
  <2>1. S \in SUBSET Int /\ 0 \in S /\ \A y \in S : y <= 0
    BY <1>2
  <2>. HIDE DEF S
  <2>2. Most(S) = 0
    BY <2>1, MostIs
  <2>. QED BY <2>2 DEF S
<1>. QED BY <1>1, <1>2

(* drop_startup_pending_prefix.                                            *)
LEMMA DropPrefixFields ==
  ASSUME NEW g \in Filters, NEW n \in Nat, NEW rest \in Seq(Bytes), From(g.prefix, n + 1) = rest
  PROVE  /\ DropPrefix(g, n) \in Filters /\ DropPrefix(g, n).prefix = rest
         /\ DropPrefix(g, n).matched = g.matched /\ DropPrefix(g, n).started = g.started
         /\ DropPrefix(g, n).pending = g.pending /\ DropPrefix(g, n).armed = g.armed
         /\ DropPrefix(g, n).finished = g.finished /\ DropPrefix(g, n).sessionEnd = g.sessionEnd
         /\ DropPrefix(g, n).finalized = g.finalized /\ DropPrefix(g, n).prefixLfAt \in Offset
<1>. DEFINE o == IF g.prefixLfAt = None THEN None ELSE Most({g.prefixLfAt - n, 0})
            h == [g EXCEPT !.prefix = rest, !.prefixLfAt = o]
<1>1. o \in Offset
  <2>1. CASE g.prefixLfAt = None
    BY <2>1, NoneIsInt
  <2>2. CASE g.prefixLfAt # None
    <3>1. g.prefixLfAt - n \in Int
      BY <2>2 DEF Filters, Offset
    <3>2. Most({g.prefixLfAt - n, 0}) \in Nat
      BY <3>1, MostZero
    <3>. QED BY <2>2, <3>2, NoneIsInt
  <2>. QED BY <2>1, <2>2
<1>2. DropPrefix(g, n) = h
  BY DEF DropPrefix
<1>. HIDE DEF o
<1>3. /\ h \in Filters /\ h.prefix = rest /\ h.matched = g.matched /\ h.started = g.started
      /\ h.pending = g.pending /\ h.armed = g.armed /\ h.finished = g.finished
      /\ h.sessionEnd = g.sessionEnd /\ h.finalized = g.finalized /\ h.prefixLfAt = o
  BY <1>1 DEF Filters
<1>. HIDE DEF h
<1>. QED BY <1>1, <1>2, <1>3

(* The first byte that is no line ending.                                  *)
LEMMA FirstVisibleIs ==
  ASSUME NEW s \in Texts
  PROVE  /\ FirstVisible(s) \in 0..Len(s)
         /\ FirstVisible(s) = 0 => \A i \in 1..Len(s) : s[i] \in {"n", "r"}
         /\ FirstVisible(s) > 0 => \A i \in 1..(FirstVisible(s) - 1) : s[i] \in {"n", "r"}
<1>. DEFINE I == {i \in 1..Len(s) : s[i] \notin {"n", "r"}}
            v == IF I # {} THEN Min(I) ELSE 0
<1>1. FirstVisible(s) = v
  BY DEF FirstVisible, SelectInSeq
<1>2. Len(s) \in Nat
  BY DEF Texts
<1>3. I \in SUBSET Nat /\ \A i \in 1..Len(s) : i \notin I => s[i] \in {"n", "r"}
  BY <1>2
<1>4. I \subseteq 1..Len(s)
  OBVIOUS
<1>5. CASE I = {}
  <2>1. v = 0 /\ \A i \in 1..Len(s) : s[i] \in {"n", "r"}
    BY <1>3, <1>5
  <2>. HIDE DEF v
  <2>. QED BY <1>1, <1>2, <2>1
<1>6. CASE I # {}
  <2>. HIDE DEF I
  <2>1. PICK q \in I : \A y \in I : q <= y
    BY <1>3, <1>6, LeastNumber
  <2>2. Min(I) \in I /\ \A y \in I : Min(I) <= y
    BY <1>3, <2>1 DEF Min
  <2>3. v \in I /\ \A y \in I : v <= y
    BY <1>6, <2>2
  <2>. HIDE DEF v
  <2>4. v \in 1..Len(s) /\ v \in Nat
    BY <1>3, <1>4, <2>3
  <2>5. ASSUME NEW i \in 1..(v - 1) PROVE s[i] \in {"n", "r"}
    <3>1. i \in 1..Len(s) /\ ~(v <= i)
      BY <1>2, <2>4
    <3>2. i \notin I
      BY <2>3, <3>1
    <3>. QED BY <1>3, <3>1, <3>2
  <2>. QED BY <1>1, <1>2, <2>4, <2>5
<1>. QED BY <1>5, <1>6

(* Line endings after the modes are startup noise too.                     *)
LEMMA NoiseGrows ==
  ASSUME NEW a, NEW hi, Range2(a, hi), StartupNoise(1, a), NEW n \in 0..(hi - a),
         \A i \in 1..n : Letters(Piece(a, hi))[i] \in {"n", "r"}
  PROVE  StartupNoise(1, a + n)
<1>. DEFINE s == Letters(Piece(a, hi))
            k == Len(StartupModes) + 1
<1>1. script \in Seq(Chars) /\ a \in Nat /\ hi \in Nat /\ a <= hi /\ hi <= Len(script) /\ n \in Nat /\ a + n <= hi
  BY DEF Range2, Texts
<1>2. s = SubSeq(script, a + 1, hi)
  BY PieceLetters DEF Range2
<1>3. \A i \in 1..(hi - (a + 1) + 1) : SubSeq(script, a + 1, hi)[i] = script[(a + 1) + i - 1]
  <2>1. a + 1 \in Nat /\ 1 <= a + 1 /\ a + 1 <= hi + 1
    BY <1>1
  <2>. QED BY <1>1, <2>1, Piecewise
<1>. HIDE DEF s
<1>4. k \in Nat
  BY Frames
<1>5. ASSUME NEW i \in k..(a + n) PROVE script[i] \in {"n", "r"}
  <2>1. CASE i <= a
    <3>1. i \in k..a
      BY <1>1, <1>4, <2>1
    <3>. QED BY <3>1 DEF StartupNoise
  <2>2. CASE i > a
    <3>1. i - a \in 1..n /\ i - a \in 1..(hi - (a + 1) + 1) /\ (a + 1) + (i - a) - 1 = i
      BY <1>1, <1>4, <2>2
    <3>2. s[i - a] = script[i]
      BY <1>2, <1>3, <3>1
    <3>. QED BY <3>1, <3>2 DEF s
  <2>. QED BY <1>1, <1>4, <2>1, <2>2
<1>. QED BY <1>5 DEF StartupNoise

(* The prefix that is left after n bytes of it.                            *)
LEMMA PrefixLeft ==
  ASSUME NEW a, NEW hi, Range2(a, hi), NEW x \in Filters, x.prefix = Piece(a, hi), NEW n \in 0..(hi - a)
  PROVE  /\ DropPrefix(x, n) \in Filters /\ DropPrefix(x, n).prefix = Piece(a + n, hi)
         /\ DropPrefix(x, n).matched = x.matched /\ DropPrefix(x, n).started = x.started
         /\ DropPrefix(x, n).pending = x.pending /\ DropPrefix(x, n).armed = x.armed
         /\ DropPrefix(x, n).finished = x.finished /\ DropPrefix(x, n).sessionEnd = x.sessionEnd
         /\ DropPrefix(x, n).finalized = x.finalized /\ DropPrefix(x, n).prefixLfAt \in Offset
         /\ Range2(a + n, hi) /\ a + n \in a..hi
<1>1. n \in Nat /\ a + n <= hi /\ a + n \in Nat /\ a \in Nat /\ hi \in Nat
  BY DEF Range2
<1>2. Range2(a + n, hi) /\ a + n \in a..hi
  BY <1>1 DEF Range2
<1>3. From(x.prefix, n + 1) = Piece(a + n, hi)
  <2>1. From(Piece(a, hi), n + 1) = Piece(a + n, hi)
    BY <1>1, PieceSplit DEF Range2
  <2>. QED BY <2>1
<1>4. Piece(a + n, hi) \in Seq(Bytes)
  BY <1>2, PieceBytes DEF Range2
<1>. QED BY <1>1, <1>2, <1>3, <1>4, DropPrefixFields

(* finish_startup_with_drop.                                               *)
LEMMA FinishStaged ==
  ASSUME NEW lo, NEW hi, Range2(lo, hi), NEW g, NEW a \in lo..hi, NEW x \in Filters, Moves(g, x),
         x.prefix = Piece(a, hi), x.pending = <<>>, NEW n \in 0..(hi - a), Begun(g, lo, a + n)
  PROVE  Staged(g, lo, FinishStartup(x, n), hi) /\ FinishStartup(x, n).f.started
<1>. DEFINE y == DropPrefix(x, n)
            h == [y EXCEPT !.prefix = <<>>, !.prefixLfAt = None, !.started = TRUE]
            s == FinishStartup(x, n)
<1>1. Range2(a, hi) /\ lo \in Nat /\ hi \in Nat /\ a \in Nat /\ lo <= a
  BY DEF Range2
<1>0. /\ y \in Filters /\ y.prefix = Piece(a + n, hi)
      /\ y.matched = x.matched /\ y.started = x.started
      /\ y.pending = x.pending /\ y.armed = x.armed
      /\ y.finished = x.finished /\ y.sessionEnd = x.sessionEnd
      /\ y.finalized = x.finalized /\ y.prefixLfAt \in Offset
      /\ Range2(a + n, hi) /\ a + n \in a..hi
  BY ONLY <1>1, PrefixLeft, x \in Filters, x.prefix = Piece(a, hi), n \in 0..(hi - a)
<1>2. /\ y \in Filters /\ y.prefix = Piece(a + n, hi) /\ y.pending = <<>> /\ y.armed = x.armed
      /\ y.finished = x.finished /\ y.sessionEnd = x.sessionEnd /\ y.finalized = x.finalized
      /\ y.prefixLfAt \in Offset /\ Range2(a + n, hi) /\ a + n \in a..hi
  BY <1>0
<1>3. s = [f |-> h, raw |-> y.prefix, lfAt |-> y.prefixLfAt]
  BY DEF FinishStartup
<1>. HIDE DEF y
<1>4. <<>> \in Seq(Bytes)
  OBVIOUS
<1>5. /\ h \in Filters /\ h.prefix = <<>> /\ h.pending = <<>> /\ h.started /\ h.armed = x.armed
      /\ h.finished = x.finished /\ h.sessionEnd = x.sessionEnd /\ h.finalized = x.finalized
  BY <1>2, <1>4, NoneIsInt DEF Filters
<1>. HIDE DEF h
<1>6. Moves(g, h)
  BY <1>5 DEF Moves
<1>7. Piece(a + n, hi) \in Seq(Bytes)
  BY <1>2, PieceBytes DEF Range2
<1>8. <<>> \o Piece(a + n, hi) = Piece(a + n, hi)
  BY <1>7
<1>9. s.f = h /\ s.raw = Piece(a + n, hi) /\ s.lfAt = y.prefixLfAt
  BY <1>2, <1>3
<1>. HIDE DEF s
<1>10. a + n \in lo..hi
  BY <1>1, <1>2
<1>11. Staged(g, lo, s, hi)
  BY <1>2, <1>5, <1>6, <1>7, <1>8, <1>9, <1>10 DEF Staged
<1>. QED BY <1>5, <1>9, <1>11 DEF s

(* Bytes are held after the modes.                                         *)
LEMMA HoldStaged ==
  ASSUME NEW lo, NEW hi, Range2(lo, hi), NEW g, ~g.started, NEW a \in lo..hi, NEW x \in Filters, Moves(g, x),
         x.prefix = Piece(a, hi), x.pending = <<>>, ~x.started, x.matched,
         NEW n \in 0..(hi - a), StartupNoise(1, a + n)
  PROVE  Staged(g, lo, [f |-> DropPrefix(x, n), raw |-> <<>>, lfAt |-> None], hi)
<1>. DEFINE y == DropPrefix(x, n)
            s == [f |-> y, raw |-> <<>>, lfAt |-> None]
<1>1. Range2(a, hi) /\ lo \in Nat /\ hi \in Nat /\ a \in Nat /\ lo <= a
  BY DEF Range2
<1>0. /\ y \in Filters /\ y.prefix = Piece(a + n, hi)
      /\ y.matched = x.matched /\ y.started = x.started
      /\ y.pending = x.pending /\ y.armed = x.armed
      /\ y.finished = x.finished /\ y.sessionEnd = x.sessionEnd
      /\ y.finalized = x.finalized /\ y.prefixLfAt \in Offset
      /\ Range2(a + n, hi) /\ a + n \in a..hi
  BY ONLY <1>1, PrefixLeft, x \in Filters, x.prefix = Piece(a, hi), n \in 0..(hi - a)
<1>2. /\ y \in Filters /\ y.prefix = Piece(a + n, hi) /\ y.pending = <<>> /\ y.armed = x.armed
      /\ y.finished = x.finished /\ y.sessionEnd = x.sessionEnd /\ y.finalized = x.finalized
      /\ y.started = x.started /\ y.matched = x.matched /\ Range2(a + n, hi) /\ a + n \in a..hi
  BY <1>0
<1>3. s.f = y /\ s.raw = <<>> /\ s.lfAt = None
  OBVIOUS
<1>. HIDE DEF s, y
<1>4. Holding(y, a + n, hi)
  BY <1>2 DEF Holding
<1>5. Moves(g, y)
  BY <1>2 DEF Moves
<1>6. a + n \in lo..hi /\ <<>> \in Seq(Bytes) /\ Begun(g, lo, a + n)
  BY <1>1, <1>2 DEF Begun
<1>7. Staged(g, lo, s, hi)
  BY <1>2, <1>3, <1>4, <1>5, <1>6, NoneIsInt DEF Staged
<1>. QED BY <1>7 DEF s, y

(* finish_after_matched_prefix.                                            *)
LEMMA AfterModesStaged ==
  ASSUME NEW lo, NEW hi, Range2(lo, hi), NEW g, ~g.started, NEW a \in lo..hi, NEW x \in Filters, Moves(g, x),
         x.prefix = Piece(a, hi), x.pending = <<>>, ~x.started, x.matched, StartupNoise(1, a)
  PROVE  Staged(g, lo, AfterModes(x), hi)
<1>. DEFINE s == Letters(x.prefix)
            v == FirstVisible(s)
            reset == From(s, v - 1)
            keepLf == IF s # <<>> /\ Last(s) = "n" THEN 1 ELSE 0
            Hold(n) == [f |-> DropPrefix(x, n), raw |-> <<>>, lfAt |-> None]
<1>1. AfterModes(x) =
        IF v = 0 THEN Hold(Len(s) - keepLf)
        ELSE IF v > 1 /\ s[v - 1] = "n" /\ IsPrefix(LfPrefixed, reset) THEN FinishStartup(x, v - 2)
        ELSE IF v > 1 /\ s[v - 1] = "n" /\ IsPrefix(reset, LfPrefixed) THEN Hold(v - 2)
        ELSE FinishStartup(x, v - 1)
  BY DEF AfterModes
<1>2. Range2(a, hi) /\ lo \in Nat /\ hi \in Nat /\ a \in Nat /\ a <= hi
  BY DEF Range2
<1>3. s \in Texts /\ Len(s) = hi - a /\ s = Letters(Piece(a, hi))
  BY <1>2, PieceLetters DEF Range2
<1>. HIDE DEF s
<1>4. /\ v \in 0..(hi - a)
      /\ v = 0 => \A i \in 1..(hi - a) : s[i] \in {"n", "r"}
      /\ v > 0 => \A i \in 1..(v - 1) : s[i] \in {"n", "r"}
  BY <1>3, FirstVisibleIs
<1>. HIDE DEF v
<1>5. ASSUME NEW n \in 0..(hi - a), \A i \in 1..n : s[i] \in {"n", "r"}
      PROVE  /\ Staged(g, lo, Hold(n), hi) /\ Staged(g, lo, FinishStartup(x, n), hi)
  <2>1. StartupNoise(1, a + n)
    BY <1>2, <1>3, <1>5, NoiseGrows
  <2>2. Begun(g, lo, a + n)
    BY <2>1 DEF Begun
  <2>. QED BY <2>1, <2>2, HoldStaged, FinishStaged
<1>6. CASE v = 0
  <2>1. keepLf \in {0, 1} /\ (Len(s) = 0 => keepLf = 0)
    BY <1>3 DEF Texts
  <2>. HIDE DEF keepLf
  <2>. DEFINE n == Len(s) - keepLf
  <2>2. n \in 0..(hi - a)
    BY <1>2, <1>3, <2>1
  <2>3. \A i \in 1..n : i \in 1..(hi - a)
    BY <1>2, <2>2
  <2>. HIDE DEF n
  <2>4. Staged(g, lo, Hold(n), hi)
    BY <1>4, <1>5, <1>6, <2>2, <2>3
  <2>. QED BY <1>1, <1>6, <2>4 DEF n
<1>7. CASE v # 0
  <2>1. v > 0 /\ v - 1 \in 0..(hi - a) /\ \A i \in 1..(v - 1) : s[i] \in {"n", "r"}
    BY <1>2, <1>4, <1>7
  <2>2. Staged(g, lo, FinishStartup(x, v - 1), hi)
    BY <1>5, <2>1
  <2>3. ASSUME v > 1
        PROVE  Staged(g, lo, Hold(v - 2), hi) /\ Staged(g, lo, FinishStartup(x, v - 2), hi)
    <3>1. v - 2 \in 0..(hi - a) /\ \A i \in 1..(v - 2) : i \in 1..(v - 1)
      BY <1>2, <1>4, <2>3
    <3>. QED BY <1>5, <2>1, <3>1
  <2>. HIDE DEF Hold
  <2>. QED BY <1>1, <1>7, <2>2, <2>3
<1>. QED BY <1>6, <1>7

(* The modes are the beginning of the script.                              *)
LEMMA ModesFirst ==
  ASSUME NEW hi, Range2(0, hi), IsPrefix(StartupModes, Letters(Piece(0, hi)))
  PROVE  StartupNoise(1, 4) /\ 4 <= hi
<1>. DEFINE p == StartupModes
            s == Letters(Piece(0, hi))
            t == SubSeq(script, 0 + 1, hi)
<1>1. p \in Seq(Chars) /\ Len(p) = 4
  BY Frames DEF Texts
<1>2. script \in Seq(Chars) /\ hi \in Nat /\ hi <= Len(script)
  BY DEF Range2, Texts
<1>3. s = t /\ s \in Seq(Chars) /\ Len(s) = hi - 0
  BY PieceLetters DEF Range2, Texts
<1>4. \A i \in 1..(hi - (0 + 1) + 1) : t[i] = script[(0 + 1) + i - 1]
  <2>1. 0 + 1 \in Nat /\ 1 <= 0 + 1 /\ 0 + 1 <= hi + 1
    BY <1>2
  <2>. QED BY <1>2, <2>1, Piecewise
<1>. HIDE DEF t, s
<1>5. Len(p) <= Len(s) /\ \A i \in 1..Len(p) : p[i] = s[i]
  <2>1. IsPrefix(p, s)
    BY DEF s
  <2>. HIDE DEF p
  <2>. QED BY <1>1, <1>3, <2>1, PrefixMeans
<1>. HIDE DEF p
<1>6. 4 <= hi
  BY <1>1, <1>2, <1>3, <1>5
<1>7. \A i \in 1..Len(p) : p[i] = script[i]
  <2>. TAKE i \in 1..Len(p)
  <2>1. i \in 1..(hi - (0 + 1) + 1) /\ (0 + 1) + i - 1 = i
    BY <1>1, <1>2, <1>6
  <2>. QED BY <1>3, <1>4, <1>5, <2>1
<1>8. Len(p) <= Len(script)
  BY <1>1, <1>2, <1>6
<1>9. IsPrefix(p, script)
  BY <1>1, <1>2, <1>7, <1>8, PrefixMeans
<1>10. 4 + 1..4 = {}
  OBVIOUS
<1>. QED BY <1>1, <1>6, <1>9, <1>10 DEF StartupNoise, p

(* filter_startup.                                                         *)
LEMMA FilterStartupStaged ==
  ASSUME NEW g, NEW lo, NEW mid, NEW hi, Holding(g, lo, mid), Range2(mid, hi)
  PROVE  Staged(g, lo, FilterStartup(g, Piece(mid, hi)), hi)
<1>. DEFINE bytes == Piece(mid, hi)
            all == Piece(lo, hi)
            x == [g EXCEPT !.prefix = all]
            s == Letters(all)
            y == [x EXCEPT !.matched = TRUE]
<1>1. /\ g \in Filters /\ script \in Texts /\ lo \in Nat /\ mid \in Nat /\ hi \in Nat /\ lo <= mid /\ mid <= hi
      /\ hi <= Len(script) /\ Range2(lo, hi) /\ lo \in lo..hi
  BY DEF Holding, Range2
<1>2. all \in Seq(Bytes) /\ bytes \in Seq(Bytes)
  BY <1>1, PieceBytes
<1>3. Piece(lo, mid) \o bytes = all
  BY <1>1, PieceJoin
<1>4. Moves(g, g) /\ Begun(g, lo, lo)
  BY DEF Moves, Begun
<1>5. CASE g.started
  <2>. DEFINE r == [f |-> g, raw |-> bytes, lfAt |-> None]
  <2>1. FilterStartup(g, bytes) = r
    BY <1>5 DEF FilterStartup
  <2>2. g.prefix = <<>> /\ g.pending = Piece(lo, mid)
    BY <1>5 DEF Holding
  <2>3. g.pending \o bytes = all
    BY <1>3, <2>2
  <2>. HIDE DEF bytes, all
  <2>4. r.f = g /\ r.raw = bytes /\ r.lfAt = None
    OBVIOUS
  <2>. HIDE DEF r
  <2>5. Staged(g, lo, r, hi)
    BY <1>1, <1>2, <1>4, <1>5, <2>2, <2>3, <2>4, NoneIsInt DEF Staged, all
  <2>. QED BY <2>1, <2>5 DEF bytes
<1>6. CASE ~g.started
  <2>1. g.pending = <<>> /\ g.prefix = Piece(lo, mid)
    BY <1>6 DEF Holding
  <2>2. g.prefix \o bytes = all
    BY <1>3, <2>1
  <2>. HIDE DEF all
  <2>3. /\ x \in Filters /\ x.prefix = all /\ x.pending = <<>> /\ x.started = g.started /\ x.matched = g.matched
        /\ Moves(g, x)
    BY <1>1, <1>2, <2>1 DEF Filters, Moves
  <2>4. FilterStartup(g, bytes) =
          IF g.matched THEN AfterModes(x)
          ELSE IF Len(s) < Len(StartupModes) /\ IsPrefix(s, StartupModes)
          THEN [f |-> x, raw |-> <<>>, lfAt |-> None]
          ELSE IF ~IsPrefix(StartupModes, s) THEN FinishStartup(x, 0)
          ELSE AfterModes(DropPrefix(y, Len(StartupModes)))
    <3>1. [g EXCEPT !.prefix = g.prefix \o bytes] = x /\ x.prefix = all
      BY <2>2, <2>3
    <3>. DEFINE z == [g EXCEPT !.prefix = @ \o bytes]
    <3>2. z = x
      BY <3>1
    <3>3. FilterStartup(g, bytes) =
          IF g.matched THEN AfterModes(z)
          ELSE IF Len(Letters(z.prefix)) < Len(StartupModes) /\ IsPrefix(Letters(z.prefix), StartupModes)
          THEN [f |-> z, raw |-> <<>>, lfAt |-> None]
          ELSE IF ~IsPrefix(StartupModes, Letters(z.prefix)) THEN FinishStartup(z, 0)
          ELSE AfterModes(DropPrefix([z EXCEPT !.matched = TRUE], Len(StartupModes)))
      BY <1>6 DEF FilterStartup
    <3>. HIDE DEF z, bytes
    <3>. QED BY <3>1, <3>2, <3>3 DEF bytes
  <2>. HIDE DEF x, s
  <2>5. CASE g.matched
    <3>1. StartupNoise(1, lo)
      BY <1>6, <2>5 DEF Holding
    <3>2. x.prefix = Piece(lo, hi)
      BY <2>3 DEF all
    <3>3. Staged(g, lo, AfterModes(x), hi)
      BY <1>1, <1>6, <2>3, <2>5, <3>1, <3>2, AfterModesStaged
    <3>. QED BY <2>4, <2>5, <3>3
  <2>6. CASE ~g.matched
    <3>1. lo = 0
      BY <1>6, <2>6 DEF Holding
    <3>2. x.prefix = Piece(lo, hi)
      BY <2>3 DEF all
    <3>3. Staged(g, lo, [f |-> x, raw |-> <<>>, lfAt |-> None], hi)
      <4>. DEFINE r == [f |-> x, raw |-> <<>>, lfAt |-> None]
      <4>1. r.f = x /\ r.raw = <<>> /\ r.lfAt = None /\ <<>> \in Seq(Bytes)
        OBVIOUS
      <4>. HIDE DEF r
      <4>2. Holding(x, lo, hi)
        BY <1>1, <1>6, <2>3, <2>6, <3>1, <3>2 DEF Holding
      <4>3. Staged(g, lo, r, hi)
        BY <1>1, <1>4, <1>6, <2>3, <4>1, <4>2, NoneIsInt DEF Staged
      <4>. QED BY <4>3 DEF r
    <3>4. Staged(g, lo, FinishStartup(x, 0), hi)
      <4>1. 0 \in 0..(hi - lo) /\ lo + 0 = lo
        BY <1>1
      <4>. QED BY <1>1, <1>4, <2>3, <3>2, <4>1, FinishStaged
    <3>5. ASSUME IsPrefix(StartupModes, s)
          PROVE  Staged(g, lo, AfterModes(DropPrefix(y, Len(StartupModes))), hi)
      <4>1. StartupNoise(1, 4) /\ 4 <= hi
        BY <1>1, <3>1, <3>5, ModesFirst DEF s, all
      <4>2. Len(StartupModes) = 4
        BY Frames
      <4>3. /\ y \in Filters /\ y.prefix = Piece(lo, hi) /\ y.pending = <<>> /\ ~y.started /\ y.matched
            /\ Moves(g, y)
        <5>1. /\ y \in Filters /\ y.prefix = x.prefix /\ y.pending = x.pending /\ y.started = x.started
              /\ y.matched /\ Moves(x, y)
          BY <2>3 DEF Filters, Moves
        <5>. HIDE DEF y
        <5>. QED BY <1>6, <2>3, <3>2, <5>1 DEF Moves
      <4>. HIDE DEF y
      <4>. DEFINE z == DropPrefix(y, 4)
      <4>4. 4 \in 0..(hi - lo) /\ lo + 4 = 4
        BY <1>1, <3>1, <4>1
      <4>5. /\ z \in Filters /\ z.prefix = Piece(lo + 4, hi) /\ z.pending = <<>> /\ z.started = y.started
            /\ z.matched = y.matched /\ z.armed = y.armed /\ z.finished = y.finished
            /\ z.sessionEnd = y.sessionEnd /\ z.finalized = y.finalized /\ lo + 4 \in lo..hi
        <5>1. /\ z \in Filters /\ z.prefix = Piece(lo + 4, hi)
              /\ z.matched = y.matched /\ z.started = y.started
              /\ z.pending = y.pending /\ z.armed = y.armed
              /\ z.finished = y.finished /\ z.sessionEnd = y.sessionEnd
              /\ z.finalized = y.finalized /\ z.prefixLfAt \in Offset
              /\ Range2(lo + 4, hi) /\ lo + 4 \in lo..hi
          BY ONLY <1>1, <4>3, <4>4, PrefixLeft
        <5>. QED BY <4>3, <5>1
      <4>. HIDE DEF z
      <4>6. Moves(g, z) /\ ~z.started /\ z.matched /\ z.prefix = Piece(4, hi) /\ 4 \in lo..hi
        BY <4>3, <4>4, <4>5 DEF Moves
      <4>7. Staged(g, lo, AfterModes(z), hi)
        BY <1>1, <1>6, <4>1, <4>5, <4>6, AfterModesStaged
      <4>. QED BY <4>2, <4>7 DEF z
    <3>. HIDE DEF y
    <3>. QED BY <2>4, <2>6, <3>3, <3>4, <3>5
  <2>. QED BY <2>5, <2>6
<1>. QED BY <1>5, <1>6

(* The place of the line feed behind the bytes that are pending.           *)
LEMMA MarkLfFields ==
  ASSUME NEW g \in Filters, NEW o \in Offset
  PROVE  MarkLf(g, o) \in Filters /\ Same(g, MarkLf(g, o)) /\ MarkLf(g, o).lf = g.lf
<1>. DEFINE at == Len(g.pending) + o
            h == [g EXCEPT !.lfAt = at]
<1>1. CASE o = None
  BY <1>1 DEF MarkLf, Same
<1>2. CASE o # None
  <2>1. Len(g.pending) \in Nat /\ o \in Nat
    BY <1>2 DEF Filters, Offset
  <2>2. at \in Offset
    BY <2>1 DEF Offset
  <2>3. MarkLf(g, o) = h
    BY <1>2 DEF MarkLf
  <2>. HIDE DEF at
  <2>4. h \in Filters /\ Same(g, h) /\ h.lf = g.lf
    BY <2>2 DEF Filters, Same
  <2>. QED BY <2>3, <2>4
<1>. QED BY <1>1, <1>2

(* filter, once the startup noise is out.                                  *)
LEMMA AfterStartupYields ==
  ASSUME NEW g, NEW lo, NEW s, NEW hi, Range2(lo, hi), ~g.finished, Staged(g, lo, s, hi)
  PROVE  Yields(g, lo, AfterStartup(s), hi)
<1>. DEFINE block == s.f.prefixBlocked /\ ~s.f.matched
            x == [s.f EXCEPT !.prefixBlocked = FALSE, !.pairBlocked = @ \/ block]
            y == MarkLf(x, s.lfAt)
            r == FilterReset(y, s.raw)
<1>1. AfterStartup(s) = r
  BY DEF AfterStartup
<1>2. s.f \in Filters /\ s.raw \in Seq(Bytes) /\ s.lfAt \in Offset /\ Moves(g, s.f)
  BY DEF Staged
<1>3. PICK k \in lo..hi :
          /\ Begun(g, lo, k)
          /\ s.f.started => s.f.prefix = <<>> /\ s.f.pending \o s.raw = Piece(k, hi)
          /\ ~s.f.started => Holding(s.f, k, hi) /\ s.raw = <<>>
  BY DEF Staged
<1>4. x \in Filters /\ Same(s.f, x)
  BY <1>2 DEF Filters, Same
<1>. HIDE DEF x
<1>5. y \in Filters /\ Same(x, y)
  BY <1>2, <1>4, MarkLfFields
<1>. HIDE DEF y
<1>6. Same(s.f, y) /\ Moves(g, y) /\ ~y.finished
  BY <1>2, <1>4, <1>5 DEF Same, Moves
<1>7. Range2(k, hi)
  BY DEF Range2
<1>8. CASE s.raw = <<>>
  <2>1. r = Result(y, <<>>, None, 0)
    BY <1>8 DEF FilterReset
  <2>. HIDE DEF r
  <2>2. r.f = y /\ r.raw = <<>> /\ r.split \in Nat /\ r.lf \in Int
    BY <2>1, ResultFields, NoneIsInt
  <2>3. CASE s.f.started
    <3>1. s.f.pending \in Seq(Bytes)
      BY <1>2 DEF Filters
    <3>2. s.f.pending \o <<>> = s.f.pending
      BY <3>1
    <3>3. y.started /\ y.prefix = <<>> /\ y.pending = Piece(k, hi)
      BY <1>3, <1>6, <1>8, <2>3, <3>2 DEF Same
    <3>. DEFINE d == Drained(y)
    <3>4. d \in Drains(y, k, hi) /\ d.f = y /\ d.visible = <<>>
      BY <1>5, <1>7, <3>3, DrainStarts DEF Drained
    <3>. HIDE DEF d
    <3>5. Same(d.f, r.f) /\ r.f \in Filters /\ r.raw = d.visible
      BY <1>5, <2>2, <3>4 DEF Same
    <3>6. Yields(g, lo, r, hi)
      BY <1>3, <1>6, <2>2, <3>3, <3>4, <3>5, YieldsStarted
    <3>. QED BY <1>1, <3>6 DEF r
  <2>4. CASE ~s.f.started
    <3>1. Holding(y, k, hi) /\ ~y.started
      BY <1>3, <1>5, <1>6, <2>4, SameHolding DEF Same
    <3>2. Ids(r.raw) = {} /\ r.raw \in Seq(Bytes)
      <4>1. <<>> \in Seq(Bytes) /\ DOMAIN <<>> = {}
        OBVIOUS
      <4>. QED BY <2>2, <4>1 DEF Ids
    <3>3. Yields(g, lo, r, hi)
      BY <1>5, <1>6, <2>2, <3>1, <3>2 DEF Yields
    <3>. QED BY <1>1, <3>3 DEF r
  <2>. QED BY <2>3, <2>4
<1>9. CASE s.raw # <<>>
  <2>1. s.f.started /\ s.f.prefix = <<>> /\ s.f.pending \o s.raw = Piece(k, hi)
    BY <1>3, <1>9
  <2>. DEFINE q == y.pending \o s.raw
              z == [y EXCEPT !.pending = q]
              drop == MayDropBare(y)
              d == DrainPending(z, FALSE, drop, TRUE, FALSE)
  <2>2. r = Settle(d)
    BY <1>6, <1>9 DEF FilterReset
  <2>. HIDE DEF r
  <2>3. q = Piece(k, hi) /\ Piece(k, hi) \in Seq(Bytes)
    <3>1. q = s.f.pending \o s.raw
      BY <1>6 DEF Same
    <3>2. Piece(k, hi) \in Seq(Bytes)
      BY <1>7, PieceBytes DEF Range2
    <3>. QED BY <2>1, <3>1, <3>2
  <2>. HIDE DEF q
  <2>4. z \in Filters /\ Kept(y, z) /\ z.pending = q
    BY <1>5, <2>3, PendingSet
  <2>5. drop \in BOOLEAN /\ TRUE \in BOOLEAN /\ FALSE \in BOOLEAN
    BY DEF MayDropBare
  <2>. HIDE DEF z, drop
  <2>6. d \in Drains(z, k, hi)
    BY <1>7, <2>3, <2>4, <2>5, DrainPendingDrains
  <2>. HIDE DEF d
  <2>7. d \in Drainings
    BY <2>6 DEF Drains
  <2>8. r.f \in Filters /\ Same(d.f, r.f) /\ r.raw = d.visible /\ r.split \in Nat /\ r.lf \in Int
    BY <2>2, <2>7, SettleFields
  <2>9. Moves(g, z) /\ z.started /\ z.prefix = <<>>
    BY <1>6, <2>1, <2>4, KeptMoves DEF Kept, Same
  <2>10. Yields(g, lo, r, hi)
    BY <1>3, <2>6, <2>8, <2>9, YieldsStarted
  <2>. QED BY <1>1, <2>10 DEF r
<1>. QED BY <1>8, <1>9

(* filter.                                                                 *)
LEMMA FilterYields ==
  ASSUME NEW g, NEW lo, NEW mid, NEW hi, Holding(g, lo, mid), Range2(mid, hi), ~g.finished
  PROVE  Yields(g, lo, Filter(g, Piece(mid, hi)), hi)
<1>1. Range2(lo, hi)
  BY DEF Holding, Range2
<1>2. Staged(g, lo, FilterStartup(g, Piece(mid, hi)), hi)
  BY FilterStartupStaged
<1>. QED BY <1>1, <1>2, AfterStartupYields DEF Filter

(* At the end of raw stdout the startup is over.                           *)
LEMMA AtEofHolds ==
  ASSUME NEW g, NEW lo, NEW hi, Holding(g, lo, hi)
  PROVE  /\ AtEof(g) \in Filters /\ Moves(g, AtEof(g)) /\ AtEof(g).started /\ AtEof(g).prefix = <<>>
         /\ \E k \in lo..hi : Begun(g, lo, k) /\ AtEof(g).pending = Piece(k, hi)
<1>. DEFINE s == FinishStartupAtEof(g)
            t == Letters(g.prefix)
            v == FirstVisible(t)
            n == IF ~g.matched THEN 0 ELSE IF v = 0 THEN Len(g.prefix) ELSE v - 1
            z == MarkLf(s.f, s.lfAt)
            q == z.pending \o s.raw
            y == [z EXCEPT !.pending = q]
<1>1. Range2(lo, hi) /\ lo \in lo..hi /\ lo \in Nat /\ hi \in Nat /\ g \in Filters /\ Moves(g, g)
  BY DEF Holding, Range2, Moves
<1>2. AtEof(g) = y
  BY DEF AtEof, WithRest
<1>3. Staged(g, lo, s, hi) /\ s.f.started
  <2>1. CASE g.started
    <3>1. s = [f |-> g, raw |-> <<>>, lfAt |-> None]
      BY <2>1 DEF FinishStartupAtEof
    <3>2. s.f = g /\ s.raw = <<>> /\ s.lfAt = None
      BY <3>1
    <3>. HIDE DEF s
    <3>3. g.prefix = <<>> /\ g.pending = Piece(lo, hi) /\ g.pending \in Seq(Bytes)
      BY <1>1, <2>1 DEF Holding, Filters
    <3>4. g.pending \o <<>> = g.pending /\ <<>> \in Seq(Bytes)
      BY <3>3
    <3>5. Begun(g, lo, lo)
      BY DEF Begun
    <3>. QED BY <1>1, <2>1, <3>2, <3>3, <3>4, <3>5, NoneIsInt DEF Staged
  <2>2. CASE ~g.started
    <3>1. g.pending = <<>> /\ g.prefix = Piece(lo, hi)
      BY <2>2 DEF Holding
    <3>2. t \in Texts /\ Len(t) = hi - lo /\ t = Letters(Piece(lo, hi)) /\ Len(g.prefix) = hi - lo
      BY <1>1, <3>1, PieceLetters, PieceBytes DEF Range2
    <3>3. s = FinishStartup(g, n)
      BY <2>2 DEF FinishStartupAtEof
    <3>. HIDE DEF s, t
    <3>4. /\ v \in 0..(hi - lo)
          /\ v = 0 => \A i \in 1..(hi - lo) : t[i] \in {"n", "r"}
          /\ v > 0 => \A i \in 1..(v - 1) : t[i] \in {"n", "r"}
      BY <3>2, FirstVisibleIs
    <3>. HIDE DEF v
    <3>5. n \in 0..(hi - lo)
      BY <1>1, <3>2, <3>4 DEF Range2
    <3>6. Begun(g, lo, lo + n)
      <4>1. CASE ~g.matched
        <5>1. lo + n = lo
          BY <1>1, <4>1
        <5>. QED BY <5>1 DEF Begun
      <4>2. CASE g.matched
        <5>1. StartupNoise(1, lo)
          BY <2>2, <4>2 DEF Holding
        <5>2. \A i \in 1..n : t[i] \in {"n", "r"}
          <6>1. CASE v = 0
            <7>1. n = hi - lo
              BY <3>2, <4>2, <6>1
            <7>. QED BY <3>4, <6>1, <7>1
          <6>2. CASE v # 0
            <7>1. n = v - 1 /\ v > 0
              BY <1>1, <3>4, <4>2, <6>2
            <7>. QED BY <3>4, <7>1
          <6>. QED BY <6>1, <6>2
        <5>. HIDE DEF n
        <5>3. StartupNoise(1, lo + n)
          BY <1>1, <3>2, <3>5, <5>1, <5>2, NoiseGrows
        <5>. QED BY <2>2, <5>3 DEF Begun
      <4>. QED BY <4>1, <4>2
    <3>. HIDE DEF n
    <3>. QED BY <1>1, <3>1, <3>3, <3>5, <3>6, FinishStaged
  <2>. QED BY <2>1, <2>2
<1>. HIDE DEF s
<1>4. s.f \in Filters /\ s.lfAt \in Offset /\ Moves(g, s.f)
  BY <1>3 DEF Staged
<1>5. PICK k \in lo..hi : Begun(g, lo, k) /\ s.f.prefix = <<>> /\ s.f.pending \o s.raw = Piece(k, hi)
  BY <1>3 DEF Staged
<1>6. z \in Filters /\ Same(s.f, z)
  BY <1>4, MarkLfFields
<1>. HIDE DEF z
<1>7. q = Piece(k, hi) /\ q \in Seq(Bytes)
  <2>1. q = s.f.pending \o s.raw
    BY <1>6 DEF Same
  <2>2. Range2(k, hi)
    BY <1>1 DEF Range2
  <2>3. Piece(k, hi) \in Seq(Bytes)
    BY <2>2, PieceBytes DEF Range2
  <2>. QED BY <1>5, <2>1, <2>3
<1>. HIDE DEF q
<1>8. y \in Filters /\ Kept(z, y) /\ y.pending = q
  BY <1>6, <1>7, PendingSet
<1>. HIDE DEF y
<1>9. Moves(g, y) /\ y.started /\ y.prefix = <<>>
  BY <1>3, <1>4, <1>5, <1>6, <1>8 DEF Moves, Same, Kept
<1>. QED BY <1>2, <1>5, <1>7, <1>8, <1>9

(* finish_reader.                                                          *)
LEMMA FinishReaderYields ==
  ASSUME NEW g, NEW lo, NEW hi, Holding(g, lo, hi)
  PROVE  Yields(g, lo, FinishReader(g), hi)
<1>. DEFINE y == AtEof(g)
            z == [y EXCEPT !.readerFinished = TRUE]
            drop == MayDropBare(g)
            d == DrainPending(z, TRUE, drop, TRUE, FALSE)
            r == Settle(d)
<1>1. FinishReader(g) = r
  BY DEF FinishReader
<1>2. y \in Filters /\ Moves(g, y) /\ y.started /\ y.prefix = <<>>
  BY AtEofHolds
<1>3. PICK k \in lo..hi : Begun(g, lo, k) /\ y.pending = Piece(k, hi)
  BY AtEofHolds
<1>4. Range2(lo, hi) /\ Range2(k, hi)
  BY DEF Holding, Range2
<1>. HIDE DEF y
<1>5. z \in Filters /\ Same(y, z)
  BY <1>2 DEF Filters, Same
<1>6. Moves(g, z) /\ z.started /\ z.prefix = <<>> /\ z.pending = Piece(k, hi)
  BY <1>2, <1>3, <1>5 DEF Moves, Same
<1>7. drop \in BOOLEAN /\ TRUE \in BOOLEAN /\ FALSE \in BOOLEAN
  BY DEF MayDropBare
<1>. HIDE DEF z, drop
<1>8. d \in Drains(z, k, hi)
  BY <1>4, <1>5, <1>6, <1>7, DrainPendingDrains
<1>. HIDE DEF d
<1>9. d \in Drainings
  BY <1>8 DEF Drains
<1>10. r.f \in Filters /\ Same(d.f, r.f) /\ r.raw = d.visible /\ r.split \in Nat /\ r.lf \in Int
  BY <1>9, SettleFields
<1>. HIDE DEF r
<1>11. Yields(g, lo, r, hi)
  BY <1>3, <1>4, <1>6, <1>8, <1>10, YieldsStarted
<1>. QED BY <1>1, <1>11

(* A draining of a filter that differs in other fields only.               *)
LEMMA KeptDrains ==
  ASSUME NEW lo, NEW hi, NEW g, NEW h, Kept(g, h), NEW d \in Drains(h, lo, hi)
  PROVE  d \in Drains(g, lo, hi)
<1>1. Kept(h, d.f) /\ h.armed = g.armed
  BY DEF Drains, Kept
<1>2. Kept(g, d.f)
  BY <1>1, KeptBoth
<1>. QED BY <1>1, <1>2 DEF Drains

\* The filter as finalize leaves it, but for the bytes.
Closed(g) == [g EXCEPT !.finished = TRUE, !.finalized = TRUE]

(* WindowsConptyShutdownResetFilter::finalize.                             *)
LEMMA ResetFinalizeIs ==
  ASSUME NEW k, NEW hi, Range2(k, hi), NEW y \in Filters, y.pending = Piece(k, hi)
  PROVE  \E e \in Drains(y, k, hi) :
            e.f.pending = Piece(hi, hi) /\ ResetFinalize(y) = [e EXCEPT !.f.finished = TRUE]
<1>. DEFINE x == [y EXCEPT !.pairBlocked = FALSE]
            d == IF y.armed THEN DrainPending(y, TRUE, FALSE, FALSE, TRUE) ELSE Drained(x)
            u == EmitAll(d)
            e == RecordBoundary(u)
<1>1. ResetFinalize(y) = [e EXCEPT !.f.finished = TRUE]
  BY DEF ResetFinalize
<1>2. d \in Drains(y, k, hi)
  <2>1. TRUE \in BOOLEAN /\ FALSE \in BOOLEAN
    OBVIOUS
  <2>2. DrainPending(y, TRUE, FALSE, FALSE, TRUE) \in Drains(y, k, hi)
    BY <2>1, DrainPendingDrains
  <2>3. x \in Filters /\ Kept(y, x) /\ x.pending = Piece(k, hi)
    BY <2>1, PairBlockedSet
  <2>. HIDE DEF x
  <2>4. Drained(x) \in Drains(x, k, hi)
    BY <2>3, DrainStarts
  <2>5. Drained(x) \in Drains(y, k, hi)
    BY <2>3, <2>4, KeptDrains
  <2>. QED BY <2>2, <2>5
<1>. HIDE DEF d
<1>3. u \in Drains(y, k, hi) /\ u.f.pending = Piece(hi, hi)
  BY <1>2, EmitAllDrains
<1>. HIDE DEF u
<1>4. u \in Drainings
  BY <1>3 DEF Drains
<1>5. e \in Drainings /\ Kept(u.f, e.f) /\ e.f.pending = u.f.pending /\ e.visible = u.visible
  BY <1>4, BoundaryDrains
<1>. HIDE DEF e
<1>6. e \in Drains(y, k, hi)
  BY <1>3, <1>5, SameDrains
<1>. QED BY <1>1, <1>3, <1>5, <1>6

(* finalize: nothing is held any more.                                     *)
LEMMA FinalizeYields ==
  ASSUME NEW g, NEW lo, NEW hi, Holding(g, lo, hi)
  PROVE  /\ Yields(Closed(g), lo, Finalize(g), hi)
         /\ Finalize(g).f.lf = None /\ Finalize(g).f.started
         /\ Finalize(g).f.prefix = <<>> /\ Finalize(g).f.pending = <<>>
<1>. DEFINE y == AtEof(g)
<1>1. y \in Filters /\ Moves(g, y) /\ y.started /\ y.prefix = <<>>
  BY AtEofHolds
<1>2. PICK k \in lo..hi : Begun(g, lo, k) /\ y.pending = Piece(k, hi)
  BY AtEofHolds
<1>3. Range2(lo, hi) /\ Range2(k, hi) /\ Range2(hi, hi) /\ hi \in Nat /\ g \in Filters
  BY DEF Holding, Range2
<1>. HIDE DEF y
<1>4. PICK e \in Drains(y, k, hi) :
          e.f.pending = Piece(hi, hi) /\ ResetFinalize(y) = [e EXCEPT !.f.finished = TRUE]
  BY <1>1, <1>2, <1>3, ResetFinalizeIs
<1>. DEFINE x == [e EXCEPT !.f.finished = TRUE]
            w == [x EXCEPT !.f.prefixLfAt = None, !.f.finalized = TRUE]
            h == [e.f EXCEPT !.finished = TRUE, !.prefixLfAt = None, !.finalized = TRUE]
            spl == Most({w.split, 0})
            r == TakeLf(w.f, w.visible, spl)
<1>5. Finalize(g) = r
  <2>1. Finalize(g) = TakeFlushed([ResetFinalize(AtEof(g)) EXCEPT !.f.prefixLfAt = None, !.f.finalized = TRUE])
    BY DEF Finalize
  <2>2. Finalize(g) = TakeFlushed(w)
    BY <1>4, <2>1 DEF y
  <2>. QED BY <2>2 DEF TakeFlushed
<1>6. e \in Drainings /\ Kept(y, e.f) /\ Cut(k, hi, e.visible, y.armed)
  BY <1>3, <1>4, DrainedTo DEF Drains
<1>7. /\ e.f \in Filters /\ e.visible \in Seq(Bytes) /\ e.split \in Offset
      /\ e = [f |-> e.f, visible |-> e.visible, split |-> e.split, paired |-> e.paired]
  BY <1>6, DrainFields
<1>8. w.f = h /\ w.visible = e.visible /\ w.split = e.split
  <2>. DEFINE a == [e.f EXCEPT !.finished = TRUE]
  <2>1. x = [e EXCEPT !.f = a]
    OBVIOUS
  <2>. HIDE DEF a, x
  <2>2. x = [f |-> a, visible |-> e.visible, split |-> e.split, paired |-> e.paired]
    BY <1>7, <2>1
  <2>. DEFINE b == [x.f EXCEPT !.prefixLfAt = None]
              c == [b EXCEPT !.finalized = TRUE]
  <2>3. w = [[x EXCEPT !.f = b] EXCEPT !.f = c]
    <3>1. w = [[x EXCEPT !.f = b] EXCEPT !.f = [[x EXCEPT !.f = b].f EXCEPT !.finalized = TRUE]]
      OBVIOUS
    <3>. HIDE DEF b
    <3>2. [x EXCEPT !.f = b].f = b
      BY <2>2
    <3>. QED BY <3>1, <3>2
  <2>. HIDE DEF b, c
  <2>4. w.f = c /\ w.visible = e.visible /\ w.split = e.split
    BY <2>2, <2>3
  <2>5. x.f = a
    BY <2>2
  <2>6. c = h
    <3>1. c = [[a EXCEPT !.prefixLfAt = None] EXCEPT !.finalized = TRUE]
      BY <2>5 DEF c, b
    <3>. QED BY <1>7, <3>1 DEF a, Filters
  <2>. QED BY <2>4, <2>6
<1>9. spl \in Nat
  <2>1. w.split \in Int
    BY <1>7, <1>8 DEF Offset, None
  <2>. HIDE DEF w
  <2>. QED BY <2>1, MostZero
<1>10. /\ h \in Filters /\ h.finished /\ h.finalized /\ h.finished = TRUE /\ h.finalized = TRUE
       /\ h.prefix = e.f.prefix /\ h.pending = e.f.pending
       /\ h.started = e.f.started /\ h.armed = e.f.armed /\ h.sessionEnd = e.f.sessionEnd
  BY <1>7, NoneIsInt DEF Filters
<1>. HIDE DEF w, h, spl, x
<1>11. /\ r.f \in Filters /\ Same(h, r.f) /\ r.raw = e.visible /\ r.split \in Nat
       /\ r.lf \in Int /\ r.f.lf = None
  BY <1>8, <1>9, <1>10, TakeLfFields
<1>. HIDE DEF r
<1>12. /\ r.f.started /\ r.f.prefix = <<>> /\ r.f.pending = Piece(hi, hi) /\ r.f.armed = y.armed
       /\ r.f.finished = TRUE /\ r.f.finalized = TRUE /\ r.f.sessionEnd = y.sessionEnd
  BY <1>1, <1>4, <1>6, <1>10, <1>11 DEF Same, Kept
<1>13. Holding(r.f, hi, hi)
  BY <1>3, <1>11, <1>12 DEF Holding
<1>14. /\ Closed(g).armed = g.armed /\ Closed(g).started = g.started /\ Closed(g).finished = TRUE
       /\ Closed(g).sessionEnd = g.sessionEnd /\ Closed(g).finalized = TRUE
  BY <1>3 DEF Closed, Filters
<1>15. Moves(Closed(g), r.f) /\ Begun(Closed(g), lo, k)
  BY <1>1, <1>2, <1>12, <1>14 DEF Moves, Begun
<1>16. Cut(k, hi, r.raw, r.f.armed) /\ r.raw \in Seq(Bytes)
  BY <1>6, <1>7, <1>11, <1>12
<1>17. k \in lo..hi /\ hi \in lo..hi
  BY <1>3 DEF Range2
<1>18. Yields(Closed(g), lo, r, hi)
  BY <1>11, <1>12, <1>13, <1>15, <1>16, <1>17 DEF Yields
<1>19. Piece(hi, hi) = <<>>
  BY <1>3, EmptyPiece
<1>. QED BY <1>5, <1>11, <1>12, <1>18, <1>19

(* consume_raw_first_shutdown_pair: a bare repaint goes with its line feed.*)
LEMMA ConsumeYields ==
  ASSUME NEW g, NEW lo, NEW hi, Holding(g, lo, hi), NEW lf, ConsumeRawFirst(g, lf)
  PROVE  Yields(g, lo, Result([g EXCEPT !.pending = <<>>, !.lfAt = None], <<>>, None, 0), hi)
<1>. DEFINE h == [g EXCEPT !.pending = <<>>, !.lfAt = None]
            r == Result(h, <<>>, None, 0)
            s == Letters(g.pending)
            n == hi - lo
<1>1. g.armed /\ s # <<>> /\ BareMatch(s) = Len(s)
  BY DEF ConsumeRawFirst
<1>2. /\ g \in Filters /\ Range2(lo, hi) /\ lo \in Nat /\ hi \in Nat /\ lo <= hi /\ Range2(hi, hi)
      /\ lo \in lo..hi /\ hi \in lo..hi
  BY DEF Holding, Range2
<1>3. g.started /\ g.prefix = <<>> /\ g.pending = Piece(lo, hi)
  <2>1. ASSUME ~g.started PROVE FALSE
    <3>1. g.pending = <<>>
      BY <2>1 DEF Holding
    <3>2. Piece(hi, hi) = <<>> /\ Range2(hi, hi)
      BY <1>2, EmptyPiece
    <3>3. s \in Texts /\ Len(s) = hi - hi
      BY <3>1, <3>2, PieceLetters DEF Range2
    <3>4. s = <<>>
      BY <1>2, <3>3 DEF Texts
    <3>. QED BY <1>1, <3>4
  <2>. QED BY <2>1 DEF Holding
<1>4. s \in Texts /\ s = SubSeq(script, lo + 1, hi) /\ Len(s) = hi - lo
  BY <1>2, <1>3, PieceLetters DEF Range2
<1>. HIDE DEF s
<1>5. MatchAtStart(s, TRUE) = hi - lo
  BY <1>1, <1>4, BareIsFrame
<1>6. n \in Nat /\ n > 0 /\ lo + n = hi
  <2>1. Len(s) # 0
    BY <1>1, <1>4 DEF Texts
  <2>. QED BY <1>2, <1>4, <2>1
<1>7. Repaint(lo + 1, lo + n)
  <2>1. hi - (lo + 1) + 1 = hi - lo
    BY <1>2
  <2>. QED BY <1>4, <1>5, <1>6, <2>1 DEF Repaint
<1>. HIDE DEF n
<1>8. Cut(lo, lo, <<>>, g.armed)
  BY <1>2, NothingCut
<1>9. Cut(lo, hi, <<>>, g.armed)
  <2>. DEFINE e == <<>>
  <2>1. Cut(lo, lo, e, g.armed)
    BY <1>8
  <2>. HIDE DEF e
  <2>3. g.armed
    BY <1>1
  <2>4. lo \in Nat /\ n \in Nat /\ lo <= lo /\ n > 0
    BY <1>2, <1>6
  <2>2. Cut(lo, lo + n, e, g.armed)
    BY ONLY <1>7, <2>1, <2>3, <2>4, LeaveOut
  <2>. QED BY <1>6, <2>2 DEF e
<1>10. <<>> \in Seq(Bytes) /\ Piece(hi, hi) = <<>>
  BY <1>2, EmptyPiece
<1>11. /\ h \in Filters /\ h.pending = <<>> /\ h.prefix = <<>> /\ h.started /\ h.armed = g.armed
       /\ Moves(g, h)
  BY <1>2, <1>3, <1>10, NoneIsInt DEF Filters, Moves
<1>. HIDE DEF h
<1>12. r.f = h /\ r.raw = <<>> /\ r.split \in Nat /\ r.lf \in Int
  BY ResultFields, NoneIsInt
<1>. HIDE DEF r
<1>13. Holding(h, hi, hi)
  BY <1>2, <1>10, <1>11 DEF Holding
<1>14. Begun(g, lo, lo) /\ h.armed = g.armed
  BY <1>11 DEF Begun
<1>15. Yields(g, lo, r, hi)
  BY <1>2, <1>9, <1>10, <1>11, <1>12, <1>13, <1>14 DEF Yields
<1>. QED BY <1>15 DEF r, h

-----------------------------------------------------------------------------
(***************************************************************************)
(* What is shown.                                                          *)
(***************************************************************************)

\* Of the first lo bytes all are shown but noise.
Clean(lo, shown, armed) ==
    /\ shown \subseteq 1..lo
    /\ \A i \in (1..lo) \ shown : \E a \in 1..i, b \in i..lo :
          (a..b) \cap shown = {} /\ (StartupNoise(a, b) \/ (armed /\ Repaint(a, b)))
\* hi bytes were read and shown is the set of those that were appended.
Good(g, hi, shown) ==
    \E lo \in 0..hi : Holding(g, lo, hi) /\ Clean(lo, shown, g.armed) /\ (~g.started => shown = {})

(* An armed filter may have left out more.                                 *)
LEMMA CleanArmed ==
  ASSUME NEW lo, NEW shown, NEW a \in BOOLEAN, NEW b \in BOOLEAN, a => b, Clean(lo, shown, a)
  PROVE  Clean(lo, shown, b)
  BY DEF Clean

(* Only startup noise so far.                                              *)
LEMMA CleanStartup ==
  ASSUME NEW lo \in Nat, StartupNoise(1, lo), NEW armed
  PROVE  Clean(lo, {}, armed)
<1>1. ASSUME NEW i \in 1..lo PROVE 1 \in 1..i /\ lo \in i..lo /\ (1..lo) \cap {} = {}
  OBVIOUS
<1>. QED BY <1>1 DEF Clean

(* Before the first byte.                                                  *)
LEMMA CleanNothing ==
  ASSUME NEW armed
  PROVE  Clean(0, {}, armed)
<1>1. 1..0 = {}
  OBVIOUS
<1>. QED BY <1>1 DEF Clean

(* The next bytes are shown, but for repaints.                             *)
LEMMA CleanCut ==
  ASSUME NEW k \in Nat, NEW m \in Nat, k <= m, NEW shown, NEW armed, Clean(k, shown, armed),
         NEW raw, Cut(k, m, raw, armed)
  PROVE  Clean(m, shown \cup Ids(raw), armed)
<1>. DEFINE new == Ids(raw)
<1>1. new \subseteq (k + 1)..m /\ shown \subseteq 1..k
  BY DEF Cut, Clean
<1>2. \A i \in ((k + 1)..m) \ new :
          armed /\ \E a \in (k + 1)..i, b \in i..m : Repaint(a, b) /\ (a..b) \cap new = {}
  BY DEF Cut
<1>. HIDE DEF new
<1>3. shown \cup new \subseteq 1..m
  BY <1>1
<1>4. ASSUME NEW i \in (1..m) \ (shown \cup new)
      PROVE  \E a \in 1..i, b \in i..m :
                (a..b) \cap (shown \cup new) = {} /\ (StartupNoise(a, b) \/ (armed /\ Repaint(a, b)))
  <2>1. CASE i <= k
    <3>1. PICK a \in 1..i, b \in i..k :
              (a..b) \cap shown = {} /\ (StartupNoise(a, b) \/ (armed /\ Repaint(a, b)))
      BY <2>1 DEF Clean
    <3>2. (a..b) \cap new = {} /\ b \in i..m
      BY <1>1
    <3>. QED BY <3>1, <3>2
  <2>2. CASE i > k
    <3>1. i \in ((k + 1)..m) \ new
      BY <2>2
    <3>2. PICK a \in (k + 1)..i, b \in i..m : Repaint(a, b) /\ (a..b) \cap new = {}
      BY <1>2, <3>1
    <3>3. (a..b) \cap shown = {} /\ a \in 1..i /\ armed
      BY <1>1, <1>2, <3>1
    <3>. QED BY <3>2, <3>3
  <2>. QED BY <2>1, <2>2
<1>5. Clean(m, shown \cup new, armed)
  BY <1>3, <1>4 DEF Clean
<1>. QED BY <1>5 DEF new

(* The result of an operation keeps to that.                               *)
LEMMA GoodResult ==
  ASSUME NEW g \in Filters, NEW lo \in Nat, NEW hi \in Nat, NEW shown,
         Clean(lo, shown, g.armed), ~g.started => shown = {}, NEW r, Yields(g, lo, r, hi)
  PROVE  Good(r.f, hi, shown \cup Ids(r.raw))
<1>1. r.f \in Filters /\ Moves(g, r.f)
  BY DEF Yields
<1>2. g.armed \in BOOLEAN /\ r.f.armed \in BOOLEAN /\ (g.armed => r.f.armed)
  BY <1>1 DEF Filters, Moves
<1>3. PICK m \in lo..hi :
          /\ Holding(r.f, m, hi)
          /\ ~r.f.started => Ids(r.raw) = {}
          /\ r.f.started => \E k \in lo..m : Begun(g, lo, k) /\ Cut(k, m, r.raw, r.f.armed)
  BY DEF Yields
<1>4. m \in Nat /\ m \in 0..hi
  OBVIOUS
<1>5. CASE ~r.f.started
  <2>1. shown \cup Ids(r.raw) = {}
    BY <1>1, <1>3, <1>5 DEF Moves
  <2>2. Clean(m, {}, r.f.armed)
    <3>1. CASE r.f.matched
      BY <1>3, <1>4, <1>5, <3>1, CleanStartup DEF Holding
    <3>2. CASE ~r.f.matched
      BY <1>3, <1>5, <3>2, CleanNothing DEF Holding
    <3>. QED BY <3>1, <3>2
  <2>. QED BY <1>3, <1>4, <2>1, <2>2 DEF Good
<1>6. CASE r.f.started
  <2>1. PICK k \in lo..m : Begun(g, lo, k) /\ Cut(k, m, r.raw, r.f.armed)
    BY <1>3, <1>6
  <2>2. k \in Nat /\ k <= m
    BY <1>4
  <2>3. Clean(k, shown, r.f.armed)
    <3>1. CASE k = lo
      <4>1. Clean(lo, shown, r.f.armed)
        BY <1>2, CleanArmed
      <4>. QED BY <3>1, <4>1
    <3>2. CASE k # lo
      <4>1. ~g.started /\ StartupNoise(1, k)
        BY <2>1, <3>2 DEF Begun
      <4>2. shown = {}
        BY <4>1
      <4>3. Clean(k, {}, r.f.armed)
        BY <2>2, <4>1, CleanStartup
      <4>. QED BY <4>2, <4>3
    <3>. QED BY <3>1, <3>2
  <2>4. Clean(m, shown \cup Ids(r.raw), r.f.armed)
    BY <1>4, <2>1, <2>2, <2>3, CleanCut
  <2>. QED BY <1>3, <1>4, <1>6, <2>4 DEF Good
<1>. QED BY <1>5, <1>6

(* Flags that say nothing of the bytes.                                    *)
LEMMA GoodSame ==
  ASSUME NEW g, NEW h \in Filters, NEW hi, NEW shown, Good(g, hi, shown),
         h.prefix = g.prefix, h.matched = g.matched, h.started = g.started,
         h.pending = g.pending, h.armed = g.armed
  PROVE  Good(h, hi, shown)
<1>1. PICK lo \in 0..hi : Holding(g, lo, hi) /\ Clean(lo, shown, g.armed) /\ (~g.started => shown = {})
  BY DEF Good
<1>2. Holding(h, lo, hi)
  BY <1>1 DEF Holding
<1>. QED BY <1>1, <1>2 DEF Good

-----------------------------------------------------------------------------
(***************************************************************************)
(* The items that were read and appended.                                  *)
(***************************************************************************)

Messages == [kind : {"lf", "text", "image", "end"}, id : Int]
Items == [kind : {"raw", "lf", "text", "image", "end"}, id : Int]
RawIds(seq) == {seq[i].id : i \in {j \in DOMAIN seq : seq[j].kind = "raw"}}
Raws(seq) == {i \in DOMAIN seq : seq[i].kind = "raw"}
HasEnd(seq) == \E i \in DOMAIN seq : seq[i].kind = "end"

(* Items one after the other.                                              *)
LEMMA JoinedItems ==
  ASSUME NEW x \in Seq(Items), NEW y \in Seq(Items)
  PROVE  /\ x \o y \in Seq(Items)
         /\ RawIds(x \o y) = RawIds(x) \cup RawIds(y)
         /\ HasEnd(x \o y) <=> HasEnd(x) \/ HasEnd(y)
<1>. DEFINE z == x \o y
            k == Len(x)
            n == Len(y)
<1>1. k \in Nat /\ n \in Nat /\ DOMAIN x = 1..k /\ DOMAIN y = 1..n
  OBVIOUS
<1>2. /\ z \in Seq(Items) /\ Len(z) = k + n
      /\ \A i \in 1..(k + n) : z[i] = IF i <= k THEN x[i] ELSE y[i - k]
  BY ConcatProperties
<1>. HIDE DEF z, k, n
<1>3. DOMAIN z = 1..(k + n)
  BY <1>2
<1>4. \A i \in 1..k : i \in 1..(k + n) /\ z[i] = x[i]
  BY <1>1, <1>2
<1>5. \A i \in 1..n : i + k \in 1..(k + n) /\ z[i + k] = y[i]
  <2>. TAKE i \in 1..n
  <2>1. i + k \in 1..(k + n) /\ ~(i + k <= k) /\ (i + k) - k = i
    BY <1>1
  <2>. QED BY <1>2, <2>1
<1>6. \A i \in 1..(k + n) : (i \in 1..k /\ z[i] = x[i]) \/ (i - k \in 1..n /\ z[i] = y[i - k])
  BY <1>1, <1>2
<1>7. RawIds(z) = RawIds(x) \cup RawIds(y)
  <2>1. ASSUME NEW e \in RawIds(z) PROVE e \in RawIds(x) \cup RawIds(y)
    <3>1. PICK i \in 1..(k + n) : z[i].kind = "raw" /\ e = z[i].id
      BY <1>3 DEF RawIds
    <3>. QED BY <1>1, <1>6, <3>1 DEF RawIds
  <2>2. ASSUME NEW e \in RawIds(x) PROVE e \in RawIds(z)
    <3>1. PICK i \in 1..k : x[i].kind = "raw" /\ e = x[i].id
      BY <1>1 DEF RawIds
    <3>. QED BY <1>3, <1>4, <3>1 DEF RawIds
  <2>3. ASSUME NEW e \in RawIds(y) PROVE e \in RawIds(z)
    <3>1. PICK i \in 1..n : y[i].kind = "raw" /\ e = y[i].id
      BY <1>1 DEF RawIds
    <3>. QED BY <1>3, <1>5, <3>1 DEF RawIds
  <2>. QED BY <2>1, <2>2, <2>3
<1>8. HasEnd(z) <=> HasEnd(x) \/ HasEnd(y)
  <2>1. ASSUME HasEnd(z) PROVE HasEnd(x) \/ HasEnd(y)
    BY <1>1, <1>3, <1>6, <2>1 DEF HasEnd
  <2>2. ASSUME HasEnd(x) PROVE HasEnd(z)
    BY <1>1, <1>3, <1>4, <2>2 DEF HasEnd
  <2>3. ASSUME HasEnd(y) PROVE HasEnd(z)
    BY <1>1, <1>3, <1>5, <2>3 DEF HasEnd
  <2>. QED BY <2>1, <2>2, <2>3
<1>. QED BY <1>2, <1>7, <1>8 DEF z

(* Raw bytes as items.                                                     *)
LEMMA RawItemsAre ==
  ASSUME NEW bytes \in Seq(Bytes)
  PROVE  RawItems(bytes) \in Seq(Items) /\ RawIds(RawItems(bytes)) = Ids(bytes) /\ ~HasEnd(RawItems(bytes))
<1>. DEFINE z == RawItems(bytes)
<1>1. DOMAIN bytes = 1..Len(bytes) /\ Len(bytes) \in Nat
  OBVIOUS
<1>2. z = [i \in 1..Len(bytes) |-> Raw(bytes[i].id)]
  BY <1>1 DEF RawItems
<1>3. \A i \in 1..Len(bytes) : bytes[i].id \in Int
  <2>. TAKE i \in 1..Len(bytes)
  <2>1. bytes[i] \in Bytes
    BY <1>1
  <2>. QED BY <2>1 DEF Bytes
<1>4. \A i \in 1..Len(bytes) : Raw(bytes[i].id) \in Items
  BY <1>3 DEF Raw, Items
<1>5. z \in Seq(Items)
  BY <1>1, <1>2, <1>4
<1>. HIDE DEF z
<1>6. DOMAIN z = 1..Len(bytes) /\ \A i \in 1..Len(bytes) : z[i].kind = "raw" /\ z[i].id = bytes[i].id
  BY <1>2 DEF Raw
<1>7. RawIds(z) = Ids(bytes)
  BY <1>1, <1>6 DEF RawIds, Ids
<1>8. ~HasEnd(z)
  BY <1>6 DEF HasEnd
<1>. QED BY <1>5, <1>7, <1>8 DEF z

(* No items.                                                               *)
LEMMA NoItem ==
  <<>> \in Seq(Items) /\ RawIds(<<>>) = {} /\ ~HasEnd(<<>>)
<1>1. DOMAIN <<>> = {} /\ <<>> \in Seq(Items)
  OBVIOUS
<1>. QED BY <1>1 DEF RawIds, HasEnd

(* One that is not raw.                                                    *)
LEMMA OneItem ==
  ASSUME NEW m \in Items, m.kind # "raw"
  PROVE  <<m>> \in Seq(Items) /\ RawIds(<<m>>) = {} /\ (HasEnd(<<m>>) <=> m.kind = "end")
<1>1. DOMAIN <<m>> = {1} /\ <<m>> \in Seq(Items) /\ <<m>>[1] = m
  OBVIOUS
<1>. QED BY <1>1 DEF RawIds, HasEnd

(* append_windows_conpty_stdout_parts.                                     *)
LEMMA PartsAppended ==
  ASSUME timeline \in Seq(Items), NEW r, r.raw \in Seq(Bytes), r.split \in Nat, r.lf \in Int,
         NEW more \in Seq(Items), Append_parts(r, more)
  PROVE  \E b \in Seq(Items) :
            /\ timeline' = b \o more
            /\ RawIds(b) = RawIds(timeline) \cup Ids(r.raw)
            /\ HasEnd(b) <=> HasEnd(timeline)
<1>. DEFINE lf == IF r.lf = None THEN <<>> ELSE <<[kind |-> "lf", id |-> r.lf]>>
            S == {r.split, Len(r.raw)}
            at == Least(S)
            x == SubSeq(r.raw, 1, at)
            y == From(r.raw, at + 1)
            b == ((timeline \o RawItems(x)) \o lf) \o RawItems(y)
<1>1. timeline' = b \o more
  BY DEF Append_parts
<1>2. Len(r.raw) \in Nat
  OBVIOUS
<1>3. at \in 0..Len(r.raw)
  <2>1. S \in SUBSET Nat /\ S # {} /\ Len(r.raw) \in S
    BY <1>2
  <2>. HIDE DEF S
  <2>2. Least(S) \in S /\ Least(S) <= Len(r.raw)
    BY <2>1, LeastBound
  <2>3. Least(S) \in Nat
    BY <2>1, <2>2
  <2>. QED BY <1>2, <2>2, <2>3
<1>. HIDE DEF at
<1>4. x \in Seq(Bytes) /\ y \in Seq(Bytes) /\ Ids(x) \cup Ids(y) = Ids(r.raw)
  <2>. DEFINE n == Len(r.raw)
              raw == r.raw
  <2>1. /\ x \in Seq(Bytes) /\ Len(x) = at - 1 + 1 /\ \A i \in 1..(at - 1 + 1) : x[i] = raw[1 + i - 1]
    <3>1. 1 \in Nat /\ at \in Nat /\ 1 <= 1 /\ at <= Len(raw) /\ 1 <= at + 1
      BY <1>2, <1>3
    <3>. QED BY <3>1, Piecewise
  <2>2. /\ y \in Seq(Bytes) /\ Len(y) = n - (at + 1) + 1
        /\ \A i \in 1..(n - (at + 1) + 1) : y[i] = raw[(at + 1) + i - 1]
    <3>1. at + 1 \in Nat /\ n \in Nat /\ 1 <= at + 1 /\ n <= Len(raw) /\ at + 1 <= n + 1
      BY <1>2, <1>3
    <3>. QED BY <3>1, Piecewise DEF From
  <2>3. n \in Nat /\ at \in Nat /\ at <= n /\ DOMAIN raw = 1..n
    BY <1>2, <1>3
  <2>. HIDE DEF x, y, n
  <2>4. DOMAIN x = 1..at /\ \A i \in 1..at : x[i] = raw[i]
    <3>1. at - 1 + 1 = at /\ \A i \in 1..at : 1 + i - 1 = i
      BY <2>3
    <3>2. Len(x) = at
      BY <2>1, <3>1
    <3>. QED BY <2>1, <3>1, <3>2
  <2>5. DOMAIN y = 1..(n - at) /\ \A i \in 1..(n - at) : y[i] = raw[at + i]
    <3>1. n - (at + 1) + 1 = n - at /\ \A i \in 1..(n - at) : (at + 1) + i - 1 = at + i
      BY <2>3
    <3>2. Len(y) = n - at
      BY <2>2, <3>1
    <3>. QED BY <2>2, <3>1, <3>2
  <2>. HIDE DEF raw
  <2>6. ASSUME NEW i \in 1..n PROVE raw[i].id \in Ids(x) \cup Ids(y)
    <3>1. CASE i <= at
      <4>1. i \in 1..at
        BY <2>3, <3>1
      <4>2. i \in DOMAIN x /\ x[i] = raw[i]
        BY <2>4, <4>1
      <4>. QED BY <4>2 DEF Ids
    <3>2. CASE i > at
      <4>1. i - at \in 1..(n - at) /\ at + (i - at) = i
        BY <2>3, <3>2
      <4>2. i - at \in DOMAIN y /\ y[i - at] = raw[i]
        BY <2>5, <4>1
      <4>. QED BY <4>2 DEF Ids
    <3>. QED BY <2>3, <3>1, <3>2
  <2>7. Ids(x) \subseteq Ids(raw)
    <3>1. \A i \in 1..at : i \in 1..n
      BY <2>3
    <3>. QED BY <2>3, <2>4, <3>1 DEF Ids
  <2>8. Ids(y) \subseteq Ids(raw)
    <3>1. \A i \in 1..(n - at) : at + i \in 1..n
      BY <2>3
    <3>. QED BY <2>3, <2>5, <3>1 DEF Ids
  <2>9. Ids(raw) \subseteq Ids(x) \cup Ids(y)
    BY <2>3, <2>6 DEF Ids
  <2>. QED BY <2>1, <2>2, <2>7, <2>8, <2>9 DEF raw
<1>. HIDE DEF x, y
<1>5. lf \in Seq(Items) /\ RawIds(lf) = {} /\ ~HasEnd(lf)
  <2>. DEFINE m == [kind |-> "lf", id |-> r.lf]
  <2>1. m \in Items /\ m.kind # "raw" /\ m.kind # "end"
    BY DEF Items
  <2>. HIDE DEF m
  <2>2. <<m>> \in Seq(Items) /\ RawIds(<<m>>) = {} /\ ~HasEnd(<<m>>)
    BY <2>1, OneItem
  <2>3. lf = <<>> \/ lf = <<m>>
    BY DEF m
  <2>. HIDE DEF lf
  <2>. QED BY <2>2, <2>3, NoItem
<1>. HIDE DEF lf
<1>6. /\ RawItems(x) \in Seq(Items) /\ RawIds(RawItems(x)) = Ids(x) /\ ~HasEnd(RawItems(x))
      /\ RawItems(y) \in Seq(Items) /\ RawIds(RawItems(y)) = Ids(y) /\ ~HasEnd(RawItems(y))
  BY <1>4, RawItemsAre
<1>. DEFINE u == timeline \o RawItems(x)
            v == u \o lf
<1>7. u \in Seq(Items) /\ RawIds(u) = RawIds(timeline) \cup Ids(x) /\ (HasEnd(u) <=> HasEnd(timeline))
  BY <1>6, JoinedItems
<1>. HIDE DEF u
<1>8. v \in Seq(Items) /\ RawIds(v) = RawIds(u) \cup {} /\ (HasEnd(v) <=> HasEnd(u))
  BY <1>5, <1>7, JoinedItems
<1>. HIDE DEF v
<1>9. v \o RawItems(y) \in Seq(Items) /\ RawIds(v \o RawItems(y)) = RawIds(v) \cup Ids(y)
      /\ (HasEnd(v \o RawItems(y)) <=> HasEnd(v))
  BY <1>6, <1>8, JoinedItems
<1>10. b = v \o RawItems(y)
  BY DEF v, u
<1>. HIDE DEF b
<1>11. b \in Seq(Items) /\ RawIds(b) = RawIds(timeline) \cup Ids(r.raw) /\ (HasEnd(b) <=> HasEnd(timeline))
  <2>1. RawIds(b) = (RawIds(timeline) \cup Ids(x)) \cup Ids(y)
    BY <1>7, <1>8, <1>9, <1>10
  <2>2. RawIds(b) = RawIds(timeline) \cup Ids(r.raw)
    BY <1>4, <2>1
  <2>. QED BY <1>7, <1>8, <1>9, <1>10, <2>2
<1>. QED BY <1>1, <1>11

(* How many raw bytes were read.                                           *)
LEMMA CountRaws ==
  ASSUME NEW x \in Seq(Items)
  PROVE  IsFiniteSet(Raws(x)) /\ Cardinality(Raws(x)) \in Nat /\ Raws(x) \subseteq 1..Len(x)
<1>1. Len(x) \in Nat /\ DOMAIN x = 1..Len(x)
  OBVIOUS
<1>2. Raws(x) \subseteq 1..Len(x)
  BY <1>1 DEF Raws
<1>. DEFINE S == 1..Len(x)
<1>3. IsFiniteSet(S)
  BY <1>1, FS_Interval
<1>. HIDE DEF S
<1>4. Raws(x) \in SUBSET S
  BY <1>2 DEF S
<1>5. IsFiniteSet(Raws(x))
  BY <1>3, <1>4, FS_Subset
<1>. QED BY <1>2, <1>5, FS_CardinalityType

(* A message is read.                                                      *)
LEMMA OneMoreRead ==
  ASSUME NEW x \in Seq(Items), NEW m \in Items, m.kind # "raw"
  PROVE  /\ Append(x, m) \in Seq(Items) /\ Raws(Append(x, m)) = Raws(x)
         /\ HasEnd(Append(x, m)) <=> HasEnd(x) \/ m.kind = "end"
<1>. DEFINE z == Append(x, m)
            n == Len(x)
<1>1. n \in Nat /\ DOMAIN x = 1..n
  OBVIOUS
<1>2. /\ z \in Seq(Items) /\ Len(z) = n + 1 /\ \A i \in 1..n : z[i] = x[i]
      /\ z[n + 1] = m
  OBVIOUS
<1>. HIDE DEF z, n
<1>3. DOMAIN z = 1..(n + 1)
  BY <1>2
<1>4. \A i \in 1..(n + 1) : i \in 1..n \/ i = n + 1
  BY <1>1
<1>5. \A i \in 1..n : i \in 1..(n + 1)
  BY <1>1
<1>6. n + 1 \in 1..(n + 1)
  BY <1>1
<1>7. Raws(z) = Raws(x)
  BY <1>1, <1>2, <1>3, <1>4, <1>5 DEF Raws
<1>8. HasEnd(z) <=> HasEnd(x) \/ m.kind = "end"
  <2>1. ASSUME HasEnd(z) PROVE HasEnd(x) \/ m.kind = "end"
    BY <1>1, <1>2, <1>3, <1>4, <2>1 DEF HasEnd
  <2>2. ASSUME HasEnd(x) PROVE HasEnd(z)
    BY <1>1, <1>2, <1>3, <1>5, <2>2 DEF HasEnd
  <2>3. ASSUME m.kind = "end" PROVE HasEnd(z)
    BY <1>2, <1>3, <1>6, <2>3 DEF HasEnd
  <2>. QED BY <2>1, <2>2, <2>3
<1>. QED BY <1>2, <1>7, <1>8 DEF z

(* The items of one read.                                                  *)
LEMMA RawsRead ==
  ASSUME NEW k \in Nat, NEW n \in Nat, NEW y, y = [i \in 1..n |-> Raw(k + i)]
  PROVE  y \in Seq(Items) /\ Len(y) = n /\ DOMAIN y = 1..n /\ \A i \in 1..n : y[i].kind = "raw"
<1>1. \A i \in 1..n : Raw(k + i) \in Items /\ Raw(k + i).kind = "raw"
  <2>. TAKE i \in 1..n
  <2>1. k + i \in Int
    OBVIOUS
  <2>. QED BY <2>1 DEF Raw, Items
<1>2. y \in [1..n -> Items] /\ \A i \in 1..n : y[i].kind = "raw"
  BY <1>1
<1>3. y \in Seq(Items) /\ DOMAIN y = 1..n
  BY <1>2
<1>4. Len(y) = n
  BY <1>3
<1>. QED BY <1>2, <1>3, <1>4

(* Raw bytes are read.                                                     *)
LEMMA MoreRead ==
  ASSUME NEW x \in Seq(Items), NEW y \in Seq(Items), \A i \in 1..Len(y) : y[i].kind = "raw"
  PROVE  /\ x \o y \in Seq(Items)
         /\ Cardinality(Raws(x \o y)) = Cardinality(Raws(x)) + Len(y)
         /\ HasEnd(x \o y) <=> HasEnd(x)
<1>. DEFINE z == x \o y
            l == Len(x)
            n == Len(y)
            S == (l + 1)..(l + n)
<1>2. n \in Nat /\ DOMAIN y = 1..n /\ \A i \in 1..n : y[i].kind = "raw"
  OBVIOUS
<1>3. l \in Nat /\ DOMAIN x = 1..l
  OBVIOUS
<1>4. /\ z \in Seq(Items) /\ Len(z) = l + n
      /\ \A i \in 1..(l + n) : z[i] = IF i <= l THEN x[i] ELSE y[i - l]
  BY <1>2, ConcatProperties
<1>5. HasEnd(z) <=> HasEnd(x)
  <2>1. ~HasEnd(y)
    BY <1>2 DEF HasEnd
  <2>. QED BY <1>2, <2>1, JoinedItems
<1>. HIDE DEF z, n
<1>6. Raws(z) = Raws(x) \cup S
  <2>. HIDE DEF l
  <2>1. DOMAIN z = 1..(l + n)
    BY <1>4
  <2>2. ASSUME NEW i \in Raws(z) PROVE i \in Raws(x) \cup S
    <3>1. i \in 1..(l + n) /\ z[i].kind = "raw"
      BY <2>1 DEF Raws
    <3>2. CASE i <= l
      <4>1. i \in 1..l /\ z[i] = x[i]
        BY <1>2, <1>3, <1>4, <3>1, <3>2
      <4>. QED BY <1>2, <1>3, <3>1, <4>1 DEF Raws
    <3>3. CASE i > l
      BY <1>2, <1>3, <3>1, <3>3
    <3>. QED BY <1>2, <1>3, <3>1, <3>2, <3>3
  <2>3. ASSUME NEW i \in Raws(x) PROVE i \in Raws(z)
    <3>1. i \in 1..l /\ x[i].kind = "raw"
      BY <1>2, <1>3 DEF Raws
    <3>2. i \in 1..(l + n) /\ z[i] = x[i]
      BY <1>2, <1>3, <1>4, <3>1
    <3>. QED BY <2>1, <3>1, <3>2 DEF Raws
  <2>4. ASSUME NEW i \in S PROVE i \in Raws(z)
    <3>1. i \in 1..(l + n) /\ ~(i <= l) /\ i - l \in 1..n
      BY <1>2, <1>3
    <3>2. z[i] = y[i - l]
      BY <1>4, <3>1
    <3>. QED BY <1>2, <2>1, <3>1, <3>2 DEF Raws
  <2>. QED BY <2>2, <2>3, <2>4
<1>7. IsFiniteSet(Raws(x)) /\ Cardinality(Raws(x)) \in Nat /\ Raws(x) \subseteq 1..l
  BY CountRaws
<1>. HIDE DEF l
<1>8. IsFiniteSet(S) /\ Cardinality(S) = n
  <2>1. l + 1 \in Int /\ l + n \in Int
    BY <1>2, <1>3
  <2>2. IsFiniteSet(S) /\ Cardinality(S) = IF l + 1 > l + n THEN 0 ELSE (l + n) - (l + 1) + 1
    BY <2>1, FS_Interval
  <2>. HIDE DEF S
  <2>. QED BY <1>2, <1>3, <2>2
<1>9. Raws(x) \cap S = {}
  BY <1>2, <1>3, <1>7
<1>. HIDE DEF S
<1>10. Cardinality(Raws(x) \cup S) = Cardinality(Raws(x)) + Cardinality(S) - Cardinality(Raws(x) \cap S)
  BY <1>7, <1>8, FS_Union
<1>11. Cardinality({}) = 0
  BY FS_EmptySet
<1>12. Cardinality(Raws(z)) = Cardinality(Raws(x)) + n
  <2>1. Cardinality(Raws(x) \cap S) = 0
    BY <1>9, <1>11
  <2>2. Cardinality(Raws(z)) = Cardinality(Raws(x) \cup S)
    BY <1>6
  <2>. QED BY <1>2, <1>7, <1>8, <1>10, <2>1, <2>2
<1>. QED BY <1>4, <1>5, <1>12 DEF z, n

-----------------------------------------------------------------------------
(***************************************************************************)
(* The inductive invariant.                                                *)
(***************************************************************************)

\* Until finalize the filter is open, no end was appended, and it remembers
\* an end that came.
NotFinal ==
    /\ ~f.finished /\ ~f.finalized /\ ~HasEnd(timeline)
    /\ HasEnd(arrived) => f.sessionEnd
\* After it nothing is held.
IsFinal ==
    /\ f.prefix = <<>> /\ f.pending = <<>> /\ f.lf = None
    /\ \A i \in DOMAIN timeline : timeline[i].kind = "end" => i = Len(timeline)
    /\ HasEnd(arrived) => End \in Range(timeline)
ItemsOK == ipc \in Seq(Messages) /\ arrived \in Seq(Items) /\ timeline \in Seq(Items)
BytesOK == Good(f, NRead, RawIds(timeline))
Inv ==
    /\ ItemsOK
    /\ BytesOK
    /\ phase # "final" => NotFinal
    /\ phase = "final" => IsFinal

(* The script of a behaviour does not change.                              *)
LEMMA PieceNext ==
  ASSUME script' = script, NEW a, NEW b
  PROVE  Piece(a, b)' = Piece(a, b)
  BY DEF Piece, Byte

(* Startup noise stays startup noise.                                      *)
LEMMA NoiseNext ==
  ASSUME script' = script, NEW a, NEW b
  PROVE  StartupNoise(a, b)' <=> StartupNoise(a, b)
  BY DEF StartupNoise

(* Repaints stay repaints.                                                 *)
LEMMA RepaintNext ==
  ASSUME script' = script, NEW a, NEW b
  PROVE  Repaint(a, b)' <=> Repaint(a, b)
  BY DEF Repaint

(* The bounds stay bounds.                                                 *)
LEMMA RangeNext ==
  ASSUME script' = script, NEW a, NEW b
  PROVE  Range2(a, b)' <=> Range2(a, b)
  BY DEF Range2

(* What a filter holds.                                                    *)
LEMMA HoldingNext ==
  ASSUME script' = script, NEW g, NEW a, NEW b
  PROVE  Holding(g, a, b)' <=> Holding(g, a, b)
  BY PieceNext, NoiseNext, RangeNext DEF Holding

(* What was shown of it.                                                   *)
LEMMA CleanNext ==
  ASSUME script' = script, NEW shown, NEW a, NEW b
  PROVE  Clean(a, shown, b)' <=> Clean(a, shown, b)
  BY RepaintNext, NoiseNext DEF Clean

(* Both.                                                                   *)
LEMMA GoodNext ==
  ASSUME script' = script, NEW shown, NEW g, NEW b
  PROVE  Good(g, b, shown)' <=> Good(g, b, shown)
  BY HoldingNext, CleanNext DEF Good

(* The bytes of the next state.                                            *)
LEMMA BytesNext ==
  ASSUME script' = script, Good(f', NRead', RawIds(timeline'))
  PROVE  BytesOK'
  BY GoodNext DEF BytesOK

(* What a step of the filter does to the timeline.                         *)
LEMMA Stepped ==
  ASSUME timeline \in Seq(Items), NEW g \in Filters, NEW lo \in Nat, NEW hi \in Nat,
         Clean(lo, RawIds(timeline), g.armed), ~g.started => RawIds(timeline) = {},
         NEW r, Yields(g, lo, r, hi),
         NEW more \in Seq(Items), RawIds(more) = {}, Append_parts(r, more)
  PROVE  /\ Good(r.f, hi, RawIds(timeline')) /\ timeline' \in Seq(Items)
         /\ HasEnd(timeline') <=> HasEnd(timeline) \/ HasEnd(more)
         /\ r.f \in Filters /\ Moves(g, r.f)
<1>1. /\ r.f \in Filters /\ r.raw \in Seq(Bytes) /\ r.split \in Nat /\ r.lf \in Int /\ Moves(g, r.f)
  BY DEF Yields
<1>2. g.armed \in BOOLEAN
  BY DEF Filters
<1>3. Good(r.f, hi, RawIds(timeline) \cup Ids(r.raw))
  <2>. DEFINE sh == RawIds(timeline)
  <2>1. Clean(lo, sh, g.armed) /\ (~g.started => sh = {})
    OBVIOUS
  <2>. HIDE DEF sh
  <2>2. Good(r.f, hi, sh \cup Ids(r.raw))
    BY <2>1, GoodResult, Zenon
  <2>. QED BY <2>2 DEF sh
<1>4. PICK b \in Seq(Items) :
            /\ timeline' = b \o more
            /\ RawIds(b) = RawIds(timeline) \cup Ids(r.raw)
            /\ HasEnd(b) <=> HasEnd(timeline)
  BY <1>1, PartsAppended
<1>5. /\ b \o more \in Seq(Items) /\ RawIds(b \o more) = RawIds(b) \cup RawIds(more)
      /\ HasEnd(b \o more) <=> HasEnd(b) \/ HasEnd(more)
  BY JoinedItems
<1>6. RawIds(timeline') = RawIds(timeline) \cup Ids(r.raw)
  BY <1>4, <1>5
<1>. QED BY <1>1, <1>3, <1>4, <1>5, <1>6

(* The bytes of a filter in a good state.                                  *)
LEMMA InvBytes ==
  ASSUME Inv
  PROVE  /\ f \in Filters /\ NRead \in Nat /\ timeline \in Seq(Items) /\ arrived \in Seq(Items)
         /\ ipc \in Seq(Messages) /\ NRead = Cardinality(Raws(arrived))
         /\ ~f.started => RawIds(timeline) = {}
         /\ \E lo \in Nat : Holding(f, lo, NRead) /\ Clean(lo, RawIds(timeline), f.armed)
<1>1. ipc \in Seq(Messages) /\ arrived \in Seq(Items) /\ timeline \in Seq(Items)
  BY DEF Inv, ItemsOK
<1>2. NRead = Cardinality(Raws(arrived))
  BY DEF NRead, Raws
<1>3. NRead \in Nat
  BY <1>1, <1>2, CountRaws
<1>4. PICK lo \in 0..NRead : /\ Holding(f, lo, NRead) /\ Clean(lo, RawIds(timeline), f.armed)
                             /\ ~f.started => RawIds(timeline) = {}
  BY DEF Inv, BytesOK, Good
<1>5. lo \in Nat /\ f \in Filters
  BY <1>3, <1>4 DEF Holding
<1>. QED BY <1>1, <1>2, <1>3, <1>4, <1>5

(* The invariant holds at the start.                                       *)
LEMMA InitInv ==
  Init => Inv
<1>. SUFFICES ASSUME Init PROVE Inv
  OBVIOUS
<1>1. f = NewFilter /\ arrived = <<>> /\ timeline = <<>> /\ phase = "live" /\ script \in RawScripts
  BY DEF Init
<1>2. ItemsOK
  <2>1. PICK s \in IpcScripts : ipc = [i \in DOMAIN s |-> [kind |-> s[i], id |-> i]]
    BY DEF Init
  <2>2. s \in Seq({"lf", "text", "image", "end"})
    BY ScriptAssumption
  <2>3. DOMAIN s = 1..Len(s) /\ Len(s) \in Nat
    BY <2>2
  <2>4. \A i \in 1..Len(s) : s[i] \in {"lf", "text", "image", "end"} /\ i \in Int
    BY <2>2, <2>3
  <2>5. \A i \in 1..Len(s) : [kind |-> s[i], id |-> i] \in Messages
    BY <2>4 DEF Messages
  <2>6. ipc \in [1..Len(s) -> Messages]
    BY <2>1, <2>3, <2>5
  <2>7. ipc \in Seq(Messages)
    BY <2>3, <2>6
  <2>8. arrived \in Seq(Items) /\ timeline \in Seq(Items)
    BY <1>1, NoItem
  <2>. QED BY <2>7, <2>8 DEF ItemsOK
<1>3. script \in Texts
  <2>1. script \in Seq(STRING)
    BY <1>1, ScriptAssumption
  <2>2. STRING \subseteq Chars
    BY DEF Chars
  <2>. DEFINE A == STRING
              B == Chars
  <2>6. script \in Seq(A) /\ A \subseteq B
    BY <2>1, <2>2
  <2>. HIDE DEF A, B
  <2>3. Len(script) \in Nat /\ DOMAIN script = 1..Len(script) /\ script = [i \in DOMAIN script |-> script[i]]
    BY <2>6
  <2>4. \A i \in 1..Len(script) : script[i] \in Chars
    BY <2>6, <2>3 DEF B
  <2>5. script \in [1..Len(script) -> Chars]
    BY <2>3, <2>4
  <2>. QED BY <2>3, <2>5 DEF Texts
<1>4. NRead = 0
  <2>1. {i \in DOMAIN arrived : arrived[i].kind = "raw"} = {}
    BY <1>1
  <2>. QED BY <2>1, FS_EmptySet DEF NRead
<1>5. Holding(f, 0, 0) /\ ~f.started
  <2>1. Range2(0, 0)
    BY <1>3 DEF Range2, Texts
  <2>2. f \in Filters /\ ~f.started /\ f.pending = <<>> /\ f.prefix = <<>> /\ ~f.matched
    BY <1>1, NoneIsInt DEF NewFilter, Filters
  <2>3. Piece(0, 0) = <<>>
    BY EmptyPiece
  <2>. QED BY <2>1, <2>2, <2>3 DEF Holding
<1>6. BytesOK
  <2>1. RawIds(timeline) = {}
    BY <1>1, NoItem
  <2>2. Clean(0, {}, f.armed)
    BY CleanNothing
  <2>3. 0 \in 0..0
    OBVIOUS
  <2>. QED BY <1>4, <1>5, <2>1, <2>2, <2>3 DEF BytesOK, Good
<1>7. NotFinal
  BY <1>1, NoItem DEF NotFinal, NewFilter
<1>. QED BY <1>1, <1>2, <1>6, <1>7 DEF Inv

(* A step before the end that reads nothing of raw stdout.                 *)
LEMMA InvNext ==
  ASSUME phase # "final", phase' # "final", script' = script, ipc' \in Seq(Messages),
         arrived' \in Seq(Items), timeline' \in Seq(Items),
         Good(f', NRead', RawIds(timeline')),
         ~f'.finished, ~f'.finalized, ~HasEnd(timeline'), HasEnd(arrived') => f'.sessionEnd
  PROVE  Inv'
<1>1. BytesOK'
  BY BytesNext
<1>2. ItemsOK'
  BY DEF ItemsOK
<1>3. NotFinal'
  BY DEF NotFinal
<1>. QED BY <1>1, <1>2, <1>3 DEF Inv

\* Filters that differ at most in flags and in the line feed.
Alike(g, h) ==
    /\ h.prefix = g.prefix /\ h.matched = g.matched /\ h.started = g.started
    /\ h.pending = g.pending /\ h.armed = g.armed
    /\ h.finished = g.finished /\ h.finalized = g.finalized

(* An operation of the filter before the end.                              *)
LEMMA OpInv ==
  ASSUME Inv, phase # "final", phase' # "final", script' = script, ipc' \in Seq(Messages),
         arrived' \in Seq(Items), NEW lo \in Nat, NEW hi \in Nat, hi = NRead',
         Clean(lo, RawIds(timeline), f.armed), NEW r, Yields(f, lo, r, hi),
         NEW more \in Seq(Items), RawIds(more) = {}, ~HasEnd(more), Append_parts(r, more),
         f' \in Filters, Alike(r.f, f'), HasEnd(arrived') => f'.sessionEnd
  PROVE  Inv'
<1>1. f \in Filters /\ timeline \in Seq(Items) /\ (~f.started => RawIds(timeline) = {})
  BY InvBytes
<1>2. ~f.finished /\ ~f.finalized /\ ~HasEnd(timeline)
  BY DEF Inv, NotFinal
<1>. DEFINE g == f
<1>3. /\ Good(r.f, hi, RawIds(timeline')) /\ timeline' \in Seq(Items)
      /\ HasEnd(timeline') <=> HasEnd(timeline) \/ HasEnd(more)
      /\ r.f \in Filters /\ Moves(f, r.f)
  BY <1>1, Stepped
<1>4. Good(f', hi, RawIds(timeline'))
  BY <1>3, GoodSame DEF Alike
<1>5. ~f'.finished /\ ~f'.finalized
  BY <1>2, <1>3 DEF Alike, Moves
<1>6. ~HasEnd(timeline')
  BY <1>2, <1>3
<1>. QED BY <1>3, <1>4, <1>5, <1>6, InvNext

(* append_raw_text keeps it.                                               *)
LEMMA AppendRawTextInv ==
  ASSUME Inv, NEW n \in 1..Len(script), AppendRawText(n)
  PROVE  Inv'
<1>. DEFINE k == NRead
            hi == k + n
            bytes == [i \in 1..n |-> Byte(k + i)]
            r == Filter(f, bytes)
<1>1. /\ f \in Filters /\ k \in Nat /\ arrived \in Seq(Items) /\ ipc \in Seq(Messages)
      /\ k = Cardinality(Raws(arrived))
  BY InvBytes
<1>2. PICK lo \in Nat : Holding(f, lo, k) /\ Clean(lo, RawIds(timeline), f.armed)
  BY InvBytes
<1>3. /\ phase # "final" /\ phase' = phase /\ script' = script /\ ipc' = ipc /\ k + n <= Len(script)
      /\ arrived' = arrived \o [i \in 1..n |-> Raw(k + i)]
      /\ f' = r.f /\ Append_parts(r, <<>>)
  BY DEF AppendRawText
<1>4. n \in Nat /\ hi \in Nat /\ script \in Texts
  BY <1>1, <1>2 DEF Holding, Range2, Texts
<1>. HIDE DEF k
<1>5. bytes = Piece(k, hi) /\ Range2(k, hi)
  <2>1. hi - k = n
    BY <1>1, <1>4
  <2>2. bytes = Piece(k, hi)
    BY <2>1 DEF Piece
  <2>. QED BY <1>1, <1>3, <1>4, <2>2 DEF Range2
<1>. HIDE DEF bytes
<1>6. ~f.finished /\ (HasEnd(arrived) => f.sessionEnd)
  BY <1>3 DEF Inv, NotFinal
<1>7. Yields(f, lo, r, hi)
  <2>1. Yields(f, lo, Filter(f, Piece(k, hi)), hi)
    <3>. HIDE DEF hi
    <3>. QED BY <1>2, <1>5, <1>6, FilterYields
  <2>. QED BY <1>5, <2>1
<1>. HIDE DEF r
<1>8. /\ arrived' \in Seq(Items) /\ Cardinality(Raws(arrived')) = k + n
      /\ HasEnd(arrived') <=> HasEnd(arrived)
  <2>. DEFINE x == arrived
              y == [i \in 1..n |-> Raw(k + i)]
              z == x \o y
  <2>1. x \in Seq(Items) /\ Cardinality(Raws(x)) = k /\ arrived' = z
    BY <1>1, <1>3
  <2>. HIDE DEF x
  <2>3. y \in Seq(Items) /\ Len(y) = n /\ \A i \in 1..n : y[i].kind = "raw"
    BY <1>1, <1>4, RawsRead
  <2>. HIDE DEF y
  <2>2. z \in Seq(Items) /\ Cardinality(Raws(z)) = Cardinality(Raws(x)) + n /\ (HasEnd(z) <=> HasEnd(x))
    BY <2>1, <2>3, MoreRead
  <2>. HIDE DEF z
  <2>. QED BY <2>1, <2>2 DEF x
<1>9. NRead' = hi
  BY <1>8 DEF NRead, Raws
<1>10. r.f \in Filters /\ Moves(f, r.f)
  BY <1>7 DEF Yields
<1>11. f' \in Filters /\ Alike(r.f, f') /\ (HasEnd(arrived') => f'.sessionEnd)
  BY <1>3, <1>6, <1>8, <1>10 DEF Alike, Moves
<1>12. ipc' \in Seq(Messages) /\ phase' # "final"
  BY <1>1, <1>3
<1>. HIDE DEF hi
<1>. QED BY <1>2, <1>3, <1>4, <1>7, <1>8, <1>9, <1>11, <1>12, NoItem, OpInv

(* A step that reads nothing of raw stdout.                                *)
LEMMA SameReads ==
  ASSUME arrived' = arrived
  PROVE  NRead' = NRead
  BY DEF NRead

(* shutdown_graceful keeps it.                                             *)
LEMMA ShutdownStartingInv ==
  ASSUME Inv, ShutdownStarting
  PROVE  Inv'
<1>. DEFINE r == ArmShutdownReset(f)
            k == NRead
<1>1. /\ f \in Filters /\ k \in Nat /\ arrived \in Seq(Items) /\ ipc \in Seq(Messages)
  BY InvBytes
<1>2. PICK lo \in Nat : Holding(f, lo, k) /\ Clean(lo, RawIds(timeline), f.armed)
  BY InvBytes
<1>3. /\ phase # "final" /\ phase' # "final" /\ script' = script /\ ipc' = ipc /\ arrived' = arrived
      /\ f' = r.f /\ Append_parts(r, <<>>)
  BY DEF ShutdownStarting
<1>4. HasEnd(arrived) => f.sessionEnd
  BY <1>3 DEF Inv, NotFinal
<1>5. k = NRead'
  BY <1>3, SameReads
<1>. HIDE DEF k
<1>6. Yields(f, lo, r, k)
  BY <1>2, ArmYields
<1>. HIDE DEF r
<1>7. r.f \in Filters /\ Moves(f, r.f)
  BY <1>6 DEF Yields
<1>8. f' \in Filters /\ Alike(r.f, f') /\ (HasEnd(arrived') => f'.sessionEnd)
  BY <1>3, <1>4, <1>7 DEF Alike, Moves
<1>9. ipc' \in Seq(Messages) /\ arrived' \in Seq(Items)
  BY <1>1, <1>3
<1>. QED BY <1>1, <1>2, <1>3, <1>5, <1>6, <1>8, <1>9, NoItem, OpInv

(* The end of the raw reader keeps it.                                     *)
LEMMA FinishRawTextInv ==
  ASSUME Inv, FinishRawText
  PROVE  Inv'
<1>. DEFINE r == FinishReader(f)
            k == NRead
<1>1. /\ f \in Filters /\ k \in Nat /\ arrived \in Seq(Items) /\ ipc \in Seq(Messages)
  BY InvBytes
<1>2. PICK lo \in Nat : Holding(f, lo, k) /\ Clean(lo, RawIds(timeline), f.armed)
  BY InvBytes
<1>3. /\ phase # "final" /\ phase' # "final" /\ script' = script /\ ipc' = ipc /\ arrived' = arrived
      /\ f' = r.f /\ Append_parts(r, <<>>)
  BY DEF FinishRawText
<1>4. HasEnd(arrived) => f.sessionEnd
  BY <1>3 DEF Inv, NotFinal
<1>5. k = NRead'
  BY <1>3, SameReads
<1>. HIDE DEF k
<1>6. Yields(f, lo, r, k)
  BY <1>2, FinishReaderYields
<1>. HIDE DEF r
<1>7. r.f \in Filters /\ Moves(f, r.f)
  BY <1>6 DEF Yields
<1>8. f' \in Filters /\ Alike(r.f, f') /\ (HasEnd(arrived') => f'.sessionEnd)
  BY <1>3, <1>4, <1>7 DEF Alike, Moves
<1>9. ipc' \in Seq(Messages) /\ arrived' \in Seq(Items)
  BY <1>1, <1>3
<1>. QED BY <1>1, <1>2, <1>3, <1>5, <1>6, <1>8, <1>9, NoItem, OpInv

(* A step of the teardown that leaves the output alone.                    *)
LEMMA TeardownInv ==
  ASSUME Inv, KillStarting \/ CloseConpty
  PROVE  Inv'
<1>1. /\ f \in Filters /\ NRead \in Nat /\ arrived \in Seq(Items) /\ ipc \in Seq(Messages)
      /\ timeline \in Seq(Items)
  BY InvBytes
<1>2. /\ phase # "final" /\ phase' # "final" /\ script' = script /\ ipc' = ipc /\ arrived' = arrived
      /\ timeline' = timeline /\ f' \in {f, [f EXCEPT !.closeStarted = TRUE]}
  BY DEF KillStarting, CloseConpty
<1>. DEFINE h == [f EXCEPT !.closeStarted = TRUE]
<1>3. h \in Filters /\ Same(f, h)
  BY <1>1 DEF Filters, Same
<1>. HIDE DEF h
<1>4. Same(f, f)
  BY DEF Same
<1>5. f' \in Filters /\ Same(f, f')
  <2>1. f' = f \/ f' = h
    BY <1>2 DEF h
  <2>. QED BY <1>1, <1>3, <1>4, <2>1
<1>6. ~f.finished /\ ~f.finalized /\ ~HasEnd(timeline) /\ (HasEnd(arrived) => f.sessionEnd)
  BY <1>2 DEF Inv, NotFinal
<1>7. ~f'.finished /\ ~f'.finalized /\ ~HasEnd(timeline') /\ (HasEnd(arrived') => f'.sessionEnd)
  BY <1>2, <1>5, <1>6 DEF Same
<1>8. Good(f, NRead, RawIds(timeline))
  BY DEF Inv, BytesOK
<1>9. Good(f', NRead, RawIds(timeline))
  BY <1>5, <1>8, GoodSame DEF Same
<1>10. Good(f', NRead', RawIds(timeline'))
  <2>1. NRead' = NRead
    BY <1>2, SameReads
  <2>. QED BY <1>2, <1>9, <2>1
<1>11. arrived' \in Seq(Items) /\ ipc' \in Seq(Messages) /\ timeline' \in Seq(Items)
  BY <1>1, <1>2
<1>. QED BY <1>2, <1>7, <1>10, <1>11, InvNext

(* append_sideband(SessionEnd): the end waits.                             *)
LEMMA SessionEndStep ==
  ASSUME Inv, phase # "final", phase' # "final", script' = script, ipc' \in Seq(Messages),
         arrived' \in Seq(Items), NRead' = NRead, AppendSessionEnd
  PROVE  Inv'
<1>. DEFINE r == ArmShutdownReset(f)
            k == NRead
            h == [r.f EXCEPT !.sessionEnd = @ \/ ~f.finalized]
<1>1. f \in Filters /\ k \in Nat
  BY InvBytes
<1>2. PICK lo \in Nat : Holding(f, lo, k) /\ Clean(lo, RawIds(timeline), f.armed)
  BY InvBytes
<1>3. ~f.finalized
  BY DEF Inv, NotFinal
<1>4. f' = h /\ Append_parts(r, <<>>)
  BY <1>3 DEF AppendSessionEnd
<1>5. k = NRead'
  OBVIOUS
<1>. HIDE DEF k
<1>6. Yields(f, lo, r, k)
  BY <1>2, ArmYields
<1>. HIDE DEF r
<1>7. r.f \in Filters
  BY <1>6 DEF Yields
<1>8. h \in Filters /\ Alike(r.f, h) /\ h.sessionEnd
  BY <1>3, <1>7 DEF Alike, Filters
<1>. HIDE DEF h
<1>9. f' \in Filters /\ Alike(r.f, f') /\ (HasEnd(arrived') => f'.sessionEnd)
  BY <1>4, <1>8
<1>. QED BY <1>1, <1>2, <1>4, <1>5, <1>6, <1>9, NoItem, OpInv

(* finish_session_end_for_respawn keeps it.                                *)
LEMMA SessionEndRespawnInv ==
  ASSUME Inv, SessionEndRespawn
  PROVE  Inv'
<1>1. /\ phase # "final" /\ phase' # "final" /\ script' = script /\ ipc' = ipc /\ arrived' = arrived
      /\ AppendSessionEnd
  BY DEF SessionEndRespawn
<1>2. ipc' \in Seq(Messages) /\ arrived' \in Seq(Items) /\ NRead' = NRead
  BY <1>1, InvBytes, SameReads
<1>. QED BY <1>1, <1>2, SessionEndStep

(* stage_ipc_shutdown_lf.                                                  *)
LEMMA StageLfFields ==
  ASSUME NEW g \in Filters, NEW id \in Int
  PROVE  StageLf(g, id) \in Filters /\ Same(g, StageLf(g, id))
<1>. DEFINE h == [g EXCEPT !.lf = id]
            o == Len(g.prefix)
            w == [h EXCEPT !.prefixLfAt = o]
<1>1. h \in Filters /\ Same(g, h)
  BY DEF Filters, Same
<1>2. StageLf(g, id) = IF g.started THEN MarkLf(h, 0) ELSE w
  BY DEF StageLf
<1>. HIDE DEF h
<1>3. MarkLf(h, 0) \in Filters /\ Same(h, MarkLf(h, 0))
  <2>1. 0 \in Offset
    BY NoneIsInt
  <2>. QED BY <1>1, <2>1, MarkLfFields
<1>4. w \in Filters /\ Same(h, w)
  <2>1. g.prefix \in Seq(Bytes)
    BY DEF Filters
  <2>2. o \in Offset
    BY <2>1 DEF Offset
  <2>. HIDE DEF o
  <2>. QED BY <1>1, <2>2 DEF Filters, Same
<1>. HIDE DEF w
<1>5. Same(g, MarkLf(h, 0)) /\ Same(g, w)
  BY <1>1, <1>3, <1>4 DEF Same
<1>. QED BY <1>2, <1>3, <1>4, <1>5

(* append_output_text.                                                     *)
LEMMA OutputTextStep ==
  ASSUME Inv, phase # "final", phase' # "final", script' = script, ipc' \in Seq(Messages),
         arrived' \in Seq(Items), NRead' = NRead, HasEnd(arrived') => HasEnd(arrived),
         NEW m \in Items, m.kind \in {"lf", "text"}, AppendOutputText(m)
  PROVE  Inv'
<1>. DEFINE lf == m.kind = "lf"
            k == NRead
<1>1. f \in Filters /\ k \in Nat /\ timeline \in Seq(Items) /\ (~f.started => RawIds(timeline) = {})
  BY InvBytes
<1>2. PICK lo \in Nat : Holding(f, lo, k) /\ Clean(lo, RawIds(timeline), f.armed)
  BY InvBytes
<1>3. ~f.finished /\ ~f.finalized /\ ~HasEnd(timeline) /\ (HasEnd(arrived) => f.sessionEnd)
  BY DEF Inv, NotFinal
<1>4. k = NRead'
  OBVIOUS
<1>. HIDE DEF k
<1>5. CASE ConsumeRawFirst(f, lf) /\ f' = [f EXCEPT !.pending = <<>>, !.lfAt = None] /\ timeline' = timeline
  <2>. DEFINE h == [f EXCEPT !.pending = <<>>, !.lfAt = None]
              r == Result(h, <<>>, None, 0)
              shown == RawIds(timeline)
  <2>1. Yields(f, lo, r, k)
    BY <1>2, <1>5, ConsumeYields
  <2>2. r.f = h /\ r.raw = <<>> /\ f' = h
    BY <1>5, ResultFields
  <2>. HIDE DEF h, r
  <2>3. r.f \in Filters /\ Moves(f, r.f)
    BY <2>1 DEF Yields
  <2>4. Good(r.f, k, shown \cup Ids(r.raw))
    <3>1. Clean(lo, shown, f.armed) /\ (~f.started => shown = {})
      BY <1>1, <1>2
    <3>. HIDE DEF shown
    <3>. QED BY <1>1, <2>1, <3>1, GoodResult
  <2>5. Ids(r.raw) = {}
    <3>1. DOMAIN <<>> = {}
      OBVIOUS
    <3>. QED BY <2>2, <3>1 DEF Ids
  <2>6. shown \cup Ids(r.raw) = shown
    BY <2>5
  <2>7. Good(f', NRead', RawIds(timeline'))
    BY <1>4, <1>5, <2>2, <2>4, <2>6
  <2>8. ~f'.finished /\ ~f'.finalized /\ ~HasEnd(timeline') /\ (HasEnd(arrived') => f'.sessionEnd)
    BY <1>3, <1>5, <2>2, <2>3 DEF Moves
  <2>9. timeline' \in Seq(Items)
    BY <1>1, <1>5
  <2>. QED BY <2>7, <2>8, <2>9, InvNext
<1>. DEFINE r == FlushEvent(f)
            h == [r.f EXCEPT !.ipcSeen = @ \/ (r.f.armed /\ ~r.f.finished)]
<1>6. Yields(f, lo, r, k)
  BY <1>2, FlushEventYields
<1>7. r.f \in Filters /\ Moves(f, r.f)
  BY <1>6 DEF Yields
<1>8. CASE f' = StageLf(r.f, m.id) /\ Append_parts(r, <<>>)
  <2>. HIDE DEF r
  <2>1. m.id \in Int
    BY DEF Items
  <2>2. f' \in Filters /\ Same(r.f, f')
    BY <1>7, <1>8, <2>1, StageLfFields
  <2>3. Alike(r.f, f') /\ (HasEnd(arrived') => f'.sessionEnd)
    BY <1>3, <1>7, <2>2 DEF Alike, Same, Moves
  <2>. QED BY <1>1, <1>2, <1>4, <1>6, <1>8, <2>2, <2>3, NoItem, OpInv
<1>9. CASE f' = h /\ Append_parts(r, <<m>>)
  <2>. HIDE DEF r
  <2>1. <<m>> \in Seq(Items) /\ RawIds(<<m>>) = {} /\ ~HasEnd(<<m>>)
    BY OneItem
  <2>2. h \in Filters /\ Same(r.f, h)
    BY <1>7 DEF Filters, Same
  <2>. HIDE DEF h
  <2>3. f' \in Filters /\ Alike(r.f, f') /\ (HasEnd(arrived') => f'.sessionEnd)
    BY <1>3, <1>7, <1>9, <2>2 DEF Alike, Same, Moves
  <2>. DEFINE more == <<m>>
  <2>4. more \in Seq(Items) /\ RawIds(more) = {} /\ ~HasEnd(more) /\ Append_parts(r, more)
    BY <1>9, <2>1
  <2>. HIDE DEF more
  <2>. QED BY <1>1, <1>2, <1>4, <1>6, <2>3, <2>4, OpInv
<1>10. \/ ConsumeRawFirst(f, lf) /\ f' = [f EXCEPT !.pending = <<>>, !.lfAt = None] /\ timeline' = timeline
       \/ f' = StageLf(r.f, m.id) /\ Append_parts(r, <<>>)
       \/ f' = h /\ Append_parts(r, <<m>>)
  BY DEF AppendOutputText
<1>. QED BY <1>5, <1>8, <1>9, <1>10

(* append_image and the other events.                                      *)
LEMMA EventStep ==
  ASSUME Inv, phase # "final", phase' # "final", script' = script, ipc' \in Seq(Messages),
         arrived' \in Seq(Items), NRead' = NRead, HasEnd(arrived') => HasEnd(arrived),
         NEW m \in Items, m.kind = "image", AppendEvent(m)
  PROVE  Inv'
<1>. DEFINE r == FlushEvent(f)
            k == NRead
<1>1. f \in Filters /\ k \in Nat
  BY InvBytes
<1>2. PICK lo \in Nat : Holding(f, lo, k) /\ Clean(lo, RawIds(timeline), f.armed)
  BY InvBytes
<1>3. HasEnd(arrived) => f.sessionEnd
  BY DEF Inv, NotFinal
<1>4. k = NRead'
  OBVIOUS
<1>. HIDE DEF k
<1>5. Yields(f, lo, r, k)
  BY <1>2, FlushEventYields
<1>6. r.f \in Filters /\ Moves(f, r.f)
  BY <1>5 DEF Yields
<1>. DEFINE more == <<m>>
<1>7. f' = r.f /\ Append_parts(r, more)
  BY DEF AppendEvent
<1>8. more \in Seq(Items) /\ RawIds(more) = {} /\ ~HasEnd(more)
  BY OneItem
<1>. HIDE DEF r, more
<1>9. f' \in Filters /\ Alike(r.f, f') /\ (HasEnd(arrived') => f'.sessionEnd)
  BY <1>3, <1>6, <1>7 DEF Alike, Moves
<1>. QED BY <1>1, <1>2, <1>4, <1>5, <1>7, <1>8, <1>9, OpInv

(* Every message of the worker keeps it.                                   *)
LEMMA IpcMessageInv ==
  ASSUME Inv, IpcMessage
  PROVE  Inv'
<1>. DEFINE m == Head(ipc)
<1>1. ipc \in Seq(Messages) /\ arrived \in Seq(Items) /\ ipc # <<>>
  BY InvBytes DEF IpcMessage
<1>2. m \in Messages /\ Tail(ipc) \in Seq(Messages)
  BY <1>1
<1>3. /\ phase # "final" /\ phase' = phase /\ script' = script /\ ipc' = Tail(ipc)
      /\ arrived' = Append(arrived, m)
      /\ m.kind \in {"lf", "text"} => AppendOutputText(m)
      /\ m.kind = "image" => AppendEvent(m)
      /\ m.kind = "end" => AppendSessionEnd
  BY DEF IpcMessage
<1>. HIDE DEF m
<1>4. m \in Items /\ m.kind \in {"lf", "text", "image", "end"} /\ m.kind # "raw"
  BY <1>2 DEF Messages, Items
<1>5. /\ arrived' \in Seq(Items) /\ Raws(arrived') = Raws(arrived)
      /\ HasEnd(arrived') <=> HasEnd(arrived) \/ m.kind = "end"
  <2>. DEFINE x == arrived
              z == Append(x, m)
  <2>1. x \in Seq(Items) /\ arrived' = z
    BY <1>1, <1>3
  <2>. HIDE DEF x
  <2>2. z \in Seq(Items) /\ Raws(z) = Raws(x) /\ (HasEnd(z) <=> HasEnd(x) \/ m.kind = "end")
    BY <1>4, <2>1, OneMoreRead
  <2>. HIDE DEF z
  <2>. QED BY <2>1, <2>2 DEF x
<1>6. NRead' = NRead
  <2>1. NRead' = Cardinality(Raws(arrived')) /\ NRead = Cardinality(Raws(arrived))
    BY DEF NRead, Raws
  <2>. QED BY <1>5, <2>1
<1>7. ipc' \in Seq(Messages) /\ phase' # "final"
  BY <1>2, <1>3
<1>8. CASE m.kind \in {"lf", "text"}
  <2>1. HasEnd(arrived') => HasEnd(arrived)
    BY <1>5, <1>8
  <2>. QED BY <1>3, <1>4, <1>5, <1>6, <1>7, <1>8, <2>1, OutputTextStep
<1>9. CASE m.kind = "image"
  <2>1. HasEnd(arrived') => HasEnd(arrived)
    BY <1>5, <1>9
  <2>. QED BY <1>3, <1>4, <1>5, <1>6, <1>7, <1>9, <2>1, EventStep
<1>10. CASE m.kind = "end"
  BY <1>3, <1>5, <1>6, <1>7, <1>10, SessionEndStep
<1>. QED BY <1>4, <1>8, <1>9, <1>10

(* The end is the last item, if it was appended.                           *)
LEMMA EndIsLast ==
  ASSUME NEW b \in Seq(Items), ~HasEnd(b), NEW more \in {<<>>, <<End>>}, NEW tl, tl = b \o more
  PROVE  /\ \A i \in DOMAIN tl : tl[i].kind = "end" => i = Len(tl)
         /\ more = <<End>> => End \in Range(tl)
<1>1. Len(b) \in Nat /\ DOMAIN b = 1..Len(b)
  OBVIOUS
<1>2. CASE more = <<>>
  <2>1. tl = b
    BY <1>2
  <2>2. <<>> # <<End>>
    OBVIOUS
  <2>. QED BY <1>2, <2>1, <2>2 DEF HasEnd
<1>3. CASE more = <<End>>
  <2>1. End \in Items
    BY DEF End, Items
  <2>2. tl = Append(b, End)
    BY <1>3, <2>1
  <2>3. Len(tl) = Len(b) + 1 /\ tl \in Seq(Items) /\ tl[Len(b) + 1] = End /\ \A i \in 1..Len(b) : tl[i] = b[i]
    BY <2>1, <2>2
  <2>4. DOMAIN tl = 1..(Len(b) + 1)
    BY <2>3
  <2>5. ASSUME NEW i \in DOMAIN tl, tl[i].kind = "end" PROVE i = Len(tl)
    <3>1. CASE i \in 1..Len(b)
      <4>1. b[i].kind = "end"
        BY <2>3, <2>5, <3>1
      <4>. QED BY <1>1, <3>1, <4>1 DEF HasEnd
    <3>2. i \in 1..Len(b) \/ i = Len(b) + 1
      BY <1>1, <2>4
    <3>. QED BY <2>3, <3>1, <3>2
  <2>6. Len(b) + 1 \in DOMAIN tl
    BY <1>1, <2>4
  <2>. QED BY <2>3, <2>5, <2>6 DEF Range
<1>. QED BY <1>2, <1>3

(* finalize_windows_conpty_raw_text establishes its last part.             *)
LEMMA FinalizeInv ==
  ASSUME Inv, FinalizeRawText
  PROVE  Inv'
<1>. DEFINE r == Finalize(f)
            k == NRead
            h == [r.f EXCEPT !.sessionEnd = FALSE]
            more == IF f.sessionEnd THEN <<End>> ELSE <<>>
            g == Closed(f)
<1>1. /\ f \in Filters /\ k \in Nat /\ arrived \in Seq(Items) /\ ipc \in Seq(Messages)
      /\ timeline \in Seq(Items) /\ (~f.started => RawIds(timeline) = {})
  BY InvBytes
<1>2. PICK lo \in Nat : Holding(f, lo, k) /\ Clean(lo, RawIds(timeline), f.armed)
  BY InvBytes
<1>3. /\ phase # "final" /\ phase' = "final" /\ script' = script /\ ipc' = ipc /\ arrived' = arrived
      /\ f' = h /\ Append_parts(r, more)
  BY DEF FinalizeRawText
<1>4. ~HasEnd(timeline) /\ (HasEnd(arrived) => f.sessionEnd)
  BY <1>3 DEF Inv, NotFinal
<1>5. NRead' = k
  BY <1>3, SameReads
<1>. HIDE DEF k
<1>6. /\ Yields(g, lo, r, k) /\ r.f.lf = None /\ r.f.started /\ r.f.prefix = <<>> /\ r.f.pending = <<>>
  BY <1>2, FinalizeYields
<1>7. g \in Filters /\ g.armed = f.armed /\ g.started = f.started
  BY <1>1 DEF Closed, Filters
<1>8. more \in {<<>>, <<End>>} /\ more \in Seq(Items) /\ RawIds(more) = {} /\ (f.sessionEnd => more = <<End>>)
  <2>1. End \in Items /\ End.kind # "raw"
    BY DEF End, Items
  <2>. DEFINE one == <<End>>
  <2>2. one \in Seq(Items) /\ RawIds(one) = {}
    BY <2>1, OneItem
  <2>3. more = <<>> \/ more = one
    OBVIOUS
  <2>4. more \in {<<>>, one} /\ (f.sessionEnd => more = one)
    OBVIOUS
  <2>. HIDE DEF more, one
  <2>5. more \in Seq(Items) /\ RawIds(more) = {}
    BY <2>2, <2>3, NoItem
  <2>. QED BY <2>4, <2>5 DEF one
<1>. HIDE DEF r, more, g
<1>9. r.f \in Filters /\ r.raw \in Seq(Bytes) /\ r.split \in Nat /\ r.lf \in Int
  BY <1>6 DEF Yields
<1>10. Good(r.f, k, RawIds(timeline')) /\ timeline' \in Seq(Items)
  BY <1>1, <1>2, <1>3, <1>6, <1>7, <1>8, Stepped
<1>11. /\ h \in Filters /\ h.prefix = r.f.prefix /\ h.matched = r.f.matched /\ h.started = r.f.started
       /\ h.pending = r.f.pending /\ h.armed = r.f.armed /\ h.lf = r.f.lf
  BY <1>9 DEF Filters
<1>. HIDE DEF h
<1>12. Good(h, k, RawIds(timeline'))
  BY <1>10, <1>11, GoodSame
<1>13. BytesOK'
  <2>1. Good(f', NRead', RawIds(timeline'))
    BY <1>3, <1>5, <1>12
  <2>. QED BY <1>3, <2>1, BytesNext
<1>14. ItemsOK'
  BY <1>1, <1>3, <1>10 DEF ItemsOK
<1>15. PICK b \in Seq(Items) : timeline' = b \o more /\ (HasEnd(b) <=> HasEnd(timeline))
  BY <1>1, <1>3, <1>8, <1>9, PartsAppended
<1>16. /\ \A i \in DOMAIN timeline' : timeline'[i].kind = "end" => i = Len(timeline')
       /\ more = <<End>> => End \in Range(timeline')
  BY <1>4, <1>8, <1>15, EndIsLast
<1>17. HasEnd(arrived') => End \in Range(timeline')
  BY <1>3, <1>4, <1>8, <1>16
<1>18. f'.prefix = <<>> /\ f'.pending = <<>> /\ f'.lf = None
  BY <1>3, <1>6, <1>11
<1>19. IsFinal'
  BY <1>16, <1>17, <1>18 DEF IsFinal, End
<1>. QED BY <1>3, <1>13, <1>14, <1>19 DEF Inv

(* So does a step that changes nothing.                                    *)
LEMMA StutterInv ==
  ASSUME Inv, UNCHANGED vars
  PROVE  Inv'
<1>1. /\ f' = f /\ script' = script /\ ipc' = ipc /\ phase' = phase /\ arrived' = arrived
      /\ timeline' = timeline
  BY DEF vars
<1>2. BytesOK'
  <2>1. Good(f', NRead', RawIds(timeline'))
    <3>1. NRead' = NRead
      BY <1>1, SameReads
    <3>. QED BY <1>1, <3>1 DEF Inv, BytesOK
  <2>. QED BY <1>1, <2>1, BytesNext
<1>3. ItemsOK'
  BY <1>1 DEF Inv, ItemsOK
<1>4. phase' # "final" => NotFinal'
  BY <1>1 DEF Inv, NotFinal
<1>5. phase' = "final" => IsFinal'
  BY <1>1 DEF Inv, IsFinal
<1>. QED BY <1>2, <1>3, <1>4, <1>5 DEF Inv

(* Every step keeps the invariant.                                         *)
LEMMA NextInv ==
  ASSUME Inv, [Next]_vars
  PROVE  Inv'
<1>1. CASE \E n \in 1..Len(script) : AppendRawText(n)
  BY <1>1, AppendRawTextInv
<1>2. CASE IpcMessage
  BY <1>2, IpcMessageInv
<1>3. CASE ShutdownStarting
  BY <1>3, ShutdownStartingInv
<1>4. CASE KillStarting \/ CloseConpty
  BY <1>4, TeardownInv
<1>5. CASE SessionEndRespawn
  BY <1>5, SessionEndRespawnInv
<1>6. CASE FinishRawText
  BY <1>6, FinishRawTextInv
<1>7. CASE FinalizeRawText
  BY <1>7, FinalizeInv
<1>8. CASE UNCHANGED vars
  BY <1>8, StutterInv
<1>. QED BY <1>1, <1>2, <1>3, <1>4, <1>5, <1>6, <1>7, <1>8 DEF Next

(* The invariant holds in every behaviour.                                 *)
LEMMA SpecInv == Spec => []Inv
<1>1. Init => Inv
  BY InitInv
<1>2. Inv /\ [Next]_vars => Inv'
  BY NextInv
<1>. QED BY <1>1, <1>2, PTL DEF Spec

(* What the filter still holds.                                            *)
LEMMA HeldIs ==
  ASSUME NEW lo, NEW hi, Holding(f, lo, hi)
  PROVE  HeldRaw = (lo + 1)..hi
<1>1. Range2(lo, hi) /\ f \in Filters
  BY DEF Holding
<1>2. Ids(Piece(lo, hi)) = (lo + 1)..hi
  BY <1>1, PieceIds DEF Range2
<1>3. HeldRaw = Ids(f.prefix) \cup Ids(f.pending)
  BY DEF HeldRaw, Ids, Range
<1>4. Ids(<<>>) = {}
  <2>1. DOMAIN <<>> = {}
    OBVIOUS
  <2>. QED BY <2>1 DEF Ids
<1>5. CASE f.started
  <2>1. f.prefix = <<>> /\ f.pending = Piece(lo, hi)
    BY <1>5 DEF Holding
  <2>2. Ids(f.prefix) = {} /\ Ids(f.pending) = (lo + 1)..hi
    BY <1>2, <1>4, <2>1
  <2>. QED BY <1>3, <2>2
<1>6. CASE ~f.started
  <2>1. f.pending = <<>> /\ f.prefix = Piece(lo, hi)
    BY <1>6 DEF Holding
  <2>2. Ids(f.pending) = {} /\ Ids(f.prefix) = (lo + 1)..hi
    BY <1>2, <1>4, <2>1
  <2>. QED BY <1>3, <2>2
<1>. QED BY <1>5, <1>6

(* What is taken out is noise.                                             *)
LEMMA InvNoise ==
  ASSUME Inv
  PROVE  OnlyNoiseRemoved
<1>. DEFINE k == NRead
            shown == RawIds(timeline)
<1>1. k \in Nat
  BY InvBytes
<1>2. PICK lo \in Nat : Holding(f, lo, k) /\ Clean(lo, shown, f.armed)
  BY InvBytes
<1>3. lo <= k /\ k <= Len(script) /\ Len(script) \in Nat
  BY <1>2 DEF Holding, Range2, Texts
<1>4. Removed = (1..k) \ (shown \cup ((lo + 1)..k))
  <2>1. HeldRaw = (lo + 1)..k
    BY <1>2, HeldIs
  <2>2. ShownRaw = shown
    BY DEF ShownRaw, RawIds
  <2>. QED BY <2>1, <2>2 DEF Removed
<1>. HIDE DEF k, shown
<1>5. Removed = (1..lo) \ shown
  BY <1>1, <1>3, <1>4
<1>6. ASSUME NEW i \in Removed
      PROVE  \E a \in 1..i, b \in i..Len(script) :
                a..b \subseteq Removed /\ (StartupNoise(a, b) \/ (f.armed /\ Repaint(a, b)))
  <2>1. i \in (1..lo) \ shown
    BY <1>5
  <2>2. PICK a \in 1..i, b \in i..lo :
            (a..b) \cap shown = {} /\ (StartupNoise(a, b) \/ (f.armed /\ Repaint(a, b)))
    BY <1>2, <2>1 DEF Clean
  <2>3. a..b \subseteq Removed /\ b \in i..Len(script)
    BY <1>1, <1>3, <1>5, <2>1, <2>2
  <2>. QED BY <2>2, <2>3
<1>7. ASSUME phase = "final" PROVE HeldRaw = {} /\ f.lf = None
  <2>1. f.prefix = <<>> /\ f.pending = <<>> /\ f.lf = None
    BY <1>7 DEF Inv, IsFinal
  <2>2. DOMAIN <<>> = {}
    OBVIOUS
  <2>3. Range(f.prefix) = {} /\ Range(f.pending) = {}
    BY <2>1, <2>2 DEF Range
  <2>. QED BY <2>1, <2>3 DEF HeldRaw
<1>. QED BY <1>6, <1>7 DEF OnlyNoiseRemoved

(* Of raw stdout nothing is lost but terminal noise, whatever the scripts, *)
(* the cuts into reads and the order of the threads (the filter of         *)
(* worker_supervisor.rs), and nothing is held back at the end.             *)
THEOREM NoiseCorrect == Spec => []OnlyNoiseRemoved
<1>1. Inv => OnlyNoiseRemoved
  BY InvNoise
<1>. QED BY <1>1, SpecInv, PTL

(* The end of a session is shown once, after everything else, although     *)
(* its message arms the filter before raw stdout has ended.                *)
THEOREM SessionEndCorrect == Spec => []SessionEndLast
<1>1. Inv => SessionEndLast
  <2>. SUFFICES ASSUME Inv PROVE SessionEndLast
    OBVIOUS
  <2>1. CASE phase # "final"
    BY <2>1 DEF Inv, NotFinal, HasEnd, SessionEndLast
  <2>2. CASE phase = "final"
    BY <2>2 DEF Inv, IsFinal, HasEnd, SessionEndLast
  <2>. QED BY <2>1, <2>2
<1>. QED BY <1>1, SpecInv, PTL

=============================================================================
