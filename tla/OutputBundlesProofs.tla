------------------------- MODULE OutputBundlesProofs -------------------------
(***************************************************************************)
(* Proofs about output bundles, for all quotas, replies and file faults:   *)
(* the store's accounts are true and within its quotas, an index covers    *)
(* its bundle, and a bundle that a reply names or that later polls append  *)
(* to is there.                                                            *)
(***************************************************************************)
EXTENDS OutputBundles, TLAPS, WellFoundedInduction, FiniteSetTheorems, SequenceTheorems

(***************************************************************************)
(* Types.                                                                  *)
(***************************************************************************)
Item == {i \in [kind : {"text", "image", "server"}, n : Nat, visible : BOOLEAN, img : Nat, id : Nat] :
            i.kind = "image" => i.img # 0}
Entry == [id : Nat, bytes : Nat, reserved : Nat]
Piece == [item : Nat, n : Nat]
LogRow == [row : {"T"}, from : Nat, to : Nat] \cup [row : {"I"}, image : Nat] \cup [row : {"S"}]
Dir == [text : Seq(Piece), history : Seq(Piece), alias : Seq(Nat),
        hasLog : BOOLEAN, log : Seq(LogRow), logBytes : Nat, torn : BOOLEAN, gone : BOOLEAN]
Disks == UNION {[D -> Dir] : D \in SUBSET Nat}
StoreType == [bundles : Seq(Entry), total : Nat, next : Nat, disk : Disks]
BundleType == [id : Nat, images : Nat, current : Nat, text : Nat, preIndex : Nat, omitted : BOOLEAN,
               omittedVisible : BOOLEAN, recorded : BOOLEAN, disclosed : BOOLEAN]
RunType == [s : StoreType, b : BundleType, kept : Seq(Item), order : Seq(Nat),
            dropped : BOOLEAN, err : BOOLEAN]

(***************************************************************************)
(* The store: every entry has its own directory and keeps its quota; it    *)
(* accounts for its files and they are indexed, unless a write in them     *)
(* failed.  Together they keep the store's quotas.                         *)
(***************************************************************************)
Accounts(bundles) == [i \in DOMAIN bundles |-> AccountedBytes(bundles[i])]
EntryOK(e, d) ==
    /\ AccountedBytes(e) <= MaxBundleBytes
    /\ IF d.torn THEN FilesOf(d) <= MaxBundleBytes /\ PartlyIndexed(d)
       ELSE e.bytes = FilesOf(d) /\ (IF d.hasLog THEN Indexed(d) ELSE d.log = <<>>)
StoreOK(s) ==
    /\ s \in StoreType
    /\ \A i, j \in DOMAIN s.bundles : s.bundles[i].id = s.bundles[j].id => i = j
    /\ \A i \in DOMAIN s.bundles : s.bundles[i].id \in 1..s.next
    /\ DOMAIN s.disk = {s.bundles[i].id : i \in DOMAIN s.bundles}
    /\ \A i \in DOMAIN s.bundles : EntryOK(s.bundles[i], s.disk[s.bundles[i].id])
    /\ s.total = SumOf(Accounts(s.bundles))
    /\ s.total <= MaxTotalBytes
    /\ Len(s.bundles) <= MaxBundleCount

(***************************************************************************)
(* The bundle that is appended to is the newest one; the one named before  *)
(* it in the same reply, if there is one, comes next.  A store with room   *)
(* for two bundles prunes neither, and no operation on it failed.          *)
(***************************************************************************)
Roomy == 2 * MaxBundleBytes <= MaxTotalBytes
Newest(s, id) == s.bundles # <<>> /\ s.bundles[Len(s.bundles)].id = id
Intact(d) == ~d.torn /\ ~d.gone
Follows(s, prev, id) ==
    /\ Newest(s, id)
    /\ prev # 0 => /\ Len(s.bundles) >= 2 /\ s.bundles[Len(s.bundles) - 1].id = prev
                   /\ Intact(s.disk[prev])

(* What a bundle without an index remembers of its directory.              *)
Tracks(b, d) ==
    /\ Intact(d)
    /\ b.text = Total(d.text)
    /\ b.images = 0 <=> d.history = <<>>
    /\ b.images = 0 => b.current = 0
    /\ ~d.hasLog => b.preIndex = Len(d.history) /\ (b.text > 0 => b.images = 0)

(* An append in progress.                                                  *)
RunBase(a, prev, id) ==
    /\ a \in RunType
    /\ StoreOK(a.s)
    /\ a.b.id = id
    /\ Follows(a.s, prev, id)
RunOK(a, prev, id) == RunBase(a, prev, id) /\ (~a.err => Tracks(a.b, a.s.disk[id]))

(***************************************************************************)
(* The inductive invariant.                                                *)
(***************************************************************************)
ActiveOK(s, b) ==
    /\ b \in BundleType
    /\ b.id # 0 => Newest(s, b.id) /\ Tracks(b, s.disk[b.id])
NoticesKept(s, notices) == \A n \in notices : n.bundle # 0 => Whole(s, n.bundle)
BundlesInv ==
    /\ StoreOK(store)
    /\ ActiveOK(store, active)
    /\ staged \in Seq(Item)
    /\ calls \in Nat
    /\ Roomy => NoticesKept(store, reply.notices)

-----------------------------------------------------------------------------
(***************************************************************************)
(* Induction, loops and sums.                                              *)
(***************************************************************************)

(* A nonempty set of numbers has a least one.                              *)
LEMMA LeastNumber ==
  ASSUME NEW T \in SUBSET Nat, T # {}
  PROVE  \E k \in T : \A m \in T : k <= m
<1>. DEFINE R == {ss \in Nat \X Nat : ss[1] < ss[2]}
<1>1. IsWellFoundedOn(R, Nat)
  BY NatLessThanWellFounded DEF OpToRel
<1>. HIDE DEF R
<1>2. PICK k \in T : \A m \in T : ~(<<m, k>> \in R)
  BY <1>1, WFMin
<1>3. k \in Nat /\ \A m \in T : m \in Nat /\ ~(m < k)
  BY <1>2 DEF R
<1>. QED BY <1>3

(* Induction up to n: a set that holds zero and the successor of each of   *)
(* its members below n holds all of them.                                  *)
LEMMA CountingUp ==
  ASSUME NEW n \in Nat, NEW T, 0 \in T, \A k \in T \cap (0..n) : k < n => k + 1 \in T
  PROVE  0..n \subseteq T
<1>1. SUFFICES ASSUME (0..n) \ T # {} PROVE FALSE
  OBVIOUS
<1>2. (0..n) \ T \in SUBSET Nat
  OBVIOUS
<1>3. PICK k \in (0..n) \ T : \A m \in (0..n) \ T : k <= m
  BY <1>1, <1>2, LeastNumber
<1>4. k # 0 /\ k - 1 \in 0..n /\ k - 1 < n /\ ~(k <= k - 1)
  BY <1>3
<1>5. k - 1 \in T
  BY <1>3, <1>4
<1>6. (k - 1) + 1 \in T
  BY <1>4, <1>5
<1>. QED BY <1>3, <1>6

(* A loop of n rounds, each a function of its number and the last result,  *)
(* computes something.                                                     *)
Rounds(n, V, v, S, f) == f \in [0..n -> V] /\ f[0] = v /\ \A k \in 1..n : f[k] = S[k][f[k - 1]]
(* A loop of n rounds from v can be run, whatever its rounds do.           *)
LEMMA RoundsExist ==
  ASSUME NEW n, NEW V, NEW v, NEW S, n \in Nat, v \in V, S \in [1..n -> [V -> V]]
  PROVE  \E f : Rounds(n, V, v, S, f)
<1>. DEFINE Start(m, g) == /\ g \in [0..m -> V] /\ g[0] = v
                           /\ \A k \in 1..m : g[k] = S[k][g[k - 1]]
            T == {m \in 0..n : \E g : Start(m, g)}
<1>1. 0 \in T
  <2>1. Start(0, [i \in 0..0 |-> v])
    OBVIOUS
  <2>. HIDE DEF Start
  <2>. QED BY <2>1
<1>2. ASSUME NEW k \in T \cap (0..n), k < n PROVE k + 1 \in T
  <2>1. PICK g : Start(k, g)
    BY <1>2
  <2>. DEFINE h == [i \in 0..(k + 1) |-> IF i = k + 1 THEN S[k + 1][g[k]] ELSE g[i]]
  <2>2. k \in Nat /\ g[k] \in V /\ k + 1 \in 1..n
    BY <2>1, <1>2
  <2>3. S[k + 1][g[k]] \in V
    BY <2>2
  <2>4. h \in [0..(k + 1) -> V]
    BY <2>1, <2>2, <2>3
  <2>5. h[0] = v
    BY <2>1, <2>2
  <2>6. ASSUME NEW i \in 1..(k + 1) PROVE h[i] = S[i][h[i - 1]]
    BY <2>1, <2>2
  <2>7. Start(k + 1, h)
    BY <2>4, <2>5, <2>6
  <2>. HIDE DEF h, Start
  <2>. QED BY <2>7, <2>2
<1>3. n \in T
  <2>. HIDE DEF T
  <2>1. 0..n \subseteq T
    BY <1>1, <1>2, CountingUp
  <2>. QED BY <2>1
<1>4. PICK g : Start(n, g)
  BY <1>3
<1>. QED BY <1>4 DEF Rounds

(* The partial sums of a sequence.                                         *)
Adds(seq, F) ==
    /\ F \in [0..Len(seq) -> Nat]
    /\ F[0] = 0
    /\ \A k \in 1..Len(seq) : F[k] = F[k - 1] + seq[k]

(* SumOf is the last of them.                                              *)
LEMMA SumExists ==
  ASSUME NEW seq \in Seq(Nat)
  PROVE  \E F : Adds(seq, F) /\ SumOf(seq) = F[Len(seq)]
<1>. DEFINE n == Len(seq)
            S == [k \in 1..n |-> [x \in Nat |-> x + seq[k]]]
            zero == 0
            V == Nat
            L == CHOOSE f : f = [k \in 0..n |-> IF k = 0 THEN 0 ELSE f[k - 1] + seq[k]]
<1>1. n \in Nat /\ \A k \in 1..n : seq[k] \in Nat
  OBVIOUS
<1>2. S \in [1..n -> [Nat -> Nat]]
  BY <1>1
<1>3. \A k \in 1..n, x \in Nat : S[k][x] = x + seq[k]
  BY <1>1
<1>. HIDE DEF S
<1>4. PICK f \in [0..n -> Nat] : f[0] = zero /\ \A k \in 1..n : f[k] = S[k][f[k - 1]]
  <2>1. zero \in V /\ S \in [1..n -> [V -> V]] /\ n \in Nat
    BY <1>1, <1>2
  <2>. HIDE DEF zero, n, V
  <2>2. \E f : Rounds(n, V, zero, S, f)
    BY <2>1, RoundsExist
  <2>. QED BY <2>2 DEF V, Rounds
<1>5. f = [k \in 0..n |-> IF k = 0 THEN 0 ELSE f[k - 1] + seq[k]]
  <2>1. \A k \in 0..n : k # 0 => S[k][f[k - 1]] = f[k - 1] + seq[k]
    <3>1. \A k \in 0..n : k # 0 => k \in 1..n /\ k - 1 \in 0..n /\ f[k - 1] \in Nat
      BY <1>1
    <3>. QED BY <1>3, <3>1
  <2>2. \A k \in 0..n : f[k] = IF k = 0 THEN 0 ELSE f[k - 1] + seq[k]
    BY <1>1, <1>4, <2>1
  <2>. HIDE DEF n
  <2>. QED BY <2>2
<1>6. L = [k \in 0..n |-> IF k = 0 THEN 0 ELSE L[k - 1] + seq[k]]
  BY <1>5
<1>7. SumOf(seq) = L[n]
  BY DEF SumOf
<1>. HIDE DEF L, n
<1>. DEFINE T == {k \in 0..n : L[k] \in Nat}
<1>8. L[0] = 0 /\ \A k \in 1..n : L[k] = L[k - 1] + seq[k]
  BY <1>1, <1>6
<1>9. 0 \in T /\ \A k \in T \cap (0..n) : k < n => k + 1 \in T
  <2>1. 0 \in T
    BY <1>1, <1>8
  <2>2. ASSUME NEW k \in T \cap (0..n), k < n PROVE k + 1 \in T
    <3>1. k + 1 \in 1..n /\ (k + 1) - 1 = k /\ L[k] \in Nat /\ seq[k + 1] \in Nat
      BY <1>1, <2>2
    <3>2. L[k + 1] = L[k] + seq[k + 1]
      BY <1>8, <3>1
    <3>. QED BY <1>1, <3>1, <3>2
  <2>. QED BY <2>1, <2>2
<1>10. 0..n \subseteq T
  <2>. HIDE DEF T
  <2>. QED BY <1>1, <1>9, CountingUp
<1>11. \A k \in 0..n : L[k] \in Nat
  BY <1>10
<1>12. L \in [0..n -> Nat]
  BY <1>6, <1>11
<1>. QED BY <1>7, <1>8, <1>12 DEF Adds, n

(* Any partial sums of a sequence end in its sum.                          *)
LEMMA SumUnique ==
  ASSUME NEW seq \in Seq(Nat), NEW F, Adds(seq, F)
  PROVE  SumOf(seq) = F[Len(seq)]
<1>. DEFINE n == Len(seq)
<1>1. n \in Nat /\ \A k \in 1..n : seq[k] \in Nat
  OBVIOUS
<1>2. PICK G : Adds(seq, G) /\ SumOf(seq) = G[n]
  BY SumExists
<1>. DEFINE T == {k \in 0..n : F[k] = G[k]}
<1>3. 0 \in T /\ \A k \in T \cap (0..n) : k < n => k + 1 \in T
  BY <1>1, <1>2 DEF Adds
<1>. HIDE DEF n
<1>4. 0..n \subseteq T
  <2>. HIDE DEF T
  <2>. QED BY <1>1, <1>3, CountingUp
<1>. QED BY <1>1, <1>2, <1>4 DEF n

(* A sum of numbers is a number.                                           *)
LEMMA SumType ==
  ASSUME NEW seq \in Seq(Nat) PROVE SumOf(seq) \in Nat
<1>1. PICK F : Adds(seq, F) /\ SumOf(seq) = F[Len(seq)]
  BY SumExists
<1>. QED BY <1>1 DEF Adds

(* The sum of nothing.                                                     *)
LEMMA SumEmpty ==
  ASSUME NEW seq \in Seq(Nat), Len(seq) = 0 PROVE SumOf(seq) = 0
<1>1. PICK F : Adds(seq, F) /\ SumOf(seq) = F[Len(seq)]
  BY SumExists
<1>. QED BY <1>1 DEF Adds

(* The sum after one more number.                                          *)
LEMMA SumAppend ==
  ASSUME NEW seq \in Seq(Nat), NEW x \in Nat
  PROVE  SumOf(Append(seq, x)) = SumOf(seq) + x
<1>1. PICK F : Adds(seq, F) /\ SumOf(seq) = F[Len(seq)]
  BY SumExists
<1>. DEFINE n == Len(seq)
            G == [k \in 0..(n + 1) |-> IF k = n + 1 THEN F[n] + x ELSE F[k]]
            new == Append(seq, x)
<1>2. n \in Nat /\ new \in Seq(Nat) /\ Len(new) = n + 1 /\ new[n + 1] = x
      /\ \A k \in 1..n : new[k] = seq[k]
  OBVIOUS
<1>3. F \in [0..n -> Nat] /\ F[n] \in Nat
  BY <1>1, <1>2 DEF Adds
<1>4. G \in [0..(n + 1) -> Nat] /\ G[0] = 0 /\ G[n + 1] = F[n] + x
  BY <1>1, <1>2, <1>3 DEF Adds
<1>5. \A k \in 1..(n + 1) : G[k] = G[k - 1] + new[k]
  BY <1>1, <1>2, <1>3 DEF Adds
<1>. HIDE DEF n, G, new
<1>6. Adds(new, G)
  BY <1>2, <1>4, <1>5 DEF Adds
<1>7. SumOf(new) = G[n + 1]
  BY <1>2, <1>6, SumUnique
<1>. QED BY <1>1, <1>4, <1>7 DEF n, new

(* A sequence without its i-th member.                                     *)
Drop(seq, i) == SubSeq(seq, 1, i - 1) \o SubSeq(seq, i + 1, Len(seq))
(* A sequence without its i-th element.                                    *)
LEMMA DroppedIs ==
  ASSUME NEW X, NEW seq \in Seq(X), NEW i \in 1..Len(seq)
  PROVE  /\ Drop(seq, i) \in Seq(X) /\ Len(Drop(seq, i)) = Len(seq) - 1
         /\ \A k \in 1..(Len(seq) - 1) : Drop(seq, i)[k] = IF k < i THEN seq[k] ELSE seq[k + 1]
<1>. DEFINE n == Len(seq)
            new == Drop(seq, i)
<1>1. n \in Nat /\ i \in Nat /\ 1 <= i /\ i <= n /\ \A k \in 1..n : seq[k] \in X
  OBVIOUS
<1>2. new \in Seq(X) /\ Len(new) = n - 1
      /\ \A k \in 1..(n - 1) : new[k] = IF k < i THEN seq[k] ELSE seq[k + 1]
  <2>1. SubSeq(seq, 1, i - 1) \in Seq(X) /\ Len(SubSeq(seq, 1, i - 1)) = i - 1
        /\ \A k \in 1..(i - 1) : SubSeq(seq, 1, i - 1)[k] = seq[k]
    BY <1>1
  <2>2. SubSeq(seq, i + 1, n) \in Seq(X) /\ Len(SubSeq(seq, i + 1, n)) = n - i
        /\ \A k \in 1..(n - i) : SubSeq(seq, i + 1, n)[k] = seq[k + i]
    BY <1>1
  <2>. DEFINE x == SubSeq(seq, 1, i - 1)
              y == SubSeq(seq, i + 1, n)
  <2>3. new = x \o y
    BY DEF Drop
  <2>4. x \in Seq(X) /\ Len(x) = i - 1 /\ \A k \in 1..(i - 1) : x[k] = seq[k]
    BY <2>1
  <2>5. y \in Seq(X) /\ Len(y) = n - i /\ \A k \in 1..(n - i) : y[k] = seq[k + i]
    BY <2>2
  <2>. HIDE DEF x, y, n, new
  <2>6. new \in Seq(X) /\ Len(new) = n - 1
    <3>1. x \o y \in Seq(X) /\ Len(x \o y) = Len(x) + Len(y)
      BY ONLY <2>4, <2>5, ConcatProperties
    <3>. QED BY ONLY <1>1, <2>3, <2>4, <2>5, <3>1
  <2>7. ASSUME NEW k \in 1..(n - 1) PROVE new[k] = IF k < i THEN seq[k] ELSE seq[k + 1]
    <3>1. CASE k < i
      <4>1. new[k] = x[k]
        BY ONLY <1>1, <2>3, <2>4, <2>5, <3>1, k \in 1..(n - 1)
      <4>2. k \in 1..(i - 1)
        BY ONLY <1>1, <3>1, k \in 1..(n - 1)
      <4>. QED BY ONLY <2>4, <3>1, <4>1, <4>2
    <3>2. CASE ~(k < i)
      <4>1. k - (i - 1) \in 1..(n - i) /\ (k - (i - 1)) + i = k + 1
        BY <1>1, <3>2
      <4>2. new[k] = y[k - (i - 1)]
        BY ONLY <1>1, <2>3, <2>4, <2>5, <3>2, k \in 1..(n - 1)
      <4>3. y[k - (i - 1)] = seq[k + 1]
        BY <2>5, <4>1
      <4>. QED BY <3>2, <4>2, <4>3
    <3>. QED BY <3>1, <3>2
  <2>. QED BY <2>6, <2>7
<1>. QED BY <1>2

(* The sum without one number.                                             *)
LEMMA SumRemove ==
  ASSUME NEW seq \in Seq(Nat), NEW i \in 1..Len(seq)
  PROVE  /\ Drop(seq, i) \in Seq(Nat)
         /\ SumOf(seq) = SumOf(Drop(seq, i)) + seq[i]
<1>. DEFINE n == Len(seq)
            new == Drop(seq, i)
<1>1. n \in Nat /\ i \in Nat /\ 1 <= i /\ i <= n /\ \A k \in 1..n : seq[k] \in Nat
  OBVIOUS
<1>2. new \in Seq(Nat) /\ Len(new) = n - 1
      /\ \A k \in 1..(n - 1) : new[k] = IF k < i THEN seq[k] ELSE seq[k + 1]
  <2>. DEFINE X == Nat
  <2>1. seq \in Seq(X)
    OBVIOUS
  <2>. HIDE DEF X
  <2>2. new \in Seq(X) /\ Len(new) = n - 1
        /\ \A k \in 1..(n - 1) : new[k] = IF k < i THEN seq[k] ELSE seq[k + 1]
    BY <2>1, DroppedIs
  <2>. QED BY <2>2 DEF X
<1>3. PICK F : Adds(seq, F) /\ SumOf(seq) = F[n]
  BY SumExists
<1>4. PICK G : Adds(new, G) /\ SumOf(new) = G[n - 1]
  BY <1>2, SumExists
<1>5. F \in [0..n -> Nat] /\ F[0] = 0 /\ \A k \in 1..n : F[k] = F[k - 1] + seq[k]
  BY <1>3 DEF Adds
<1>6. G \in [0..(n - 1) -> Nat] /\ G[0] = 0 /\ \A k \in 1..(n - 1) : G[k] = G[k - 1] + new[k]
  BY <1>2, <1>4 DEF Adds
<1>. HIDE DEF n
<1>. DEFINE T == {k \in 0..(n - 1) : IF k < i THEN F[k] = G[k] ELSE F[k + 1] = G[k] + seq[i]}
<1>7. 0 \in T
  BY <1>1, <1>5, <1>6
<1>8. ASSUME NEW k \in T \cap (0..(n - 1)), k < n - 1 PROVE k + 1 \in T
  <2>1. k \in Nat /\ k + 1 \in 1..(n - 1) /\ k + 1 \in 1..n /\ k + 2 \in 1..n /\ (k + 1) - 1 = k
        /\ (k + 2) - 1 = k + 1 /\ k + 1 \in 0..(n - 1) /\ (k + 1) + 1 = k + 2
    BY <1>1, <1>8
  <2>2. G[k + 1] = G[k] + new[k + 1] /\ F[k + 1] = F[k] + seq[k + 1]
        /\ F[k + 2] = F[k + 1] + seq[k + 2]
    BY <1>5, <1>6, <2>1
  <2>3. new[k + 1] = IF k + 1 < i THEN seq[k + 1] ELSE seq[k + 2]
    BY <1>2, <2>1
  <2>4. F[k] \in Nat /\ G[k] \in Nat /\ seq[k + 1] \in Nat /\ seq[k + 2] \in Nat /\ seq[i] \in Nat
    <3>1. k \in 0..n /\ k \in 0..(n - 1) /\ i \in 1..n
      BY <1>1, <1>8
    <3>2. F[k] \in Nat /\ G[k] \in Nat
      BY <1>5, <1>6, <3>1
    <3>. QED BY <1>1, <2>1, <3>1, <3>2
  <2>5. IF k < i THEN F[k] = G[k] ELSE F[k + 1] = G[k] + seq[i]
    BY <1>8
  <2>6. CASE k + 1 < i
    <3>1. k < i /\ F[k + 1] = G[k + 1]
      BY ONLY <1>1, <2>1, <2>2, <2>3, <2>4, <2>5, <2>6
    <3>. QED BY <2>1, <2>6, <3>1
  <2>7. CASE k + 1 = i
    <3>1. k < i /\ F[k + 2] = G[k + 1] + seq[i]
      BY ONLY <1>1, <2>1, <2>2, <2>3, <2>4, <2>5, <2>7
    <3>. QED BY <2>1, <2>7, <3>1
  <2>8. CASE k + 1 > i
    <3>1. ~(k < i) /\ ~(k + 1 < i)
      BY <1>1, <2>1, <2>8
    <3>2. F[k + 2] = G[k + 1] + seq[i]
      BY ONLY <1>1, <2>1, <2>2, <2>3, <2>4, <2>5, <3>1
    <3>. QED BY <2>1, <3>1, <3>2
  <2>. QED BY <1>1, <2>1, <2>6, <2>7, <2>8
<1>9. n - 1 \in T
  <2>. DEFINE m == n - 1
  <2>1. m \in Nat /\ m \in 0..m
    BY <1>1
  <2>2. \A k \in T \cap (0..m) : k < m => k + 1 \in T
    BY <1>8
  <2>. HIDE DEF T, m
  <2>3. 0..m \subseteq T
    BY <1>7, <2>1, <2>2, CountingUp
  <2>. QED BY <2>1, <2>3 DEF m
<1>10. (IF n - 1 < i THEN F[n - 1] = G[n - 1] ELSE F[n] = G[n - 1] + seq[i])
  <2>1. (n - 1) + 1 = n
    BY <1>1
  <2>. QED BY <1>9, <2>1
<1>11. CASE i = n
  <2>1. F[n] = F[n - 1] + seq[n]
    BY <1>1, <1>5
  <2>. QED BY <1>1, <1>2, <1>3, <1>4, <1>10, <1>11, <2>1
<1>12. CASE i # n
  BY <1>1, <1>2, <1>3, <1>4, <1>10, <1>12
<1>. QED BY <1>11, <1>12

(* No member exceeds the sum.                                              *)
LEMMA SumMember ==
  ASSUME NEW seq \in Seq(Nat), NEW i \in 1..Len(seq)
  PROVE  seq[i] <= SumOf(seq)
<1>. DEFINE new == Drop(seq, i)
<1>1. new \in Seq(Nat) /\ SumOf(seq) = SumOf(new) + seq[i]
  BY SumRemove
<1>. HIDE DEF new
<1>2. SumOf(new) \in Nat /\ seq[i] \in Nat
  BY <1>1, SumType
<1>. QED BY <1>1, <1>2

(* The sum after a change of one number.                                   *)
LEMMA SumUpdate ==
  ASSUME NEW seq \in Seq(Nat), NEW i \in 1..Len(seq), NEW x \in Nat, NEW new \in Seq(Nat),
         Len(new) = Len(seq), new[i] = x,
         \A k \in 1..Len(seq) : k # i => new[k] = seq[k]
  PROVE  SumOf(new) + seq[i] = SumOf(seq) + x
<1>. DEFINE u == Drop(seq, i)
            v == Drop(new, i)
<1>1. u = v
  <2>1. SubSeq(seq, 1, i - 1) = SubSeq(new, 1, i - 1)
    OBVIOUS
  <2>2. SubSeq(seq, i + 1, Len(seq)) = SubSeq(new, i + 1, Len(new))
    OBVIOUS
  <2>. QED BY <2>1, <2>2 DEF Drop
<1>2. u \in Seq(Nat) /\ SumOf(seq) = SumOf(u) + seq[i]
  BY SumRemove
<1>3. SumOf(new) = SumOf(v) + new[i]
  <2>1. i \in 1..Len(new)
    OBVIOUS
  <2>. QED BY <2>1, SumRemove
<1>4. seq[i] \in Nat
  OBVIOUS
<1>. HIDE DEF u, v
<1>5. SumOf(u) \in Nat
  BY <1>2, SumType
<1>. QED BY <1>1, <1>2, <1>3, <1>4, <1>5

(* The sum of zeros.                                                       *)
LEMMA SumZero ==
  ASSUME NEW seq \in Seq(Nat), \A k \in 1..Len(seq) : seq[k] = 0
  PROVE  SumOf(seq) = 0
<1>. DEFINE F == [k \in 0..Len(seq) |-> 0]
<1>1. Adds(seq, F)
  BY DEF Adds
<1>2. F[Len(seq)] = 0
  OBVIOUS
<1>. HIDE DEF F
<1>. QED BY <1>1, <1>2, SumUnique

(* The sum of two numbers.                                                 *)
LEMMA SumTwo ==
  ASSUME NEW seq \in Seq(Nat), Len(seq) = 2
  PROVE  SumOf(seq) = seq[1] + seq[2]
<1>1. PICK F : Adds(seq, F) /\ SumOf(seq) = F[2]
  BY SumExists
<1>2. F[0] = 0 /\ F[1] = F[0] + seq[1] /\ F[2] = F[1] + seq[2]
  BY <1>1 DEF Adds
<1>3. seq[1] \in Nat /\ seq[2] \in Nat
  OBVIOUS
<1>. QED BY <1>1, <1>2, <1>3

(***************************************************************************)
(* The store.                                                              *)
(***************************************************************************)
Share(s, id) == s.bundles[Position(s, id)]

(* The quotas and lengths are numbers.                                     *)
LEMMA QuotaNumbers ==
  /\ RowOverhead \in Nat /\ Row \in Nat /\ Header \in Nat /\ OmissionLine \in Nat
  /\ MaxBundleBytes \in Nat /\ MaxTotalBytes \in Nat /\ MaxBundleCount \in Nat
  /\ ImageThreshold \in Nat /\ MaxBundleCount > 0
BY QuotaAssumption

(* The accounted bytes of the entries are numbers.                         *)
LEMMA AccountsType ==
  ASSUME NEW bundles \in Seq(Entry)
  PROVE  /\ Accounts(bundles) \in Seq(Nat)
         /\ Len(Accounts(bundles)) = Len(bundles)
         /\ \A i \in 1..Len(bundles) : Accounts(bundles)[i] = AccountedBytes(bundles[i])
                                       /\ AccountedBytes(bundles[i]) \in Nat
<1>1. \A i \in 1..Len(bundles) : AccountedBytes(bundles[i]) \in Nat
  <2>1. \A e \in Entry : AccountedBytes(e) \in Nat
    BY DEF Entry, AccountedBytes
  <2>. QED BY <2>1
<1>2. Accounts(bundles) \in [1..Len(bundles) -> Nat]
  BY <1>1 DEF Accounts
<1>3. Accounts(bundles) \in Seq(Nat)
  BY <1>2
<1>. QED BY <1>1, <1>2, <1>3 DEF Accounts

(* The lengths of the pieces of a file are numbers.                        *)
LEMMA PiecesType ==
  ASSUME NEW seq \in Seq(Piece)
  PROVE  /\ [i \in DOMAIN seq |-> seq[i].n] \in Seq(Nat)
         /\ Len([i \in DOMAIN seq |-> seq[i].n]) = Len(seq)
         /\ Total(seq) \in Nat
<1>. DEFINE ns == [i \in DOMAIN seq |-> seq[i].n]
<1>1. \A i \in 1..Len(seq) : seq[i].n \in Nat
  <2>1. \A x \in Piece : x.n \in Nat
    BY DEF Piece
  <2>. QED BY <2>1
<1>2. ns \in [1..Len(seq) -> Nat]
  BY <1>1
<1>. HIDE DEF ns
<1>3. ns \in Seq(Nat) /\ Len(ns) = Len(seq)
  BY <1>2
<1>4. Total(seq) = SumOf(ns)
  BY DEF Total, ns
<1>5. SumOf(ns) \in Nat
  BY <1>3, SumType
<1>. QED BY <1>3, <1>4, <1>5 DEF ns

(* The length of a file after one more piece.                              *)
LEMMA TotalAppend ==
  ASSUME NEW seq \in Seq(Piece), NEW x \in Piece
  PROVE  Total(Append(seq, x)) = Total(seq) + x.n
<1>. DEFINE ns == [i \in DOMAIN seq |-> seq[i].n]
            new == Append(seq, x)
            ms == [i \in DOMAIN new |-> new[i].n]
<1>1. ns \in Seq(Nat) /\ Len(ns) = Len(seq)
  BY PiecesType, Zenon
<1>2. new \in Seq(Piece) /\ Len(new) = Len(seq) + 1 /\ new[Len(seq) + 1] = x
      /\ \A i \in 1..Len(seq) : new[i] = seq[i]
  OBVIOUS
<1>3. ms \in Seq(Nat) /\ Len(ms) = Len(new)
  <2>. HIDE DEF new
  <2>. QED BY <1>2, PiecesType
<1>4. x.n \in Nat
  BY DEF Piece
<1>5. \A i \in 1..Len(seq) : ns[i] = seq[i].n
  OBVIOUS
<1>6. \A i \in 1..Len(new) : ms[i] = new[i].n
  <2>. HIDE DEF new
  <2>. QED BY <1>2
<1>7. Total(seq) = SumOf(ns) /\ Total(new) = SumOf(ms)
  BY DEF Total
<1>. HIDE DEF ns, ms, new
<1>8. ms = Append(ns, x.n)
  BY <1>1, <1>2, <1>3, <1>4, <1>5, <1>6
<1>9. SumOf(ms) = SumOf(ns) + x.n
  BY <1>1, <1>4, <1>8, SumAppend
<1>. QED BY <1>7, <1>9 DEF new

(* A directory has a size.                                                 *)
LEMMA FilesType ==
  ASSUME NEW d \in Dir PROVE FilesOf(d) \in Nat
<1>1. d.text \in Seq(Piece) /\ d.history \in Seq(Piece) /\ d.alias \in Seq(Nat) /\ d.logBytes \in Nat
  BY DEF Dir
<1>2. Total(d.text) \in Nat /\ Total(d.history) \in Nat /\ SumOf(d.alias) \in Nat
  BY <1>1, PiecesType, SumType
<1>. QED BY <1>1, <1>2 DEF FilesOf

(* The fields of a store.                                                  *)
LEMMA StoreParts ==
  ASSUME NEW s, s \in StoreType
  PROVE  /\ s.bundles \in Seq(Entry) /\ s.total \in Nat /\ s.next \in Nat
         /\ s.disk \in [DOMAIN s.disk -> Dir] /\ DOMAIN s.disk \subseteq Nat
         /\ s = [bundles |-> s.bundles, total |-> s.total, next |-> s.next, disk |-> s.disk]
<1>1. s.bundles \in Seq(Entry) /\ s.total \in Nat /\ s.next \in Nat /\ s.disk \in Disks
  BY DEF StoreType
<1>2. s.disk \in [DOMAIN s.disk -> Dir] /\ DOMAIN s.disk \subseteq Nat
  BY <1>1 DEF Disks
<1>3. s = [bundles |-> s.bundles, total |-> s.total, next |-> s.next, disk |-> s.disk]
  BY DEF StoreType
<1>. QED BY <1>1, <1>2, <1>3

(* A store from its fields.                                                *)
LEMMA StoreMade ==
  ASSUME NEW u \in Seq(Entry), NEW t \in Nat, NEW n \in Nat, NEW D \in SUBSET Nat,
         NEW d \in [D -> Dir]
  PROVE  [bundles |-> u, total |-> t, next |-> n, disk |-> d] \in StoreType
<1>1. d \in Disks
  BY DEF Disks
<1>. QED BY <1>1 DEF StoreType

(* A stored bundle has one entry, which accounts for its directory.        *)
LEMMA PositionIs ==
  ASSUME NEW s, StoreOK(s), NEW id, Stored(s, id)
  PROVE  /\ Position(s, id) \in 1..Len(s.bundles)
         /\ s.bundles[Position(s, id)].id = id
         /\ Share(s, id) \in Entry /\ Share(s, id).id = id
         /\ id \in DOMAIN s.disk /\ s.disk[id] \in Dir /\ EntryOK(Share(s, id), s.disk[id])
         /\ \A i \in 1..Len(s.bundles) : s.bundles[i].id = id => i = Position(s, id)
<1>1. s \in StoreType
  BY DEF StoreOK
<1>2. s.bundles \in Seq(Entry) /\ s.disk \in [DOMAIN s.disk -> Dir]
  BY <1>1, StoreParts
<1>3. DOMAIN s.bundles = 1..Len(s.bundles)
  BY <1>2
<1>4. Position(s, id) \in 1..Len(s.bundles) /\ s.bundles[Position(s, id)].id = id
  BY <1>3 DEF Stored, Position
<1>5. Share(s, id) \in Entry /\ Share(s, id).id = id
  BY <1>2, <1>4 DEF Share
<1>6. id \in DOMAIN s.disk
  BY <1>3, <1>4 DEF StoreOK
<1>7. EntryOK(Share(s, id), s.disk[id])
  BY <1>3, <1>4 DEF StoreOK, Share
<1>8. \A i \in 1..Len(s.bundles) : s.bundles[i].id = id => i = Position(s, id)
  BY <1>3, <1>4 DEF StoreOK
<1>. QED BY <1>2, <1>4, <1>5, <1>6, <1>7, <1>8

(* Removing a stored bundle drops its entry, its bytes and its files.      *)
LEMMA RemoveStored ==
  ASSUME NEW s, StoreOK(s), NEW id, Stored(s, id), NEW r, r = RemoveBundle(s, id)
  PROVE  /\ StoreOK(r)
         /\ r.total <= s.total /\ r.next = s.next
         /\ Len(r.bundles) = Len(s.bundles) - 1
         /\ \A k \in 1..(Len(s.bundles) - 1) :
               r.bundles[k] = IF k < Position(s, id) THEN s.bundles[k] ELSE s.bundles[k + 1]
         /\ \A k \in DOMAIN r.disk : r.disk[k] = s.disk[k]
<1>. DEFINE i == Position(s, id)
            n == Len(s.bundles)
            u == Drop(s.bundles, i)
            D == DOMAIN s.disk \ {id}
            d == [k \in D |-> s.disk[k]]
            t == Minus(s.total, AccountedBytes(s.bundles[i]))
<1>1. s \in StoreType
  BY DEF StoreOK
<1>2. /\ s.bundles \in Seq(Entry) /\ s.total \in Nat /\ s.next \in Nat
      /\ s.disk \in [DOMAIN s.disk -> Dir] /\ DOMAIN s.disk \subseteq Nat
      /\ s = [bundles |-> s.bundles, total |-> s.total, next |-> s.next, disk |-> s.disk]
  BY <1>1, StoreParts
<1>3. i \in 1..n /\ s.bundles[i].id = id /\ \A k \in 1..n : s.bundles[k].id = id => k = i
  BY PositionIs
<1>4. r = [bundles |-> u, total |-> t, next |-> s.next, disk |-> d]
  <2>1. r = [s EXCEPT !.bundles = u, !.total = t, !.disk = d]
    BY DEF RemoveBundle, Drop
  <2>. HIDE DEF u, t, d
  <2>. QED BY <1>2, <2>1
<1>5. n \in Nat /\ DOMAIN s.bundles = 1..n
  BY <1>2
<1>6. u \in Seq(Entry) /\ Len(u) = n - 1
      /\ \A k \in 1..(n - 1) : u[k] = IF k < i THEN s.bundles[k] ELSE s.bundles[k + 1]
  <2>1. i \in 1..Len(s.bundles)
    BY <1>3
  <2>. HIDE DEF i
  <2>. QED BY <1>2, <2>1, DroppedIs
<1>. HIDE DEF u, i
<1>7. Accounts(s.bundles) \in Seq(Nat) /\ Len(Accounts(s.bundles)) = n
      /\ \A k \in 1..n : Accounts(s.bundles)[k] = AccountedBytes(s.bundles[k])
                         /\ AccountedBytes(s.bundles[k]) \in Nat
  BY <1>2, AccountsType
<1>8. Accounts(u) \in Seq(Nat) /\ Len(Accounts(u)) = n - 1
      /\ \A k \in 1..(n - 1) : Accounts(u)[k] = AccountedBytes(u[k])
  BY <1>6, AccountsType
<1>. HIDE DEF n
<1>9. SumOf(Accounts(s.bundles)) = SumOf(Accounts(u)) + AccountedBytes(s.bundles[i])
  <2>. DEFINE v == Accounts(s.bundles)
              w == Drop(v, i)
  <2>1. i \in 1..Len(v)
    BY <1>3, <1>7
  <2>2. w \in Seq(Nat) /\ SumOf(v) = SumOf(w) + v[i]
    <3>. HIDE DEF v
    <3>. QED BY <1>7, <2>1, SumRemove DEF v
  <2>3. Len(w) = n - 1 /\ \A k \in 1..(n - 1) : w[k] = IF k < i THEN v[k] ELSE v[k + 1]
    <3>. DEFINE X == Nat
    <3>1. v \in Seq(X) /\ Len(v) = n
      BY <1>7
    <3>. HIDE DEF X, v
    <3>. QED BY <2>1, <3>1, DroppedIs
  <2>. HIDE DEF w
  <2>4. \A k \in 1..(n - 1) : w[k] = Accounts(u)[k]
    <3>1. ASSUME NEW k \in 1..(n - 1) PROVE w[k] = Accounts(u)[k]
      <4>1. k \in 1..n /\ k + 1 \in 1..n
        BY <1>5
      <4>. QED BY <1>6, <1>7, <1>8, <2>3, <4>1
    <3>. QED BY <3>1
  <2>5. w = Accounts(u)
    BY <1>5, <1>8, <2>2, <2>3, <2>4
  <2>. QED BY <1>3, <1>7, <2>2, <2>5
<1>10. s.total = SumOf(Accounts(s.bundles)) /\ s.total <= MaxTotalBytes
  BY DEF StoreOK
<1>11. SumOf(Accounts(u)) \in Nat /\ AccountedBytes(s.bundles[i]) \in Nat
  BY <1>3, <1>7, <1>8, SumType
<1>12. t = SumOf(Accounts(u)) /\ t \in Nat /\ t <= s.total
  BY <1>2, <1>9, <1>10, <1>11 DEF Minus
<1>. HIDE DEF t
<1>13. \A k \in 1..(n - 1) :
          /\ u[k].id # id
          /\ \E j \in 1..n : j # i /\ u[k] = s.bundles[j] /\ j = IF k < i THEN k ELSE k + 1
  BY <1>3, <1>5, <1>6
<1>14. \A j \in 1..n : j # i => \E k \in 1..(n - 1) : u[k] = s.bundles[j]
  <2>1. ASSUME NEW j \in 1..n, j # i PROVE \E k \in 1..(n - 1) : u[k] = s.bundles[j]
    <3>1. CASE j < i
      BY <1>3, <1>5, <1>6, <3>1
    <3>2. CASE j > i
      <4>1. j - 1 \in 1..(n - 1) /\ ~(j - 1 < i) /\ (j - 1) + 1 = j
        BY <1>3, <1>5, <3>2
      <4>. QED BY <1>6, <4>1
    <3>. QED BY <1>3, <1>5, <2>1, <3>1, <3>2
  <2>. QED BY <2>1
<1>15. d \in [D -> Dir] /\ D \in SUBSET Nat /\ DOMAIN d = D /\ \A k \in D : d[k] = s.disk[k]
  BY <1>2
<1>16. r \in StoreType
  <2>. HIDE DEF d, D
  <2>1. s.next \in Nat /\ u \in Seq(Entry) /\ t \in Nat /\ D \in SUBSET Nat /\ d \in [D -> Dir]
    BY <1>2, <1>6, <1>12, <1>15
  <2>2. [bundles |-> u, total |-> t, next |-> s.next, disk |-> d] \in StoreType
    BY ONLY <2>1, StoreMade
  <2>. QED BY <1>4, <2>2
<1>17. r.bundles = u /\ r.total = t /\ r.next = s.next /\ r.disk = d /\ DOMAIN u = 1..(n - 1)
  BY <1>4, <1>5, <1>6
<1>18. \A j, k \in DOMAIN u : u[j].id = u[k].id => j = k
  <2>1. SUFFICES ASSUME NEW j \in 1..(n - 1), NEW k \in 1..(n - 1), u[j].id = u[k].id PROVE j = k
    BY <1>17
  <2>2. PICK x \in 1..n : u[j] = s.bundles[x] /\ x = IF j < i THEN j ELSE j + 1
    BY <1>13
  <2>3. PICK y \in 1..n : u[k] = s.bundles[y] /\ y = IF k < i THEN k ELSE k + 1
    BY <1>13
  <2>4. x = y
    BY <1>5, <2>1, <2>2, <2>3 DEF StoreOK
  <2>. QED BY <1>3, <1>5, <2>2, <2>3, <2>4
<1>19. \A k \in DOMAIN u : u[k].id \in 1..s.next
  <2>1. \A j \in 1..n : s.bundles[j].id \in 1..s.next
    BY <1>5 DEF StoreOK
  <2>. QED BY <1>13, <1>17, <2>1
<1>20. D = {u[k].id : k \in DOMAIN u}
  <2>1. DOMAIN s.disk = {s.bundles[j].id : j \in 1..n}
    BY <1>5 DEF StoreOK
  <2>2. ASSUME NEW x \in D PROVE x \in {u[k].id : k \in DOMAIN u}
    <3>1. PICK j \in 1..n : x = s.bundles[j].id
      BY <2>1
    <3>2. j # i
      BY <1>3, <3>1
    <3>. QED BY <1>14, <1>17, <3>1, <3>2
  <2>3. ASSUME NEW k \in DOMAIN u PROVE u[k].id \in D
    BY <1>13, <1>17, <2>1
  <2>. QED BY <2>2, <2>3
<1>21. \A k \in DOMAIN u : EntryOK(u[k], d[u[k].id])
  <2>1. ASSUME NEW k \in DOMAIN u PROVE EntryOK(u[k], d[u[k].id])
    <3>1. PICK j \in 1..n : u[k] = s.bundles[j]
      BY <1>13, <1>17
    <3>2. EntryOK(s.bundles[j], s.disk[s.bundles[j].id])
      BY <1>5 DEF StoreOK
    <3>3. u[k].id \in D
      BY <1>20
    <3>. QED BY <1>15, <3>1, <3>2, <3>3
  <2>. QED BY <2>1
<1>22. Len(u) <= MaxBundleCount
  BY <1>5, <1>6, QuotaNumbers DEF StoreOK, n
<1>23. t <= MaxTotalBytes
  BY <1>2, <1>10, <1>12, QuotaNumbers
<1>24. StoreOK(r)
  <2>. HIDE DEF d, D
  <2>. QED BY <1>12, <1>15, <1>16, <1>17, <1>18, <1>19, <1>20, <1>21, <1>22, <1>23 DEF StoreOK
<1>. QED BY <1>6, <1>12, <1>15, <1>17, <1>24 DEF n, i

(* Which bundles a removal leaves, and where.                              *)
LEMMA RemoveKeeps ==
  ASSUME NEW s, StoreOK(s), NEW id, NEW r, r = RemoveBundle(s, id)
  PROVE  /\ StoreOK(r)
         /\ r.total <= s.total /\ r.next = s.next /\ Len(r.bundles) <= Len(s.bundles)
         /\ Stored(s, id) => Len(r.bundles) = Len(s.bundles) - 1
         /\ \A x : Stored(r, x) <=> Stored(s, x) /\ x # id
         /\ \A x : Stored(r, x) => Share(r, x) = Share(s, x) /\ r.disk[x] = s.disk[x]
         /\ \A prev, x : Follows(s, prev, x) /\ x # id /\ prev # id => Follows(r, prev, x)
<1>1. CASE ~Stored(s, id)
  <2>1. r = s
    BY <1>1 DEF RemoveBundle
  <2>2. s.total \in Nat /\ s.bundles \in Seq(Entry)
    BY StoreParts DEF StoreOK
  <2>. QED BY <1>1, <2>1, <2>2
<1>2. CASE Stored(s, id)
  <2>. DEFINE i == Position(s, id)
              n == Len(s.bundles)
  <2>1. /\ StoreOK(r)
        /\ r.total <= s.total /\ r.next = s.next
        /\ Len(r.bundles) = n - 1
        /\ \A k \in 1..(n - 1) : r.bundles[k] = IF k < i THEN s.bundles[k] ELSE s.bundles[k + 1]
        /\ \A k \in DOMAIN r.disk : r.disk[k] = s.disk[k]
    BY <1>2, RemoveStored
  <2>2. i \in 1..n /\ s.bundles[i].id = id /\ \A k \in 1..n : s.bundles[k].id = id => k = i
    BY <1>2, PositionIs
  <2>3. s.bundles \in Seq(Entry) /\ r.bundles \in Seq(Entry)
    BY <2>1, StoreParts DEF StoreOK
  <2>4. n \in Nat /\ DOMAIN s.bundles = 1..n /\ DOMAIN r.bundles = 1..(n - 1)
    BY <2>1, <2>3
  <2>. HIDE DEF i, n
  <2>5. \A k \in 1..(n - 1) : \E j \in 1..n :
           j # i /\ r.bundles[k] = s.bundles[j] /\ r.bundles[k].id # id
    BY <2>1, <2>2, <2>4
  <2>6. \A j \in 1..n : j # i => \E k \in 1..(n - 1) : r.bundles[k] = s.bundles[j]
    <3>1. ASSUME NEW j \in 1..n, j # i PROVE \E k \in 1..(n - 1) : r.bundles[k] = s.bundles[j]
      <4>1. CASE j < i
        BY <2>1, <2>2, <2>4, <4>1
      <4>2. CASE j > i
        <5>1. j - 1 \in 1..(n - 1) /\ ~(j - 1 < i) /\ (j - 1) + 1 = j
          BY <2>2, <2>4, <4>2
        <5>. QED BY <2>1, <5>1
      <4>. QED BY <2>2, <2>4, <3>1, <4>1, <4>2
    <3>. QED BY <3>1
  <2>7. ASSUME NEW x PROVE Stored(r, x) <=> Stored(s, x) /\ x # id
    <3>1. ASSUME Stored(r, x) PROVE Stored(s, x) /\ x # id
      <4>1. PICK k \in 1..(n - 1) : r.bundles[k].id = x
        BY <2>4, <3>1 DEF Stored
      <4>. QED BY <2>4, <2>5, <4>1 DEF Stored
    <3>2. ASSUME Stored(s, x), x # id PROVE Stored(r, x)
      <4>1. PICK j \in 1..n : s.bundles[j].id = x
        BY <2>4, <3>2 DEF Stored
      <4>2. j # i
        BY <2>2, <3>2, <4>1
      <4>. QED BY <2>4, <2>6, <4>1, <4>2 DEF Stored
    <3>. QED BY <3>1, <3>2
  <2>8. ASSUME NEW x, Stored(r, x) PROVE Share(r, x) = Share(s, x) /\ r.disk[x] = s.disk[x]
    <3>1. Stored(s, x) /\ x # id
      BY <2>7, <2>8
    <3>2. /\ Position(r, x) \in 1..(n - 1) /\ r.bundles[Position(r, x)].id = x
          /\ x \in DOMAIN r.disk
      BY <2>1, <2>8, PositionIs
    <3>3. PICK j \in 1..n : r.bundles[Position(r, x)] = s.bundles[j]
      BY <2>5, <3>2
    <3>4. j = Position(s, x)
      BY <3>1, <3>2, <3>3, PositionIs DEF n
    <3>. QED BY <2>1, <3>2, <3>3, <3>4 DEF Share
  <2>9. ASSUME NEW prev, NEW x, Follows(s, prev, x), x # id, prev # id PROVE Follows(r, prev, x)
    <3>1. n >= 1 /\ s.bundles[n].id = x /\ i # n
      BY <2>2, <2>4, <2>9, <2>3 DEF Follows, Newest, n
    <3>2. n - 1 \in 1..(n - 1) /\ ~(n - 1 < i) /\ (n - 1) + 1 = n
      BY <2>2, <2>4, <3>1
    <3>3. r.bundles[n - 1] = s.bundles[n]
      BY <2>1, <3>2
    <3>4. r.bundles # <<>>
      BY <2>1, <2>3, <2>4, <3>2
    <3>5. Newest(r, x)
      BY <2>1, <3>1, <3>3, <3>4 DEF Newest
    <3>6. ASSUME prev # 0
          PROVE  /\ Len(r.bundles) >= 2 /\ r.bundles[Len(r.bundles) - 1].id = prev
                 /\ Intact(r.disk[prev])
      <4>1. n >= 2 /\ s.bundles[n - 1].id = prev /\ Intact(s.disk[prev])
        BY <2>9, <3>6 DEF Follows, n
      <4>2. i # n - 1 /\ i # n
        BY <2>9, <3>1, <4>1, <2>2
      <4>3. n - 2 \in 1..(n - 1) /\ ~(n - 2 < i) /\ (n - 2) + 1 = n - 1 /\ (n - 1) - 1 = n - 2
        BY <2>2, <2>4, <4>1, <4>2
      <4>4. r.bundles[n - 2] = s.bundles[n - 1]
        BY <2>1, <4>3
      <4>5. Stored(r, prev)
        BY <2>4, <4>1, <4>3, <4>4 DEF Stored
      <4>6. r.disk[prev] = s.disk[prev]
        BY <2>8, <4>5
      <4>. QED BY <2>1, <2>4, <4>1, <4>3, <4>4, <4>6
    <3>. QED BY <3>5, <3>6 DEF Follows
  <2>. QED BY <1>2, <2>1, <2>4, <2>7, <2>8, <2>9 DEF n
<1>. QED BY <1>1, <1>2

(* An entry and its directory are replaced together.                       *)
Put(s, id, e, t, d) ==
    [bundles |-> [s.bundles EXCEPT ![Position(s, id)] = e], total |-> t, next |-> s.next,
     disk |-> [s.disk EXCEPT ![id] = d]]

(* Replacing an entry, its directory and the total consistently is safe.   *)
LEMMA PutKeeps ==
  ASSUME NEW s, StoreOK(s), NEW id, Stored(s, id), NEW e \in Entry, NEW d \in Dir, NEW t \in Nat,
         e.id = id, EntryOK(e, d), t <= MaxTotalBytes,
         t + AccountedBytes(Share(s, id)) = s.total + AccountedBytes(e),
         NEW r, r = Put(s, id, e, t, d)
  PROVE  /\ StoreOK(r)
         /\ \A x : Stored(r, x) <=> Stored(s, x)
         /\ \A prev : Follows(s, prev, id) => Follows(r, prev, id)
         /\ r.disk[id] = d
         /\ \A x : Stored(s, x) /\ x # id => r.disk[x] = s.disk[x]
<1>. DEFINE i == Position(s, id)
            n == Len(s.bundles)
            u == [s.bundles EXCEPT ![i] = e]
            f == [s.disk EXCEPT ![id] = d]
            D == DOMAIN s.disk
<1>1. /\ s.bundles \in Seq(Entry) /\ s.total \in Nat /\ s.next \in Nat
      /\ s.disk \in [D -> Dir] /\ D \subseteq Nat
  BY StoreParts DEF StoreOK
<1>2. /\ i \in 1..n /\ s.bundles[i].id = id /\ \A k \in 1..n : s.bundles[k].id = id => k = i
      /\ Share(s, id) = s.bundles[i] /\ id \in D
  BY PositionIs DEF Share
<1>3. n \in Nat /\ DOMAIN s.bundles = 1..n
  BY <1>1
<1>4. r.bundles = u /\ r.total = t /\ r.next = s.next /\ r.disk = f
      /\ r = [bundles |-> u, total |-> t, next |-> s.next, disk |-> f]
  BY DEF Put
<1>5. u \in Seq(Entry) /\ Len(u) = n /\ DOMAIN u = 1..n
      /\ \A k \in 1..n : u[k] = IF k = i THEN e ELSE s.bundles[k]
  <2>. HIDE DEF i
  <2>. QED BY <1>1, <1>2
<1>6. f \in [D -> Dir] /\ DOMAIN f = D /\ f[id] = d /\ \A k \in D : k # id => f[k] = s.disk[k]
  BY <1>1, <1>2
<1>. HIDE DEF u, f, i, n, D
<1>7. r \in StoreType
  <2>1. [bundles |-> u, total |-> t, next |-> s.next, disk |-> f] \in StoreType
    BY ONLY <1>1, <1>5, <1>6, t \in Nat, StoreMade
  <2>. QED BY <1>4, <2>1
<1>8. \A k \in 1..n : u[k].id = s.bundles[k].id
  BY <1>2, <1>5
<1>9. SumOf(Accounts(u)) + AccountedBytes(s.bundles[i])
        = SumOf(Accounts(s.bundles)) + AccountedBytes(e)
  <2>1. Accounts(s.bundles) \in Seq(Nat) /\ Len(Accounts(s.bundles)) = n
        /\ \A k \in 1..n : Accounts(s.bundles)[k] = AccountedBytes(s.bundles[k])
    BY <1>1, AccountsType DEF n
  <2>2. Accounts(u) \in Seq(Nat) /\ Len(Accounts(u)) = n
        /\ \A k \in 1..n : Accounts(u)[k] = AccountedBytes(u[k]) /\ AccountedBytes(u[k]) \in Nat
    BY <1>5, AccountsType
  <2>3. Accounts(u)[i] = AccountedBytes(e) /\ AccountedBytes(e) \in Nat
        /\ \A k \in 1..n : k # i => Accounts(u)[k] = Accounts(s.bundles)[k]
    BY <1>2, <1>5, <2>1, <2>2
  <2>. DEFINE v == Accounts(s.bundles)
              w == Accounts(u)
              x == AccountedBytes(e)
  <2>4. /\ v \in Seq(Nat) /\ w \in Seq(Nat) /\ Len(w) = Len(v) /\ i \in 1..Len(v) /\ x \in Nat
        /\ w[i] = x /\ \A k \in 1..Len(v) : k # i => w[k] = v[k]
    BY <1>2, <2>1, <2>2, <2>3
  <2>5. v[i] = AccountedBytes(s.bundles[i])
    BY <1>2, <2>1
  <2>. HIDE DEF v, w, x
  <2>6. SumOf(w) + v[i] = SumOf(v) + x
    BY ONLY <2>4, SumUpdate
  <2>. QED BY <2>5, <2>6 DEF v, w, x
<1>10. t = SumOf(Accounts(u))
  <2>1. SumOf(Accounts(u)) \in Nat /\ AccountedBytes(s.bundles[i]) \in Nat
    BY <1>1, <1>2, <1>5, AccountsType, SumType DEF n
  <2>2. s.total = SumOf(Accounts(s.bundles))
    BY DEF StoreOK
  <2>. QED BY <1>2, <1>9, <2>1, <2>2
<1>11. \A j, k \in DOMAIN u : u[j].id = u[k].id => j = k
  BY <1>3, <1>5, <1>8 DEF StoreOK
<1>12. \A k \in DOMAIN u : u[k].id \in 1..s.next
  <2>1. \A j \in 1..n : s.bundles[j].id \in 1..s.next
    BY <1>3 DEF StoreOK
  <2>. QED BY <1>5, <1>8, <2>1
<1>13. D = {u[k].id : k \in DOMAIN u}
  BY <1>3, <1>5, <1>8 DEF StoreOK, D
<1>14. \A k \in DOMAIN u : EntryOK(u[k], f[u[k].id])
  <2>1. ASSUME NEW k \in 1..n, k # i PROVE EntryOK(u[k], f[u[k].id])
    <3>1. EntryOK(s.bundles[k], s.disk[s.bundles[k].id])
      BY <1>3 DEF StoreOK
    <3>2. u[k] = s.bundles[k] /\ u[k].id \in D /\ u[k].id # id
      BY <1>2, <1>5, <1>13, <2>1
    <3>. QED BY <1>6, <3>1, <3>2
  <2>2. EntryOK(u[i], f[u[i].id])
    BY <1>2, <1>5, <1>6
  <2>. QED BY <1>5, <2>1, <2>2
<1>15. Len(u) <= MaxBundleCount
  BY <1>5 DEF StoreOK, n
<1>16. StoreOK(r)
  BY <1>4, <1>6, <1>7, <1>10, <1>11, <1>12, <1>13, <1>14, <1>15 DEF StoreOK
<1>17. ASSUME NEW x PROVE Stored(r, x) <=> Stored(s, x)
  BY <1>3, <1>4, <1>5, <1>8 DEF Stored
<1>18. ASSUME NEW prev, Follows(s, prev, id) PROVE Follows(r, prev, id)
  <2>1. s.bundles # <<>> /\ s.bundles[n].id = id
        /\ (prev # 0 => n >= 2 /\ s.bundles[n - 1].id = prev /\ Intact(s.disk[prev]))
    BY <1>18 DEF Follows, Newest, n
  <2>2. n \in 1..n /\ (n >= 2 => n - 1 \in 1..n /\ n - 1 # n)
    BY <1>1, <1>3, <2>1 DEF n
  <2>3. u # <<>> /\ u[n].id = id /\ (prev # 0 => n >= 2 /\ u[n - 1].id = prev)
    BY <1>5, <1>8, <2>1, <2>2
  <2>4. ASSUME prev # 0 PROVE Intact(f[prev])
    <3>1. prev # id /\ prev \in D
      BY <1>2, <1>5, <1>8, <1>13, <2>1, <2>2, <2>4
    <3>. QED BY <1>6, <2>1, <2>4, <3>1
  <2>. QED BY <1>4, <1>5, <2>3, <2>4 DEF Follows, Newest
<1>19. ASSUME NEW x, Stored(s, x), x # id PROVE r.disk[x] = s.disk[x]
  <2>1. x \in D
    BY <1>19, PositionIs DEF D
  <2>. QED BY <1>4, <1>6, <1>19, <2>1
<1>. QED BY <1>4, <1>6, <1>16, <1>17, <1>18, <1>19

(* What pruning leaves of a store.                                         *)
Pruned(s, r) ==
    /\ StoreOK(r)
    /\ r.total <= s.total /\ r.next = s.next /\ Len(r.bundles) <= Len(s.bundles)
    /\ \A x : Stored(r, x) => Stored(s, x) /\ Share(r, x) = Share(s, x) /\ r.disk[x] = s.disk[x]

(* Pruning nothing.                                                        *)
LEMMA PrunedSelf ==
  ASSUME NEW s, StoreOK(s) PROVE Pruned(s, s)
<1>1. s.total \in Nat /\ s.bundles \in Seq(Entry)
  BY StoreParts DEF StoreOK
<1>. QED BY <1>1 DEF Pruned

(* Pruning in two rounds.                                                  *)
LEMMA PrunedTwice ==
  ASSUME NEW s, NEW r, NEW q, StoreOK(s), Pruned(s, r), Pruned(r, q) PROVE Pruned(s, q)
<1>1. /\ s.total \in Nat /\ s.bundles \in Seq(Entry)
      /\ r.total \in Nat /\ r.bundles \in Seq(Entry)
      /\ q.total \in Nat /\ q.bundles \in Seq(Entry)
  BY StoreParts DEF StoreOK, Pruned
<1>2. q.total <= s.total /\ Len(q.bundles) <= Len(s.bundles)
  BY <1>1 DEF Pruned
<1>. QED BY <1>2 DEF Pruned

(* Removing one bundle is pruning.                                         *)
LEMMA RemovePrunes ==
  ASSUME NEW s, StoreOK(s), NEW id PROVE Pruned(s, RemoveBundle(s, id))
<1>. DEFINE r == RemoveBundle(s, id)
<1>1. r = RemoveBundle(s, id)
  OBVIOUS
<1>. HIDE DEF r
<1>2. /\ StoreOK(r)
      /\ r.total <= s.total /\ r.next = s.next /\ Len(r.bundles) <= Len(s.bundles)
      /\ \A x : Stored(r, x) <=> Stored(s, x) /\ x # id
      /\ \A x : Stored(r, x) => Share(r, x) = Share(s, x) /\ r.disk[x] = s.disk[x]
  BY <1>1, RemoveKeeps
<1>. QED BY <1>1, <1>2 DEF Pruned

(* The rounds of the two prunes.                                           *)
TotalRounds(s, keep, need, f) ==
    /\ f[0] = s
    /\ \A k \in 0..Len(s.bundles) : StoreOK(f[k])
    /\ \A k \in 1..Len(s.bundles) : f[k] = PruneForTotal(f[k - 1], s.bundles[k].id, keep, need)
CountRounds(s, keep, f) ==
    /\ f[0] = s
    /\ \A k \in 0..Len(s.bundles) : StoreOK(f[k])
    /\ \A k \in 1..Len(s.bundles) : f[k] = PruneForCount(f[k - 1], s.bundles[k].id, keep)

(* prune_until_total_capacity is a loop over the entries.                  *)
LEMMA TotalRoundsExist ==
  ASSUME NEW s, StoreOK(s), NEW keep, NEW need
  PROVE  \E f : TotalRounds(s, keep, need, f)
                /\ PruneUntilTotalCapacity(s, keep, need) = f[Len(s.bundles)]
<1>. DEFINE n == Len(s.bundles)
            V == {r \in StoreType : StoreOK(r)}
            S == [k \in 1..n |-> [r \in V |-> PruneForTotal(r, s.bundles[k].id, keep, need)]]
            L == CHOOSE f : f = [k \in 0..n |-> IF k = 0 THEN s
                                    ELSE PruneForTotal(f[k - 1], s.bundles[k].id, keep, need)]
<1>1. n \in Nat /\ s \in V
  BY StoreParts DEF StoreOK
<1>2. \A k \in 1..n, r \in V : PruneForTotal(r, s.bundles[k].id, keep, need) \in V
  <2>1. ASSUME NEW k \in 1..n, NEW r \in V
        PROVE  PruneForTotal(r, s.bundles[k].id, keep, need) \in V
    <3>1. StoreOK(RemoveBundle(r, s.bundles[k].id))
      BY RemoveKeeps
    <3>2. RemoveBundle(r, s.bundles[k].id) \in V
      BY <3>1 DEF StoreOK
    <3>. QED BY <3>2 DEF PruneForTotal
  <2>. QED BY <2>1
<1>. HIDE DEF V, n
<1>3. S \in [1..n -> [V -> V]] /\ \A k \in 1..n, r \in V :
         S[k][r] = PruneForTotal(r, s.bundles[k].id, keep, need)
  BY <1>2
<1>. HIDE DEF S
<1>4. PICK f : Rounds(n, V, s, S, f)
  BY <1>1, <1>3, RoundsExist
<1>5. f \in [0..n -> V] /\ f[0] = s /\ \A k \in 1..n : f[k] = S[k][f[k - 1]]
  BY <1>4 DEF Rounds
<1>6. \A k \in 1..n : k - 1 \in 0..n /\ f[k - 1] \in V
  BY <1>1, <1>5
<1>7. \A k \in 1..n : f[k] = PruneForTotal(f[k - 1], s.bundles[k].id, keep, need)
  BY <1>3, <1>5, <1>6
<1>8. \A k \in 0..n : f[k] = IF k = 0 THEN s
                             ELSE PruneForTotal(f[k - 1], s.bundles[k].id, keep, need)
  BY <1>1, <1>5, <1>7
<1>9. f = [k \in 0..n |-> IF k = 0 THEN s
                          ELSE PruneForTotal(f[k - 1], s.bundles[k].id, keep, need)]
  BY <1>5, <1>8
<1>10. L = [k \in 0..n |-> IF k = 0 THEN s
                           ELSE PruneForTotal(L[k - 1], s.bundles[k].id, keep, need)]
  BY <1>9
<1>11. PruneUntilTotalCapacity(s, keep, need) = L[n]
  BY DEF PruneUntilTotalCapacity, n
<1>. HIDE DEF L
<1>12. L[0] = s /\ \A k \in 1..n : L[k] = PruneForTotal(L[k - 1], s.bundles[k].id, keep, need)
  BY <1>1, <1>10
<1>. DEFINE T == {k \in 0..n : L[k] \in V}
<1>13. 0 \in T /\ \A k \in T \cap (0..n) : k < n => k + 1 \in T
  <2>1. 0 \in T
    BY <1>1, <1>12
  <2>2. ASSUME NEW k \in T \cap (0..n), k < n PROVE k + 1 \in T
    <3>1. k + 1 \in 1..n /\ (k + 1) - 1 = k /\ L[k] \in V /\ k + 1 \in 0..n
      BY <1>1, <2>2
    <3>2. L[k + 1] = PruneForTotal(L[k], s.bundles[k + 1].id, keep, need)
      BY <1>12, <3>1
    <3>3. L[k + 1] \in V
      BY <1>2, <3>1, <3>2
    <3>. QED BY <3>1, <3>3
  <2>. QED BY <2>1, <2>2
<1>14. 0..n \subseteq T
  <2>. HIDE DEF T
  <2>. QED BY <1>1, <1>13, CountingUp
<1>15. \A k \in 0..n : StoreOK(L[k])
  BY <1>14 DEF V
<1>16. TotalRounds(s, keep, need, L)
  BY <1>12, <1>15 DEF TotalRounds, n
<1>. QED BY <1>11, <1>16 DEF n

(* prune_until_count is a loop over the entries.                           *)
LEMMA CountRoundsExist ==
  ASSUME NEW s, StoreOK(s), NEW keep
  PROVE  \E f : CountRounds(s, keep, f)
                /\ PruneUntilCount(s, keep) = f[Len(s.bundles)]
<1>. DEFINE n == Len(s.bundles)
            V == {r \in StoreType : StoreOK(r)}
            S == [k \in 1..n |-> [r \in V |-> PruneForCount(r, s.bundles[k].id, keep)]]
            L == CHOOSE f : f = [k \in 0..n |-> IF k = 0 THEN s
                                    ELSE PruneForCount(f[k - 1], s.bundles[k].id, keep)]
<1>1. n \in Nat /\ s \in V
  BY StoreParts DEF StoreOK
<1>2. \A k \in 1..n, r \in V : PruneForCount(r, s.bundles[k].id, keep) \in V
  <2>1. ASSUME NEW k \in 1..n, NEW r \in V
        PROVE  PruneForCount(r, s.bundles[k].id, keep) \in V
    <3>1. StoreOK(RemoveBundle(r, s.bundles[k].id))
      BY RemoveKeeps
    <3>2. RemoveBundle(r, s.bundles[k].id) \in V
      BY <3>1 DEF StoreOK
    <3>. QED BY <3>2 DEF PruneForCount
  <2>. QED BY <2>1
<1>. HIDE DEF V, n
<1>3. S \in [1..n -> [V -> V]] /\ \A k \in 1..n, r \in V :
         S[k][r] = PruneForCount(r, s.bundles[k].id, keep)
  BY <1>2
<1>. HIDE DEF S
<1>4. PICK f : Rounds(n, V, s, S, f)
  BY <1>1, <1>3, RoundsExist
<1>5. f \in [0..n -> V] /\ f[0] = s /\ \A k \in 1..n : f[k] = S[k][f[k - 1]]
  BY <1>4 DEF Rounds
<1>6. \A k \in 1..n : k - 1 \in 0..n /\ f[k - 1] \in V
  BY <1>1, <1>5
<1>7. \A k \in 1..n : f[k] = PruneForCount(f[k - 1], s.bundles[k].id, keep)
  BY <1>3, <1>5, <1>6
<1>8. \A k \in 0..n : f[k] = IF k = 0 THEN s
                             ELSE PruneForCount(f[k - 1], s.bundles[k].id, keep)
  BY <1>1, <1>5, <1>7
<1>9. f = [k \in 0..n |-> IF k = 0 THEN s
                          ELSE PruneForCount(f[k - 1], s.bundles[k].id, keep)]
  BY <1>5, <1>8
<1>10. L = [k \in 0..n |-> IF k = 0 THEN s
                           ELSE PruneForCount(L[k - 1], s.bundles[k].id, keep)]
  BY <1>9
<1>11. PruneUntilCount(s, keep) = L[n]
  BY DEF PruneUntilCount, n
<1>. HIDE DEF L
<1>12. L[0] = s /\ \A k \in 1..n : L[k] = PruneForCount(L[k - 1], s.bundles[k].id, keep)
  BY <1>1, <1>10
<1>. DEFINE T == {k \in 0..n : L[k] \in V}
<1>13. 0 \in T /\ \A k \in T \cap (0..n) : k < n => k + 1 \in T
  <2>1. 0 \in T
    BY <1>1, <1>12
  <2>2. ASSUME NEW k \in T \cap (0..n), k < n PROVE k + 1 \in T
    <3>1. k + 1 \in 1..n /\ (k + 1) - 1 = k /\ L[k] \in V /\ k + 1 \in 0..n
      BY <1>1, <2>2
    <3>2. L[k + 1] = PruneForCount(L[k], s.bundles[k + 1].id, keep)
      BY <1>12, <3>1
    <3>3. L[k + 1] \in V
      BY <1>2, <3>1, <3>2
    <3>. QED BY <3>1, <3>3
  <2>. QED BY <2>1, <2>2
<1>14. 0..n \subseteq T
  <2>. HIDE DEF T
  <2>. QED BY <1>1, <1>13, CountingUp
<1>15. \A k \in 0..n : StoreOK(L[k])
  BY <1>14 DEF V
<1>16. CountRounds(s, keep, L)
  BY <1>12, <1>15 DEF CountRounds, n
<1>. QED BY <1>11, <1>16 DEF n

(* Pruning keeps the bundle it is told to keep, in its place.              *)
LEMMA PruneCountKeeps ==
  ASSUME NEW s, StoreOK(s), NEW keep
  PROVE  /\ Pruned(s, PruneUntilCount(s, keep))
         /\ Stored(s, keep) => Stored(PruneUntilCount(s, keep), keep)
         /\ Follows(s, 0, keep) => Follows(PruneUntilCount(s, keep), 0, keep)
<1>. DEFINE n == Len(s.bundles)
<1>1. PICK f : CountRounds(s, keep, f) /\ PruneUntilCount(s, keep) = f[n]
  BY CountRoundsExist
<1>2. s.bundles \in Seq(Entry)
  BY StoreParts DEF StoreOK
<1>3. n \in Nat /\ \A k \in 1..n : s.bundles[k].id # 0
  BY <1>2 DEF StoreOK
<1>. HIDE DEF n
<1>. DEFINE P(k) == /\ Pruned(s, f[k])
                    /\ Stored(s, keep) => Stored(f[k], keep)
                    /\ Follows(s, 0, keep) => Follows(f[k], 0, keep)
            T == {k \in 0..n : P(k)}
<1>4. 0 \in T
  BY <1>1, <1>3, PrunedSelf DEF CountRounds
<1>5. ASSUME NEW k \in T \cap (0..n), k < n PROVE k + 1 \in T
  <2>. DEFINE id == s.bundles[k + 1].id
  <2>1. k + 1 \in 1..n /\ k + 1 \in 0..n /\ (k + 1) - 1 = k /\ P(k)
    BY <1>3, <1>5
  <2>2. f[k + 1] = PruneForCount(f[k], id, keep) /\ StoreOK(f[k]) /\ id # 0
    BY <1>1, <1>3, <1>5, <2>1 DEF CountRounds, n
  <2>. HIDE DEF id
  <2>3. CASE f[k + 1] = f[k]
    BY <2>1, <2>3
  <2>4. CASE f[k + 1] = RemoveBundle(f[k], id) /\ id # keep
    <3>1. Pruned(f[k], f[k + 1])
      BY <2>2, <2>4, RemovePrunes
    <3>2. Stored(f[k], keep) => Stored(f[k + 1], keep)
      BY <2>2, <2>4, RemoveKeeps
    <3>3. Follows(f[k], 0, keep) => Follows(f[k + 1], 0, keep)
      BY <2>2, <2>4, RemoveKeeps
    <3>4. Pruned(s, f[k + 1])
      BY <2>1, <3>1, PrunedTwice
    <3>. QED BY <2>1, <3>2, <3>3, <3>4
  <2>. QED BY <2>2, <2>3, <2>4 DEF PruneForCount
<1>6. n \in T
  <2>. HIDE DEF T
  <2>1. 0..n \subseteq T
    BY <1>3, <1>4, <1>5, CountingUp
  <2>. QED BY <1>3, <2>1
<1>. QED BY <1>1, <1>6

(* Pruning for bytes keeps the store sound and the bundle it must keep.    *)
LEMMA PruneTotalKeeps ==
  ASSUME NEW s, StoreOK(s), NEW keep, NEW need
  PROVE  /\ Pruned(s, PruneUntilTotalCapacity(s, keep, need))
         /\ Stored(s, keep) => Stored(PruneUntilTotalCapacity(s, keep, need), keep)
         /\ Follows(s, 0, keep) => Follows(PruneUntilTotalCapacity(s, keep, need), 0, keep)
<1>. DEFINE n == Len(s.bundles)
<1>1. PICK f : TotalRounds(s, keep, need, f) /\ PruneUntilTotalCapacity(s, keep, need) = f[n]
  BY TotalRoundsExist
<1>2. s.bundles \in Seq(Entry)
  BY StoreParts DEF StoreOK
<1>3. n \in Nat /\ \A k \in 1..n : s.bundles[k].id # 0
  BY <1>2 DEF StoreOK
<1>. HIDE DEF n
<1>. DEFINE P(k) == /\ Pruned(s, f[k])
                    /\ Stored(s, keep) => Stored(f[k], keep)
                    /\ Follows(s, 0, keep) => Follows(f[k], 0, keep)
            T == {k \in 0..n : P(k)}
<1>4. 0 \in T
  BY <1>1, <1>3, PrunedSelf DEF TotalRounds
<1>5. ASSUME NEW k \in T \cap (0..n), k < n PROVE k + 1 \in T
  <2>. DEFINE id == s.bundles[k + 1].id
  <2>1. k + 1 \in 1..n /\ k + 1 \in 0..n /\ (k + 1) - 1 = k /\ P(k)
    BY <1>3, <1>5
  <2>2. f[k + 1] = PruneForTotal(f[k], id, keep, need) /\ StoreOK(f[k]) /\ id # 0
    BY <1>1, <1>3, <1>5, <2>1 DEF TotalRounds, n
  <2>. HIDE DEF id
  <2>3. CASE f[k + 1] = f[k]
    BY <2>1, <2>3
  <2>4. CASE f[k + 1] = RemoveBundle(f[k], id) /\ id # keep
    <3>1. Pruned(f[k], f[k + 1])
      BY <2>2, <2>4, RemovePrunes
    <3>2. Stored(f[k], keep) => Stored(f[k + 1], keep)
      BY <2>2, <2>4, RemoveKeeps
    <3>3. Follows(f[k], 0, keep) => Follows(f[k + 1], 0, keep)
      BY <2>2, <2>4, RemoveKeeps
    <3>4. Pruned(s, f[k + 1])
      BY <2>1, <3>1, PrunedTwice
    <3>. QED BY <2>1, <3>2, <3>3, <3>4
  <2>. QED BY <2>2, <2>3, <2>4 DEF PruneForTotal
<1>6. n \in T
  <2>. HIDE DEF T
  <2>1. 0..n \subseteq T
    BY <1>3, <1>4, <1>5, CountingUp
  <2>. QED BY <1>3, <2>1
<1>. QED BY <1>1, <1>6

(* In a store with room for two bundles, nothing is pruned when only the   *)
(* newest two are left.                                                    *)
LEMMA TwoFit ==
  ASSUME NEW s, StoreOK(s), NEW prev, prev # 0, NEW keep, Follows(s, prev, keep), Roomy,
         NEW need \in Nat, need + AccountedBytes(Share(s, keep)) <= MaxBundleBytes,
         Len(s.bundles) <= 2
  PROVE  s.total + need <= MaxTotalBytes
<1>1. s.bundles \in Seq(Entry) /\ Len(s.bundles) = 2 /\ s.bundles[2].id = keep
  <2>1. s.bundles \in Seq(Entry)
    BY StoreParts DEF StoreOK
  <2>2. Len(s.bundles) >= 2 /\ s.bundles[Len(s.bundles)].id = keep
    BY DEF Follows, Newest
  <2>3. Len(s.bundles) \in Nat
    BY <2>1
  <2>4. Len(s.bundles) = 2
    <3>. DEFINE m == Len(s.bundles)
    <3>1. m \in Nat /\ m >= 2 /\ m <= 2
      BY <2>2, <2>3
    <3>. HIDE DEF m
    <3>2. m = 2
      BY ONLY <3>1
    <3>. QED BY <3>2 DEF m
  <2>. QED BY <2>1, <2>2, <2>4
<1>2. s.total = SumOf(Accounts(s.bundles))
  BY DEF StoreOK
<1>. DEFINE v == Accounts(s.bundles)
<1>3. v \in Seq(Nat) /\ Len(v) = 2
      /\ v[1] = AccountedBytes(s.bundles[1]) /\ v[2] = AccountedBytes(s.bundles[2])
  BY <1>1, AccountsType
<1>. HIDE DEF v
<1>4. SumOf(v) = v[1] + v[2] /\ v[1] \in Nat /\ v[2] \in Nat
  BY <1>3, SumTwo
<1>5. Stored(s, keep) /\ Position(s, keep) = 2
  <2>1. Stored(s, keep)
    BY <1>1 DEF Stored
  <2>. QED BY <1>1, <2>1, PositionIs
<1>6. v[2] = AccountedBytes(Share(s, keep))
  BY <1>3, <1>5 DEF Share
<1>7. v[1] <= MaxBundleBytes
  BY <1>1, <1>3 DEF StoreOK, EntryOK
<1>. QED BY <1>2, <1>4, <1>6, <1>7, QuotaNumbers DEF Roomy, v

(* With room for two bundles it keeps the one named before it as well.     *)
LEMMA PruneTotalPair ==
  ASSUME NEW s, StoreOK(s), NEW prev, NEW keep, Follows(s, prev, keep), prev # 0 => Roomy,
         NEW need \in Nat, need + AccountedBytes(Share(s, keep)) <= MaxBundleBytes
  PROVE  Follows(PruneUntilTotalCapacity(s, keep, need), prev, keep)
<1>. DEFINE n == Len(s.bundles)
<1>1. PICK f : TotalRounds(s, keep, need, f) /\ PruneUntilTotalCapacity(s, keep, need) = f[n]
  BY TotalRoundsExist
<1>2. s.bundles \in Seq(Entry) /\ DOMAIN s.bundles = 1..n
  <2>1. s.bundles \in Seq(Entry)
    BY StoreParts DEF StoreOK
  <2>. QED BY <2>1
<1>3. n \in Nat /\ (\A k \in 1..n : s.bundles[k].id # 0)
      /\ \A j, k \in 1..n : s.bundles[j].id = s.bundles[k].id => j = k
  BY <1>2 DEF StoreOK
<1>4. CASE prev = 0
  BY <1>4, PruneTotalKeeps
<1>5. CASE prev # 0
  <2>1. n >= 2 /\ s.bundles[n].id = keep /\ s.bundles[n - 1].id = prev
    BY <1>5 DEF Follows, Newest
  <2>. HIDE DEF n
  <2>2. keep # prev /\ Stored(s, keep)
    BY <1>2, <1>3, <2>1 DEF Stored
  <2>. DEFINE P(k) == /\ Pruned(s, f[k])
                      /\ Follows(f[k], prev, keep)
                      /\ f[k].total + need <= MaxTotalBytes \/ Len(f[k].bundles) <= n - k
                      /\ \A j \in (k + 1)..n : Stored(f[k], s.bundles[j].id)
                      /\ Stored(f[k], keep)
              T == {k \in 0..n : P(k)}
  <2>3. 0 \in T
    <3>1. f[0] = s
      BY <1>1 DEF TotalRounds
    <3>2. \A j \in 1..n : Stored(s, s.bundles[j].id)
      BY <1>2 DEF Stored
    <3>. QED BY <1>3, <2>2, <3>1, <3>2, PrunedSelf DEF n
  <2>4. ASSUME NEW k \in T \cap (0..n), k < n PROVE k + 1 \in T
    <3>. DEFINE id == s.bundles[k + 1].id
                st == f[k]
                r == f[k + 1]
    <3>1. k \in Nat /\ k + 1 \in 1..n /\ k + 1 \in 0..n /\ (k + 1) - 1 = k /\ P(k)
      BY <1>3, <2>4
    <3>2. r = PruneForTotal(st, id, keep, need) /\ StoreOK(st) /\ id # 0
      BY <1>1, <1>3, <2>4, <3>1 DEF TotalRounds, n
    <3>3. st.total \in Nat /\ st.bundles \in Seq(Entry)
      BY <3>2, StoreParts DEF StoreOK
    <3>4. Share(st, keep) = Share(s, keep)
      BY <3>1 DEF Pruned
    <3>5. Stored(st, id)
      BY <1>3, <3>1
    <3>6. k + 1 = n - 1 \/ k + 1 = n => st.total + need <= MaxTotalBytes
      <4>1. ASSUME k + 1 = n - 1 \/ k + 1 = n, ~(st.total + need <= MaxTotalBytes) PROVE FALSE
        <5>1. Len(st.bundles) <= n - k /\ Len(st.bundles) \in Nat
          BY <3>1, <3>3, <4>1
        <5>2. Len(st.bundles) <= 2
          BY <1>3, <3>1, <4>1, <5>1
        <5>. QED BY <1>5, <3>1, <3>2, <3>4, <4>1, <5>2, TwoFit
      <4>. QED BY <4>1
    <3>7. CASE st.total + need > MaxTotalBytes
      <4>1. k + 1 # n - 1 /\ k + 1 # n /\ Len(st.bundles) <= n - k
        BY <3>1, <3>3, <3>6, <3>7, QuotaNumbers
      <4>2. n - 1 \in 1..n /\ n \in 1..n
        BY <1>3, <2>1
      <4>3. id # keep /\ id # prev
        BY <1>3, <2>1, <3>1, <4>1, <4>2
      <4>4. r = RemoveBundle(st, id)
        BY <3>2, <3>7, <4>3 DEF PruneForTotal
      <4>5. /\ Follows(r, prev, keep)
            /\ Len(r.bundles) = Len(st.bundles) - 1
            /\ \A x : Stored(r, x) <=> Stored(st, x) /\ x # id
        BY <3>1, <3>2, <3>5, <4>3, <4>4, RemoveKeeps
      <4>6. Pruned(s, r)
        <5>1. Pruned(st, r)
          BY <3>2, <4>4, RemovePrunes
        <5>. QED BY <3>1, <5>1, PrunedTwice
      <4>7. \A j \in ((k + 1) + 1)..n : Stored(r, s.bundles[j].id)
        <5>1. ASSUME NEW j \in ((k + 1) + 1)..n PROVE Stored(r, s.bundles[j].id)
          <6>1. j \in 1..n /\ j # k + 1 /\ j \in (k + 1)..n
            BY <1>3, <3>1
          <6>2. s.bundles[j].id # id
            BY <1>3, <3>1, <6>1
          <6>. QED BY <3>1, <4>5, <6>1, <6>2
        <5>. QED BY <5>1
      <4>8. Len(r.bundles) <= n - (k + 1)
        BY <1>3, <3>1, <3>3, <4>1, <4>5
      <4>9. Stored(r, keep)
        BY <3>1, <4>3, <4>5
      <4>. QED BY <3>1, <4>5, <4>6, <4>7, <4>8, <4>9
    <3>8. CASE ~(st.total + need > MaxTotalBytes)
      <4>1. r = st /\ st.total + need <= MaxTotalBytes
        BY <3>2, <3>3, <3>8, QuotaNumbers DEF PruneForTotal
      <4>2. \A j \in ((k + 1) + 1)..n : j \in (k + 1)..n
        BY <1>3, <3>1
      <4>. QED BY <3>1, <4>1, <4>2
    <3>. QED BY <3>7, <3>8
  <2>5. n \in T
    <3>. HIDE DEF T
    <3>1. 0..n \subseteq T
      BY <1>3, <2>3, <2>4, CountingUp
    <3>. QED BY <1>3, <3>1
  <2>. QED BY <1>1, <2>5
<1>. QED BY <1>4, <1>5

(* A directory whose removal failed is still accounted for.                *)
LEMMA MarkOK ==
  ASSUME NEW e, NEW d \in Dir, EntryOK(e, d), NEW g \in BOOLEAN
  PROVE  /\ [d EXCEPT !.gone = g] \in Dir /\ EntryOK(e, [d EXCEPT !.gone = g])
         /\ g = d.gone => [d EXCEPT !.gone = g] = d
<1>. DEFINE x == [d EXCEPT !.gone = g]
<1>1. x \in Dir
  BY DEF Dir
<1>2. /\ x.text = d.text /\ x.history = d.history /\ x.alias = d.alias /\ x.hasLog = d.hasLog
      /\ x.log = d.log /\ x.logBytes = d.logBytes /\ x.torn = d.torn
  BY DEF Dir
<1>3. g = d.gone => x = d
  BY DEF Dir
<1>. HIDE DEF x
<1>4. FilesOf(x) = FilesOf(d)
  BY <1>2 DEF FilesOf
<1>5. (Indexed(x) <=> Indexed(d)) /\ (PartlyIndexed(x) <=> PartlyIndexed(d))
  BY <1>2 DEF Indexed, PartlyIndexed
<1>6. EntryOK(e, x)
  BY <1>2, <1>4, <1>5 DEF EntryOK
<1>. QED BY <1>1, <1>3, <1>6 DEF x

(* Failed removals leave the accounts and every other directory.           *)
LEMMA HalfKeeps ==
  ASSUME NEW s, StoreOK(s), NEW ids, NEW r, r = HalfRemoved(s, ids)
  PROVE  /\ StoreOK(r)
         /\ r.total = s.total
         /\ \A x : Stored(r, x) <=> Stored(s, x)
         /\ \A x : Share(r, x) = Share(s, x)
         /\ \A x : Stored(s, x) /\ x \notin ids => r.disk[x] = s.disk[x]
         /\ \A prev, x : Follows(s, prev, x) /\ prev \notin ids => Follows(r, prev, x)
         /\ \A x : Newest(s, x) => Newest(r, x)
<1>. DEFINE D == DOMAIN s.disk
            f == [k \in D |-> PartGone(s.disk[k], k \in ids)]
            n == Len(s.bundles)
<1>1. /\ s.bundles \in Seq(Entry) /\ s.total \in Nat /\ s.next \in Nat
      /\ s.disk \in [D -> Dir] /\ D \subseteq Nat
      /\ s = [bundles |-> s.bundles, total |-> s.total, next |-> s.next, disk |-> s.disk]
  BY StoreParts DEF StoreOK
<1>2. n \in Nat /\ DOMAIN s.bundles = 1..n
  BY <1>1
<1>3. r = [bundles |-> s.bundles, total |-> s.total, next |-> s.next, disk |-> f]
  <2>1. r = [s EXCEPT !.disk = f]
    BY DEF HalfRemoved
  <2>. HIDE DEF f
  <2>. QED BY <1>1, <2>1
<1>4. ASSUME NEW k \in 1..n
      PROVE  /\ s.bundles[k].id \in D /\ f[s.bundles[k].id] \in Dir
             /\ EntryOK(s.bundles[k], f[s.bundles[k].id])
             /\ s.bundles[k].id \notin ids => f[s.bundles[k].id] = s.disk[s.bundles[k].id]
  <2>. DEFINE id == s.bundles[k].id
              e == s.bundles[k]
              d == s.disk[id]
              g == d.gone \/ (id \in ids)
  <2>1. id \in D /\ EntryOK(e, d)
    BY <1>2 DEF StoreOK
  <2>2. d \in Dir
    BY <1>1, <2>1
  <2>3. g \in BOOLEAN /\ (id \notin ids => g = d.gone)
    BY <2>2 DEF Dir
  <2>4. f[id] = [d EXCEPT !.gone = g]
    BY <2>1 DEF PartGone
  <2>. HIDE DEF id, e, d, g, f
  <2>5. /\ [d EXCEPT !.gone = g] \in Dir /\ EntryOK(e, [d EXCEPT !.gone = g])
        /\ g = d.gone => [d EXCEPT !.gone = g] = d
    BY ONLY <2>1, <2>2, <2>3, MarkOK
  <2>. QED BY <2>1, <2>3, <2>4, <2>5 DEF id, e, d
<1>5. D = {s.bundles[k].id : k \in 1..n}
  BY <1>2 DEF StoreOK
<1>6. f \in [D -> Dir]
  <2>1. ASSUME NEW k \in D PROVE f[k] \in Dir
    BY <1>4, <1>5
  <2>2. DOMAIN f = D
    OBVIOUS
  <2>3. f = [k \in D |-> f[k]]
    OBVIOUS
  <2>. HIDE DEF f
  <2>. QED BY <2>1, <2>3
<1>. HIDE DEF f, D
<1>7. r \in StoreType
  <2>1. [bundles |-> s.bundles, total |-> s.total, next |-> s.next, disk |-> f] \in StoreType
    BY ONLY <1>1, <1>6, StoreMade
  <2>. QED BY <1>3, <2>1
<1>8. r.bundles = s.bundles /\ r.total = s.total /\ r.next = s.next /\ r.disk = f /\ DOMAIN f = D
  BY <1>3, <1>6
<1>. HIDE DEF n
<1>9. StoreOK(r)
  <2>1. \A k \in DOMAIN r.bundles : EntryOK(r.bundles[k], r.disk[r.bundles[k].id])
    BY <1>2, <1>4, <1>8
  <2>2. DOMAIN r.disk = {r.bundles[k].id : k \in DOMAIN r.bundles}
    BY <1>2, <1>5, <1>8
  <2>. QED BY <1>7, <1>8, <2>1, <2>2 DEF StoreOK
<1>10. \A x : Stored(r, x) <=> Stored(s, x)
  BY <1>8 DEF Stored
<1>11. \A x : Share(r, x) = Share(s, x)
  BY <1>8 DEF Share, Position
<1>12. ASSUME NEW x, Stored(s, x), x \notin ids PROVE r.disk[x] = s.disk[x]
  BY <1>2, <1>4, <1>8, <1>12 DEF Stored
<1>13. \A x : Newest(s, x) => Newest(r, x)
  BY <1>8 DEF Newest
<1>14. ASSUME NEW prev, NEW x, Follows(s, prev, x), prev \notin ids PROVE Follows(r, prev, x)
  <2>1. ASSUME prev # 0 PROVE Intact(r.disk[prev])
    <3>1. n >= 2 /\ s.bundles[n - 1].id = prev /\ Intact(s.disk[prev])
      BY <1>14, <2>1 DEF Follows, n
    <3>2. n - 1 \in 1..n
      BY <1>2, <3>1
    <3>3. Stored(s, prev)
      BY <1>2, <3>1, <3>2 DEF Stored
    <3>. QED BY <1>12, <1>14, <3>1, <3>3
  <2>. QED BY <1>8, <1>13, <1>14, <2>1 DEF Follows
<1>. QED BY <1>8, <1>9, <1>10, <1>11, <1>12, <1>13, <1>14

(* A prune that stops at a failed removal leaves every bundle it would     *)
(* have kept.                                                              *)
LEMMA HalfPrunedKeeps ==
  ASSUME NEW s, StoreOK(s), NEW pruned, NEW r, r = HalfPruned(s, pruned)
  PROVE  /\ StoreOK(r)
         /\ r.total = s.total
         /\ \A x : Stored(r, x) <=> Stored(s, x)
         /\ \A x : Share(r, x) = Share(s, x)
         /\ \A x : Stored(s, x) /\ Stored(pruned, x) => r.disk[x] = s.disk[x]
         /\ \A prev, x : Follows(s, prev, x) /\ (prev # 0 => Stored(pruned, prev))
                             => Follows(r, prev, x)
<1>. DEFINE ids == {k \in DOMAIN s.disk : /\ ~Stored(pruned, k)
                                          /\ \A j \in DOMAIN s.disk : j < k => Stored(pruned, j)}
<1>1. r = HalfRemoved(s, ids)
  BY DEF HalfPruned
<1>2. \A x : Stored(pruned, x) => x \notin ids
  OBVIOUS
<1>3. 0 \notin ids
  <2>1. ASSUME 0 \in DOMAIN s.disk PROVE FALSE
    <3>1. PICK i \in DOMAIN s.bundles : s.bundles[i].id = 0
      BY <2>1 DEF StoreOK
    <3>2. s.bundles[i].id \in 1..s.next /\ s.next \in Nat
      BY StoreParts DEF StoreOK
    <3>. QED BY <3>1, <3>2
  <2>. QED BY <2>1
<1>. HIDE DEF ids
<1>4. /\ StoreOK(r)
      /\ r.total = s.total
      /\ \A x : Stored(r, x) <=> Stored(s, x)
      /\ \A x : Share(r, x) = Share(s, x)
      /\ \A x : Stored(s, x) /\ x \notin ids => r.disk[x] = s.disk[x]
      /\ \A prev, x : Follows(s, prev, x) /\ prev \notin ids => Follows(r, prev, x)
  BY ONLY <1>1, StoreOK(s), HalfKeeps
<1>. QED BY <1>2, <1>3, <1>4

(* A new directory is empty and needs no index.                            *)
LEMMA EmptyDirOK ==
  /\ EmptyDir \in Dir /\ FilesOf(EmptyDir) = 0
  /\ EmptyDir.hasLog = FALSE /\ EmptyDir.history = <<>> /\ Total(EmptyDir.text) = 0
  /\ EmptyDir.log = <<>> /\ Intact(EmptyDir) /\ EmptyDir.torn = FALSE
<1>1. EmptyDir \in Dir
  BY DEF EmptyDir, Dir
<1>. DEFINE no == <<>>
<1>2. no \in Seq(Nat) /\ no \in Seq(Piece) /\ Len(no) = 0
  OBVIOUS
<1>3. EmptyDir.text = no /\ EmptyDir.history = no /\ EmptyDir.alias = no /\ EmptyDir.logBytes = 0
  BY DEF EmptyDir
<1>. HIDE DEF no
<1>4. SumOf(no) = 0
  BY <1>2, SumEmpty
<1>5. Total(no) = 0
  <2>. DEFINE ns == [i \in DOMAIN no |-> no[i].n]
  <2>1. ns \in Seq(Nat) /\ Len(ns) = Len(no)
    BY <1>2, PiecesType, Zenon
  <2>2. Total(no) = SumOf(ns)
    BY DEF Total
  <2>. HIDE DEF ns
  <2>. QED BY <1>2, <2>1, <2>2, SumEmpty
<1>6. FilesOf(EmptyDir) = 0
  BY <1>3, <1>4, <1>5 DEF FilesOf
<1>. QED BY <1>1, <1>3, <1>5, <1>6 DEF EmptyDir, no, Intact

(* A new, empty bundle is the newest one.                                  *)
Added(p, id) ==
    [bundles |-> Append(p.bundles, [id |-> id, bytes |-> 0, reserved |-> 0]),
     total |-> p.total, next |-> id,
     disk |-> [k \in DOMAIN p.disk \cup {id} |-> IF k = id THEN EmptyDir ELSE p.disk[k]]]

(* A new bundle is the newest one, and takes no other's place.             *)
LEMMA AddKeeps ==
  ASSUME NEW p, StoreOK(p), Len(p.bundles) < MaxBundleCount, NEW id, id = p.next + 1,
         NEW r, r = Added(p, id)
  PROVE  /\ StoreOK(r)
         /\ \A x : Stored(p, x) => Stored(r, x) /\ r.disk[x] = p.disk[x]
         /\ Newest(r, id)
         /\ \A prev : Newest(p, prev) /\ Intact(p.disk[prev]) => Follows(r, prev, id)
         /\ r.disk[id] = EmptyDir
<1>. DEFINE n == Len(p.bundles)
            e == [id |-> id, bytes |-> 0, reserved |-> 0]
            u == Append(p.bundles, e)
            D == DOMAIN p.disk \cup {id}
            f == [k \in D |-> IF k = id THEN EmptyDir ELSE p.disk[k]]
<1>1. /\ p.bundles \in Seq(Entry) /\ p.total \in Nat /\ p.next \in Nat
      /\ p.disk \in [DOMAIN p.disk -> Dir] /\ DOMAIN p.disk \subseteq Nat
  BY StoreParts DEF StoreOK
<1>2. n \in Nat /\ DOMAIN p.bundles = 1..n /\ id \in Nat /\ id # 0 /\ n + 1 <= MaxBundleCount
  BY <1>1, QuotaNumbers
<1>3. e \in Entry /\ e.id = id /\ e.bytes = 0 /\ AccountedBytes(e) = 0
  BY <1>2 DEF Entry, AccountedBytes
<1>4. /\ r.bundles = u /\ r.total = p.total /\ r.next = id /\ r.disk = f
      /\ r = [bundles |-> u, total |-> p.total, next |-> id, disk |-> f]
  BY DEF Added
<1>. HIDE DEF e
<1>5. u \in Seq(Entry) /\ Len(u) = n + 1 /\ DOMAIN u = 1..(n + 1) /\ u[n + 1] = e
      /\ \A k \in 1..n : u[k] = p.bundles[k]
  BY <1>1, <1>3
<1>6. f \in [D -> Dir] /\ D \subseteq Nat /\ DOMAIN f = D /\ f[id] = EmptyDir
      /\ \A k \in DOMAIN p.disk : k # id => f[k] = p.disk[k]
  BY <1>1, <1>2, EmptyDirOK
<1>. HIDE DEF u, f, n
<1>7. r \in StoreType
  <2>1. [bundles |-> u, total |-> p.total, next |-> id, disk |-> f] \in StoreType
    <3>. HIDE DEF D
    <3>. QED BY ONLY <1>1, <1>2, <1>5, <1>6, StoreMade
  <2>. QED BY <1>4, <2>1
<1>8. \A j \in 1..n : p.bundles[j].id \in 1..p.next /\ p.bundles[j].id # id
  <2>1. \A j \in 1..n : p.bundles[j].id \in 1..p.next
    BY <1>2 DEF StoreOK
  <2>. QED BY <1>1, <2>1
<1>9. SumOf(Accounts(u)) = SumOf(Accounts(p.bundles)) + 0
  <2>. DEFINE v == Accounts(p.bundles)
              w == Accounts(u)
              zero == AccountedBytes(e)
  <2>1. v \in Seq(Nat) /\ Len(v) = n /\ \A k \in 1..n : v[k] = AccountedBytes(p.bundles[k])
    BY <1>1, AccountsType DEF n
  <2>2. w \in Seq(Nat) /\ Len(w) = n + 1 /\ \A k \in 1..(n + 1) : w[k] = AccountedBytes(u[k])
    BY <1>5, AccountsType
  <2>3. w[n + 1] = zero /\ \A k \in 1..n : w[k] = v[k]
    BY <1>2, <1>5, <2>1, <2>2
  <2>4. zero \in Nat /\ zero = 0
    BY <1>3
  <2>. HIDE DEF v, w, zero
  <2>5. w = Append(v, zero)
    BY <1>2, <2>1, <2>2, <2>3, <2>4
  <2>6. SumOf(w) = SumOf(v) + zero
    BY <2>1, <2>4, <2>5, SumAppend
  <2>. QED BY <2>4, <2>6 DEF v, w
<1>10. p.total = SumOf(Accounts(u)) /\ p.total <= MaxTotalBytes
  BY <1>1, <1>9 DEF StoreOK
<1>11. \A j, k \in DOMAIN u : u[j].id = u[k].id => j = k
  <2>1. \A j, k \in 1..n : p.bundles[j].id = p.bundles[k].id => j = k
    BY <1>2 DEF StoreOK
  <2>2. \A j \in 1..(n + 1) : j \in 1..n \/ j = n + 1
    BY <1>2
  <2>. QED BY <1>3, <1>5, <1>8, <2>1, <2>2
<1>12. \A k \in DOMAIN u : u[k].id \in 1..id
  <2>1. \A j \in 1..(n + 1) : j \in 1..n \/ j = n + 1
    BY <1>2
  <2>2. \A x \in 1..p.next : x \in 1..id
    BY <1>1
  <2>3. id \in 1..id
    BY <1>2
  <2>. QED BY <1>3, <1>5, <1>8, <2>1, <2>2, <2>3
<1>13. D = {u[k].id : k \in DOMAIN u}
  <2>1. DOMAIN p.disk = {p.bundles[k].id : k \in 1..n}
    BY <1>2 DEF StoreOK
  <2>2. \A j \in 1..(n + 1) : j \in 1..n \/ j = n + 1
    BY <1>2
  <2>3. n + 1 \in 1..(n + 1) /\ \A j \in 1..n : j \in 1..(n + 1)
    BY <1>2
  <2>. QED BY <1>3, <1>5, <2>1, <2>2, <2>3
<1>14. \A k \in DOMAIN u : EntryOK(u[k], f[u[k].id])
  <2>1. ASSUME NEW k \in 1..n PROVE EntryOK(u[k], f[u[k].id])
    <3>1. EntryOK(p.bundles[k], p.disk[p.bundles[k].id]) /\ p.bundles[k].id \in DOMAIN p.disk
      BY <1>2 DEF StoreOK
    <3>. QED BY <1>5, <1>6, <1>8, <3>1
  <2>2. EntryOK(e, EmptyDir)
    BY <1>3, EmptyDirOK, QuotaNumbers DEF EntryOK
  <2>3. \A j \in 1..(n + 1) : j \in 1..n \/ j = n + 1
    BY <1>2
  <2>. QED BY <1>3, <1>5, <1>6, <2>1, <2>2, <2>3
<1>15. StoreOK(r)
  <2>1. Len(u) <= MaxBundleCount
    BY <1>2, <1>5
  <2>2. DOMAIN f = D
    BY <1>6
  <2>3. r.bundles = u /\ r.total = p.total /\ r.next = id /\ r.disk = f
    BY <1>4
  <2>. HIDE DEF D
  <2>. QED BY ONLY <1>7, <1>10, <1>11, <1>12, <1>13, <1>14, <2>1, <2>2, <2>3 DEF StoreOK
<1>16. ASSUME NEW x, Stored(p, x) PROVE Stored(r, x) /\ r.disk[x] = p.disk[x]
  <2>1. PICK j \in 1..n : p.bundles[j].id = x
    BY <1>2, <1>16 DEF Stored
  <2>2. j \in 1..(n + 1)
    BY <1>2
  <2>3. Stored(r, x)
    BY <1>4, <1>5, <2>1, <2>2 DEF Stored
  <2>4. x \in DOMAIN p.disk /\ x \in 1..p.next
    BY <1>2, <2>1 DEF StoreOK
  <2>5. x # id /\ x \in D
    BY <1>1, <2>4 DEF D
  <2>. QED BY <1>4, <1>6, <2>3, <2>4, <2>5
<1>17. Newest(r, id)
  <2>1. u # <<>>
    BY <1>2, <1>5
  <2>. QED BY <1>3, <1>4, <1>5, <2>1 DEF Newest
<1>18. ASSUME NEW prev, Newest(p, prev), Intact(p.disk[prev]) PROVE Follows(r, prev, id)
  <2>1. p.bundles # <<>> /\ p.bundles[n].id = prev
    BY <1>18 DEF Newest, n
  <2>2. n \in 1..n /\ n + 1 >= 2 /\ (n + 1) - 1 = n
    BY <1>1, <1>2, <2>1 DEF n
  <2>3. u[n].id = prev
    BY <1>5, <2>1, <2>2
  <2>4. r.disk[prev] = p.disk[prev]
    BY <1>2, <1>16, <2>1, <2>2 DEF Stored
  <2>. QED BY <1>4, <1>5, <1>17, <1>18, <2>2, <2>3, <2>4 DEF Follows
<1>. QED BY <1>4, <1>6, <1>15, <1>16, <1>17, <1>18

(* A number of a bundle that was tried and not made is not used again.     *)
LEMMA SkipKeeps ==
  ASSUME NEW p, StoreOK(p), NEW r, r = [p EXCEPT !.next = p.next + 1]
  PROVE  StoreOK(r) /\ r.bundles = p.bundles /\ r.disk = p.disk
<1>1. /\ p.bundles \in Seq(Entry) /\ p.total \in Nat /\ p.next \in Nat
      /\ p.disk \in [DOMAIN p.disk -> Dir] /\ DOMAIN p.disk \subseteq Nat
      /\ p = [bundles |-> p.bundles, total |-> p.total, next |-> p.next, disk |-> p.disk]
  BY StoreParts DEF StoreOK
<1>2. r = [bundles |-> p.bundles, total |-> p.total, next |-> p.next + 1, disk |-> p.disk]
  BY <1>1
<1>3. p.next + 1 \in Nat
  BY <1>1
<1>4. r \in StoreType
  <2>. DEFINE D == DOMAIN p.disk
              m == p.next + 1
  <2>1. m \in Nat /\ p.disk \in [D -> Dir] /\ D \in SUBSET Nat
    BY <1>1
  <2>. HIDE DEF D, m
  <2>2. [bundles |-> p.bundles, total |-> p.total, next |-> m, disk |-> p.disk] \in StoreType
    BY ONLY <1>1, <2>1, StoreMade
  <2>. QED BY <1>2, <2>2 DEF m
<1>5. r.bundles = p.bundles /\ r.total = p.total /\ r.next = p.next + 1 /\ r.disk = p.disk
  BY <1>2
<1>6. \A x \in 1..p.next : x \in 1..r.next
  BY <1>1, <1>5
<1>. QED BY <1>4, <1>5, <1>6 DEF StoreOK

(* A new bundle tracks its empty directory.                                *)
LEMMA FreshBundleOK ==
  ASSUME NEW id \in Nat
  PROVE  FreshBundle(id) \in BundleType /\ FreshBundle(id).id = id /\ FreshBundle(id).disclosed = FALSE
         /\ Tracks(FreshBundle(id), EmptyDir)
BY EmptyDirOK DEF FreshBundle, BundleType, Tracks

(* The newest bundle is stored.                                            *)
LEMMA NewestStored ==
  ASSUME NEW s, StoreOK(s), NEW id, Newest(s, id)
  PROVE  Stored(s, id)
<1>1. s.bundles \in Seq(Entry)
  BY StoreParts DEF StoreOK
<1>2. Len(s.bundles) \in DOMAIN s.bundles
  BY <1>1 DEF Newest
<1>. QED BY <1>2 DEF Newest, Stored

(* new_bundle_preserving: a sound store, with the protected bundle.        *)
LEMMA NewBundleKeeps ==
  ASSUME NEW s, StoreOK(s), NEW protected, NEW io, NEW new, new = NewBundle(s, protected, io)
  PROVE  /\ StoreOK(new.s) /\ new.b \in BundleType /\ new.err \in BOOLEAN
         /\ Whole(s, protected) => Whole(new.s, protected)
         /\ ~new.err => /\ new.b.id # 0 /\ Newest(new.s, new.b.id)
                        /\ Tracks(new.b, new.s.disk[new.b.id])
                        /\ protected # 0 /\ Newest(s, protected) /\ Intact(s.disk[protected])
                              => Follows(new.s, protected, new.b.id)
<1>. DEFINE c == PruneUntilCount(s, protected)
            p == PruneUntilTotalCapacity(c, protected, 0)
            id == s.next + 1
            Error(st) == [s |-> st, b |-> FreshBundle(0), err |-> TRUE]
<1>1. Pruned(s, c) /\ (Stored(s, protected) => Stored(c, protected))
      /\ (Follows(s, 0, protected) => Follows(c, 0, protected))
  BY PruneCountKeeps
<1>2. StoreOK(c)
  BY <1>1 DEF Pruned
<1>. HIDE DEF c
<1>3. Pruned(c, p) /\ (Stored(c, protected) => Stored(p, protected))
      /\ (Follows(c, 0, protected) => Follows(p, 0, protected))
  BY <1>2, PruneTotalKeeps
<1>4. new = AddBundle(s, c, p, io)
  BY DEF NewBundle, c
<1>. HIDE DEF p
<1>5. StoreOK(p) /\ p.next = s.next /\ Len(p.bundles) <= Len(c.bundles)
  BY <1>1, <1>3 DEF Pruned
<1>6. s.next \in Nat /\ id \in Nat /\ id # 0
  <2>1. s.next \in Nat
    BY StoreParts DEF StoreOK
  <2>. QED BY <2>1
<1>7. FreshBundle(0) \in BundleType
  BY FreshBundleOK
<1>8. /\ p.bundles \in Seq(Entry) /\ c.bundles \in Seq(Entry)
      /\ p = [bundles |-> p.bundles, total |-> p.total, next |-> p.next, disk |-> p.disk]
  BY <1>2, <1>5, StoreParts DEF StoreOK
<1>9. ASSUME NEW st, StoreOK(st), Whole(s, protected) => Whole(st, protected), new = Error(st)
      PROVE  /\ StoreOK(new.s) /\ new.b \in BundleType /\ new.err = TRUE
             /\ Whole(s, protected) => Whole(new.s, protected)
  BY <1>7, <1>9
<1>15. /\ Stored(s, protected) => Stored(c, protected) /\ c.disk[protected] = s.disk[protected]
       /\ Stored(s, protected) => Stored(p, protected) /\ p.disk[protected] = s.disk[protected]
  BY <1>1, <1>3 DEF Pruned
<1>10. CASE p # s /\ "remove" \in io.ops
  <2>. DEFINE st == HalfPruned(s, p)
  <2>1. new = Error(st)
    BY <1>4, <1>10 DEF AddBundle
  <2>2. st = HalfPruned(s, p)
    OBVIOUS
  <2>. HIDE DEF st
  <2>3. StoreOK(st) /\ (\A x : Stored(st, x) <=> Stored(s, x))
        /\ (\A x : Stored(s, x) /\ Stored(p, x) => st.disk[x] = s.disk[x])
    BY ONLY <2>2, StoreOK(s), HalfPrunedKeeps
  <2>4. Whole(s, protected) => Whole(st, protected)
    BY <1>15, <2>3 DEF Whole
  <2>. QED BY <1>9, <2>1, <2>3, <2>4
<1>11. CASE ~(p # s /\ "remove" \in io.ops) /\ Len(c.bundles) >= MaxBundleCount
  <2>1. new = Error(c)
    BY <1>4, <1>11 DEF AddBundle
  <2>2. Whole(s, protected) => Whole(c, protected)
    BY <1>15 DEF Whole
  <2>. QED BY <1>2, <1>9, <2>1, <2>2
<1>12. CASE ~(p # s /\ "remove" \in io.ops) /\ ~(Len(c.bundles) >= MaxBundleCount) /\ p.total > MaxTotalBytes
  <2>1. new = Error(p)
    BY <1>4, <1>12 DEF AddBundle
  <2>2. Whole(s, protected) => Whole(p, protected)
    BY <1>15 DEF Whole
  <2>. QED BY <1>5, <1>9, <2>1, <2>2
<1>13. CASE ~(p # s /\ "remove" \in io.ops) /\ ~(Len(c.bundles) >= MaxBundleCount)
            /\ ~(p.total > MaxTotalBytes) /\ "create" \in io.ops
  <2>. DEFINE st == [p EXCEPT !.next = p.next + 1]
  <2>1. new = Error(st)
    BY <1>4, <1>5, <1>13 DEF AddBundle
  <2>2. StoreOK(st) /\ st.bundles = p.bundles /\ st.disk = p.disk
    BY <1>5, SkipKeeps
  <2>. HIDE DEF st
  <2>3. Stored(p, protected) => Stored(st, protected)
    BY <2>2 DEF Stored
  <2>4. Whole(s, protected) => Whole(st, protected)
    BY <1>15, <2>2, <2>3 DEF Whole
  <2>. QED BY <1>9, <2>1, <2>2, <2>4
<1>14. CASE ~(p # s /\ "remove" \in io.ops) /\ ~(Len(c.bundles) >= MaxBundleCount)
            /\ ~(p.total > MaxTotalBytes) /\ "create" \notin io.ops
  <2>1. new = [s |-> [p EXCEPT !.next = id,
                        !.bundles = Append(@, [id |-> id, bytes |-> 0, reserved |-> 0]),
                        !.disk = [k \in DOMAIN @ \cup {id} |-> IF k = id THEN EmptyDir ELSE @[k]]],
               b |-> FreshBundle(id), err |-> FALSE]
    BY <1>4, <1>14 DEF AddBundle
  <2>. DEFINE st == [p EXCEPT !.next = id,
                        !.bundles = Append(@, [id |-> id, bytes |-> 0, reserved |-> 0]),
                        !.disk = [k \in DOMAIN @ \cup {id} |-> IF k = id THEN EmptyDir ELSE @[k]]]
  <2>. HIDE DEF id
  <2>9. st = Added(p, id)
    <3>. DEFINE u == Append(p.bundles, [id |-> id, bytes |-> 0, reserved |-> 0])
                d == [k \in DOMAIN p.disk \cup {id} |-> IF k = id THEN EmptyDir ELSE p.disk[k]]
    <3>1. st = [p EXCEPT !.next = id, !.bundles = u, !.disk = d]
      OBVIOUS
    <3>2. Added(p, id) = [bundles |-> u, total |-> p.total, next |-> id, disk |-> d]
      BY DEF Added
    <3>. HIDE DEF u, d, st
    <3>. DEFINE x == Added(p, id)
                f == p.disk
                b == p.bundles
                m == p.next
                o == p.total
    <3>3. x = [bundles |-> u, total |-> o, next |-> id, disk |-> d]
      BY <3>2
    <3>4. p = [bundles |-> b, total |-> o, next |-> m, disk |-> f]
      BY <1>8
    <3>. HIDE DEF x, f, b, m, o
    <3>5. st = [bundles |-> u, total |-> o, next |-> id, disk |-> d]
      BY ONLY <3>1, <3>4
    <3>. QED BY <3>3, <3>5 DEF x
  <2>2. new.s = Added(p, id) /\ new.b = FreshBundle(id) /\ new.err = FALSE
    <3>1. new = [s |-> st, b |-> FreshBundle(id), err |-> FALSE]
      BY <2>1
    <3>. HIDE DEF st
    <3>. QED BY <2>9, <3>1
  <2>3. Len(p.bundles) < MaxBundleCount /\ id = p.next + 1
    <3>1. Len(p.bundles) \in Nat /\ Len(c.bundles) \in Nat
      BY <1>8
    <3>. QED BY <1>5, <1>14, <3>1, QuotaNumbers DEF id
  <2>4. /\ StoreOK(new.s) /\ (\A x : Stored(p, x) => Stored(new.s, x) /\ new.s.disk[x] = p.disk[x])
        /\ Newest(new.s, id)
        /\ \A prev : Newest(p, prev) /\ Intact(p.disk[prev]) => Follows(new.s, prev, id)
        /\ new.s.disk[id] = EmptyDir
    BY <1>5, <2>2, <2>3, AddKeeps
  <2>5. new.b \in BundleType /\ new.b.id = id /\ Tracks(new.b, EmptyDir)
    BY <1>6, <2>2, FreshBundleOK
  <2>6. ASSUME Newest(s, protected), Intact(s.disk[protected])
        PROVE  Newest(p, protected) /\ Intact(p.disk[protected])
    <3>1. Newest(p, protected)
      BY <1>1, <1>3, <2>6 DEF Follows
    <3>2. Stored(s, protected)
      BY <2>6, NewestStored
    <3>. QED BY <1>15, <2>6, <3>1, <3>2
  <2>7. Whole(s, protected) => Whole(new.s, protected)
    BY <1>15, <2>4 DEF Whole
  <2>. QED BY <1>6, <2>2, <2>4, <2>5, <2>6, <2>7
<1>. QED BY <1>9, <1>10, <1>11, <1>12, <1>13, <1>14

(* The bytes granted fit the bundle and the store.                         *)
CapOK(s, cap, prev, id, want) ==
    /\ StoreOK(cap.s) /\ Stored(cap.s, id) /\ Follows(cap.s, prev, id)
    /\ cap.s.disk[id] = s.disk[id] /\ Share(cap.s, id) = Share(s, id)
    /\ cap.err \in BOOLEAN /\ cap.granted \in Nat /\ cap.granted <= want
    /\ AccountedBytes(Share(cap.s, id)) + cap.granted <= MaxBundleBytes
    /\ cap.s.total + cap.granted <= MaxTotalBytes

(* prepare_append_capacity grants no more than both quotas leave.          *)
LEMMA CapacityKeeps ==
  ASSUME NEW s, StoreOK(s), NEW prev, NEW id, Follows(s, prev, id), prev # 0 => Roomy,
         NEW want \in Nat, NEW io, NEW cap, cap = PrepareAppendCapacity(s, id, want, io)
  PROVE  CapOK(s, cap, prev, id, want)
<1>. DEFINE A == AccountedBytes(Share(s, id))
            target == Lesser(want, Minus(MaxBundleBytes, A))
            p == PruneUntilTotalCapacity(s, id, target)
<1>1. Stored(s, id)
  BY NewestStored DEF Follows
<1>2. Share(s, id) \in Entry /\ A <= MaxBundleBytes
  BY <1>1, PositionIs DEF EntryOK
<1>3. A \in Nat
  BY <1>2 DEF Entry, AccountedBytes
<1>. HIDE DEF A
<1>4. target \in Nat /\ target <= want /\ target + A <= MaxBundleBytes
  BY <1>2, <1>3, QuotaNumbers DEF Lesser, Minus
<1>5. cap = Grant(s, p, target, io)
  BY DEF PrepareAppendCapacity, A, Share
<1>. HIDE DEF target
<1>6. Pruned(s, p) /\ Stored(p, id)
  BY <1>1, PruneTotalKeeps
<1>7. Follows(p, prev, id)
  BY <1>4, PruneTotalPair DEF A
<1>8. StoreOK(p) /\ Share(p, id) = Share(s, id) /\ p.disk[id] = s.disk[id]
  BY <1>6 DEF Pruned
<1>. HIDE DEF p
<1>9. p.total \in Nat /\ p.total <= MaxTotalBytes /\ s.total \in Nat /\ s.total <= MaxTotalBytes
  BY <1>8, StoreParts DEF StoreOK
<1>10. CASE p # s /\ "remove" \in io.ops
  <2>. DEFINE st == HalfPruned(s, p)
              g == cap.granted
  <2>1. cap.s = st /\ cap.granted = 0 /\ cap.err = TRUE
    BY <1>5, <1>10 DEF Grant
  <2>2. st = HalfPruned(s, p)
    OBVIOUS
  <2>. HIDE DEF st
  <2>6. /\ StoreOK(st) /\ st.total = s.total
        /\ \A x : Stored(st, x) <=> Stored(s, x)
        /\ \A x : Share(st, x) = Share(s, x)
        /\ \A x : Stored(s, x) /\ Stored(p, x) => st.disk[x] = s.disk[x]
        /\ \A u, x : Follows(s, u, x) /\ (u # 0 => Stored(p, u)) => Follows(st, u, x)
    BY ONLY <2>2, StoreOK(s), HalfPrunedKeeps
  <2>7. prev # 0 => Stored(p, prev)
    <3>1. ASSUME prev # 0 PROVE Stored(p, prev)
      <4>1. Len(p.bundles) >= 2 /\ p.bundles[Len(p.bundles) - 1].id = prev
        BY <1>7, <3>1 DEF Follows
      <4>2. p.bundles \in Seq(Entry)
        BY <1>8, StoreParts DEF StoreOK
      <4>3. Len(p.bundles) - 1 \in DOMAIN p.bundles
        BY <4>1, <4>2
      <4>. QED BY <4>1, <4>3 DEF Stored
    <3>. QED BY <3>1
  <2>8. Follows(st, prev, id) /\ Stored(st, id) /\ st.disk[id] = s.disk[id]
    BY <1>1, <1>6, <2>6, <2>7
  <2>3. g \in Nat /\ g <= want /\ A + g <= MaxBundleBytes /\ st.total + g <= MaxTotalBytes
    BY <1>2, <1>3, <1>9, <2>1, <2>6
  <2>4. cap.err \in BOOLEAN
    BY <2>1
  <2>5. cap.s = st /\ Share(st, id) = Share(s, id)
    BY <2>1, <2>6
  <2>. QED BY ONLY <2>3, <2>4, <2>5, <2>6, <2>8 DEF CapOK, A
<1>11. CASE ~(p # s /\ "remove" \in io.ops)
  <2>. DEFINE g == Lesser(target, Minus(MaxTotalBytes, p.total))
  <2>1. cap.s = p /\ cap.granted = g /\ cap.err = FALSE
    BY <1>5, <1>11 DEF Grant
  <2>2. g \in Nat /\ g <= target /\ p.total + g <= MaxTotalBytes
    BY <1>4, <1>9, QuotaNumbers DEF Lesser, Minus
  <2>. HIDE DEF g
  <2>3. g <= want /\ A + g <= MaxBundleBytes
    BY <1>3, <1>4, <2>2, QuotaNumbers
  <2>. QED BY <1>6, <1>7, <1>8, <2>1, <2>2, <2>3 DEF CapOK, A
<1>. QED BY <1>10, <1>11

-----------------------------------------------------------------------------
(***************************************************************************)
(* The index.                                                              *)
(***************************************************************************)

(* The last row of a kind is the row itself or the last one before it.     *)
LEMMA LastRowStep ==
  ASSUME NEW log, NEW kind, NEW n \in Nat, n # 0
  PROVE  LastRow(log, kind, n) = IF log[n].row = kind THEN n ELSE LastRow(log, kind, n - 1)
<1>. DEFINE P == {j \in 1..n : log[j].row = kind}
            Q == {j \in 1..(n - 1) : log[j].row = kind}
            Top(S) == IF S = {} THEN 0 ELSE CHOOSE j \in S : \A k \in S : k <= j
<1>1. LastRow(log, kind, n) = Top(P) /\ LastRow(log, kind, n - 1) = Top(Q)
  BY DEF LastRow
<1>2. CASE log[n].row = kind
  <2>1. n \in P /\ \A k \in P : k \in Nat /\ k <= n
    BY <1>2
  <2>. HIDE DEF P
  <2>2. \A j \in P : (\A k \in P : k <= j) => j = n
    BY <2>1
  <2>3. (CHOOSE j \in P : \A k \in P : k <= j) = n
    BY <2>1, <2>2
  <2>. QED BY <1>1, <1>2, <2>1, <2>3
<1>3. CASE log[n].row # kind
  <2>1. P = Q
    BY <1>3
  <2>. HIDE DEF P, Q, Top
  <2>. QED BY <1>1, <1>3, <2>1
<1>. QED BY <1>2, <1>3

(* No row comes before the first.                                          *)
LEMMA LastRowZero ==
  ASSUME NEW log, NEW kind PROVE LastRow(log, kind, 0) = 0
BY DEF LastRow

(* The last row of a kind is a row of that kind.                           *)
LEMMA LastRowType ==
  ASSUME NEW log, NEW kind, NEW n \in Nat
  PROVE  /\ LastRow(log, kind, n) \in 0..n
         /\ LastRow(log, kind, n) # 0 => log[LastRow(log, kind, n)].row = kind
<1>. DEFINE L(k) == LastRow(log, kind, k)
            T == {k \in 0..n : L(k) \in 0..k /\ (L(k) # 0 => log[L(k)].row = kind)}
<1>1. 0 \in T
  BY LastRowZero
<1>2. ASSUME NEW k \in T \cap (0..n), k < n PROVE k + 1 \in T
  <2>1. k \in Nat /\ k + 1 \in Nat /\ k + 1 # 0 /\ (k + 1) - 1 = k /\ k + 1 \in 0..n
    BY <1>2
  <2>2. L(k + 1) = IF log[k + 1].row = kind THEN k + 1 ELSE L(k)
    BY <2>1, LastRowStep
  <2>3. L(k) \in 0..k /\ (L(k) # 0 => log[L(k)].row = kind)
    BY <1>2
  <2>. HIDE DEF L
  <2>. QED BY <2>1, <2>2, <2>3
<1>3. 0..n \subseteq T
  <2>. HIDE DEF T
  <2>. QED BY <1>1, <1>2, CountingUp
<1>. QED BY <1>3

(* Rows that follow do not change what was before them.                    *)
LEMMA LastRowSame ==
  ASSUME NEW log, NEW new, NEW kind, NEW n \in Nat, \A j \in 1..n : new[j] = log[j]
  PROVE  LastRow(new, kind, n) = LastRow(log, kind, n)
<1>. DEFINE P == {j \in 1..n : new[j].row = kind}
            Q == {j \in 1..n : log[j].row = kind}
            Top(S) == IF S = {} THEN 0 ELSE CHOOSE j \in S : \A k \in S : k <= j
<1>1. P = Q
  OBVIOUS
<1>2. LastRow(new, kind, n) = Top(P) /\ LastRow(log, kind, n) = Top(Q)
  BY DEF LastRow
<1>. HIDE DEF P, Q, Top
<1>. QED BY <1>1, <1>2

(* What an index says up to a row depends on the rows up to it only.       *)
LEMMA BeforeSame ==
  ASSUME NEW log, NEW new, NEW n \in Nat, \A j \in 1..n : new[j] = log[j]
  PROVE  TextBefore(new, n) = TextBefore(log, n) /\ ImagesBefore(new, n) = ImagesBefore(log, n)
<1>1. /\ LastRow(new, "T", n) = LastRow(log, "T", n)
      /\ LastRow(new, "I", n) = LastRow(log, "I", n)
  BY LastRowSame
<1>2. LastRow(log, "T", n) \in 0..n /\ LastRow(log, "I", n) \in 0..n
  BY LastRowType
<1>3. LastRow(log, "T", n) # 0 => LastRow(log, "T", n) \in 1..n
  BY <1>2
<1>4. LastRow(log, "I", n) # 0 => LastRow(log, "I", n) \in 1..n
  BY <1>2
<1>. QED BY <1>1, <1>3, <1>4 DEF TextBefore, ImagesBefore

(* What one more row changes.                                              *)
LEMMA BeforeStep ==
  ASSUME NEW log, NEW n \in Nat, n # 0
  PROVE  /\ TextBefore(log, n) = IF log[n].row = "T" THEN log[n].to ELSE TextBefore(log, n - 1)
         /\ ImagesBefore(log, n) = IF log[n].row = "I" THEN log[n].image ELSE ImagesBefore(log, n - 1)
<1>1. /\ LastRow(log, "T", n) = IF log[n].row = "T" THEN n ELSE LastRow(log, "T", n - 1)
      /\ LastRow(log, "I", n) = IF log[n].row = "I" THEN n ELSE LastRow(log, "I", n - 1)
  BY LastRowStep
<1>. QED BY <1>1 DEF TextBefore, ImagesBefore

(* A log that indexes so many characters and images.                       *)
IndexedAs(log, chars, images) ==
    /\ Tiles(log)
    /\ TextBefore(log, Len(log)) = chars
    /\ ImagesBefore(log, Len(log)) = images

(* Being indexed, in terms of the log and two lengths.                     *)
LEMMA IndexedIs ==
  ASSUME NEW d PROVE Indexed(d) <=> IndexedAs(d.log, Total(d.text), Len(d.history))
BY DEF Indexed, IndexedAs

(* One more row indexes what it says.                                      *)
LEMMA IndexRow ==
  ASSUME NEW log \in Seq(LogRow), NEW chars, NEW images, IndexedAs(log, chars, images),
         NEW row \in LogRow, NEW c, NEW m,
         \/ row.row = "T" /\ row.from = chars /\ row.to = c /\ m = images
         \/ row.row = "I" /\ row.image = images + 1 /\ c = chars /\ m = images + 1
         \/ row.row = "S" /\ c = chars /\ m = images
  PROVE  IndexedAs(Append(log, row), c, m)
<1>. DEFINE n == Len(log)
            new == Append(log, row)
<1>1. n \in Nat /\ new \in Seq(LogRow) /\ Len(new) = n + 1 /\ new[n + 1] = row
      /\ \A j \in 1..n : new[j] = log[j]
  OBVIOUS
<1>2. DOMAIN new = 1..(n + 1) /\ DOMAIN log = 1..n
  BY <1>1
<1>3. \A k \in 0..n : TextBefore(new, k) = TextBefore(log, k) /\ ImagesBefore(new, k) = ImagesBefore(log, k)
  <2>1. ASSUME NEW k \in 0..n
        PROVE  TextBefore(new, k) = TextBefore(log, k) /\ ImagesBefore(new, k) = ImagesBefore(log, k)
    <3>1. k \in Nat /\ \A j \in 1..k : new[j] = log[j]
      BY <1>1
    <3>. HIDE DEF new
    <3>. QED BY <3>1, BeforeSame
  <2>. QED BY <2>1
<1>. HIDE DEF new
<1>4. /\ TextBefore(new, n + 1) = IF row.row = "T" THEN row.to ELSE TextBefore(new, n)
      /\ ImagesBefore(new, n + 1) = IF row.row = "I" THEN row.image ELSE ImagesBefore(new, n)
  <2>1. n + 1 \in Nat /\ n + 1 # 0 /\ (n + 1) - 1 = n
    BY <1>1
  <2>. QED BY <1>1, <2>1, BeforeStep
<1>5. TextBefore(log, n) = chars /\ ImagesBefore(log, n) = images
  BY DEF IndexedAs
<1>6. n \in 0..n
  BY <1>1
<1>7. TextBefore(new, n) = chars /\ ImagesBefore(new, n) = images
  BY <1>3, <1>5, <1>6
<1>8. TextBefore(new, n + 1) = c /\ ImagesBefore(new, n + 1) = m
  BY <1>4, <1>7
<1>9. ASSUME NEW i \in DOMAIN new
      PROVE  /\ new[i].row = "T" => new[i].from = TextBefore(new, i - 1)
             /\ new[i].row = "I" => new[i].image = ImagesBefore(new, i - 1) + 1
  <2>1. CASE i \in 1..n
    <3>1. i - 1 \in 0..n /\ new[i] = log[i]
      BY <1>1, <2>1
    <3>2. /\ log[i].row = "T" => log[i].from = TextBefore(log, i - 1)
          /\ log[i].row = "I" => log[i].image = ImagesBefore(log, i - 1) + 1
      BY <1>2, <2>1 DEF IndexedAs, Tiles
    <3>. QED BY <1>3, <3>1, <3>2
  <2>2. CASE i = n + 1
    <3>1. i - 1 = n /\ new[i] = row
      BY <1>1, <2>2
    <3>. QED BY <1>7, <3>1
  <2>3. i \in 1..n \/ i = n + 1
    BY <1>1, <1>2
  <2>. QED BY <2>1, <2>2, <2>3
<1>10. IndexedAs(new, c, m)
  BY <1>1, <1>8, <1>9 DEF IndexedAs, Tiles
<1>. QED BY <1>10 DEF new

(* An empty index covers an empty bundle.                                  *)
LEMMA IndexNone ==
  ASSUME NEW log, log = <<>> PROVE IndexedAs(log, 0, 0)
<1>1. Len(log) = 0 /\ DOMAIN log = {}
  OBVIOUS
<1>2. LastRow(log, "T", 0) = 0 /\ LastRow(log, "I", 0) = 0
  BY LastRowZero
<1>3. TextBefore(log, 0) = 0 /\ ImagesBefore(log, 0) = 0
  BY <1>2 DEF TextBefore, ImagesBefore
<1>. QED BY <1>1, <1>3 DEF IndexedAs, Tiles

(* Images that were stored before there was an index.                      *)
LEMMA IndexImages ==
  ASSUME NEW n \in Nat, NEW log, log = [k \in 1..n |-> [row |-> "I", image |-> k]]
  PROVE  log \in Seq(LogRow) /\ Len(log) = n /\ IndexedAs(log, 0, n)
<1>1. log \in Seq(LogRow) /\ Len(log) = n /\ DOMAIN log = 1..n
      /\ \A k \in 1..n : log[k].row = "I" /\ log[k].image = k
  <2>1. \A k \in 1..n : [row |-> "I", image |-> k] \in LogRow
    BY DEF LogRow
  <2>. QED BY <2>1
<1>2. \A k \in 0..n : ImagesBefore(log, k) = k
  <2>1. ASSUME NEW k \in 0..n PROVE ImagesBefore(log, k) = k
    <3>1. CASE k = 0
      <4>1. LastRow(log, "I", 0) = 0
        BY LastRowZero
      <4>. QED BY <3>1, <4>1 DEF ImagesBefore
    <3>2. CASE k # 0
      <4>1. k \in Nat /\ k \in 1..n
        BY <3>2
      <4>2. ImagesBefore(log, k) = IF log[k].row = "I" THEN log[k].image ELSE ImagesBefore(log, k - 1)
        BY <3>2, <4>1, BeforeStep
      <4>. QED BY <1>1, <4>1, <4>2
    <3>. QED BY <3>1, <3>2
  <2>. QED BY <2>1
<1>3. TextBefore(log, n) = 0
  <2>1. LastRow(log, "T", n) \in 0..n
        /\ (LastRow(log, "T", n) # 0 => log[LastRow(log, "T", n)].row = "T")
    BY LastRowType
  <2>2. LastRow(log, "T", n) = 0
    BY <1>1, <2>1
  <2>. QED BY <2>2 DEF TextBefore
<1>4. ASSUME NEW i \in DOMAIN log
      PROVE  /\ log[i].row = "T" => log[i].from = TextBefore(log, i - 1)
             /\ log[i].row = "I" => log[i].image = ImagesBefore(log, i - 1) + 1
  <2>1. i - 1 \in 0..n /\ log[i].row = "I" /\ log[i].image = i /\ (i - 1) + 1 = i
    BY <1>1
  <2>. QED BY <1>2, <2>1
<1>5. n \in 0..n
  OBVIOUS
<1>. QED BY <1>1, <1>2, <1>3, <1>4, <1>5 DEF IndexedAs, Tiles

(* Being partly indexed: the log indexes no more than there is.            *)
LEMMA PartlyIs ==
  ASSUME NEW d, NEW chars, NEW images, IndexedAs(d.log, chars, images),
         chars <= Total(d.text), images <= Len(d.history)
  PROVE  PartlyIndexed(d)
BY DEF PartlyIndexed, IndexedAs

(* Of the rows for what a bundle held, whole ones still index a part of it. *)
LEMMA RowsCut ==
  ASSUME NEW chars \in Nat, NEW images \in Nat, NEW rows,
         \/ rows = <<[row |-> "T", from |-> 0, to |-> chars]>>
         \/ rows = [k \in 1..images |-> [row |-> "I", image |-> k]],
         NEW n \in Nat, NEW cut, cut = WholeRows(rows, n)
  PROVE  /\ cut \in Seq(LogRow)
         /\ \E c \in Nat, m \in Nat : IndexedAs(cut, c, m) /\ c <= chars /\ m <= images
<1>. DEFINE len == Lesser(Len(rows), Minus(n, Header) \div Row)
<1>1. Header \in Nat /\ Row \in Nat /\ Row > 0
  BY QuotaAssumption
<1>2. cut = SubSeq(rows, 1, len)
  BY DEF WholeRows
<1>3. ASSUME Len(rows) \in Nat PROVE len \in 0..Len(rows)
  <2>1. Minus(n, Header) \in Nat
    BY <1>1 DEF Minus
  <2>2. Minus(n, Header) \div Row \in Nat
    BY <1>1, <2>1
  <2>. QED BY <1>3, <2>2 DEF Lesser
<1>. HIDE DEF len
<1>4. CASE rows = <<[row |-> "T", from |-> 0, to |-> chars]>>
  <2>. DEFINE row == [row |-> "T", from |-> 0, to |-> chars]
              none == <<>>
  <2>1. row \in LogRow
    BY DEF LogRow
  <2>2. row.row = "T" /\ row.from = 0 /\ row.to = chars
    OBVIOUS
  <2>. HIDE DEF row
  <2>3. rows = <<row>>
    BY <1>4 DEF row
  <2>4. none \in Seq(LogRow) /\ Append(none, row) = <<row>> /\ <<row>> \in Seq(LogRow)
    BY <2>1
  <2>5. IndexedAs(none, 0, 0)
    BY IndexNone
  <2>. HIDE DEF none
  <2>6. IndexedAs(Append(none, row), chars, 0)
    <3>. DEFINE zero == 0
    <3>1. /\ none \in Seq(LogRow) /\ IndexedAs(none, zero, zero) /\ row \in LogRow
          /\ row.row = "T" /\ row.from = zero /\ row.to = chars
      BY <2>1, <2>2, <2>4, <2>5
    <3>. HIDE DEF zero
    <3>2. IndexedAs(Append(none, row), chars, zero)
      BY ONLY <3>1, IndexRow
    <3>. QED BY <3>2 DEF zero
  <2>7. Len(rows) = 1
    BY <2>3
  <2>8. len = 0 \/ len = 1
    BY <1>3, <2>7
  <2>9. CASE len = 0
    <3>1. cut = none
      BY <1>2, <2>3, <2>4, <2>9 DEF none
    <3>. QED BY <2>4, <2>5, <3>1
  <2>10. CASE len = 1
    <3>1. rows \in Seq(LogRow)
      BY <2>3, <2>4
    <3>2. SubSeq(rows, 1, 1) = rows
      BY <2>7, <3>1
    <3>3. cut = <<row>>
      BY <1>2, <2>3, <2>10, <3>2
    <3>. QED BY <2>4, <2>6, <3>3
  <2>. QED BY <2>8, <2>9, <2>10
<1>5. CASE rows = [k \in 1..images |-> [row |-> "I", image |-> k]]
  <2>. DEFINE x == [k \in 1..len |-> [row |-> "I", image |-> k]]
  <2>1. rows \in Seq(LogRow) /\ Len(rows) = images
    BY <1>5, IndexImages
  <2>2. len \in Nat /\ len <= images
    BY <1>3, <2>1
  <2>3. cut = x
    <3>1. \A k \in 1..len : k \in 1..images
      BY <2>2
    <3>2. SubSeq(rows, 1, len) = [k \in 1..len |-> rows[k]]
      BY <2>1, <2>2
    <3>3. \A k \in 1..len : rows[k] = [row |-> "I", image |-> k]
      BY <1>5, <3>1
    <3>. QED BY <1>2, <3>2, <3>3
  <2>4. x \in Seq(LogRow) /\ IndexedAs(x, 0, len)
    BY <2>2, IndexImages
  <2>. QED BY <2>2, <2>3, <2>4
<1>. QED BY <1>4, <1>5

-----------------------------------------------------------------------------
(***************************************************************************)
(* Writes, as replacements of an entry and its directory.                  *)
(***************************************************************************)

Charged(e, bytes, reserved) == [id |-> e.id, bytes |-> bytes, reserved |-> reserved]
LogWritten(d, rows, n) ==
    [text |-> d.text, history |-> d.history, alias |-> d.alias, hasLog |-> TRUE,
     log |-> d.log \o rows, logBytes |-> d.logBytes + n, torn |-> d.torn, gone |-> d.gone]
TextWritten(d, piece) ==
    [text |-> Append(d.text, piece), history |-> d.history, alias |-> d.alias,
     hasLog |-> d.hasLog, log |-> d.log, logBytes |-> d.logBytes, torn |-> d.torn, gone |-> d.gone]
ImageWritten(d, piece, alias) ==
    [text |-> d.text, history |-> Append(d.history, piece), alias |-> alias,
     hasLog |-> d.hasLog, log |-> d.log, logBytes |-> d.logBytes, torn |-> d.torn, gone |-> d.gone]
Has(s, id) == Position(s, id) \in DOMAIN s.bundles /\ id \in DOMAIN s.disk

(* The entry and the directory of a bundle.                                *)
LEMMA HasParts ==
  ASSUME NEW s \in StoreType, NEW id, Has(s, id)
  PROVE  /\ Position(s, id) \in DOMAIN s.bundles /\ id \in DOMAIN s.disk
         /\ Share(s, id) \in Entry /\ s.disk[id] \in Dir
         /\ s.disk = [s.disk EXCEPT ![id] = s.disk[id]]
<1>1. s.bundles \in Seq(Entry) /\ s.disk \in [DOMAIN s.disk -> Dir]
  BY StoreParts
<1>. QED BY <1>1 DEF Has, Share

(* record_append and the like, as one replacement of an entry.             *)
LEMMA RecordBytesIs ==
  ASSUME NEW s \in StoreType, NEW id, Has(s, id), NEW plus, NEW less
  PROVE  RecordBytes(s, id, plus, less)
           = Put(s, id, Charged(Share(s, id), Minus(Share(s, id).bytes + plus, less), Share(s, id).reserved),
                 Minus(s.total + plus, less), s.disk[id])
<1>. DEFINE i == Position(s, id)
            w == s.bundles
            o == s.total
            m == s.next
            f == s.disk
            b == Minus(w[i].bytes + plus, less)
            t == Minus(o + plus, less)
            u == [w EXCEPT ![i] = [id |-> w[i].id, bytes |-> b, reserved |-> w[i].reserved]]
            r == RecordBytes(s, id, plus, less)
<1>1. s = [bundles |-> w, total |-> o, next |-> m, disk |-> f] /\ w \in Seq(Entry)
  BY StoreParts
<1>2. i \in DOMAIN w /\ f = [f EXCEPT ![id] = f[id]]
  BY HasParts
<1>3. r = [s EXCEPT !.bundles[i].bytes = b, !.total = t]
  BY DEF RecordBytes
<1>4. Put(s, id, Charged(Share(s, id), Minus(Share(s, id).bytes + plus, less), Share(s, id).reserved),
                 Minus(s.total + plus, less), s.disk[id])
       = [bundles |-> u, total |-> t, next |-> m, disk |-> f]
  BY <1>2 DEF Put, Charged, Share
<1>. HIDE DEF i, w, o, m, f, b, t, r
<1>5. [w EXCEPT ![i].bytes = b] = u
  <2>1. w[i] \in Entry
    BY <1>1, <1>2
  <2>2. [w[i] EXCEPT !.bytes = b] = [id |-> w[i].id, bytes |-> b, reserved |-> w[i].reserved]
    BY <2>1 DEF Entry
  <2>. QED BY <2>2
<1>. DEFINE x == [w EXCEPT ![i].bytes = b]
<1>6. r = [bundles |-> x, total |-> t, next |-> m, disk |-> f]
  BY <1>1, <1>3
<1>7. x = u
  BY <1>5
<1>8. r = [bundles |-> u, total |-> t, next |-> m, disk |-> f]
  <2>. HIDE DEF x, u
  <2>. QED BY <1>6, <1>7
<1>. QED BY <1>4, <1>8 DEF r

(* reserve_events_log_bytes, as one replacement of an entry.               *)
LEMMA ReserveIs ==
  ASSUME NEW s \in StoreType, NEW id, Has(s, id), NEW n
  PROVE  ReserveEventsLogBytes(s, id, n)
           = Put(s, id, Charged(Share(s, id), Share(s, id).bytes, Share(s, id).reserved + n),
                 s.total + n, s.disk[id])
<1>. DEFINE i == Position(s, id)
            w == s.bundles
            o == s.total
            m == s.next
            f == s.disk
            v == w[i].reserved + n
            t == o + n
            u == [w EXCEPT ![i] = [id |-> w[i].id, bytes |-> w[i].bytes, reserved |-> v]]
            r == ReserveEventsLogBytes(s, id, n)
<1>1. s = [bundles |-> w, total |-> o, next |-> m, disk |-> f] /\ w \in Seq(Entry)
  BY StoreParts
<1>2. i \in DOMAIN w /\ f = [f EXCEPT ![id] = f[id]]
  BY HasParts
<1>3. r = [s EXCEPT !.bundles[i].reserved = v, !.total = t]
  BY DEF ReserveEventsLogBytes
<1>4. Put(s, id, Charged(Share(s, id), Share(s, id).bytes, Share(s, id).reserved + n),
                 s.total + n, s.disk[id])
       = [bundles |-> u, total |-> t, next |-> m, disk |-> f]
  BY <1>2 DEF Put, Charged, Share
<1>. HIDE DEF i, w, o, m, f, v, t, r
<1>5. [w EXCEPT ![i].reserved = v] = u
  <2>1. w[i] \in Entry
    BY <1>1, <1>2
  <2>2. [w[i] EXCEPT !.reserved = v] = [id |-> w[i].id, bytes |-> w[i].bytes, reserved |-> v]
    BY <2>1 DEF Entry
  <2>. QED BY <2>2
<1>. DEFINE x == [w EXCEPT ![i].reserved = v]
<1>6. r = [bundles |-> x, total |-> t, next |-> m, disk |-> f]
  BY <1>1, <1>3
<1>7. x = u
  BY <1>5
<1>8. r = [bundles |-> u, total |-> t, next |-> m, disk |-> f]
  <2>. HIDE DEF x, u
  <2>. QED BY <1>6, <1>7
<1>. QED BY <1>4, <1>8 DEF r

(* The fields of a directory.                                              *)
LEMMA DirParts ==
  ASSUME NEW d \in Dir
  PROVE  /\ d.text \in Seq(Piece) /\ d.history \in Seq(Piece) /\ d.alias \in Seq(Nat)
         /\ d.hasLog \in BOOLEAN /\ d.log \in Seq(LogRow) /\ d.logBytes \in Nat
         /\ d.torn \in BOOLEAN /\ d.gone \in BOOLEAN
         /\ d = [text |-> d.text, history |-> d.history, alias |-> d.alias, hasLog |-> d.hasLog,
                 log |-> d.log, logBytes |-> d.logBytes, torn |-> d.torn, gone |-> d.gone]
<1>1. /\ d.text \in Seq(Piece) /\ d.history \in Seq(Piece) /\ d.alias \in Seq(Nat)
      /\ d.hasLog \in BOOLEAN /\ d.log \in Seq(LogRow) /\ d.logBytes \in Nat
      /\ d.torn \in BOOLEAN /\ d.gone \in BOOLEAN
  BY DEF Dir
<1>2. d = [text |-> d.text, history |-> d.history, alias |-> d.alias, hasLog |-> d.hasLog,
           log |-> d.log, logBytes |-> d.logBytes, torn |-> d.torn, gone |-> d.gone]
  BY Zenon DEF Dir
<1>. QED BY <1>1, <1>2

(* What each write of the model makes of a directory.                      *)
LEMMA LogFileIs ==
  ASSUME NEW d \in Dir, NEW rows, NEW n PROVE LogFile(d, rows, n) = LogWritten(d, rows, n)
<1>. DEFINE a1 == d.text
            a2 == d.history
            a3 == d.alias
            a4 == d.hasLog
            a5 == d.log
            a6 == d.logBytes
            a7 == d.torn
            a8 == d.gone
            yes == TRUE
            l == d.log \o rows
            k == d.logBytes + n
            x == LogFile(d, rows, n)
<1>1. d = [text |-> a1, history |-> a2, alias |-> a3, hasLog |-> a4, log |-> a5, logBytes |-> a6,
           torn |-> a7, gone |-> a8]
  BY DirParts
<1>2. LogWritten(d, rows, n) = [text |-> a1, history |-> a2, alias |-> a3, hasLog |-> yes, log |-> l,
                                logBytes |-> k, torn |-> a7, gone |-> a8]
  BY DEF LogWritten
<1>3. x = [d EXCEPT !.hasLog = yes, !.log = l, !.logBytes = k]
  BY DEF LogFile
<1>. HIDE DEF a1, a2, a3, a4, a5, a6, a7, a8, yes, l, k, x
<1>4. x = [text |-> a1, history |-> a2, alias |-> a3, hasLog |-> yes, log |-> l,
           logBytes |-> k, torn |-> a7, gone |-> a8]
  BY ONLY <1>1, <1>3
<1>. QED BY <1>2, <1>4 DEF x

(* A piece of text, the history of an image and its alias.                 *)
LEMMA TextFileIs ==
  ASSUME NEW d \in Dir, NEW item, NEW n
  PROVE  TextFile(d, item, n) = TextWritten(d, [item |-> item.id, n |-> n])
<1>. DEFINE a1 == d.text
            a2 == d.history
            a3 == d.alias
            a4 == d.hasLog
            a5 == d.log
            a6 == d.logBytes
            a7 == d.torn
            a8 == d.gone
            l == Append(d.text, [item |-> item.id, n |-> n])
            x == TextFile(d, item, n)
<1>1. d = [text |-> a1, history |-> a2, alias |-> a3, hasLog |-> a4, log |-> a5, logBytes |-> a6,
           torn |-> a7, gone |-> a8]
  BY DirParts
<1>2. TextWritten(d, [item |-> item.id, n |-> n])
        = [text |-> l, history |-> a2, alias |-> a3, hasLog |-> a4, log |-> a5, logBytes |-> a6,
           torn |-> a7, gone |-> a8]
  BY DEF TextWritten
<1>3. x = [d EXCEPT !.text = l]
  BY DEF TextFile
<1>. HIDE DEF a1, a2, a3, a4, a5, a6, a7, a8, l, x
<1>4. x = [text |-> l, history |-> a2, alias |-> a3, hasLog |-> a4, log |-> a5, logBytes |-> a6,
           torn |-> a7, gone |-> a8]
  BY ONLY <1>1, <1>3
<1>. QED BY <1>2, <1>4 DEF x

NewAlias(alias, number, n) ==
    IF number \in DOMAIN alias THEN [alias EXCEPT ![number] = n] ELSE Append(alias, n)

(* The history file of an image.                                           *)
LEMMA HistoryFileIs ==
  ASSUME NEW d \in Dir, NEW item, NEW n
  PROVE  HistoryFile(d, item, n) = ImageWritten(d, [item |-> item.id, n |-> n], d.alias)
<1>. DEFINE a1 == d.text
            a2 == d.history
            a3 == d.alias
            a4 == d.hasLog
            a5 == d.log
            a6 == d.logBytes
            a7 == d.torn
            a8 == d.gone
            l == Append(d.history, [item |-> item.id, n |-> n])
            x == HistoryFile(d, item, n)
<1>1. d = [text |-> a1, history |-> a2, alias |-> a3, hasLog |-> a4, log |-> a5, logBytes |-> a6,
           torn |-> a7, gone |-> a8]
  BY DirParts
<1>2. ImageWritten(d, [item |-> item.id, n |-> n], d.alias)
        = [text |-> a1, history |-> l, alias |-> a3, hasLog |-> a4, log |-> a5, logBytes |-> a6,
           torn |-> a7, gone |-> a8]
  BY DEF ImageWritten
<1>3. x = [d EXCEPT !.history = l]
  BY DEF HistoryFile
<1>. HIDE DEF a1, a2, a3, a4, a5, a6, a7, a8, l, x
<1>4. x = [text |-> a1, history |-> l, alias |-> a3, hasLog |-> a4, log |-> a5, logBytes |-> a6,
           torn |-> a7, gone |-> a8]
  BY ONLY <1>1, <1>3
<1>. QED BY <1>2, <1>4 DEF x

(* The alias of an image, after its history file.                          *)
LEMMA AliasFileIs ==
  ASSUME NEW d \in Dir, NEW piece, NEW number, NEW n
  PROVE  AliasFile(ImageWritten(d, piece, d.alias), number, n)
           = ImageWritten(d, piece, NewAlias(d.alias, number, n))
<1>. DEFINE a1 == d.text
            a3 == d.alias
            a4 == d.hasLog
            a5 == d.log
            a6 == d.logBytes
            a7 == d.torn
            a8 == d.gone
            l == Append(d.history, piece)
            y == NewAlias(d.alias, number, n)
            h == ImageWritten(d, piece, d.alias)
            x == AliasFile(h, number, n)
<1>1. h = [text |-> a1, history |-> l, alias |-> a3, hasLog |-> a4, log |-> a5, logBytes |-> a6,
           torn |-> a7, gone |-> a8]
  BY DEF ImageWritten
<1>2. ImageWritten(d, piece, NewAlias(d.alias, number, n))
        = [text |-> a1, history |-> l, alias |-> y, hasLog |-> a4, log |-> a5, logBytes |-> a6,
           torn |-> a7, gone |-> a8]
  BY DEF ImageWritten
<1>3. h.alias = a3 /\ y = (IF number \in DOMAIN a3 THEN [a3 EXCEPT ![number] = n] ELSE Append(a3, n))
  BY <1>1 DEF NewAlias
<1>. HIDE DEF a3, h
<1>4. x = [h EXCEPT !.alias = y]
  BY <1>3 DEF AliasFile
<1>. HIDE DEF a1, a4, a5, a6, a7, a8, l, x, y
<1>5. x = [text |-> a1, history |-> l, alias |-> y, hasLog |-> a4, log |-> a5, logBytes |-> a6,
           torn |-> a7, gone |-> a8]
  BY ONLY <1>1, <1>4
<1>. QED BY <1>2, <1>5 DEF x, h

(* Files written after the entry was changed.                              *)
LEMMA FilesPut ==
  ASSUME NEW s \in StoreType, NEW id, Has(s, id), NEW e, NEW t, NEW d, NEW x
  PROVE  WithFiles(Put(s, id, e, t, d), id, x) = Put(s, id, e, t, x)
<1>. DEFINE u == [s.bundles EXCEPT ![Position(s, id)] = e]
            f == s.disk
            g == [f EXCEPT ![id] = d]
            h == [f EXCEPT ![id] = x]
            m == s.next
            p == Put(s, id, e, t, d)
            r == WithFiles(p, id, x)
<1>1. p = [bundles |-> u, total |-> t, next |-> m, disk |-> g]
      /\ Put(s, id, e, t, x) = [bundles |-> u, total |-> t, next |-> m, disk |-> h]
  BY DEF Put
<1>2. r = [p EXCEPT !.disk[id] = x]
  BY DEF WithFiles
<1>3. [g EXCEPT ![id] = x] = h
  <2>. HIDE DEF f
  <2>. QED OBVIOUS
<1>. HIDE DEF u, g, h, m, p, r
<1>4. r = [bundles |-> u, total |-> t, next |-> m, disk |-> [g EXCEPT ![id] = x]]
  BY ONLY <1>1, <1>2
<1>. QED BY ONLY <1>1, <1>3, <1>4 DEF r, p

(* Files written before the entry is changed.                              *)
LEMMA WithFilesIs ==
  ASSUME NEW s \in StoreType, NEW id, Has(s, id), NEW x
  PROVE  WithFiles(s, id, x) = Put(s, id, Share(s, id), s.total, x)
<1>. DEFINE i == Position(s, id)
            w == s.bundles
            o == s.total
            m == s.next
            f == s.disk
            u == [w EXCEPT ![i] = w[i]]
            h == [f EXCEPT ![id] = x]
            r == WithFiles(s, id, x)
<1>1. s = [bundles |-> w, total |-> o, next |-> m, disk |-> f] /\ w \in Seq(Entry)
  BY StoreParts
<1>2. Put(s, id, Share(s, id), s.total, x) = [bundles |-> u, total |-> o, next |-> m, disk |-> h]
  BY DEF Put, Share
<1>3. u = w
  <2>. HIDE DEF i, w
  <2>. QED BY <1>1
<1>4. r = [s EXCEPT !.disk[id] = x]
  BY DEF WithFiles
<1>. HIDE DEF w, o, m, f, u, r
<1>5. r = [bundles |-> w, total |-> o, next |-> m, disk |-> h]
  BY ONLY <1>1, <1>4
<1>. HIDE DEF h
<1>. QED BY ONLY <1>2, <1>3, <1>5 DEF r

(* append_events_log_bytes, as one replacement of an entry.                *)
LEMMA AppendLogIs ==
  ASSUME NEW s \in StoreType, NEW id, Has(s, id), NEW rows, NEW n
  PROVE  AppendEventsLog(s, id, rows, n)
           = Put(s, id,
                 Charged(Share(s, id), Share(s, id).bytes + n,
                         Share(s, id).reserved - Lesser(n, Share(s, id).reserved)),
                 s.total + (n - Lesser(n, Share(s, id).reserved)),
                 LogWritten(s.disk[id], rows, n))
<1>. DEFINE i == Position(s, id)
            w == s.bundles
            o == s.total
            m == s.next
            f == s.disk
            c == Lesser(n, w[i].reserved)
            b == w[i].bytes + n
            v == w[i].reserved - c
            t == o + (n - c)
            u == [w EXCEPT ![i] = [id |-> w[i].id, bytes |-> b, reserved |-> v]]
            d == LogWritten(f[id], rows, n)
            g == [f EXCEPT ![id] = d]
            r == AppendEventsLog(s, id, rows, n)
<1>1. s = [bundles |-> w, total |-> o, next |-> m, disk |-> f] /\ w \in Seq(Entry)
  BY StoreParts
<1>2. i \in DOMAIN w /\ id \in DOMAIN f /\ w[i] \in Entry /\ f[id] \in Dir
  BY HasParts DEF Share
<1>9. LogFile(f[id], rows, n) = d
  <2>. DEFINE y == f[id]
  <2>1. y \in Dir
    BY <1>2
  <2>. HIDE DEF y
  <2>2. LogFile(y, rows, n) = LogWritten(y, rows, n)
    BY <2>1, LogFileIs
  <2>. QED BY <2>2 DEF y
<1>3. r = [s EXCEPT !.bundles[i].reserved = v, !.bundles[i].bytes = b, !.total = t, !.disk[id] = d]
  BY <1>9 DEF AppendEventsLog
<1>4. Put(s, id,
                 Charged(Share(s, id), Share(s, id).bytes + n,
                         Share(s, id).reserved - Lesser(n, Share(s, id).reserved)),
                 s.total + (n - Lesser(n, Share(s, id).reserved)),
                 LogWritten(s.disk[id], rows, n))
       = [bundles |-> u, total |-> t, next |-> m, disk |-> g]
  BY <1>2 DEF Put, Charged, Share
<1>. HIDE DEF i, w, o, m, f, c, b, v, t, r, d
<1>. DEFINE x == [w EXCEPT ![i].reserved = v]
            y == [x EXCEPT ![i].bytes = b]
<1>5. y = u
  <2>. DEFINE e1 == [id |-> w[i].id, bytes |-> w[i].bytes, reserved |-> v]
              e2 == [id |-> w[i].id, bytes |-> b, reserved |-> v]
  <2>2. [w[i] EXCEPT !.reserved = v] = e1
    BY <1>2 DEF Entry
  <2>3. [e1 EXCEPT !.bytes = b] = e2
    OBVIOUS
  <2>. HIDE DEF e1, e2
  <2>4. x = [w EXCEPT ![i] = e1]
    BY <2>2
  <2>. HIDE DEF x
  <2>5. x[i] = e1 /\ i \in DOMAIN x
    BY <1>2, <2>4
  <2>6. y = [x EXCEPT ![i] = e2]
    BY <2>3, <2>5
  <2>7. y = [w EXCEPT ![i] = e2]
    BY <2>4, <2>6
  <2>. QED BY <2>7 DEF e2
<1>7. r = [bundles |-> y, total |-> t, next |-> m, disk |-> g]
  <2>. DEFINE s1 == [s EXCEPT !.bundles[i].reserved = v]
              s2 == [s1 EXCEPT !.bundles[i].bytes = b]
              s3 == [s2 EXCEPT !.total = t]
              s4 == [s3 EXCEPT !.disk[id] = d]
  <2>1. r = s4
    BY <1>3
  <2>2. s1 = [bundles |-> x, total |-> o, next |-> m, disk |-> f]
    BY <1>1
  <2>. HIDE DEF s1, x
  <2>3. s2 = [bundles |-> y, total |-> o, next |-> m, disk |-> f]
    BY <2>2
  <2>. HIDE DEF s2, y
  <2>4. s3 = [bundles |-> y, total |-> t, next |-> m, disk |-> f]
    BY <2>3
  <2>. HIDE DEF s3
  <2>5. s4 = [bundles |-> y, total |-> t, next |-> m, disk |-> g]
    BY <2>4
  <2>. QED BY <2>1, <2>5
<1>8. r = [bundles |-> u, total |-> t, next |-> m, disk |-> g]
  <2>. HIDE DEF y, u, g
  <2>. QED BY <1>5, <1>7
<1>. QED BY <1>4, <1>8 DEF r

(* A write to the transcript, and of an image, with their charge.          *)
WriteText(s, id, n, piece) ==
    WithFiles(RecordBytes(s, id, n, 0), id, TextWritten(s.disk[id], piece))
WriteImage(s, id, plus, old, piece, number, n) ==
    WithFiles(RecordBytes(s, id, plus, old), id,
              ImageWritten(s.disk[id], piece, NewAlias(s.disk[id].alias, number, n)))

(* A charge and any files, as one replacement of an entry.                 *)
LEMMA ChargedFiles ==
  ASSUME NEW s \in StoreType, NEW id, Has(s, id), NEW plus, NEW less, NEW x
  PROVE  WithFiles(RecordBytes(s, id, plus, less), id, x)
           = Put(s, id, Charged(Share(s, id), Minus(Share(s, id).bytes + plus, less), Share(s, id).reserved),
                 Minus(s.total + plus, less), x)
<1>. DEFINE e == Charged(Share(s, id), Minus(Share(s, id).bytes + plus, less), Share(s, id).reserved)
            t == Minus(s.total + plus, less)
            d == s.disk[id]
<1>1. RecordBytes(s, id, plus, less) = Put(s, id, e, t, d)
  BY RecordBytesIs
<1>. HIDE DEF e, t, d
<1>2. WithFiles(Put(s, id, e, t, d), id, x) = Put(s, id, e, t, x)
  BY FilesPut
<1>. QED BY <1>1, <1>2 DEF e, t

(* A write to the transcript, as one replacement of an entry.              *)
LEMMA TextWriteIs ==
  ASSUME NEW s \in StoreType, NEW id, Has(s, id), NEW n, NEW piece
  PROVE  WriteText(s, id, n, piece)
           = Put(s, id, Charged(Share(s, id), Minus(Share(s, id).bytes + n, 0), Share(s, id).reserved),
                 Minus(s.total + n, 0), TextWritten(s.disk[id], piece))
BY ChargedFiles DEF WriteText

(* A write of an image, as one replacement of an entry.                    *)
LEMMA ImageWriteIs ==
  ASSUME NEW s \in StoreType, NEW id, Has(s, id), NEW plus, NEW old, NEW piece, NEW number, NEW n
  PROVE  WriteImage(s, id, plus, old, piece, number, n)
           = Put(s, id, Charged(Share(s, id), Minus(Share(s, id).bytes + plus, old), Share(s, id).reserved),
                 Minus(s.total + plus, old),
                 ImageWritten(s.disk[id], piece, NewAlias(s.disk[id].alias, number, n)))
BY ChargedFiles DEF WriteImage

(* A second replacement takes the place of the first.                      *)
LEMMA PutTwice ==
  ASSUME NEW s, StoreOK(s), NEW id, Stored(s, id), NEW e \in Entry, NEW t \in Nat, NEW d \in Dir,
         e.id = id, NEW r, r = Put(s, id, e, t, d)
  PROVE  /\ r \in StoreType /\ Has(r, id) /\ Share(r, id) = e /\ r.disk[id] = d /\ r.total = t
         /\ \A e2, t2, d2 : Put(r, id, e2, t2, d2) = Put(s, id, e2, t2, d2)
<1>. DEFINE i == Position(s, id)
            n == Len(s.bundles)
            w == s.bundles
            f == s.disk
            D == DOMAIN f
            u == [w EXCEPT ![i] = e]
            g == [f EXCEPT ![id] = d]
<1>1. /\ w \in Seq(Entry) /\ s.next \in Nat /\ f \in [D -> Dir] /\ D \in SUBSET Nat
  BY StoreParts DEF StoreOK
<1>2. /\ i \in 1..n /\ w[i].id = id /\ id \in D
      /\ \A k \in 1..n : w[k].id = id => k = i
  BY PositionIs
<1>3. r = [bundles |-> u, total |-> t, next |-> s.next, disk |-> g]
  BY DEF Put
<1>4. n \in Nat /\ DOMAIN w = 1..n
  BY <1>1
<1>5. u \in Seq(Entry) /\ DOMAIN u = 1..n /\ u[i] = e /\ \A k \in 1..n : k # i => u[k] = w[k]
  <2>. HIDE DEF i, n
  <2>. QED BY <1>1, <1>2, <1>4
<1>6. g \in [D -> Dir] /\ g[id] = d /\ DOMAIN g = D
  BY <1>1, <1>2
<1>7. Position(r, id) = i
  <2>. HIDE DEF i, n, u, g
  <2>1. r.bundles = u
    BY <1>3
  <2>2. \A k \in DOMAIN r.bundles : r.bundles[k].id = id <=> k = i
    BY <1>2, <1>5, <2>1
  <2>3. i \in DOMAIN r.bundles
    BY <1>2, <1>5, <2>1
  <2>. QED BY <2>2, <2>3 DEF Position
<1>8. r \in StoreType
  <2>. HIDE DEF i, n, u, g, D, w, f
  <2>1. [bundles |-> u, total |-> t, next |-> s.next, disk |-> g] \in StoreType
    BY ONLY <1>1, <1>5, <1>6, t \in Nat, StoreMade
  <2>. QED BY <1>3, <2>1
<1>9. \A e2 : [u EXCEPT ![i] = e2] = [w EXCEPT ![i] = e2]
  <2>. HIDE DEF i, n, w
  <2>. QED BY <1>1, <1>2, <1>4
<1>10. \A d2 : [g EXCEPT ![id] = d2] = [f EXCEPT ![id] = d2]
  <2>. HIDE DEF f
  <2>. QED BY <1>1, <1>2
<1>11. r.bundles = u /\ r.disk = g /\ r.total = t /\ r.next = s.next
  BY <1>3
<1>12. ASSUME NEW e2, NEW t2, NEW d2 PROVE Put(r, id, e2, t2, d2) = Put(s, id, e2, t2, d2)
  <2>1. Put(r, id, e2, t2, d2) = [bundles |-> [u EXCEPT ![i] = e2], total |-> t2, next |-> s.next,
                                  disk |-> [g EXCEPT ![id] = d2]]
    <3>. HIDE DEF u, g, i
    <3>. QED BY <1>7, <1>11 DEF Put
  <2>2. Put(s, id, e2, t2, d2) = [bundles |-> [w EXCEPT ![i] = e2], total |-> t2, next |-> s.next,
                                  disk |-> [f EXCEPT ![id] = d2]]
    BY DEF Put
  <2>3. [u EXCEPT ![i] = e2] = [w EXCEPT ![i] = e2] /\ [g EXCEPT ![id] = d2] = [f EXCEPT ![id] = d2]
    BY <1>9, <1>10
  <2>. DEFINE x1 == [u EXCEPT ![i] = e2]
              x2 == [w EXCEPT ![i] = e2]
              y1 == [g EXCEPT ![id] = d2]
              y2 == [f EXCEPT ![id] = d2]
  <2>4. Put(r, id, e2, t2, d2) = [bundles |-> x1, total |-> t2, next |-> s.next, disk |-> y1]
        /\ Put(s, id, e2, t2, d2) = [bundles |-> x2, total |-> t2, next |-> s.next, disk |-> y2]
        /\ x1 = x2 /\ y1 = y2
    BY <2>1, <2>2, <2>3
  <2>. HIDE DEF x1, x2, y1, y2
  <2>. QED BY ONLY <2>4
<1>13. Has(r, id) /\ Share(r, id) = e /\ r.disk[id] = d
  <2>. HIDE DEF i, n, u, g
  <2>. QED BY <1>2, <1>5, <1>6, <1>7, <1>11 DEF Has, Share
<1>. QED BY <1>8, <1>11, <1>12, <1>13

(* What the files of a directory hold after a write.                       *)
Rows(d, rows, n) == d \in Dir /\ rows \in Seq(LogRow) /\ n \in Nat
(* What rows add to a directory.                                           *)
LEMMA LogFiles ==
  ASSUME NEW d, NEW rows, NEW n, Rows(d, rows, n), NEW x, x = LogWritten(d, rows, n)
  PROVE  /\ x \in Dir /\ FilesOf(x) = FilesOf(d) + n /\ x.hasLog /\ x.log = d.log \o rows
         /\ x.text = d.text /\ x.history = d.history /\ x.torn = d.torn /\ x.gone = d.gone
<1>1. /\ d.text \in Seq(Piece) /\ d.history \in Seq(Piece) /\ d.alias \in Seq(Nat)
      /\ d.log \in Seq(LogRow) /\ d.logBytes \in Nat /\ rows \in Seq(LogRow) /\ n \in Nat
      /\ d.torn \in BOOLEAN /\ d.gone \in BOOLEAN
  BY DirParts DEF Rows
<1>2. /\ x.text = d.text /\ x.history = d.history /\ x.alias = d.alias /\ x.log = d.log \o rows
      /\ x.logBytes = d.logBytes + n /\ x.hasLog /\ x.torn = d.torn /\ x.gone = d.gone
  BY DEF LogWritten
<1>3. d.log \o rows \in Seq(LogRow) /\ d.logBytes + n \in Nat
  BY <1>1
<1>4. x \in Dir
  BY <1>1, <1>3 DEF LogWritten, Dir
<1>5. Total(d.text) \in Nat /\ Total(d.history) \in Nat /\ SumOf(d.alias) \in Nat
  BY <1>1, PiecesType, SumType
<1>6. FilesOf(x) = FilesOf(d) + n
  BY <1>1, <1>2, <1>5 DEF FilesOf
<1>. QED BY <1>2, <1>4, <1>6

(* What text adds to a directory.                                          *)
LEMMA TextFiles ==
  ASSUME NEW d \in Dir, NEW piece \in Piece, NEW x, x = TextWritten(d, piece)
  PROVE  /\ x \in Dir /\ FilesOf(x) = FilesOf(d) + piece.n /\ x.hasLog = d.hasLog /\ x.log = d.log
         /\ Total(x.text) = Total(d.text) + piece.n /\ x.history = d.history
         /\ x.torn = d.torn /\ x.gone = d.gone
<1>1. /\ d.text \in Seq(Piece) /\ d.history \in Seq(Piece) /\ d.alias \in Seq(Nat)
      /\ d.log \in Seq(LogRow) /\ d.logBytes \in Nat /\ d.hasLog \in BOOLEAN
      /\ d.torn \in BOOLEAN /\ d.gone \in BOOLEAN
  BY DirParts
<1>2. /\ x.text = Append(d.text, piece) /\ x.history = d.history /\ x.alias = d.alias
      /\ x.log = d.log /\ x.logBytes = d.logBytes /\ x.hasLog = d.hasLog
      /\ x.torn = d.torn /\ x.gone = d.gone
  BY DEF TextWritten
<1>3. Append(d.text, piece) \in Seq(Piece)
  BY <1>1
<1>4. x \in Dir
  BY <1>1, <1>3 DEF TextWritten, Dir
<1>5. Total(d.text) \in Nat /\ Total(d.history) \in Nat /\ SumOf(d.alias) \in Nat /\ piece.n \in Nat
  <2>1. piece.n \in Nat
    BY DEF Piece
  <2>. QED BY <1>1, <2>1, PiecesType, SumType
<1>6. Total(x.text) = Total(d.text) + piece.n
  BY <1>1, <1>2, TotalAppend
<1>7. FilesOf(x) = FilesOf(d) + piece.n
  BY <1>1, <1>2, <1>5, <1>6 DEF FilesOf
<1>. QED BY <1>2, <1>4, <1>6, <1>7

OldAlias(alias, number) == IF number \in DOMAIN alias THEN alias[number] ELSE 0

(* Replacing the current version of an image changes only its own length.  *)
LEMMA AliasSum ==
  ASSUME NEW alias \in Seq(Nat), NEW number, NEW n \in Nat, NEW y, y = NewAlias(alias, number, n),
         NEW old, old = OldAlias(alias, number)
  PROVE  /\ y \in Seq(Nat) /\ old \in Nat /\ old <= SumOf(alias)
         /\ SumOf(y) + old = SumOf(alias) + n
<1>1. SumOf(alias) \in Nat
  BY SumType
<1>2. CASE number \in DOMAIN alias
  <2>1. number \in 1..Len(alias) /\ old = alias[number] /\ y = [alias EXCEPT ![number] = n]
    BY <1>2 DEF NewAlias, OldAlias
  <2>2. y \in Seq(Nat) /\ Len(y) = Len(alias) /\ y[number] = n
        /\ \A k \in 1..Len(alias) : k # number => y[k] = alias[k]
    BY <2>1
  <2>3. SumOf(y) + alias[number] = SumOf(alias) + n
    BY <2>1, <2>2, SumUpdate
  <2>4. alias[number] \in Nat /\ alias[number] <= SumOf(alias)
    BY <2>1, SumMember
  <2>. QED BY <2>1, <2>2, <2>3, <2>4
<1>3. CASE number \notin DOMAIN alias
  <2>1. old = 0 /\ y = Append(alias, n)
    BY <1>3 DEF NewAlias, OldAlias
  <2>2. y \in Seq(Nat) /\ SumOf(y) = SumOf(alias) + n
    BY <2>1, SumAppend
  <2>. QED BY <1>1, <2>1, <2>2
<1>. QED BY <1>2, <1>3

ImageAt(d, piece, n) == d \in Dir /\ piece \in Piece /\ n \in Nat
ImageKept(d, x, piece, n, old) ==
    /\ x \in Dir /\ old \in Nat /\ old <= FilesOf(d)
    /\ FilesOf(x) + old = FilesOf(d) + piece.n + n
    /\ x.hasLog = d.hasLog /\ x.log = d.log /\ x.torn = d.torn /\ x.gone = d.gone
    /\ x.text = d.text /\ Len(x.history) = Len(d.history) + 1 /\ x.history # <<>>
(* What an image adds to a directory.                                      *)
LEMMA ImageFiles ==
  ASSUME NEW d, NEW piece, NEW number, NEW n, ImageAt(d, piece, n),
         NEW x, x = ImageWritten(d, piece, NewAlias(d.alias, number, n)),
         NEW old, old = OldAlias(d.alias, number)
  PROVE  ImageKept(d, x, piece, n, old)
<1>. DEFINE y == NewAlias(d.alias, number, n)
<1>1. /\ d.text \in Seq(Piece) /\ d.history \in Seq(Piece) /\ d.alias \in Seq(Nat)
      /\ d.log \in Seq(LogRow) /\ d.logBytes \in Nat /\ d.hasLog \in BOOLEAN
      /\ piece \in Piece /\ n \in Nat /\ d.torn \in BOOLEAN /\ d.gone \in BOOLEAN
  BY DirParts DEF ImageAt
<1>2. /\ x.text = d.text /\ x.history = Append(d.history, piece) /\ x.alias = y
      /\ x.log = d.log /\ x.logBytes = d.logBytes /\ x.hasLog = d.hasLog
      /\ x.torn = d.torn /\ x.gone = d.gone
  BY DEF ImageWritten
<1>3. Append(d.history, piece) \in Seq(Piece) /\ Len(Append(d.history, piece)) = Len(d.history) + 1
      /\ Append(d.history, piece) # <<>>
  <2>. DEFINE h == d.history
              z == Append(h, piece)
  <2>1. h \in Seq(Piece) /\ piece \in Piece
    BY <1>1
  <2>. HIDE DEF h
  <2>2. z \in Seq(Piece) /\ Len(z) = Len(h) + 1 /\ Len(h) \in Nat
    BY <2>1
  <2>. HIDE DEF z
  <2>3. z # <<>>
    BY <2>2
  <2>. QED BY <2>2, <2>3 DEF z, h
<1>4. y \in Seq(Nat) /\ old \in Nat /\ old <= SumOf(d.alias) /\ SumOf(y) + old = SumOf(d.alias) + n
  BY <1>1, AliasSum
<1>5. x \in Dir
  <2>. HIDE DEF y
  <2>1. x = [text |-> d.text, history |-> Append(d.history, piece), alias |-> y,
             hasLog |-> d.hasLog, log |-> d.log, logBytes |-> d.logBytes, torn |-> d.torn,
             gone |-> d.gone]
    BY DEF ImageWritten, y
  <2>. QED BY <1>1, <1>3, <1>4, <2>1 DEF Dir
<1>6. /\ Total(d.text) \in Nat /\ Total(d.history) \in Nat /\ SumOf(d.alias) \in Nat
      /\ piece.n \in Nat /\ SumOf(y) \in Nat
  <2>1. piece.n \in Nat
    BY <1>1 DEF Piece
  <2>. QED BY <1>1, <1>4, <2>1, PiecesType, SumType
<1>7. Total(x.history) = Total(d.history) + piece.n
  BY <1>1, <1>2, TotalAppend
<1>. HIDE DEF y
<1>8. FilesOf(x) + old = FilesOf(d) + piece.n + n /\ old <= FilesOf(d)
  <2>. DEFINE a == Total(d.text)
              b == Total(d.history)
              c == SumOf(d.alias)
              e == SumOf(y)
              k == d.logBytes
              m == piece.n
  <2>1. FilesOf(x) = a + (b + m) + e + k
    BY <1>2, <1>7 DEF FilesOf
  <2>2. FilesOf(d) = a + b + c + k
    BY DEF FilesOf
  <2>3. /\ a \in Nat /\ b \in Nat /\ c \in Nat /\ e \in Nat /\ k \in Nat /\ m \in Nat
        /\ old \in Nat /\ old <= c /\ e + old = c + n
    BY <1>1, <1>4, <1>6
  <2>. HIDE DEF a, b, c, e, k, m
  <2>4. FilesOf(x) + old = FilesOf(d) + m + n /\ old <= FilesOf(d)
    BY ONLY <1>1, <2>1, <2>2, <2>3
  <2>. QED BY <2>4 DEF m
<1>. QED BY <1>2, <1>3, <1>4, <1>5, <1>8 DEF ImageKept

(* What the history file of an image adds to a directory.                  *)
LEMMA HistoryFiles ==
  ASSUME NEW d \in Dir, NEW piece \in Piece, NEW x, x = ImageWritten(d, piece, d.alias)
  PROVE  /\ x \in Dir /\ FilesOf(x) = FilesOf(d) + piece.n /\ x.log = d.log
         /\ x.text = d.text /\ Len(x.history) = Len(d.history) + 1
<1>1. /\ d.text \in Seq(Piece) /\ d.history \in Seq(Piece) /\ d.alias \in Seq(Nat)
      /\ d.log \in Seq(LogRow) /\ d.logBytes \in Nat /\ d.hasLog \in BOOLEAN
      /\ d.torn \in BOOLEAN /\ d.gone \in BOOLEAN
  BY DirParts
<1>2. /\ x.text = d.text /\ x.history = Append(d.history, piece) /\ x.alias = d.alias
      /\ x.log = d.log /\ x.logBytes = d.logBytes
  BY DEF ImageWritten
<1>3. Append(d.history, piece) \in Seq(Piece) /\ Len(Append(d.history, piece)) = Len(d.history) + 1
  BY <1>1
<1>4. x \in Dir
  BY <1>1, <1>3 DEF ImageWritten, Dir
<1>5. Total(d.text) \in Nat /\ Total(d.history) \in Nat /\ SumOf(d.alias) \in Nat /\ piece.n \in Nat
  <2>1. piece.n \in Nat
    BY DEF Piece
  <2>. QED BY <1>1, <2>1, PiecesType, SumType
<1>6. Total(x.history) = Total(d.history) + piece.n
  BY <1>1, <1>2, TotalAppend
<1>7. FilesOf(x) = FilesOf(d) + piece.n
  BY <1>1, <1>2, <1>5, <1>6 DEF FilesOf
<1>. QED BY <1>2, <1>3, <1>4, <1>7

(* A write within the bytes granted.                                       *)
Room(p, id, g) ==
    /\ StoreOK(p) /\ Stored(p, id) /\ g \in Nat /\ Intact(p.disk[id])
    /\ AccountedBytes(Share(p, id)) + g <= MaxBundleBytes
    /\ p.total + g <= MaxTotalBytes
Wrote(p, r, id, d) ==
    /\ StoreOK(r) /\ r.disk[id] = d
    /\ \A prev : Follows(p, prev, id) => Follows(r, prev, id)
IndexFits(d) == Intact(d) /\ IF d.hasLog THEN Indexed(d) ELSE d.log = <<>>

(* What a granted capacity says of the entry and its directory.            *)
LEMMA RoomParts ==
  ASSUME NEW p, NEW id, NEW g, Room(p, id, g), NEW e, e = Share(p, id), NEW d, d = p.disk[id]
  PROVE  /\ p \in StoreType /\ Has(p, id) /\ e \in Entry /\ d \in Dir /\ e.id = id
         /\ e.bytes \in Nat /\ e.reserved \in Nat /\ e.bytes = FilesOf(d) /\ IndexFits(d)
         /\ p.total \in Nat /\ e.bytes + e.reserved <= p.total
<1>1. StoreOK(p) /\ Stored(p, id)
  BY DEF Room
<1>2. p \in StoreType
  BY <1>1 DEF StoreOK
<1>3. p.bundles \in Seq(Entry) /\ p.total \in Nat
  BY <1>2, StoreParts
<1>4. /\ Position(p, id) \in 1..Len(p.bundles) /\ id \in DOMAIN p.disk
      /\ e \in Entry /\ e.id = id /\ d \in Dir /\ EntryOK(e, d)
  BY <1>1, PositionIs
<1>5. Has(p, id)
  BY <1>3, <1>4 DEF Has
<1>6. e.bytes \in Nat /\ e.reserved \in Nat
  BY <1>4 DEF Entry
<1>9. Intact(d)
  BY DEF Room
<1>7. e.bytes = FilesOf(d) /\ IndexFits(d)
  BY <1>4, <1>9 DEF EntryOK, IndexFits, Intact
<1>8. AccountedBytes(e) <= p.total
  <2>. DEFINE v == Accounts(p.bundles)
              i == Position(p, id)
  <2>1. v \in Seq(Nat) /\ i \in 1..Len(v) /\ v[i] = AccountedBytes(e)
    BY <1>3, <1>4, AccountsType DEF Share
  <2>2. p.total = SumOf(v)
    BY <1>1 DEF StoreOK
  <2>. HIDE DEF v, i
  <2>. QED BY <2>1, <2>2, SumMember
<1>. QED BY <1>2, <1>3, <1>4, <1>5, <1>6, <1>7, <1>8 DEF AccountedBytes

(* An entry may grow by what was granted.                                  *)
LEMMA GrowKeeps ==
  ASSUME NEW p, NEW id, NEW g, Room(p, id, g), NEW e \in Entry, NEW d \in Dir, NEW t \in Nat,
         e.id = id, e.bytes = FilesOf(d), IndexFits(d),
         AccountedBytes(e) <= AccountedBytes(Share(p, id)) + g,
         t + AccountedBytes(Share(p, id)) = p.total + AccountedBytes(e),
         NEW r, r = Put(p, id, e, t, d)
  PROVE  Wrote(p, r, id, d)
<1>. DEFINE A == AccountedBytes(Share(p, id))
            B == AccountedBytes(e)
<1>1. StoreOK(p) /\ Stored(p, id) /\ g \in Nat /\ A + g <= MaxBundleBytes /\ p.total + g <= MaxTotalBytes
  BY DEF Room
<1>2. Share(p, id) \in Entry /\ p.total \in Nat
  BY RoomParts
<1>3. A \in Nat /\ B \in Nat
  BY <1>2 DEF Entry, AccountedBytes
<1>. HIDE DEF A, B
<1>4. B <= A + g /\ t + A = p.total + B
  BY DEF A, B
<1>5. B <= MaxBundleBytes /\ t <= MaxTotalBytes
  BY <1>1, <1>2, <1>3, <1>4, QuotaNumbers
<1>6. EntryOK(e, d)
  BY <1>5 DEF EntryOK, IndexFits, Intact, B
<1>7. /\ StoreOK(r) /\ r.disk[id] = d
      /\ \A prev : Follows(p, prev, id) => Follows(r, prev, id)
  BY <1>1, <1>4, <1>5, <1>6, PutKeeps DEF A, B
<1>. QED BY <1>7 DEF Wrote

Charge(e, b, v) == e \in Entry /\ b \in Nat /\ v \in Nat
(* An entry with other charges.                                            *)
LEMMA ChargedIs ==
  ASSUME NEW e, NEW b, NEW v, Charge(e, b, v), NEW y, y = Charged(e, b, v)
  PROVE  /\ y \in Entry /\ y.id = e.id /\ y.bytes = b /\ y.reserved = v
         /\ AccountedBytes(y) = b + v
BY DEF Charge, Charged, Entry, AccountedBytes

(* One more row of an index.                                               *)
LEMMA OneRow ==
  ASSUME NEW log \in Seq(LogRow), NEW row \in LogRow
  PROVE  <<row>> \in Seq(LogRow) /\ log \o <<row>> = Append(log, row)
OBVIOUS

(* The bytes that rows use beyond those reserved for them.                 *)
LEMMA Consumed ==
  ASSUME NEW n \in Nat, NEW v \in Nat, NEW c, c = Lesser(n, v)
  PROVE  c \in Nat /\ c <= n /\ c <= v /\ n - c \in Nat /\ v - c \in Nat /\ n - c <= n
         /\ n - c = Minus(n, v)
BY DEF Lesser, Minus

(* Rows alone.                                                             *)
LEMMA LogGrows ==
  ASSUME NEW p, NEW id, NEW g, Room(p, id, g), NEW rows \in Seq(LogRow), NEW n \in Nat,
         NEW d, d = p.disk[id], n - Lesser(n, Share(p, id).reserved) <= g,
         IndexedAs(d.log \o rows, Total(d.text), Len(d.history)),
         NEW r, r = AppendEventsLog(p, id, rows, n)
  PROVE  Wrote(p, r, id, LogWritten(d, rows, n))
<1>. DEFINE e == Share(p, id)
            c == Lesser(n, e.reserved)
            b == e.bytes + n
            v == e.reserved - c
            y == Charged(e, b, v)
            t == p.total + (n - c)
            x == LogWritten(d, rows, n)
<1>1. /\ p \in StoreType /\ Has(p, id) /\ e \in Entry /\ d \in Dir /\ e.id = id
      /\ e.bytes \in Nat /\ e.reserved \in Nat /\ e.bytes = FilesOf(d) /\ p.total \in Nat
      /\ IndexFits(d)
  BY RoomParts
<1>2. r = Put(p, id, y, t, x)
  BY <1>1, AppendLogIs
<1>3. /\ c \in Nat /\ c <= n /\ c <= e.reserved /\ n - c \in Nat /\ v \in Nat /\ n - c <= g
  BY <1>1, Consumed
<1>4. x \in Dir /\ FilesOf(x) = FilesOf(d) + n /\ x.hasLog /\ x.log = d.log \o rows
      /\ x.text = d.text /\ x.history = d.history /\ x.torn = d.torn /\ x.gone = d.gone
  <2>1. Rows(d, rows, n) /\ x = LogWritten(d, rows, n)
    BY <1>1 DEF Rows
  <2>. HIDE DEF x
  <2>. QED BY ONLY <2>1, LogFiles
<1>5. IndexFits(x)
  <2>. HIDE DEF x
  <2>. QED BY <1>1, <1>4, IndexedIs DEF IndexFits, Intact
<1>6. b \in Nat /\ t \in Nat
  BY <1>1, <1>3
<1>7. y \in Entry /\ y.id = id /\ y.bytes = b /\ AccountedBytes(y) = b + v
  <2>1. Charge(e, b, v)
    BY <1>1, <1>3, <1>6 DEF Charge
  <2>. HIDE DEF b, v, e
  <2>. QED BY <1>1, <2>1, ChargedIs
<1>8. AccountedBytes(e) = e.bytes + e.reserved
  BY DEF AccountedBytes
<1>9. g \in Nat
  BY DEF Room
<1>10. AccountedBytes(y) <= AccountedBytes(e) + g
       /\ t + AccountedBytes(e) = p.total + AccountedBytes(y)
  <2>. HIDE DEF y, e, c
  <2>. QED BY <1>1, <1>3, <1>7, <1>8, <1>9
<1>11. y.bytes = FilesOf(x)
  BY <1>1, <1>4, <1>7
<1>. HIDE DEF y, x, t, b, v, c
<1>12. Wrote(p, r, id, x)
  BY <1>2, <1>4, <1>5, <1>6, <1>7, <1>10, <1>11, GrowKeeps DEF e
<1>. QED BY <1>12 DEF x

(* Text in a bundle without an index.                                      *)
LEMMA TextGrows ==
  ASSUME NEW p, NEW id, NEW g, Room(p, id, g), NEW piece \in Piece, piece.n <= g,
         NEW d, d = p.disk[id], ~d.hasLog, NEW r, r = WriteText(p, id, piece.n, piece)
  PROVE  Wrote(p, r, id, TextWritten(d, piece))
<1>. DEFINE e == Share(p, id)
            n == piece.n
            b == e.bytes + n
            v == e.reserved
            y == Charged(e, b, v)
            t == p.total + n
            x == TextWritten(d, piece)
<1>1. /\ p \in StoreType /\ Has(p, id) /\ e \in Entry /\ d \in Dir /\ e.id = id
      /\ e.bytes \in Nat /\ e.reserved \in Nat /\ e.bytes = FilesOf(d) /\ p.total \in Nat
      /\ IndexFits(d)
  BY RoomParts
<1>2. n \in Nat
  BY DEF Piece
<1>3. Minus(e.bytes + n, 0) = b /\ Minus(p.total + n, 0) = t
  <2>. HIDE DEF n, e
  <2>. QED BY <1>1, <1>2 DEF Minus
<1>4. r = Put(p, id, y, t, x)
  <2>1. r = Put(p, id, Charged(e, Minus(e.bytes + n, 0), e.reserved), Minus(p.total + n, 0), x)
    BY <1>1, TextWriteIs
  <2>. HIDE DEF x, n, e
  <2>. QED BY <1>3, <2>1
<1>5. /\ x \in Dir /\ FilesOf(x) = FilesOf(d) + n /\ x.hasLog = d.hasLog /\ x.log = d.log
      /\ x.torn = d.torn /\ x.gone = d.gone
  BY <1>1, TextFiles
<1>6. IndexFits(x)
  <2>. HIDE DEF x
  <2>. QED BY <1>1, <1>5 DEF IndexFits, Intact
<1>7. b \in Nat /\ t \in Nat
  BY <1>1, <1>2
<1>8. y \in Entry /\ y.id = id /\ y.bytes = b /\ AccountedBytes(y) = b + v
  <2>1. Charge(e, b, v)
    BY <1>1, <1>7 DEF Charge
  <2>. HIDE DEF b, v, e
  <2>. QED BY <1>1, <2>1, ChargedIs
<1>9. g \in Nat /\ AccountedBytes(e) = e.bytes + e.reserved
  BY DEF Room, AccountedBytes
<1>10. AccountedBytes(y) <= AccountedBytes(e) + g
       /\ t + AccountedBytes(e) = p.total + AccountedBytes(y)
  <2>. HIDE DEF y, e, n
  <2>. QED BY <1>1, <1>2, <1>8, <1>9 DEF n
<1>11. y.bytes = FilesOf(x)
  BY <1>1, <1>5, <1>8
<1>. HIDE DEF y, x, t, b, v
<1>12. Wrote(p, r, id, x)
  BY <1>4, <1>5, <1>6, <1>7, <1>8, <1>10, <1>11, GrowKeeps DEF e
<1>. QED BY <1>12 DEF x

(* Text and its row.                                                       *)
LEMMA TextRowGrows ==
  ASSUME NEW p, NEW id, NEW g, Room(p, id, g), NEW piece \in Piece, NEW m \in Nat, piece.n + m <= g,
         NEW d, d = p.disk[id], d.hasLog, NEW row \in LogRow, row.row = "T",
         row.from = Total(d.text), row.to = Total(d.text) + piece.n,
         NEW r, r = AppendEventsLog(WriteText(p, id, piece.n, piece), id, <<row>>, m)
  PROVE  Wrote(p, r, id, LogWritten(TextWritten(d, piece), <<row>>, m))
<1>. DEFINE e == Share(p, id)
            n == piece.n
            q == WriteText(p, id, n, piece)
            e1 == Charged(e, e.bytes + n, e.reserved)
            t1 == p.total + n
            x1 == TextWritten(d, piece)
            c == Lesser(m, e.reserved)
            b == e.bytes + n + m
            v == e.reserved - c
            y == Charged(e, b, v)
            t == p.total + n + (m - c)
            x == LogWritten(x1, <<row>>, m)
<1>1. /\ p \in StoreType /\ Has(p, id) /\ e \in Entry /\ d \in Dir /\ e.id = id
      /\ e.bytes \in Nat /\ e.reserved \in Nat /\ e.bytes = FilesOf(d) /\ p.total \in Nat
      /\ IndexFits(d)
  BY RoomParts
<1>2. n \in Nat /\ StoreOK(p) /\ Stored(p, id) /\ g \in Nat
  BY DEF Piece, Room
<1>3. Minus(e.bytes + n, 0) = e.bytes + n /\ Minus(p.total + n, 0) = t1
  <2>. HIDE DEF n, e
  <2>. QED BY <1>1, <1>2 DEF Minus
<1>4. q = Put(p, id, e1, t1, x1)
  <2>1. q = Put(p, id, Charged(e, Minus(e.bytes + n, 0), e.reserved), Minus(p.total + n, 0), x1)
    BY <1>1, TextWriteIs
  <2>. HIDE DEF x1, n, e, q, t1
  <2>. QED BY <1>3, <2>1
<1>5. /\ x1 \in Dir /\ FilesOf(x1) = FilesOf(d) + n /\ x1.hasLog = d.hasLog /\ x1.log = d.log
      /\ Total(x1.text) = Total(d.text) + n /\ x1.history = d.history
      /\ x1.torn = d.torn /\ x1.gone = d.gone
  <2>1. x1 = TextWritten(d, piece) /\ d \in Dir
    BY <1>1
  <2>. HIDE DEF x1
  <2>. QED BY ONLY <2>1, piece \in Piece, TextFiles
<1>6. e1 \in Entry /\ e1.id = id /\ e1.bytes = e.bytes + n /\ e1.reserved = e.reserved /\ t1 \in Nat
  <2>1. Charge(e, e.bytes + n, e.reserved) /\ t1 \in Nat
    BY <1>1, <1>2 DEF Charge
  <2>. HIDE DEF e, n, t1
  <2>. QED BY <1>1, <2>1, ChargedIs
<1>. HIDE DEF e1, t1, x1, q
<1>7. /\ q \in StoreType /\ Has(q, id) /\ Share(q, id) = e1 /\ q.disk[id] = x1 /\ q.total = t1
      /\ \A e2, t2, d2 : Put(q, id, e2, t2, d2) = Put(p, id, e2, t2, d2)
  BY <1>2, <1>4, <1>5, <1>6, PutTwice
<1>8. /\ c \in Nat /\ c <= m /\ c <= e.reserved /\ m - c \in Nat /\ v \in Nat /\ m - c <= m
  <2>. DEFINE z == e.reserved
  <2>1. z \in Nat /\ c = Lesser(m, z)
    BY <1>1
  <2>. HIDE DEF c, z
  <2>2. c \in Nat /\ c <= m /\ c <= z /\ m - c \in Nat /\ z - c \in Nat /\ m - c <= m
    BY <2>1, Consumed
  <2>. QED BY <2>2 DEF z
<1>9. b \in Nat /\ t \in Nat
  <2>. HIDE DEF c
  <2>. QED BY <1>1, <1>2, <1>8
<1>10. r = Put(p, id, y, t, x)
  <2>1. r = Put(q, id, Charged(e1, e1.bytes + m, e1.reserved - Lesser(m, e1.reserved)),
                t1 + (m - Lesser(m, e1.reserved)), x)
    BY <1>7, AppendLogIs DEF q
  <2>2. Charged(e1, e1.bytes + m, e1.reserved - Lesser(m, e1.reserved)) = y
    BY <1>1, <1>6 DEF Charged
  <2>3. t1 + (m - Lesser(m, e1.reserved)) = t
    BY <1>6 DEF t1
  <2>. HIDE DEF y, t, x
  <2>. QED BY <1>7, <2>1, <2>2, <2>3
<1>11. <<row>> \in Seq(LogRow) /\ d.log \in Seq(LogRow) /\ d.log \o <<row>> = Append(d.log, row)
  <2>1. d.log \in Seq(LogRow)
    BY <1>1, DirParts
  <2>. QED BY <2>1, OneRow
<1>12. x \in Dir /\ FilesOf(x) = FilesOf(x1) + m /\ x.hasLog /\ x.log = Append(d.log, row)
       /\ x.text = x1.text /\ x.history = d.history /\ x.torn = x1.torn /\ x.gone = x1.gone
  <2>. DEFINE rows == <<row>>
  <2>1. rows \in Seq(LogRow)
    BY <1>11
  <2>2. x = LogWritten(x1, rows, m)
    OBVIOUS
  <2>. HIDE DEF rows, x
  <2>3. x \in Dir /\ FilesOf(x) = FilesOf(x1) + m /\ x.hasLog /\ x.log = x1.log \o rows
        /\ x.text = x1.text /\ x.history = x1.history /\ x.torn = x1.torn /\ x.gone = x1.gone
    <3>1. Rows(x1, rows, m)
      BY <1>5, <2>1 DEF Rows
    <3>. QED BY <2>2, <3>1, LogFiles
  <2>. QED BY <1>5, <1>11, <2>3 DEF rows
<1>13. IndexFits(x)
  <2>1. IndexedAs(d.log, Total(d.text), Len(d.history))
    BY <1>1, IndexedIs DEF IndexFits
  <2>2. IndexedAs(Append(d.log, row), Total(d.text) + n, Len(d.history))
    BY <1>11, <2>1, IndexRow
  <2>3. Indexed(x)
    <3>. HIDE DEF x
    <3>. QED BY <1>5, <1>12, <2>2, IndexedIs
  <2>. HIDE DEF x
  <2>. QED BY <1>1, <1>5, <1>12, <2>3 DEF IndexFits, Intact
<1>14. y \in Entry /\ y.id = id /\ y.bytes = b /\ AccountedBytes(y) = b + v
  <2>1. Charge(e, b, v)
    BY <1>1, <1>8, <1>9 DEF Charge
  <2>. HIDE DEF b, v, e
  <2>. QED BY <1>1, <2>1, ChargedIs
<1>15. AccountedBytes(e) = e.bytes + e.reserved
  BY DEF AccountedBytes
<1>16. AccountedBytes(y) <= AccountedBytes(e) + g
       /\ t + AccountedBytes(e) = p.total + AccountedBytes(y)
  <2>. HIDE DEF y, e, n, c
  <2>. QED BY <1>1, <1>2, <1>8, <1>14, <1>15 DEF n
<1>17. y.bytes = FilesOf(x)
  BY <1>1, <1>5, <1>12, <1>14
<1>. HIDE DEF y, x, t, b, v, c
<1>18. Wrote(p, r, id, x)
  BY <1>9, <1>10, <1>12, <1>13, <1>14, <1>16, <1>17, GrowKeeps DEF e
<1>. QED BY <1>18 DEF x, x1

(* An image: its history file and its alias, and a row or a reservation.   *)
ImagePlace(p, id, g, piece, number, n, old, m) ==
    /\ Room(p, id, g) /\ piece \in Piece /\ piece.n = n /\ n \in Nat /\ m \in Nat
    /\ old = OldAlias(p.disk[id].alias, number)
    /\ 2 * n + m <= g + old

ImageEntry(p, id, n, old, d, x, q, b, t, e) ==
    /\ b + old = Share(p, id).bytes + 2 * n /\ t + old = p.total + 2 * n
    /\ e = Charged(Share(p, id), b, Share(p, id).reserved) /\ e.id = id
    /\ e.bytes = b /\ e.reserved = Share(p, id).reserved
    /\ q = Put(p, id, e, t, x) /\ b = FilesOf(x) /\ x \in Dir /\ old \in Nat
    /\ x.hasLog = d.hasLog /\ x.log = d.log /\ x.torn = d.torn /\ x.gone = d.gone
    /\ x.text = d.text /\ Len(x.history) = Len(d.history) + 1 /\ x.history # <<>>

(* The entry after an image was written.                                   *)
LEMMA ImagePut ==
  ASSUME NEW p, NEW id, NEW g, NEW piece, NEW number, NEW n, NEW old, NEW m,
         ImagePlace(p, id, g, piece, number, n, old, m), NEW d, d = p.disk[id],
         NEW x, x = ImageWritten(d, piece, NewAlias(d.alias, number, n)),
         NEW q, q = WriteImage(p, id, 2 * n, old, piece, number, n)
  PROVE  \E b \in Nat, t \in Nat, e \in Entry : ImageEntry(p, id, n, old, d, x, q, b, t, e)
<1>. DEFINE e == Share(p, id)
            b == Minus(e.bytes + 2 * n, old)
            t == Minus(p.total + 2 * n, old)
            y == Charged(e, b, e.reserved)
<1>1. Room(p, id, g) /\ piece \in Piece /\ piece.n = n /\ n \in Nat /\ old = OldAlias(d.alias, number)
  BY DEF ImagePlace
<1>2. /\ p \in StoreType /\ Has(p, id) /\ e \in Entry /\ d \in Dir /\ e.id = id
      /\ e.bytes \in Nat /\ e.reserved \in Nat /\ e.bytes = FilesOf(d) /\ p.total \in Nat
      /\ e.bytes + e.reserved <= p.total
  BY <1>1, RoomParts
<1>3. /\ x \in Dir /\ old \in Nat /\ old <= FilesOf(d)
      /\ FilesOf(x) + old = FilesOf(d) + piece.n + n
      /\ x.hasLog = d.hasLog /\ x.log = d.log /\ x.torn = d.torn /\ x.gone = d.gone
      /\ x.text = d.text /\ Len(x.history) = Len(d.history) + 1 /\ x.history # <<>>
  <2>1. ImageAt(d, piece, n)
    BY <1>1, <1>2 DEF ImageAt
  <2>2. old = OldAlias(d.alias, number)
    BY <1>1
  <2>3. ImageKept(d, x, piece, n, old)
    BY ONLY <2>1, <2>2, x = ImageWritten(d, piece, NewAlias(d.alias, number, n)), ImageFiles
  <2>. QED BY <2>3 DEF ImageKept
<1>4. q = Put(p, id, y, t, x)
  <2>1. WriteImage(p, id, 2 * n, old, piece, number, n)
          = Put(p, id, Charged(Share(p, id), Minus(Share(p, id).bytes + 2 * n, old), Share(p, id).reserved),
                Minus(p.total + 2 * n, old),
                ImageWritten(p.disk[id], piece, NewAlias(p.disk[id].alias, number, n)))
    <3>. DEFINE k == 2 * n
    <3>. HIDE DEF k
    <3>1. WriteImage(p, id, k, old, piece, number, n)
          = Put(p, id, Charged(Share(p, id), Minus(Share(p, id).bytes + k, old), Share(p, id).reserved),
                Minus(p.total + k, old),
                ImageWritten(p.disk[id], piece, NewAlias(p.disk[id].alias, number, n)))
      BY ONLY <1>2, ImageWriteIs
    <3>. QED BY <3>1 DEF k
  <2>. QED BY ONLY <2>1, x = ImageWritten(d, piece, NewAlias(d.alias, number, n)), d = p.disk[id],
           q = WriteImage(p, id, 2 * n, old, piece, number, n)
<1>5. b \in Nat /\ t \in Nat /\ b + old = e.bytes + 2 * n /\ t + old = p.total + 2 * n
  <2>. DEFINE f == e.bytes
              o == p.total
              k == 2 * n
  <2>1. old <= f /\ old <= o /\ f \in Nat /\ o \in Nat /\ k \in Nat /\ old \in Nat
    BY <1>1, <1>2, <1>3
  <2>2. b = Minus(f + k, old) /\ t = Minus(o + k, old)
    OBVIOUS
  <2>. HIDE DEF b, t, f, o, k
  <2>3. b \in Nat /\ t \in Nat /\ b + old = f + k /\ t + old = o + k
    BY ONLY <2>1, <2>2 DEF Minus
  <2>. QED BY <2>3 DEF f, o, k
<1>6. b = FilesOf(x)
  <2>1. FilesOf(x) \in Nat
    BY <1>3, FilesType
  <2>. HIDE DEF b, e
  <2>. QED BY <1>1, <1>2, <1>3, <1>5, <2>1
<1>7. y \in Entry /\ y.id = id /\ y.bytes = b /\ y.reserved = e.reserved
  <2>1. Charge(e, b, e.reserved)
    BY <1>2, <1>5 DEF Charge
  <2>. HIDE DEF b, e
  <2>. QED BY <1>2, <2>1, ChargedIs
<1>8. ImageEntry(p, id, n, old, d, x, q, b, t, y)
  <2>. HIDE DEF b, t, y, e
  <2>. QED BY <1>3, <1>4, <1>5, <1>6, <1>7 DEF e, y, ImageEntry
<1>. HIDE DEF b, t, y, e
<1>. QED BY <1>5, <1>7, <1>8

(* An image in a bundle without an index: its row is reserved for later.   *)
LEMMA ImageGrows ==
  ASSUME NEW p, NEW id, NEW g, NEW piece, NEW number, NEW n, NEW old, NEW m,
         ImagePlace(p, id, g, piece, number, n, old, m), NEW d, d = p.disk[id], ~d.hasLog,
         NEW x, x = ImageWritten(d, piece, NewAlias(d.alias, number, n)),
         NEW q, q = WriteImage(p, id, 2 * n, old, piece, number, n),
         NEW r, r = ReserveEventsLogBytes(q, id, m)
  PROVE  Wrote(p, r, id, x)
<1>. DEFINE E == Share(p, id)
<1>1. Room(p, id, g) /\ n \in Nat /\ m \in Nat /\ 2 * n + m <= g + old
  BY DEF ImagePlace
<1>2. /\ p \in StoreType /\ Has(p, id) /\ E \in Entry /\ d \in Dir /\ E.id = id
      /\ E.bytes \in Nat /\ E.reserved \in Nat /\ p.total \in Nat /\ IndexFits(d)
  BY <1>1, RoomParts
<1>0. PICK b \in Nat, t \in Nat, e \in Entry : ImageEntry(p, id, n, old, d, x, q, b, t, e)
  BY ImagePut
<1>3. /\ b + old = E.bytes + 2 * n /\ t + old = p.total + 2 * n
      /\ e = Charged(E, b, E.reserved) /\ e.id = id
      /\ e.bytes = b /\ e.reserved = E.reserved
      /\ q = Put(p, id, e, t, x) /\ b = FilesOf(x) /\ x \in Dir /\ old \in Nat
      /\ x.hasLog = d.hasLog /\ x.log = d.log /\ x.torn = d.torn /\ x.gone = d.gone
  BY <1>0 DEF ImageEntry
<1>4. StoreOK(p) /\ Stored(p, id) /\ g \in Nat
  BY <1>1 DEF Room
<1>5. /\ q \in StoreType /\ Has(q, id) /\ Share(q, id) = e /\ q.disk[id] = x /\ q.total = t
      /\ \A e2, t2, d2 : Put(q, id, e2, t2, d2) = Put(p, id, e2, t2, d2)
  BY ONLY <1>3, <1>4, PutTwice
<1>. DEFINE v == E.reserved + m
            y == Charged(e, b, v)
            u == t + m
<1>6. r = Put(p, id, y, u, x)
  <2>1. ReserveEventsLogBytes(q, id, m)
          = Put(q, id, Charged(Share(q, id), Share(q, id).bytes, Share(q, id).reserved + m),
                q.total + m, q.disk[id])
    BY ONLY <1>5, ReserveIs
  <2>2. r = Put(q, id, y, u, x)
    BY <1>3, <1>5, <2>1
  <2>. HIDE DEF y, u
  <2>. QED BY <1>5, <2>2
<1>7. y \in Entry /\ y.id = id /\ y.bytes = b /\ AccountedBytes(y) = b + v
  <2>1. Charge(e, b, v)
    BY <1>1, <1>2, <1>3 DEF Charge
  <2>. HIDE DEF v
  <2>. QED BY <1>3, <2>1, ChargedIs
<1>8. AccountedBytes(E) = E.bytes + E.reserved
  BY DEF AccountedBytes
<1>9. u \in Nat
  BY <1>1, <1>3
<1>10. AccountedBytes(y) <= AccountedBytes(E) + g
       /\ u + AccountedBytes(E) = p.total + AccountedBytes(y)
  <2>. HIDE DEF y, E
  <2>. QED BY <1>1, <1>2, <1>3, <1>4, <1>7, <1>8
<1>11. IndexFits(x)
  BY <1>2, <1>3 DEF IndexFits, Intact
<1>12. y.bytes = FilesOf(x)
  BY <1>3, <1>7
<1>. HIDE DEF y, u, v
<1>. QED BY ONLY <1>1, <1>3, <1>6, <1>7, <1>9, <1>10, <1>11, <1>12, GrowKeeps DEF E

(* An image in a bundle with an index: its row follows at once.            *)
LEMMA ImageRowGrows ==
  ASSUME NEW p, NEW id, NEW g, NEW piece, NEW number, NEW n, NEW old, NEW m,
         ImagePlace(p, id, g, piece, number, n, old, m), NEW d, d = p.disk[id], d.hasLog,
         NEW x, x = ImageWritten(d, piece, NewAlias(d.alias, number, n)),
         NEW row, row = [row |-> "I", image |-> Len(d.history) + 1],
         NEW q, q = WriteImage(p, id, 2 * n, old, piece, number, n),
         NEW r, r = AppendEventsLog(q, id, <<row>>, m)
  PROVE  Wrote(p, r, id, LogWritten(x, <<row>>, m))
<1>. DEFINE E == Share(p, id)
<1>1. Room(p, id, g) /\ n \in Nat /\ m \in Nat /\ 2 * n + m <= g + old
  BY DEF ImagePlace
<1>2. /\ p \in StoreType /\ Has(p, id) /\ E \in Entry /\ d \in Dir /\ E.id = id
      /\ E.bytes \in Nat /\ E.reserved \in Nat /\ p.total \in Nat /\ IndexFits(d)
  BY <1>1, RoomParts
<1>0. PICK b \in Nat, t \in Nat, e \in Entry : ImageEntry(p, id, n, old, d, x, q, b, t, e)
  BY ImagePut
<1>3. /\ b + old = E.bytes + 2 * n /\ t + old = p.total + 2 * n
      /\ e = Charged(E, b, E.reserved) /\ e.id = id
      /\ e.bytes = b /\ e.reserved = E.reserved
      /\ q = Put(p, id, e, t, x) /\ b = FilesOf(x) /\ x \in Dir /\ old \in Nat
      /\ x.hasLog = d.hasLog /\ x.log = d.log /\ x.torn = d.torn /\ x.gone = d.gone
      /\ x.text = d.text /\ Len(x.history) = Len(d.history) + 1 /\ x.history # <<>>
  BY <1>0 DEF ImageEntry
<1>4. StoreOK(p) /\ Stored(p, id) /\ g \in Nat
  BY <1>1 DEF Room
<1>5. /\ q \in StoreType /\ Has(q, id) /\ Share(q, id) = e /\ q.disk[id] = x /\ q.total = t
      /\ \A e2, t2, d2 : Put(q, id, e2, t2, d2) = Put(p, id, e2, t2, d2)
  BY ONLY <1>3, <1>4, PutTwice
<1>. DEFINE c == Lesser(m, E.reserved)
            v == E.reserved - c
            k == b + m
            y == Charged(e, k, v)
            u == t + (m - c)
            rows == <<row>>
            z == LogWritten(x, rows, m)
<1>6. r = Put(p, id, y, u, z)
  <2>. HIDE DEF rows
  <2>1. AppendEventsLog(q, id, rows, m)
          = Put(q, id, Charged(Share(q, id), Share(q, id).bytes + m,
                               Share(q, id).reserved - Lesser(m, Share(q, id).reserved)),
                q.total + (m - Lesser(m, Share(q, id).reserved)), LogWritten(q.disk[id], rows, m))
    BY ONLY <1>5, AppendLogIs
  <2>2. r = Put(q, id, y, u, z)
    BY <1>3, <1>5, <2>1 DEF rows
  <2>. HIDE DEF y, u, z
  <2>. QED BY <1>5, <2>2
<1>7. c \in Nat /\ c <= m /\ c <= E.reserved /\ m - c \in Nat /\ v \in Nat /\ m - c <= m
  <2>. DEFINE w == E.reserved
  <2>1. w \in Nat /\ c = Lesser(m, w)
    BY <1>2
  <2>. HIDE DEF c, w
  <2>2. c \in Nat /\ c <= m /\ c <= w /\ m - c \in Nat /\ w - c \in Nat /\ m - c <= m
    BY <1>1, <2>1, Consumed
  <2>. QED BY <2>2 DEF w
<1>. HIDE DEF c
<1>8. y \in Entry /\ y.id = id /\ y.bytes = k /\ AccountedBytes(y) = k + v
  <2>1. Charge(e, k, v)
    BY <1>1, <1>3, <1>7 DEF Charge
  <2>. HIDE DEF v, k
  <2>. QED BY <1>3, <2>1, ChargedIs
<1>9. u \in Nat /\ AccountedBytes(E) = E.bytes + E.reserved
  BY <1>1, <1>3, <1>7 DEF AccountedBytes
<1>10. AccountedBytes(y) <= AccountedBytes(E) + g
       /\ u + AccountedBytes(E) = p.total + AccountedBytes(y)
  <2>. DEFINE A == AccountedBytes(E)
              B == AccountedBytes(y)
              f == E.bytes
              w == E.reserved
              o == p.total
  <2>1. /\ B = k + v /\ A = f + w /\ k = b + m /\ v = w - c /\ u = t + (m - c)
        /\ b + old = f + 2 * n /\ t + old = o + 2 * n /\ 2 * n + m <= g + old
        /\ c \in Nat /\ c <= m /\ c <= w /\ b \in Nat /\ t \in Nat /\ m \in Nat /\ n \in Nat
        /\ old \in Nat /\ f \in Nat /\ w \in Nat /\ o \in Nat /\ g \in Nat
    BY <1>1, <1>2, <1>3, <1>4, <1>7, <1>8, <1>9
  <2>. HIDE DEF A, B, f, w, o, u, v, k
  <2>2. B <= A + g /\ u + A = o + B
    BY ONLY <2>1
  <2>. QED BY <2>2 DEF A, B, o
<1>11. /\ row \in LogRow /\ d.log \in Seq(LogRow) /\ d.history \in Seq(Piece)
       /\ rows \in Seq(LogRow) /\ d.log \o rows = Append(d.log, row)
  <2>1. d.log \in Seq(LogRow) /\ d.history \in Seq(Piece)
    BY <1>2, DirParts
  <2>2. Len(d.history) + 1 \in Nat
    BY <2>1
  <2>3. row \in LogRow
    BY <2>2 DEF LogRow
  <2>. QED BY <2>1, <2>3, OneRow
<1>. HIDE DEF rows
<1>12. z \in Dir /\ FilesOf(z) = FilesOf(x) + m /\ z.hasLog /\ z.log = x.log \o rows
       /\ z.text = x.text /\ z.history = x.history /\ z.torn = x.torn /\ z.gone = x.gone
  <2>1. Rows(x, rows, m) /\ z = LogWritten(x, rows, m)
    BY <1>1, <1>3, <1>11 DEF Rows
  <2>. HIDE DEF z
  <2>. QED BY ONLY <2>1, LogFiles
<1>13. IndexFits(z)
  <2>1. IndexedAs(d.log, Total(d.text), Len(d.history))
    BY <1>2, IndexedIs DEF IndexFits
  <2>2. row.row = "I" /\ row.image = Len(d.history) + 1
    OBVIOUS
  <2>. DEFINE j == Len(d.history)
              a == Total(d.text)
              l == d.log
  <2>3. IndexedAs(Append(l, row), a, j + 1)
    <3>1. l \in Seq(LogRow) /\ IndexedAs(l, a, j) /\ row \in LogRow /\ row.row = "I" /\ row.image = j + 1
      BY <1>11, <2>1, <2>2
    <3>. HIDE DEF j, a, l
    <3>. QED BY ONLY <3>1, IndexRow
  <2>4. z.log = Append(l, row) /\ Total(z.text) = a /\ Len(z.history) = j + 1
    BY <1>3, <1>11, <1>12
  <2>5. Indexed(z)
    <3>. HIDE DEF z, j, a, l
    <3>. QED BY ONLY <2>3, <2>4, IndexedIs
  <2>. HIDE DEF z
  <2>. QED BY <1>2, <1>3, <1>12, <2>5 DEF IndexFits, Intact
<1>14. y.bytes = FilesOf(z)
  BY <1>3, <1>8, <1>12
<1>. HIDE DEF y, u, v, k, z
<1>15. Wrote(p, r, id, z)
  BY ONLY <1>1, <1>6, <1>8, <1>9, <1>10, <1>12, <1>13, <1>14, GrowKeeps DEF E
<1>. QED BY <1>15 DEF z, rows

(* A write that failed: its directory is torn, and no longer accounted     *)
(* for, but keeps its quota and lists nothing that is not there.           *)
Spoilt(d) == d \in Dir /\ FilesOf(d) <= MaxBundleBytes /\ PartlyIndexed(d)
TornDir(d) == [d EXCEPT !.torn = TRUE]
(* A torn directory holds what it held before.                             *)
LEMMA TornDirIs ==
  ASSUME NEW d, Spoilt(d), NEW x, x = TornDir(d)
  PROVE  x \in Dir /\ x.torn /\ FilesOf(x) <= MaxBundleBytes /\ PartlyIndexed(x)
<1>1. d \in Dir
  BY DEF Spoilt
<1>2. x \in Dir
  BY <1>1 DEF Dir, TornDir
<1>3. /\ x.text = d.text /\ x.history = d.history /\ x.alias = d.alias /\ x.log = d.log
      /\ x.logBytes = d.logBytes /\ x.torn
  BY <1>1 DEF Dir, TornDir
<1>4. FilesOf(x) = FilesOf(d)
  BY <1>3 DEF FilesOf
<1>5. PartlyIndexed(x) <=> PartlyIndexed(d)
  BY <1>3 DEF PartlyIndexed
<1>. QED BY <1>2, <1>3, <1>4, <1>5 DEF Spoilt

(* A torn directory keeps the store sound, before the bytes are charged ...*)
LEMMA TornKeeps ==
  ASSUME NEW p, NEW id, NEW g, Room(p, id, g), NEW d, Spoilt(d),
         NEW r, r = WithFiles(p, id, TornDir(d))
  PROVE  StoreOK(r) /\ \A prev : Follows(p, prev, id) => Follows(r, prev, id)
<1>. DEFINE e == Share(p, id)
            x == TornDir(d)
            t == p.total
<1>1. /\ p \in StoreType /\ Has(p, id) /\ e \in Entry /\ e.id = id /\ t \in Nat
      /\ e.bytes \in Nat /\ e.reserved \in Nat
  BY RoomParts
<1>2. x \in Dir /\ x.torn /\ FilesOf(x) <= MaxBundleBytes /\ PartlyIndexed(x)
  BY TornDirIs
<1>3. r = Put(p, id, e, t, x)
  BY <1>1, WithFilesIs
<1>4. StoreOK(p) /\ Stored(p, id)
  BY DEF Room
<1>5. AccountedBytes(e) <= MaxBundleBytes /\ t <= MaxTotalBytes
  BY <1>4, PositionIs DEF EntryOK, StoreOK
<1>. HIDE DEF x
<1>6. EntryOK(e, x)
  BY <1>2, <1>5 DEF EntryOK
<1>. HIDE DEF t
<1>7. t + AccountedBytes(Share(p, id)) = p.total + AccountedBytes(e)
  BY DEF t
<1>. QED BY ONLY <1>1, <1>2, <1>3, <1>4, <1>5, <1>6, <1>7, PutKeeps

(* ... and after.                                                          *)
LEMMA TornChargedKeeps ==
  ASSUME NEW p, NEW id, NEW g, Room(p, id, g), NEW d, Spoilt(d), NEW plus \in Nat, NEW less \in Nat,
         less <= Share(p, id).bytes + plus, plus <= g + less,
         NEW r, r = WithFiles(RecordBytes(p, id, plus, less), id, TornDir(d))
  PROVE  StoreOK(r) /\ \A prev : Follows(p, prev, id) => Follows(r, prev, id)
<1>. DEFINE E == Share(p, id)
            b == Minus(E.bytes + plus, less)
            e == Charged(E, b, E.reserved)
            x == TornDir(d)
            t == Minus(p.total + plus, less)
<1>1. /\ p \in StoreType /\ Has(p, id) /\ E \in Entry /\ E.id = id /\ p.total \in Nat
      /\ E.bytes \in Nat /\ E.reserved \in Nat /\ E.bytes + E.reserved <= p.total
  BY RoomParts
<1>2. x \in Dir /\ x.torn /\ FilesOf(x) <= MaxBundleBytes /\ PartlyIndexed(x)
  BY TornDirIs
<1>3. r = Put(p, id, e, t, x)
  BY <1>1, ChargedFiles
<1>4. /\ StoreOK(p) /\ Stored(p, id) /\ g \in Nat
      /\ AccountedBytes(E) + g <= MaxBundleBytes /\ p.total + g <= MaxTotalBytes
  BY DEF Room
<1>5. b \in Nat /\ t \in Nat /\ b + less = E.bytes + plus /\ t + less = p.total + plus
  <2>1. less <= E.bytes + plus
    OBVIOUS
  <2>. HIDE DEF E
  <2>. QED BY <1>1, <2>1 DEF Minus
<1>6. e \in Entry /\ e.id = id /\ AccountedBytes(e) = b + E.reserved
  <2>1. Charge(E, b, E.reserved)
    BY <1>1, <1>5 DEF Charge
  <2>. HIDE DEF b, E
  <2>. QED BY <1>1, <2>1, ChargedIs
<1>7. AccountedBytes(E) = E.bytes + E.reserved
  BY DEF AccountedBytes
<1>. HIDE DEF x, b, t, e, E
<1>8. /\ AccountedBytes(e) <= MaxBundleBytes /\ t <= MaxTotalBytes
      /\ t + AccountedBytes(E) = p.total + AccountedBytes(e)
  <2>. DEFINE A == AccountedBytes(E)
              B == AccountedBytes(e)
              f == E.bytes
              w == E.reserved
              o == p.total
  <2>1. /\ B = b + w /\ A = f + w /\ b + less = f + plus /\ t + less = o + plus
        /\ A + g <= MaxBundleBytes /\ o + g <= MaxTotalBytes /\ plus <= g + less
        /\ f \in Nat /\ w \in Nat /\ o \in Nat /\ g \in Nat /\ b \in Nat /\ t \in Nat
        /\ plus \in Nat /\ less \in Nat /\ MaxBundleBytes \in Nat /\ MaxTotalBytes \in Nat
    BY <1>1, <1>4, <1>5, <1>6, <1>7, QuotaNumbers
  <2>. HIDE DEF A, B, f, w, o
  <2>2. B <= MaxBundleBytes /\ t <= MaxTotalBytes /\ t + A = o + B
    BY ONLY <2>1
  <2>. QED BY <2>2 DEF A, B, o
<1>9. EntryOK(e, x)
  BY <1>2, <1>8 DEF EntryOK
<1>. QED BY ONLY <1>1, <1>2, <1>3, <1>4, <1>5, <1>6, <1>8, <1>9, PutKeeps DEF E

(* What a cut write leaves is less than all of it.                         *)
LEMMA CutIs ==
  ASSUME NEW io, io.cut \in Nat, NEW n \in Nat
  PROVE  CutOf(io, n) \in Nat /\ CutOf(io, n) <= n
BY DEF CutOf, Lesser, Minus

(* A directory with room for k more bytes in its quota, whose index lists   *)
(* nothing that is not there.                                              *)
Bears(d, k) ==
    /\ d \in Dir /\ k \in Nat /\ FilesOf(d) + k <= MaxBundleBytes
    /\ \E c \in Nat, m \in Nat : IndexedAs(d.log, c, m) /\ c <= Total(d.text) /\ m <= Len(d.history)

(* The numbers of a directory.                                             *)
LEMMA DirNumbers ==
  ASSUME NEW d \in Dir PROVE FilesOf(d) \in Nat /\ Total(d.text) \in Nat /\ Len(d.history) \in Nat
<1>. DEFINE l == d.text
<1>1. l \in Seq(Piece) /\ d.history \in Seq(Piece)
  BY DirParts
<1>. HIDE DEF l
<1>2. Total(l) \in Nat
  BY ONLY <1>1, PiecesType
<1>3. FilesOf(d) \in Nat
  BY FilesType
<1>. QED BY <1>1, <1>2, <1>3 DEF l

(* The bytes granted fit in the directory, and so do those reserved.       *)
LEMMA RoomBears ==
  ASSUME NEW p, NEW id, NEW g, Room(p, id, g), NEW d, d = p.disk[id],
         NEW k, k = Share(p, id).reserved + g
  PROVE  Bears(d, k) /\ g <= k
<1>. DEFINE e == Share(p, id)
            f == FilesOf(d)
            v == e.reserved
<1>1. /\ d \in Dir /\ e.bytes \in Nat /\ v \in Nat /\ e.bytes = f /\ IndexFits(d)
  BY RoomParts
<1>2. g \in Nat /\ f + v + g <= MaxBundleBytes
  BY <1>1 DEF Room, AccountedBytes
<1>3. k \in Nat /\ f + k <= MaxBundleBytes /\ g <= k
  <2>1. k = v + g /\ f \in Nat /\ v \in Nat /\ MaxBundleBytes \in Nat
    BY <1>1, QuotaNumbers
  <2>. HIDE DEF e, f, v
  <2>. QED BY ONLY <1>2, <2>1
<1>4. Total(d.text) \in Nat /\ Len(d.history) \in Nat
  BY <1>1, DirNumbers
<1>5. CASE d.hasLog
  <2>1. IndexedAs(d.log, Total(d.text), Len(d.history))
    BY <1>1, <1>5, IndexedIs DEF IndexFits
  <2>. QED BY <1>1, <1>3, <1>4, <2>1 DEF Bears
<1>6. CASE ~d.hasLog
  <2>1. d.log = <<>>
    BY <1>1, <1>6 DEF IndexFits
  <2>2. IndexedAs(d.log, 0, 0)
    BY <2>1, IndexNone
  <2>. QED BY <1>1, <1>3, <1>4, <2>2 DEF Bears
<1>. QED BY <1>5, <1>6

(* Such a directory may be torn.                                           *)
LEMMA BearsSpoilt ==
  ASSUME NEW d, NEW k, Bears(d, k) PROVE Spoilt(d)
<1>1. d \in Dir /\ k \in Nat /\ FilesOf(d) + k <= MaxBundleBytes
  BY DEF Bears
<1>2. FilesOf(d) <= MaxBundleBytes
  <2>. DEFINE f == FilesOf(d)
  <2>1. f \in Nat /\ MaxBundleBytes \in Nat
    BY <1>1, DirNumbers, QuotaNumbers
  <2>. HIDE DEF f
  <2>2. f <= MaxBundleBytes
    BY <1>1, <2>1 DEF f
  <2>. QED BY <2>2 DEF f
<1>3. PICK c \in Nat, m \in Nat : IndexedAs(d.log, c, m) /\ c <= Total(d.text) /\ m <= Len(d.history)
  BY DEF Bears
<1>4. PartlyIndexed(d)
  BY <1>3, PartlyIs
<1>. QED BY <1>1, <1>2, <1>4 DEF Spoilt

(* A directory with at least what another one holds, whose log is the same, *)
(* and c bytes more.                                                       *)
LEMMA BearsMore ==
  ASSUME NEW d, NEW k, Bears(d, k), NEW c \in Nat, NEW less \in Nat, c <= k + less,
         NEW x \in Dir, FilesOf(x) + less = FilesOf(d) + c, x.log = d.log,
         Total(d.text) <= Total(x.text), Len(d.history) <= Len(x.history)
  PROVE  Bears(x, (k + less) - c)
<1>1. d \in Dir /\ k \in Nat /\ FilesOf(d) + k <= MaxBundleBytes
  BY DEF Bears
<1>2. PICK h \in Nat, m \in Nat : IndexedAs(d.log, h, m) /\ h <= Total(d.text) /\ m <= Len(d.history)
  BY DEF Bears
<1>3. /\ FilesOf(d) \in Nat /\ Total(d.text) \in Nat /\ Len(d.history) \in Nat
      /\ FilesOf(x) \in Nat /\ Total(x.text) \in Nat /\ Len(x.history) \in Nat
  BY <1>1, DirNumbers
<1>4. IndexedAs(x.log, h, m) /\ h <= Total(x.text) /\ m <= Len(x.history)
  BY <1>2, <1>3
<1>5. (k + less) - c \in Nat /\ FilesOf(x) + ((k + less) - c) <= MaxBundleBytes
  BY <1>1, <1>3, QuotaNumbers
<1>. QED BY <1>4, <1>5 DEF Bears

(* Bytes at the end of the index that are no row.                          *)
LEMMA BearsLog ==
  ASSUME NEW d, NEW k, Bears(d, k), NEW c \in Nat, c <= k, NEW x, x = LogFile(d, <<>>, c)
  PROVE  Spoilt(x)
<1>. DEFINE none == <<>>
<1>1. d \in Dir /\ k \in Nat /\ none \in Seq(LogRow) /\ x = LogFile(d, none, c)
  BY DEF Bears
<1>2. d.log \in Seq(LogRow)
  BY <1>1, DirParts
<1>3. d.log \o none = d.log
  BY <1>2
<1>. HIDE DEF none
<1>4. x = LogWritten(d, none, c)
  BY <1>1, LogFileIs
<1>5. Rows(d, none, c)
  BY <1>1 DEF Rows
<1>6. x \in Dir /\ FilesOf(x) = FilesOf(d) + c /\ x.log = d.log /\ x.text = d.text /\ x.history = d.history
  BY <1>3, <1>4, <1>5, LogFiles
<1>7. /\ FilesOf(d) \in Nat /\ Total(d.text) \in Nat /\ Len(d.history) \in Nat
      /\ FilesOf(x) \in Nat
  BY <1>1, <1>6, DirNumbers
<1>. DEFINE zero == 0
<1>8. zero \in Nat /\ c <= k + zero /\ FilesOf(x) + zero = FilesOf(d) + c
  BY <1>1, <1>6, <1>7
<1>9. Total(d.text) <= Total(x.text) /\ Len(d.history) <= Len(x.history)
  BY <1>6, <1>7
<1>. HIDE DEF zero
<1>10. Bears(x, (k + zero) - c)
  BY ONLY Bears(d, k), c \in Nat, <1>6, <1>8, <1>9, BearsMore
<1>. QED BY <1>10, BearsSpoilt

(* The start of a late index: the rows of it that are whole list a part of *)
(* what is there.                                                          *)
LEMMA BearsIndex ==
  ASSUME NEW d, NEW k, Bears(d, k), NEW c \in Nat, c <= k, NEW rows \in Seq(LogRow),
         NEW h \in Nat, NEW m \in Nat, IndexedAs(d.log \o rows, h, m), h <= Total(d.text), m <= Len(d.history),
         NEW x, x = LogFile(d, rows, c)
  PROVE  Spoilt(x)
<1>1. d \in Dir /\ k \in Nat /\ FilesOf(d) + k <= MaxBundleBytes
  BY DEF Bears
<1>2. x = LogWritten(d, rows, c)
  BY <1>1, LogFileIs
<1>3. Rows(d, rows, c)
  BY <1>1 DEF Rows
<1>4. /\ x \in Dir /\ FilesOf(x) = FilesOf(d) + c /\ x.log = d.log \o rows /\ x.text = d.text
      /\ x.history = d.history
  BY <1>2, <1>3, LogFiles
<1>5. PartlyIndexed(x)
  <2>1. IndexedAs(x.log, h, m) /\ h <= Total(x.text) /\ m <= Len(x.history)
    BY <1>4
  <2>. QED BY <2>1, PartlyIs
<1>6. FilesOf(x) <= MaxBundleBytes
  <2>. DEFINE f == FilesOf(d)
              g == FilesOf(x)
  <2>1. f \in Nat /\ MaxBundleBytes \in Nat /\ g = f + c /\ f + k <= MaxBundleBytes
    BY <1>1, <1>4, DirNumbers, QuotaNumbers
  <2>. HIDE DEF f, g
  <2>2. g <= MaxBundleBytes
    BY <1>1, <2>1
  <2>. QED BY <2>2 DEF g
<1>. QED BY <1>4, <1>5, <1>6 DEF Spoilt

(* The start of a text.                                                    *)
LEMMA BearsText ==
  ASSUME NEW d, NEW k, Bears(d, k), NEW c \in Nat, c <= k, NEW item, item.id \in Nat,
         NEW x, x = TextFile(d, item, c)
  PROVE  Bears(x, k - c)
<1>. DEFINE piece == [item |-> item.id, n |-> c]
<1>1. d \in Dir /\ k \in Nat
  BY DEF Bears
<1>2. piece \in Piece /\ piece.n = c
  BY DEF Piece
<1>3. x = TextWritten(d, piece)
  BY <1>1, TextFileIs
<1>. HIDE DEF piece
<1>4. /\ x \in Dir /\ FilesOf(x) = FilesOf(d) + c /\ x.log = d.log
      /\ Total(x.text) = Total(d.text) + c /\ x.history = d.history
  BY <1>1, <1>2, <1>3, TextFiles
<1>5. /\ FilesOf(d) \in Nat /\ Total(d.text) \in Nat /\ Len(d.history) \in Nat
      /\ FilesOf(x) \in Nat
  BY <1>1, <1>4, DirNumbers
<1>. DEFINE zero == 0
<1>6. zero \in Nat /\ c <= k + zero /\ FilesOf(x) + zero = FilesOf(d) + c /\ (k + zero) - c = k - c
  BY <1>1, <1>4, <1>5
<1>7. Total(d.text) <= Total(x.text) /\ Len(d.history) <= Len(x.history)
  BY <1>4, <1>5
<1>. HIDE DEF zero
<1>8. Bears(x, (k + zero) - c)
  BY ONLY Bears(d, k), c \in Nat, <1>4, <1>6, <1>7, BearsMore
<1>. QED BY <1>6, <1>8

(* The start of the history file of an image.                              *)
LEMMA BearsHistory ==
  ASSUME NEW d, NEW k, Bears(d, k), NEW c \in Nat, c <= k, NEW item, item.id \in Nat,
         NEW x, x = HistoryFile(d, item, c)
  PROVE  Spoilt(x)
<1>. DEFINE piece == [item |-> item.id, n |-> c]
<1>1. d \in Dir /\ k \in Nat
  BY DEF Bears
<1>2. piece \in Piece /\ piece.n = c
  BY DEF Piece
<1>3. x = ImageWritten(d, piece, d.alias)
  BY <1>1, HistoryFileIs
<1>. HIDE DEF piece
<1>4. /\ x \in Dir /\ FilesOf(x) = FilesOf(d) + c /\ x.log = d.log
      /\ x.text = d.text /\ Len(x.history) = Len(d.history) + 1
  BY <1>1, <1>2, <1>3, HistoryFiles
<1>5. /\ FilesOf(d) \in Nat /\ Total(d.text) \in Nat /\ Len(d.history) \in Nat
      /\ FilesOf(x) \in Nat
  BY <1>1, <1>4, DirNumbers
<1>. DEFINE zero == 0
<1>6. zero \in Nat /\ c <= k + zero /\ FilesOf(x) + zero = FilesOf(d) + c
  BY <1>1, <1>4, <1>5
<1>7. Total(d.text) <= Total(x.text) /\ Len(d.history) <= Len(x.history)
  BY <1>4, <1>5
<1>. HIDE DEF zero
<1>8. Bears(x, (k + zero) - c)
  BY ONLY Bears(d, k), c \in Nat, <1>4, <1>6, <1>7, BearsMore
<1>. QED BY <1>8, BearsSpoilt

(* The history file of an image and the start of its alias.                *)
LEMMA BearsImage ==
  ASSUME NEW d, NEW k, Bears(d, k), NEW n \in Nat, NEW c \in Nat, NEW number,
         NEW old, old = OldAlias(d.alias, number), n + c <= k + old, NEW item, item.id \in Nat,
         NEW x, x = AliasFile(HistoryFile(d, item, n), number, c)
  PROVE  Bears(x, (k + old) - (n + c)) /\ old \in Nat
<1>. DEFINE piece == [item |-> item.id, n |-> n]
            new == n + c
<1>1. d \in Dir /\ k \in Nat
  BY DEF Bears
<1>2. piece \in Piece /\ piece.n = n
  BY DEF Piece
<1>3. x = AliasFile(ImageWritten(d, piece, d.alias), number, c)
  BY <1>1, HistoryFileIs
<1>. HIDE DEF piece
<1>4. x = ImageWritten(d, piece, NewAlias(d.alias, number, c))
  BY <1>1, <1>3, AliasFileIs
<1>5. ImageAt(d, piece, c)
  BY <1>1, <1>2 DEF ImageAt
<1>6. ImageKept(d, x, piece, c, old)
  BY ONLY <1>4, <1>5, old = OldAlias(d.alias, number), ImageFiles
<1>7. /\ x \in Dir /\ old \in Nat /\ x.log = d.log /\ x.text = d.text
      /\ Len(x.history) = Len(d.history) + 1 /\ FilesOf(x) + old = FilesOf(d) + n + c
  BY <1>2, <1>6 DEF ImageKept
<1>8. /\ FilesOf(d) \in Nat /\ Total(d.text) \in Nat /\ Len(d.history) \in Nat
      /\ FilesOf(x) \in Nat
  BY <1>1, <1>7, DirNumbers
<1>9. new \in Nat /\ new <= k + old /\ FilesOf(x) + old = FilesOf(d) + new
  BY <1>7, <1>8
<1>10. Total(d.text) <= Total(x.text) /\ Len(d.history) <= Len(x.history)
  BY <1>7, <1>8
<1>. HIDE DEF new
<1>11. Bears(x, (k + old) - new)
  BY ONLY Bears(d, k), <1>7, <1>9, <1>10, BearsMore
<1>. QED BY <1>7, <1>11 DEF new

-----------------------------------------------------------------------------
(***************************************************************************)
(* Appends.                                                                *)
(***************************************************************************)

(* The fields of a bundle.                                                 *)
LEMMA BundleParts ==
  ASSUME NEW b \in BundleType
  PROVE  /\ b.id \in Nat /\ b.images \in Nat /\ b.current \in Nat /\ b.text \in Nat /\ b.preIndex \in Nat
         /\ b.omitted \in BOOLEAN /\ b.omittedVisible \in BOOLEAN /\ b.recorded \in BOOLEAN
         /\ b.disclosed \in BOOLEAN
BY DEF BundleType

(* A change of what a bundle remembers.                                    *)
LEMMA SetText ==
  ASSUME NEW b \in BundleType, NEW v \in Nat, NEW c, c = [b EXCEPT !.text = v]
  PROVE  /\ c \in BundleType /\ c.id = b.id /\ c.text = v /\ c.images = b.images
         /\ c.current = b.current /\ c.preIndex = b.preIndex
BY DEF BundleType

(* A bundle with another count of images before the index.                 *)
LEMMA SetPreIndex ==
  ASSUME NEW b \in BundleType, NEW v \in Nat, NEW c, c = [b EXCEPT !.preIndex = v]
  PROVE  /\ c \in BundleType /\ c.id = b.id /\ c.text = b.text /\ c.images = b.images
         /\ c.current = b.current /\ c.preIndex = v
BY DEF BundleType

Counts(b, i, k, v) == b \in BundleType /\ i \in Nat /\ k \in Nat /\ v \in Nat
WithImages(b, i, k, v) == [b EXCEPT !.images = i, !.current = k, !.preIndex = v]
(* A bundle with other image counts.                                       *)
LEMMA SetImages ==
  ASSUME NEW b, NEW i, NEW k, NEW v, Counts(b, i, k, v), NEW c, c = WithImages(b, i, k, v)
  PROVE  /\ c \in BundleType /\ c.id = b.id /\ c.text = b.text /\ c.images = i
         /\ c.current = k /\ c.preIndex = v
BY DEF BundleType, WithImages, Counts

SameCounts(b, c) ==
    /\ c \in BundleType /\ c.id = b.id /\ c.text = b.text /\ c.images = b.images
    /\ c.current = b.current /\ c.preIndex = b.preIndex

(* A bundle that recorded its omission counts the same.                    *)
LEMMA SetRecorded ==
  ASSUME NEW b \in BundleType, NEW v \in BOOLEAN, NEW c, c = [b EXCEPT !.recorded = v]
  PROVE  SameCounts(b, c)
BY DEF BundleType, SameCounts

(* A bundle that was disclosed counts the same.                            *)
LEMMA SetDisclosed ==
  ASSUME NEW b \in BundleType, NEW v \in BOOLEAN, NEW c, c = [b EXCEPT !.disclosed = v]
  PROVE  SameCounts(b, c) /\ c.disclosed = v
BY DEF BundleType, SameCounts

(* A bundle that omitted something counts the same.                        *)
LEMMA SetOmitted ==
  ASSUME NEW b \in BundleType, NEW v \in BOOLEAN, NEW w \in BOOLEAN,
         NEW c, c = [b EXCEPT !.omitted = v, !.omittedVisible = w]
  PROVE  SameCounts(b, c)
BY DEF BundleType, SameCounts

(* A bundle that counts the same tracks the same directory.                *)
LEMMA TracksSame ==
  ASSUME NEW b, NEW c, SameCounts(b, c), NEW d, Tracks(b, d) PROVE Tracks(c, d)
BY DEF SameCounts, Tracks

(* The fields of an append in progress.                                    *)
LEMMA RunParts ==
  ASSUME NEW a \in RunType
  PROVE  /\ a.s \in StoreType /\ a.b \in BundleType /\ a.kept \in Seq(Item) /\ a.order \in Seq(Nat)
         /\ a.dropped \in BOOLEAN /\ a.err \in BOOLEAN
         /\ a = [s |-> a.s, b |-> a.b, kept |-> a.kept, order |-> a.order,
                 dropped |-> a.dropped, err |-> a.err]
<1>1. /\ a.s \in StoreType /\ a.b \in BundleType /\ a.kept \in Seq(Item) /\ a.order \in Seq(Nat)
      /\ a.dropped \in BOOLEAN /\ a.err \in BOOLEAN
  BY DEF RunType
<1>2. a = [s |-> a.s, b |-> a.b, kept |-> a.kept, order |-> a.order,
           dropped |-> a.dropped, err |-> a.err]
  BY Zenon DEF RunType
<1>. QED BY <1>1, <1>2

RunPieces(s, b, kept, ord, dropped, err, prev, id) ==
    /\ StoreOK(s) /\ b \in BundleType /\ kept \in Seq(Item) /\ ord \in Seq(Nat)
    /\ dropped \in BOOLEAN /\ err \in BOOLEAN /\ b.id = id /\ Follows(s, prev, id)

(* An append in progress, from its fields.                                 *)
LEMMA RunMade ==
  ASSUME NEW s, NEW b, NEW k, NEW o, NEW x, NEW e, NEW prev, NEW id,
         RunPieces(s, b, k, o, x, e, prev, id),
         NEW r, r = [s |-> s, b |-> b, kept |-> k, order |-> o, dropped |-> x, err |-> e]
  PROVE  /\ RunBase(r, prev, id) /\ r.s = s /\ r.b = b /\ r.kept = k /\ r.order = o
         /\ r.dropped = x /\ r.err = e
<1>1. s \in StoreType
  BY DEF RunPieces, StoreOK
<1>2. r \in RunType
  BY <1>1 DEF RunType, RunPieces
<1>. QED BY <1>2 DEF RunBase, RunPieces

(* The record of an append after a change of some of its fields.           *)
WithBundle(a, s, b) == [a EXCEPT !.s = s, !.b = b]
WithBundleErr(a, s, b, e) == [a EXCEPT !.s = s, !.b = b, !.err = e]
WithText(a, s, b, x) == [a EXCEPT !.s = s, !.b = b, !.dropped = x]
WithDropped(a, s, x) == [a EXCEPT !.s = s, !.dropped = x]
WithKeptDropped(a, k, x) == [a EXCEPT !.kept = k, !.dropped = x]
WithKept(a, k, o) == [a EXCEPT !.kept = k, !.order = o]

(* An append with another store.                                           *)
LEMMA RunStore ==
  ASSUME NEW a, NEW prev, NEW id, RunBase(a, prev, id), NEW s,
         StoreOK(s), Follows(s, prev, id), NEW r, r = [a EXCEPT !.s = s]
  PROVE  /\ RunBase(r, prev, id) /\ r.s = s /\ r.b = a.b /\ r.kept = a.kept
         /\ r.order = a.order /\ r.dropped = a.dropped /\ r.err = a.err
<1>. DEFINE A1 == a.s
            A2 == a.b
            A3 == a.kept
            A4 == a.order
            A5 == a.dropped
            A6 == a.err
<1>1. a \in RunType /\ StoreOK(A1) /\ A2.id = id /\ Follows(A1, prev, id)
  BY DEF RunBase
<1>2. /\ A2 \in BundleType /\ A3 \in Seq(Item) /\ A4 \in Seq(Nat) /\ A5 \in BOOLEAN /\ A6 \in BOOLEAN
      /\ a = [s |-> A1, b |-> A2, kept |-> A3, order |-> A4, dropped |-> A5, err |-> A6]
  BY <1>1, RunParts
<1>. HIDE DEF A1, A2, A3, A4, A5, A6
<1>3. r = [s |-> s, b |-> A2, kept |-> A3, order |-> A4, dropped |-> A5, err |-> A6]
  BY ONLY <1>2, r = [a EXCEPT !.s = s]
<1>4. RunPieces(s, A2, A3, A4, A5, A6, prev, id)
  BY <1>1, <1>2 DEF RunPieces
<1>. QED BY ONLY <1>3, <1>4, RunMade DEF A1, A2, A3, A4, A5, A6

(* An append with another bundle.                                          *)
LEMMA RunBundle ==
  ASSUME NEW a, NEW prev, NEW id, RunBase(a, prev, id), NEW b,
         b \in BundleType, b.id = id, NEW r, r = [a EXCEPT !.b = b]
  PROVE  /\ RunBase(r, prev, id) /\ r.s = a.s /\ r.b = b /\ r.kept = a.kept
         /\ r.order = a.order /\ r.dropped = a.dropped /\ r.err = a.err
<1>. DEFINE A1 == a.s
            A2 == a.b
            A3 == a.kept
            A4 == a.order
            A5 == a.dropped
            A6 == a.err
<1>1. a \in RunType /\ StoreOK(A1) /\ A2.id = id /\ Follows(A1, prev, id)
  BY DEF RunBase
<1>2. /\ A2 \in BundleType /\ A3 \in Seq(Item) /\ A4 \in Seq(Nat) /\ A5 \in BOOLEAN /\ A6 \in BOOLEAN
      /\ a = [s |-> A1, b |-> A2, kept |-> A3, order |-> A4, dropped |-> A5, err |-> A6]
  BY <1>1, RunParts
<1>. HIDE DEF A1, A2, A3, A4, A5, A6
<1>3. r = [s |-> A1, b |-> b, kept |-> A3, order |-> A4, dropped |-> A5, err |-> A6]
  BY ONLY <1>2, r = [a EXCEPT !.b = b]
<1>4. RunPieces(A1, b, A3, A4, A5, A6, prev, id)
  BY <1>1, <1>2 DEF RunPieces
<1>. QED BY ONLY <1>3, <1>4, RunMade DEF A1, A2, A3, A4, A5, A6

(* An append with another store and bundle.                                *)
LEMMA RunStoreBundle ==
  ASSUME NEW a, NEW prev, NEW id, RunBase(a, prev, id), NEW s, NEW b,
         StoreOK(s), Follows(s, prev, id), b \in BundleType, b.id = id, NEW r, r = WithBundle(a, s, b)
  PROVE  /\ RunBase(r, prev, id) /\ r.s = s /\ r.b = b /\ r.kept = a.kept
         /\ r.order = a.order /\ r.dropped = a.dropped /\ r.err = a.err
<1>. DEFINE A1 == a.s
            A2 == a.b
            A3 == a.kept
            A4 == a.order
            A5 == a.dropped
            A6 == a.err
<1>1. a \in RunType /\ StoreOK(A1) /\ A2.id = id /\ Follows(A1, prev, id)
  BY DEF RunBase
<1>2. /\ A2 \in BundleType /\ A3 \in Seq(Item) /\ A4 \in Seq(Nat) /\ A5 \in BOOLEAN /\ A6 \in BOOLEAN
      /\ a = [s |-> A1, b |-> A2, kept |-> A3, order |-> A4, dropped |-> A5, err |-> A6]
  BY <1>1, RunParts
<1>. HIDE DEF A1, A2, A3, A4, A5, A6
<1>3. r = [s |-> s, b |-> b, kept |-> A3, order |-> A4, dropped |-> A5, err |-> A6]
  BY ONLY <1>2, r = WithBundle(a, s, b) DEF WithBundle
<1>4. RunPieces(s, b, A3, A4, A5, A6, prev, id)
  BY <1>1, <1>2 DEF RunPieces
<1>. QED BY ONLY <1>3, <1>4, RunMade DEF A1, A2, A3, A4, A5, A6

(* An append with another store, bundle and error flag.                    *)
LEMMA RunStoreBundleErr ==
  ASSUME NEW a, NEW prev, NEW id, RunBase(a, prev, id), NEW s, NEW b, NEW e,
         StoreOK(s), Follows(s, prev, id), b \in BundleType, b.id = id, e \in BOOLEAN, NEW r, r = WithBundleErr(a, s, b, e)
  PROVE  /\ RunBase(r, prev, id) /\ r.s = s /\ r.b = b /\ r.kept = a.kept
         /\ r.order = a.order /\ r.dropped = a.dropped /\ r.err = e
<1>. DEFINE A1 == a.s
            A2 == a.b
            A3 == a.kept
            A4 == a.order
            A5 == a.dropped
            A6 == a.err
<1>1. a \in RunType /\ StoreOK(A1) /\ A2.id = id /\ Follows(A1, prev, id)
  BY DEF RunBase
<1>2. /\ A2 \in BundleType /\ A3 \in Seq(Item) /\ A4 \in Seq(Nat) /\ A5 \in BOOLEAN /\ A6 \in BOOLEAN
      /\ a = [s |-> A1, b |-> A2, kept |-> A3, order |-> A4, dropped |-> A5, err |-> A6]
  BY <1>1, RunParts
<1>. HIDE DEF A1, A2, A3, A4, A5, A6
<1>3. r = [s |-> s, b |-> b, kept |-> A3, order |-> A4, dropped |-> A5, err |-> e]
  BY ONLY <1>2, r = WithBundleErr(a, s, b, e) DEF WithBundleErr
<1>4. RunPieces(s, b, A3, A4, A5, e, prev, id)
  BY <1>1, <1>2 DEF RunPieces
<1>. QED BY ONLY <1>3, <1>4, RunMade DEF A1, A2, A3, A4, A5, A6

(* An append after a text.                                                 *)
LEMMA RunText ==
  ASSUME NEW a, NEW prev, NEW id, RunBase(a, prev, id), NEW s, NEW b, NEW x,
         StoreOK(s), Follows(s, prev, id), b \in BundleType, b.id = id, x \in BOOLEAN, NEW r, r = WithText(a, s, b, x)
  PROVE  /\ RunBase(r, prev, id) /\ r.s = s /\ r.b = b /\ r.kept = a.kept
         /\ r.order = a.order /\ r.dropped = x /\ r.err = a.err
<1>. DEFINE A1 == a.s
            A2 == a.b
            A3 == a.kept
            A4 == a.order
            A5 == a.dropped
            A6 == a.err
<1>1. a \in RunType /\ StoreOK(A1) /\ A2.id = id /\ Follows(A1, prev, id)
  BY DEF RunBase
<1>2. /\ A2 \in BundleType /\ A3 \in Seq(Item) /\ A4 \in Seq(Nat) /\ A5 \in BOOLEAN /\ A6 \in BOOLEAN
      /\ a = [s |-> A1, b |-> A2, kept |-> A3, order |-> A4, dropped |-> A5, err |-> A6]
  BY <1>1, RunParts
<1>. HIDE DEF A1, A2, A3, A4, A5, A6
<1>3. r = [s |-> s, b |-> b, kept |-> A3, order |-> A4, dropped |-> x, err |-> A6]
  BY ONLY <1>2, r = WithText(a, s, b, x) DEF WithText
<1>4. RunPieces(s, b, A3, A4, x, A6, prev, id)
  BY <1>1, <1>2 DEF RunPieces
<1>. QED BY ONLY <1>3, <1>4, RunMade DEF A1, A2, A3, A4, A5, A6

(* An append with another store that dropped something.                    *)
LEMMA RunStoreDropped ==
  ASSUME NEW a, NEW prev, NEW id, RunBase(a, prev, id), NEW s, NEW x,
         StoreOK(s), Follows(s, prev, id), x \in BOOLEAN, NEW r, r = WithDropped(a, s, x)
  PROVE  /\ RunBase(r, prev, id) /\ r.s = s /\ r.b = a.b /\ r.kept = a.kept
         /\ r.order = a.order /\ r.dropped = x /\ r.err = a.err
<1>. DEFINE A1 == a.s
            A2 == a.b
            A3 == a.kept
            A4 == a.order
            A5 == a.dropped
            A6 == a.err
<1>1. a \in RunType /\ StoreOK(A1) /\ A2.id = id /\ Follows(A1, prev, id)
  BY DEF RunBase
<1>2. /\ A2 \in BundleType /\ A3 \in Seq(Item) /\ A4 \in Seq(Nat) /\ A5 \in BOOLEAN /\ A6 \in BOOLEAN
      /\ a = [s |-> A1, b |-> A2, kept |-> A3, order |-> A4, dropped |-> A5, err |-> A6]
  BY <1>1, RunParts
<1>. HIDE DEF A1, A2, A3, A4, A5, A6
<1>3. r = [s |-> s, b |-> A2, kept |-> A3, order |-> A4, dropped |-> x, err |-> A6]
  BY ONLY <1>2, r = WithDropped(a, s, x) DEF WithDropped
<1>4. RunPieces(s, A2, A3, A4, x, A6, prev, id)
  BY <1>1, <1>2 DEF RunPieces
<1>. QED BY ONLY <1>3, <1>4, RunMade DEF A1, A2, A3, A4, A5, A6

(* An append that dropped something.                                       *)
LEMMA RunDropped ==
  ASSUME NEW a, NEW prev, NEW id, RunBase(a, prev, id), NEW x,
         x \in BOOLEAN, NEW r, r = [a EXCEPT !.dropped = x]
  PROVE  /\ RunBase(r, prev, id) /\ r.s = a.s /\ r.b = a.b /\ r.kept = a.kept
         /\ r.order = a.order /\ r.dropped = x /\ r.err = a.err
<1>. DEFINE A1 == a.s
            A2 == a.b
            A3 == a.kept
            A4 == a.order
            A5 == a.dropped
            A6 == a.err
<1>1. a \in RunType /\ StoreOK(A1) /\ A2.id = id /\ Follows(A1, prev, id)
  BY DEF RunBase
<1>2. /\ A2 \in BundleType /\ A3 \in Seq(Item) /\ A4 \in Seq(Nat) /\ A5 \in BOOLEAN /\ A6 \in BOOLEAN
      /\ a = [s |-> A1, b |-> A2, kept |-> A3, order |-> A4, dropped |-> A5, err |-> A6]
  BY <1>1, RunParts
<1>. HIDE DEF A1, A2, A3, A4, A5, A6
<1>3. r = [s |-> A1, b |-> A2, kept |-> A3, order |-> A4, dropped |-> x, err |-> A6]
  BY ONLY <1>2, r = [a EXCEPT !.dropped = x]
<1>4. RunPieces(A1, A2, A3, A4, x, A6, prev, id)
  BY <1>1, <1>2 DEF RunPieces
<1>. QED BY ONLY <1>3, <1>4, RunMade DEF A1, A2, A3, A4, A5, A6

(* An append that kept another item.                                       *)
LEMMA RunKept ==
  ASSUME NEW a, NEW prev, NEW id, RunBase(a, prev, id), NEW k,
         k \in Seq(Item), NEW r, r = [a EXCEPT !.kept = k]
  PROVE  /\ RunBase(r, prev, id) /\ r.s = a.s /\ r.b = a.b /\ r.kept = k
         /\ r.order = a.order /\ r.dropped = a.dropped /\ r.err = a.err
<1>. DEFINE A1 == a.s
            A2 == a.b
            A3 == a.kept
            A4 == a.order
            A5 == a.dropped
            A6 == a.err
<1>1. a \in RunType /\ StoreOK(A1) /\ A2.id = id /\ Follows(A1, prev, id)
  BY DEF RunBase
<1>2. /\ A2 \in BundleType /\ A3 \in Seq(Item) /\ A4 \in Seq(Nat) /\ A5 \in BOOLEAN /\ A6 \in BOOLEAN
      /\ a = [s |-> A1, b |-> A2, kept |-> A3, order |-> A4, dropped |-> A5, err |-> A6]
  BY <1>1, RunParts
<1>. HIDE DEF A1, A2, A3, A4, A5, A6
<1>3. r = [s |-> A1, b |-> A2, kept |-> k, order |-> A4, dropped |-> A5, err |-> A6]
  BY ONLY <1>2, r = [a EXCEPT !.kept = k]
<1>4. RunPieces(A1, A2, k, A4, A5, A6, prev, id)
  BY <1>1, <1>2 DEF RunPieces
<1>. QED BY ONLY <1>3, <1>4, RunMade DEF A1, A2, A3, A4, A5, A6

(* An append that kept an item and dropped something.                      *)
LEMMA RunKeptDropped ==
  ASSUME NEW a, NEW prev, NEW id, RunBase(a, prev, id), NEW k, NEW x,
         k \in Seq(Item), x \in BOOLEAN, NEW r, r = WithKeptDropped(a, k, x)
  PROVE  /\ RunBase(r, prev, id) /\ r.s = a.s /\ r.b = a.b /\ r.kept = k
         /\ r.order = a.order /\ r.dropped = x /\ r.err = a.err
<1>. DEFINE A1 == a.s
            A2 == a.b
            A3 == a.kept
            A4 == a.order
            A5 == a.dropped
            A6 == a.err
<1>1. a \in RunType /\ StoreOK(A1) /\ A2.id = id /\ Follows(A1, prev, id)
  BY DEF RunBase
<1>2. /\ A2 \in BundleType /\ A3 \in Seq(Item) /\ A4 \in Seq(Nat) /\ A5 \in BOOLEAN /\ A6 \in BOOLEAN
      /\ a = [s |-> A1, b |-> A2, kept |-> A3, order |-> A4, dropped |-> A5, err |-> A6]
  BY <1>1, RunParts
<1>. HIDE DEF A1, A2, A3, A4, A5, A6
<1>3. r = [s |-> A1, b |-> A2, kept |-> k, order |-> A4, dropped |-> x, err |-> A6]
  BY ONLY <1>2, r = WithKeptDropped(a, k, x) DEF WithKeptDropped
<1>4. RunPieces(A1, A2, k, A4, x, A6, prev, id)
  BY <1>1, <1>2 DEF RunPieces
<1>. QED BY ONLY <1>3, <1>4, RunMade DEF A1, A2, A3, A4, A5, A6

(* An append that kept an item and retained it.                            *)
LEMMA RunKeptOrder ==
  ASSUME NEW a, NEW prev, NEW id, RunBase(a, prev, id), NEW k, NEW o,
         k \in Seq(Item), o \in Seq(Nat), NEW r, r = WithKept(a, k, o)
  PROVE  /\ RunBase(r, prev, id) /\ r.s = a.s /\ r.b = a.b /\ r.kept = k
         /\ r.order = o /\ r.dropped = a.dropped /\ r.err = a.err
<1>. DEFINE A1 == a.s
            A2 == a.b
            A3 == a.kept
            A4 == a.order
            A5 == a.dropped
            A6 == a.err
<1>1. a \in RunType /\ StoreOK(A1) /\ A2.id = id /\ Follows(A1, prev, id)
  BY DEF RunBase
<1>2. /\ A2 \in BundleType /\ A3 \in Seq(Item) /\ A4 \in Seq(Nat) /\ A5 \in BOOLEAN /\ A6 \in BOOLEAN
      /\ a = [s |-> A1, b |-> A2, kept |-> A3, order |-> A4, dropped |-> A5, err |-> A6]
  BY <1>1, RunParts
<1>. HIDE DEF A1, A2, A3, A4, A5, A6
<1>3. r = [s |-> A1, b |-> A2, kept |-> k, order |-> o, dropped |-> A5, err |-> A6]
  BY ONLY <1>2, r = WithKept(a, k, o) DEF WithKept
<1>4. RunPieces(A1, A2, k, o, A5, A6, prev, id)
  BY <1>1, <1>2 DEF RunPieces
<1>. QED BY ONLY <1>3, <1>4, RunMade DEF A1, A2, A3, A4, A5, A6

(* The bundle that is appended to is stored.                               *)
LEMMA FollowsStored ==
  ASSUME NEW s, StoreOK(s), NEW prev, NEW id, Follows(s, prev, id) PROVE Stored(s, id)
BY NewestStored DEF Follows

(* After an error the bundle need not track its directory.                 *)
LEMMA FailedRun ==
  ASSUME NEW r, NEW prev, NEW id, RunBase(r, prev, id), r.err PROVE RunOK(r, prev, id)
BY DEF RunOK

(* An append with another store that failed.                               *)
LEMMA StoreErrRun ==
  ASSUME NEW a, NEW prev, NEW id, RunBase(a, prev, id), NEW s, StoreOK(s), Follows(s, prev, id),
         NEW r, r = [a EXCEPT !.s = s, !.err = TRUE]
  PROVE  RunOK(r, prev, id) /\ r.err
<1>. DEFINE yes == TRUE
            b == a.b
            A1 == a.s
            A3 == a.kept
            A4 == a.order
            A5 == a.dropped
            A6 == a.err
<1>1. a \in RunType /\ b.id = id
  BY DEF RunBase
<1>2. b \in BundleType /\ yes \in BOOLEAN /\ r = [a EXCEPT !.s = s, !.err = yes]
      /\ a = [s |-> A1, b |-> b, kept |-> A3, order |-> A4, dropped |-> A5, err |-> A6]
  BY <1>1, RunParts
<1>. HIDE DEF yes, b, A1, A3, A4, A5, A6
<1>3. r = [s |-> s, b |-> b, kept |-> A3, order |-> A4, dropped |-> A5, err |-> yes]
  BY ONLY <1>2
<1>4. RunBase(r, prev, id) /\ r.err = yes
  <2>1. A3 \in Seq(Item) /\ A4 \in Seq(Nat) /\ A5 \in BOOLEAN
    BY <1>1, RunParts DEF A3, A4, A5
  <2>2. RunPieces(s, b, A3, A4, A5, yes, prev, id)
    BY <1>1, <1>2, <2>1 DEF RunPieces
  <2>. QED BY ONLY <1>3, <2>2, RunMade
<1>5. r.err
  BY <1>4 DEF yes
<1>. QED BY <1>4, <1>5, FailedRun

(* A failed write ends the append, with a torn directory.                  *)
LEMMA TornRun ==
  ASSUME NEW a, NEW prev, NEW id, RunBase(a, prev, id), NEW s, NEW d,
         NEW q, q = WithFiles(s, id, TornDir(d)), StoreOK(q), Follows(q, prev, id),
         NEW r, r = Torn(a, s, d)
  PROVE  RunOK(r, prev, id) /\ r.err
<1>1. a.b.id = id
  BY DEF RunBase
<1>2. r = [a EXCEPT !.s = q, !.err = TRUE]
  BY <1>1 DEF Torn, TornDir
<1>. QED BY ONLY <1>2, RunBase(a, prev, id), StoreOK(q), Follows(q, prev, id), StoreErrRun

(* The fields of an item.                                                  *)
LEMMA ItemParts ==
  ASSUME NEW i \in Item
  PROVE  /\ i.kind \in {"text", "image", "server"} /\ i.n \in Nat /\ i.visible \in BOOLEAN
         /\ i.img \in Nat /\ i.id \in Nat /\ (i.kind = "image" => i.img # 0)
BY DEF Item

(* A cut item is an item.                                                  *)
LEMMA ItemCut ==
  ASSUME NEW i \in Item, NEW n \in Nat PROVE [i EXCEPT !.n = n] \in Item
BY DEF Item

(* Keeping an item touches neither the store nor the bundle.               *)
LEMMA KeepKeeps ==
  ASSUME NEW a, NEW prev, NEW id, RunOK(a, prev, id), NEW item \in Item, NEW n \in Nat,
         NEW r, r = Keep(a, item, n)
  PROVE  RunOK(r, prev, id)
<1>. DEFINE k == Append(a.kept, [item EXCEPT !.n = n])
            o == Append(a.order, item.id)
            cut == [item EXCEPT !.n = n]
            num == item.id
<1>1. RunBase(a, prev, id) /\ a \in RunType
  BY DEF RunOK, RunBase
<1>2. a.kept \in Seq(Item) /\ a.order \in Seq(Nat)
  BY <1>1, RunParts
<1>3. cut \in Item /\ num \in Nat
  BY ItemCut, ItemParts
<1>. HIDE DEF cut, num
<1>4. Append(a.kept, cut) \in Seq(Item) /\ Append(a.order, num) \in Seq(Nat)
  BY <1>2, <1>3
<1>5. k \in Seq(Item) /\ o \in Seq(Nat)
  BY <1>4 DEF cut, num
<1>6. r = WithKept(a, k, o)
  BY DEF Keep, WithKept
<1>. HIDE DEF k, o
<1>7. RunBase(a, prev, id)
  BY <1>1
<1>8. RunBase(r, prev, id) /\ r.s = a.s /\ r.b = a.b /\ r.err = a.err
  BY ONLY <1>5, <1>6, <1>7, RunKeptOrder
<1>. QED BY <1>8 DEF RunOK

(* The capacity that an append is granted.                                 *)
CapFits(a, cap, prev, id) ==
    /\ StoreOK(cap.s) /\ Follows(cap.s, prev, id) /\ cap.s.disk[id] = a.s.disk[id]
    /\ Share(cap.s, id) = Share(a.s, id)
    /\ Room(cap.s, id, cap.granted) /\ cap.err \in BOOLEAN /\ cap.granted \in Nat

(* A capacity granted in the course of an append.                          *)
LEMMA CapRun ==
  ASSUME NEW a, NEW prev, NEW id, RunOK(a, prev, id), ~a.err, prev # 0 => Roomy, NEW want \in Nat,
         NEW io, NEW cap, cap = PrepareAppendCapacity(a.s, id, want, io)
  PROVE  CapFits(a, cap, prev, id)
<1>. DEFINE s == a.s
<1>1. StoreOK(s) /\ Follows(s, prev, id) /\ Intact(s.disk[id])
  BY DEF RunOK, RunBase, Tracks
<1>2. cap = PrepareAppendCapacity(s, id, want, io)
  OBVIOUS
<1>. HIDE DEF s
<1>3. CapOK(s, cap, prev, id, want)
  BY ONLY <1>1, <1>2, prev # 0 => Roomy, want \in Nat, CapacityKeeps
<1>. QED BY <1>1, <1>3 DEF CapOK, CapFits, Room, s

(* The store after pruning.                                                *)
LEMMA CapStore ==
  ASSUME NEW a, NEW prev, NEW id, RunOK(a, prev, id), NEW cap, CapFits(a, cap, prev, id),
         NEW r, r = [a EXCEPT !.s = cap.s]
  PROVE  RunOK(r, prev, id)
<1>. DEFINE s == cap.s
<1>1. StoreOK(s) /\ Follows(s, prev, id) /\ s.disk[id] = a.s.disk[id] /\ RunBase(a, prev, id)
  BY DEF CapFits, RunOK
<1>2. r = [a EXCEPT !.s = s]
  OBVIOUS
<1>. HIDE DEF s
<1>3. RunBase(r, prev, id) /\ r.s = s /\ r.b = a.b /\ r.err = a.err
  BY ONLY <1>1, <1>2, RunStore
<1>. QED BY <1>1, <1>3 DEF RunOK

(* The append that could not be granted its capacity.                      *)
LEMMA CapErrRun ==
  ASSUME NEW a, NEW prev, NEW id, RunBase(a, prev, id), NEW cap, CapFits(a, cap, prev, id),
         NEW r, r = [a EXCEPT !.s = cap.s, !.err = TRUE]
  PROVE  RunOK(r, prev, id) /\ r.err
<1>. DEFINE s == cap.s
<1>1. StoreOK(s) /\ Follows(s, prev, id) /\ r = [a EXCEPT !.s = s, !.err = TRUE]
  BY DEF CapFits
<1>. HIDE DEF s
<1>. QED BY ONLY <1>1, RunBase(a, prev, id), StoreErrRun

(* A write that fails within the capacity granted, before it is charged ...*)
LEMMA CapTorn ==
  ASSUME NEW a, NEW prev, NEW id, RunBase(a, prev, id), NEW cap, CapFits(a, cap, prev, id),
         NEW d, Spoilt(d), NEW r, r = Torn(a, cap.s, d)
  PROVE  RunOK(r, prev, id) /\ r.err
<1>. DEFINE p == cap.s
            g == cap.granted
            q == WithFiles(p, id, TornDir(d))
<1>1. Follows(p, prev, id) /\ Room(p, id, g) /\ r = Torn(a, p, d) /\ q = WithFiles(p, id, TornDir(d))
  BY DEF CapFits
<1>. HIDE DEF p, g, q
<1>2. StoreOK(q) /\ \A x : Follows(p, x, id) => Follows(q, x, id)
  BY ONLY <1>1, Spoilt(d), TornKeeps
<1>3. Follows(q, prev, id)
  BY <1>1, <1>2
<1>. QED BY ONLY <1>1, <1>2, <1>3, RunBase(a, prev, id), TornRun

(* ... and after other bytes were.                                         *)
LEMMA CapTornCharged ==
  ASSUME NEW a, NEW prev, NEW id, RunBase(a, prev, id), NEW cap, CapFits(a, cap, prev, id),
         NEW d, Spoilt(d), NEW plus \in Nat, NEW less \in Nat,
         less <= Share(cap.s, id).bytes + plus, plus <= cap.granted + less,
         NEW r, r = Torn(a, RecordBytes(cap.s, id, plus, less), d)
  PROVE  RunOK(r, prev, id) /\ r.err
<1>. DEFINE p == cap.s
            g == cap.granted
            s == RecordBytes(p, id, plus, less)
            q == WithFiles(s, id, TornDir(d))
<1>1. /\ Follows(p, prev, id) /\ Room(p, id, g) /\ r = Torn(a, s, d)
      /\ q = WithFiles(RecordBytes(p, id, plus, less), id, TornDir(d))
      /\ q = WithFiles(s, id, TornDir(d))
      /\ less <= Share(p, id).bytes + plus /\ plus <= g + less
  BY DEF CapFits
<1>. HIDE DEF p, g, q, s
<1>2. StoreOK(q) /\ \A x : Follows(p, x, id) => Follows(q, x, id)
  BY ONLY <1>1, Spoilt(d), plus \in Nat, less \in Nat, TornChargedKeeps
<1>3. Follows(q, prev, id)
  BY <1>1, <1>2
<1>. QED BY ONLY <1>1, <1>2, <1>3, RunBase(a, prev, id), TornRun

(* Rows may be written at the end of an index when there is room for them. *)
LEMMA RowsFit ==
  ASSUME NEW b, NEW p, NEW prev, NEW id, Follows(p, prev, id), NEW g, Room(p, id, g),
         NEW rows \in Seq(LogRow), NEW n \in Nat, NEW d, d = p.disk[id],
         n - Lesser(n, Share(p, id).reserved) <= g,
         IndexedAs(d.log \o rows, Total(d.text), Len(d.history)),
         b.text = Total(d.text), b.images = 0 <=> d.history = <<>>, b.images = 0 => b.current = 0,
         NEW r, r = AppendEventsLog(p, id, rows, n)
  PROVE  StoreOK(r) /\ Follows(r, prev, id) /\ Tracks(b, r.disk[id]) /\ r.disk[id].hasLog
<1>. DEFINE x == LogWritten(d, rows, n)
<1>1. Wrote(p, r, id, x)
  BY LogGrows
<1>2. d \in Dir
  BY RoomParts
<1>3. x.hasLog /\ x.text = d.text /\ x.history = d.history /\ x.torn = d.torn /\ x.gone = d.gone
  BY DEF LogWritten
<1>. HIDE DEF x
<1>4. StoreOK(r) /\ Follows(r, prev, id) /\ r.disk[id] = x
  BY <1>1 DEF Wrote
<1>5. Tracks(b, x)
  BY <1>3 DEF Tracks, Room, Intact
<1>. QED BY <1>3, <1>4, <1>5

(* The omission row.                                                       *)
LEMMA RecordOmissionKeeps ==
  ASSUME NEW a, NEW prev, NEW id, RunOK(a, prev, id), ~a.err, a.s.disk[id].hasLog,
         NEW cap, CapFits(a, cap, prev, id), NEW item, NEW io, io.cut \in Nat,
         NEW r, r = RecordOmission(a, cap, item, io)
  PROVE  RunOK(r, prev, id)
<1>. DEFINE p == cap.s
            d == p.disk[id]
            row == [row |-> "S"]
            rows == <<row>>
            b == [a.b EXCEPT !.recorded = TRUE]
            q == AppendEventsLog(p, id, rows, OmissionLine)
<1>1. RunBase(a, prev, id) /\ Tracks(a.b, a.s.disk[id]) /\ a \in RunType /\ a.b.id = id
  BY DEF RunOK, RunBase
<1>2. CASE cap.err
  <2>1. r = [a EXCEPT !.s = cap.s, !.err = TRUE]
    BY <1>2 DEF RecordOmission
  <2>. QED BY ONLY <1>1, <2>1, CapFits(a, cap, prev, id), CapErrRun
<1>3. CASE ~cap.err /\ cap.granted < OmissionLine
  <2>1. r = [a EXCEPT !.s = cap.s]
    BY <1>3 DEF RecordOmission
  <2>. QED BY ONLY <2>1, RunOK(a, prev, id), CapFits(a, cap, prev, id), CapStore
<1>0. /\ StoreOK(p) /\ Follows(p, prev, id) /\ d = a.s.disk[id] /\ Room(p, id, cap.granted)
      /\ cap.granted \in Nat
  BY DEF CapFits
<1>5. CASE ~cap.err /\ ~(cap.granted < OmissionLine) /\ Fails(io, "notice", item)
  <2>. DEFINE c == CutOf(io, OmissionLine)
              x == LogFile(d, <<>>, c)
              g == cap.granted
              k == Share(p, id).reserved + g
  <2>1. r = Torn(a, p, x)
    BY <1>1, <1>5 DEF RecordOmission
  <2>2. Bears(d, k) /\ g <= k
    <3>1. Room(p, id, g) /\ d = p.disk[id] /\ k = Share(p, id).reserved + g
      BY <1>0
    <3>. HIDE DEF p, d, g, k
    <3>. QED BY ONLY <3>1, RoomBears
  <2>3. c \in Nat /\ c <= OmissionLine
    BY CutIs, QuotaNumbers
  <2>4. c <= k
    <3>1. k \in Nat
      BY <2>2 DEF Bears
    <3>. HIDE DEF k, c
    <3>. QED BY <1>0, <1>5, <2>2, <2>3, <3>1, QuotaNumbers
  <2>5. x = LogFile(d, <<>>, c)
    OBVIOUS
  <2>. HIDE DEF c, x, d, k, p
  <2>6. Spoilt(x)
    BY ONLY <2>2, <2>3, <2>4, <2>5, BearsLog
  <2>. QED BY ONLY <1>1, <2>1, <2>6, CapFits(a, cap, prev, id), CapTorn DEF p
<1>4. CASE ~cap.err /\ ~(cap.granted < OmissionLine) /\ ~Fails(io, "notice", item)
  <2>1. r = [a EXCEPT !.b.recorded = TRUE, !.s = q]
    BY <1>1, <1>4 DEF RecordOmission
  <2>2. /\ StoreOK(p) /\ Follows(p, prev, id) /\ d = a.s.disk[id] /\ Room(p, id, cap.granted)
        /\ cap.granted \in Nat
    BY <1>0
  <2>3. a.b \in BundleType
    BY <1>1, RunParts
  <2>4. SameCounts(a.b, b)
    BY <2>3, SetRecorded
  <2>5. r = WithBundle(a, q, b)
    <3>. DEFINE yes == TRUE
    <3>1. r = [a EXCEPT !.b.recorded = yes, !.s = q] /\ b = [a.b EXCEPT !.recorded = yes]
      BY <2>1
    <3>. HIDE DEF yes, q, b, p
    <3>2. a = [s |-> a.s, b |-> a.b, kept |-> a.kept, order |-> a.order,
               dropped |-> a.dropped, err |-> a.err]
      BY <1>1, RunParts
    <3>. QED BY ONLY <3>1, <3>2 DEF WithBundle
  <2>. HIDE DEF b, q, p
  <2>7. Tracks(b, d)
    BY <1>1, <2>2, <2>4, TracksSame
  <2>8. d \in Dir /\ IndexFits(d) /\ Share(p, id).reserved \in Nat
    BY <2>2, RoomParts
  <2>9. d.log \in Seq(LogRow) /\ row \in LogRow /\ rows \in Seq(LogRow) /\ d.log \o rows = Append(d.log, row)
    <3>1. d.log \in Seq(LogRow)
      BY <2>8, DirParts
    <3>2. row \in LogRow
      BY DEF LogRow
    <3>. HIDE DEF row
    <3>. QED BY <3>1, <3>2, OneRow
  <2>10. IndexedAs(Append(d.log, row), Total(d.text), Len(d.history))
    <3>1. IndexedAs(d.log, Total(d.text), Len(d.history))
      BY <2>2, <2>8, IndexedIs DEF IndexFits
    <3>2. row.row = "S"
      OBVIOUS
    <3>. QED BY ONLY <2>9, <3>1, <3>2, IndexRow
  <2>11. OmissionLine \in Nat /\ OmissionLine - Lesser(OmissionLine, Share(p, id).reserved) <= cap.granted
    <3>. DEFINE v == Share(p, id).reserved
                m == OmissionLine
                g == cap.granted
    <3>1. v \in Nat /\ m \in Nat /\ g \in Nat /\ ~(g < m)
      BY <1>4, <2>2, <2>8, QuotaNumbers
    <3>. HIDE DEF v, m, g
    <3>2. m - Lesser(m, v) <= g
      BY ONLY <3>1 DEF Lesser
    <3>. QED BY <3>1, <3>2 DEF v, m, g
  <2>. HIDE DEF rows, d
  <2>12. StoreOK(q) /\ Follows(q, prev, id) /\ Tracks(b, q.disk[id])
    <3>. DEFINE m == OmissionLine
                g == cap.granted
    <3>1. /\ q = AppendEventsLog(p, id, rows, m) /\ d = p.disk[id] /\ Room(p, id, g) /\ m \in Nat
          /\ m - Lesser(m, Share(p, id).reserved) <= g
          /\ IndexedAs(d.log \o rows, Total(d.text), Len(d.history)) /\ rows \in Seq(LogRow)
      BY <2>2, <2>9, <2>10, <2>11 DEF q, d
    <3>2. b.text = Total(d.text) /\ (b.images = 0 <=> d.history = <<>>) /\ (b.images = 0 => b.current = 0)
      BY <2>7 DEF Tracks
    <3>. HIDE DEF m, g
    <3>. QED BY ONLY <2>2, <3>1, <3>2, RowsFit
  <2>13. RunBase(r, prev, id) /\ r.s = q /\ r.b = b
    <3>1. b \in BundleType /\ b.id = id
      BY <1>1, <2>4 DEF SameCounts
    <3>. QED BY ONLY <1>1, <2>5, <2>12, <3>1, RunStoreBundle
  <2>. QED BY <2>12, <2>13 DEF RunOK
<1>. QED BY <1>2, <1>3, <1>4, <1>5

(* apply_omission keeps the store sound and tracked, failed or not.        *)
LEMMA ApplyOmissionKeeps ==
  ASSUME NEW a, NEW prev, NEW id, RunOK(a, prev, id), prev # 0 => Roomy, NEW visible \in BOOLEAN,
         NEW item, NEW io, io.cut \in Nat, NEW r, r = ApplyOmission(a, visible, item, io)
  PROVE  RunOK(r, prev, id)
<1>. DEFINE b == [a.b EXCEPT !.omitted = TRUE, !.omittedVisible = a.b.omittedVisible \/ visible]
            om == [a EXCEPT !.b.omitted = TRUE, !.b.omittedVisible = @ \/ visible]
            cap == PrepareAppendCapacity(a.s, a.b.id, OmissionLine, io)
<1>1. RunBase(a, prev, id) /\ a \in RunType /\ a.b.id = id
  BY DEF RunOK, RunBase
<1>2. a.b \in BundleType
      /\ a = [s |-> a.s, b |-> a.b, kept |-> a.kept, order |-> a.order, dropped |-> a.dropped, err |-> a.err]
  BY <1>1, RunParts
<1>. DEFINE yes == TRUE
            w == a.b.omittedVisible \/ visible
<1>3. yes \in BOOLEAN /\ w \in BOOLEAN
  BY <1>2, BundleParts
<1>4. om = [a EXCEPT !.b.omitted = yes, !.b.omittedVisible = w] /\ b = [a.b EXCEPT !.omitted = yes, !.omittedVisible = w]
  BY <1>2
<1>. HIDE DEF yes, w, om, b
<1>5. om = [a EXCEPT !.b = b]
  BY ONLY <1>2, <1>4
<1>6. SameCounts(a.b, b)
  BY ONLY <1>2, <1>3, <1>4, SetOmitted
<1>7. RunBase(om, prev, id) /\ om.s = a.s /\ om.b = b /\ om.err = a.err
  <2>1. b \in BundleType /\ b.id = id
    BY <1>1, <1>6 DEF SameCounts
  <2>. QED BY ONLY <1>1, <1>5, <2>1, RunBundle
<1>8. RunOK(om, prev, id)
  BY <1>6, <1>7, TracksSame DEF RunOK
<1>9. CASE a.err \/ a.b.recorded \/ ~HasLog(a)
  <2>1. r = a \/ r = om
    BY <1>9 DEF ApplyOmission, om
  <2>. QED BY <1>8, <2>1
<1>10. CASE ~(a.err \/ a.b.recorded \/ ~HasLog(a))
  <2>1. r = RecordOmission(om, cap, item, io) /\ ~a.err /\ a.s.disk[id].hasLog
    BY <1>1, <1>10 DEF ApplyOmission, om, HasLog
  <2>2. CapFits(a, cap, prev, id)
    <3>1. cap = PrepareAppendCapacity(a.s, id, OmissionLine, io) /\ OmissionLine \in Nat
      BY <1>1, QuotaNumbers
    <3>. HIDE DEF cap
    <3>. QED BY ONLY <2>1, <3>1, RunOK(a, prev, id), prev # 0 => Roomy, CapRun
  <2>. HIDE DEF cap
  <2>3. CapFits(om, cap, prev, id) /\ ~om.err /\ om.s.disk[id].hasLog
    BY <1>7, <2>1, <2>2 DEF CapFits
  <2>. QED BY ONLY <1>8, <2>1, <2>3, io.cut \in Nat, RecordOmissionKeeps
<1>. QED BY <1>9, <1>10

(* The rows for what a bundle without an index holds.                      *)
LEMMA HeldIndexed ==
  ASSUME NEW b \in BundleType, NEW d \in Dir, Tracks(b, d), ~d.hasLog, NEW held, held = HeldRows(b)
  PROVE  /\ held \in Seq(LogRow) /\ Len(held) \in Nat
         /\ IndexedAs(held, Total(d.text), Len(d.history))
<1>1. b.text \in Nat /\ b.preIndex \in Nat
  BY BundleParts
<1>2. CASE HasText(b)
  <2>. DEFINE row == [row |-> "T", from |-> 0, to |-> b.text]
              none == <<>>
              zero == 0
              c == b.text
  <2>1. held = <<row>> /\ c = Total(d.text) /\ d.history = <<>> /\ c \in Nat
    BY <1>1, <1>2 DEF HeldRows, HasText, Tracks
  <2>2. Len(d.history) = zero
    BY <2>1
  <2>3. row \in LogRow /\ row.row = "T" /\ row.from = zero /\ row.to = c
    BY <2>1 DEF LogRow
  <2>4. none \in Seq(LogRow) /\ IndexedAs(none, zero, zero)
    BY IndexNone
  <2>. HIDE DEF row, c
  <2>5. none \o <<row>> = Append(none, row) /\ <<row>> \in Seq(LogRow) /\ none \o <<row>> = <<row>>
    BY <2>3, <2>4, OneRow
  <2>. HIDE DEF none, zero
  <2>6. IndexedAs(Append(none, row), c, zero)
    BY ONLY <2>3, <2>4, IndexRow
  <2>7. Len(held) \in Nat
    BY <2>1, <2>5
  <2>. QED BY <2>1, <2>2, <2>5, <2>6, <2>7
<1>3. CASE ~HasText(b)
  <2>1. held = [k \in 1..b.preIndex |-> [row |-> "I", image |-> k]] /\ Total(d.text) = 0
        /\ b.preIndex = Len(d.history)
    BY <1>1, <1>3 DEF HeldRows, HasText, Tracks
  <2>2. held \in Seq(LogRow) /\ Len(held) = b.preIndex /\ IndexedAs(held, 0, b.preIndex)
    BY <1>1, <2>1, IndexImages
  <2>. QED BY <1>1, <2>1, <2>2
<1>. QED BY <1>2, <1>3

(* With the omission row, when something was omitted.                      *)
LEMMA OmissionIndexed ==
  ASSUME NEW held \in Seq(LogRow), NEW chars, NEW images, IndexedAs(held, chars, images),
         NEW omitted \in BOOLEAN, NEW rows,
         rows = held \o (IF omitted THEN <<[row |-> "S"]>> ELSE <<>>)
  PROVE  rows \in Seq(LogRow) /\ IndexedAs(rows, chars, images)
<1>1. CASE omitted
  <2>. DEFINE row == [row |-> "S"]
  <2>1. rows = held \o <<row>>
    BY <1>1
  <2>2. row \in LogRow /\ row.row = "S"
    BY DEF LogRow
  <2>. HIDE DEF row
  <2>3. rows = Append(held, row) /\ rows \in Seq(LogRow)
    BY <2>1, <2>2, OneRow
  <2>4. IndexedAs(Append(held, row), chars, images)
    BY ONLY <2>2, held \in Seq(LogRow), IndexedAs(held, chars, images), IndexRow
  <2>. QED BY <2>3, <2>4
<1>2. CASE ~omitted
  <2>1. rows = held
    BY <1>2
  <2>. QED BY <2>1
<1>. QED BY <1>1, <1>2

(* The rows of a late index, after those it has: none.                     *)
LEMMA LateIndex ==
  ASSUME NEW b \in BundleType, NEW d \in Dir, IndexFits(d), Tracks(b, d), ~d.hasLog, NEW rows,
         rows = HeldRows(b) \o (IF b.omitted THEN <<[row |-> "S"]>> ELSE <<>>)
  PROVE  /\ rows \in Seq(LogRow) /\ Len(HeldRows(b)) \in Nat
         /\ IndexedAs(d.log \o rows, Total(d.text), Len(d.history))
<1>. DEFINE held == HeldRows(b)
            chars == Total(d.text)
            images == Len(d.history)
            om == b.omitted
<1>1. held \in Seq(LogRow) /\ Len(held) \in Nat /\ IndexedAs(held, chars, images)
  BY HeldIndexed
<1>2. om \in BOOLEAN /\ rows = held \o (IF om THEN <<[row |-> "S"]>> ELSE <<>>)
  BY BundleParts
<1>. HIDE DEF held, chars, images, om
<1>3. rows \in Seq(LogRow) /\ IndexedAs(rows, chars, images)
  BY ONLY <1>1, <1>2, OmissionIndexed
<1>4. d.log \o rows = rows
  <2>1. d.log = <<>>
    BY DEF IndexFits
  <2>2. <<>> \o rows = rows
    BY ONLY <1>3
  <2>. QED BY ONLY <2>1, <2>2
<1>. QED BY <1>1, <1>3, <1>4 DEF held, chars, images

(* A late index that is cut lists a part of what is there.                 *)
CutRows(d, held) ==
    \A k \in Nat : /\ WholeRows(held, k) \in Seq(LogRow)
                   /\ \E h \in Nat, m \in Nat : /\ IndexedAs(d.log \o WholeRows(held, k), h, m)
                                               /\ h <= Total(d.text) /\ m <= Len(d.history)
(* The rows of a late index may be cut anywhere.                           *)
LEMMA HeldCut ==
  ASSUME NEW b \in BundleType, NEW d \in Dir, IndexFits(d), Tracks(b, d), ~d.hasLog,
         NEW held, held = HeldRows(b)
  PROVE  CutRows(d, held)
<1>. DEFINE chars == Total(d.text)
            images == Len(d.history)
<1>1. chars \in Nat /\ images \in Nat
  BY DirNumbers
<1>2. \/ held = <<[row |-> "T", from |-> 0, to |-> chars]>>
      \/ held = [k \in 1..images |-> [row |-> "I", image |-> k]]
  BY DEF HeldRows, Tracks
<1>3. d.log = <<>>
  BY DEF IndexFits
<1>. HIDE DEF chars, images
<1>4. ASSUME NEW k \in Nat
      PROVE  /\ WholeRows(held, k) \in Seq(LogRow)
             /\ \E h \in Nat, m \in Nat : /\ IndexedAs(d.log \o WholeRows(held, k), h, m)
                                         /\ h <= chars /\ m <= images
  <2>. DEFINE cut == WholeRows(held, k)
  <2>1. cut = WholeRows(held, k)
    OBVIOUS
  <2>. HIDE DEF cut
  <2>2. cut \in Seq(LogRow) /\ \E h \in Nat, m \in Nat : IndexedAs(cut, h, m) /\ h <= chars /\ m <= images
    BY ONLY <1>1, <1>2, <2>1, k \in Nat, RowsCut
  <2>3. d.log \o cut = cut
    <3>1. <<>> \o cut = cut
      BY ONLY <2>2
    <3>. QED BY ONLY <1>3, <3>1
  <2>. QED BY <2>1, <2>2, <2>3
<1>. QED BY <1>4 DEF CutRows, chars, images

(* The late index.                                                         *)
LEMMA WriteLogKeeps ==
  ASSUME NEW a, NEW prev, NEW id, RunOK(a, prev, id), ~a.err, ~a.s.disk[id].hasLog,
         NEW cap, CapFits(a, cap, prev, id), NEW c, SameCounts(a.b, c), NEW held, NEW rows \in Seq(LogRow),
         rows = held \o (IF c.omitted THEN <<[row |-> "S"]>> ELSE <<>>), CutRows(a.s.disk[id], held),
         IndexedAs(a.s.disk[id].log \o rows, Total(a.s.disk[id].text), Len(a.s.disk[id].history)),
         NEW n \in Nat, NEW need, need = Minus(n, Share(a.s, id).reserved), NEW item, NEW io, io.cut \in Nat,
         NEW r, r = WriteEventsLog(a, c, cap, held, n, need, item, io)
  PROVE  RunOK(r, prev, id) /\ (r.err \/ r.s.disk[id].hasLog)
<1>. DEFINE p == cap.s
            d == p.disk[id]
            g == cap.granted
            bad == cap.err \/ cap.granted < need \/ Fails(io, "index file", item)
            torn == Fails(io, "index", item)
<1>1. RunBase(a, prev, id) /\ Tracks(a.b, a.s.disk[id]) /\ a \in RunType /\ a.b.id = id
  BY DEF RunOK, RunBase
<1>2. /\ StoreOK(p) /\ Follows(p, prev, id) /\ d = a.s.disk[id] /\ Room(p, id, g)
      /\ g \in Nat /\ Share(p, id) = Share(a.s, id)
  BY DEF CapFits
<1>3. c \in BundleType /\ c.id = id /\ Tracks(c, d)
  BY <1>1, <1>2, TracksSame DEF SameCounts
<1>4. CASE bad
  <2>. DEFINE yes == TRUE
  <2>1. r = WithBundleErr(a, p, c, yes) /\ yes \in BOOLEAN
    BY <1>4 DEF WriteEventsLog, WithBundleErr
  <2>. HIDE DEF yes, p
  <2>2. RunBase(r, prev, id) /\ r.err = yes
    BY ONLY <1>1, <1>2, <1>3, <2>1, RunStoreBundleErr
  <2>. QED BY <2>2, FailedRun DEF yes
<1>6. CASE ~bad /\ torn
  <2>. DEFINE k == CutOf(io, n)
              some == WholeRows(held, k)
              x == LogFile(d, some, k)
              v == Share(p, id).reserved
              space == v + g
  <2>1. r = Torn(a, p, x)
    BY <1>3, <1>6 DEF WriteEventsLog
  <2>2. Bears(d, space)
    <3>1. Room(p, id, g) /\ d = p.disk[id] /\ space = Share(p, id).reserved + g
      BY <1>2
    <3>. HIDE DEF p, d, g, space
    <3>. QED BY ONLY <3>1, RoomBears
  <2>3. k \in Nat /\ k <= n
    <3>. HIDE DEF k
    <3>. QED BY CutIs DEF k
  <2>4. k <= space
    <3>1. v \in Nat /\ g \in Nat
      BY <1>2, RoomParts
    <3>2. ~(g < need) /\ need = Minus(n, v)
      BY <1>2, <1>6
    <3>. HIDE DEF v, g, k
    <3>. QED BY ONLY <2>3, <3>1, <3>2, n \in Nat DEF Minus, space
  <2>5. /\ some \in Seq(LogRow) /\ x = LogFile(d, some, k)
        /\ \E h \in Nat, m \in Nat : IndexedAs(d.log \o some, h, m) /\ h <= Total(d.text) /\ m <= Len(d.history)
    <3>1. CutRows(d, held)
      BY <1>2
    <3>. HIDE DEF d
    <3>. QED BY <2>3, <3>1 DEF CutRows
  <2>. HIDE DEF k, some, x, d, space, p
  <2>6. PICK h \in Nat, m \in Nat : IndexedAs(d.log \o some, h, m) /\ h <= Total(d.text) /\ m <= Len(d.history)
    BY <2>5
  <2>7. Spoilt(x)
    BY ONLY <2>2, <2>3, <2>4, <2>5, <2>6, BearsIndex
  <2>8. RunOK(r, prev, id) /\ r.err
    BY ONLY <1>1, <2>1, <2>7, CapFits(a, cap, prev, id), CapTorn DEF p
  <2>. QED BY <2>8
<1>5. CASE ~bad /\ ~torn
  <2>. DEFINE zero == 0
              b == [c EXCEPT !.preIndex = zero]
              q == AppendEventsLog(p, id, rows, n)
  <2>1. r = WithBundle(a, q, b)
    <3>. DEFINE A1 == a.s
                A2 == a.b
                A3 == a.kept
                A4 == a.order
                A5 == a.dropped
                A6 == a.err
    <3>1. r = [a EXCEPT !.b = b, !.s = q]
      BY <1>3, <1>5 DEF WriteEventsLog
    <3>2. a = [s |-> A1, b |-> A2, kept |-> A3, order |-> A4, dropped |-> A5, err |-> A6]
      BY <1>1, RunParts
    <3>. HIDE DEF A1, A2, A3, A4, A5, A6, b, q
    <3>. QED BY ONLY <3>1, <3>2 DEF WithBundle
  <2>2. /\ b \in BundleType /\ b.id = c.id /\ b.text = c.text /\ b.images = c.images
        /\ b.current = c.current
    <3>1. zero \in Nat
      OBVIOUS
    <3>. HIDE DEF zero
    <3>. QED BY <1>3, <3>1, SetPreIndex
  <2>. HIDE DEF b
  <2>4. n - Lesser(n, Share(p, id).reserved) <= g
    <3>. DEFINE v == Share(p, id).reserved
    <3>1. v \in Nat
      BY <1>2, RoomParts
    <3>2. ~(g < need) /\ need = Minus(n, v)
      BY <1>2, <1>5
    <3>3. g \in Nat
      BY <1>2
    <3>. HIDE DEF v, g
    <3>4. n - Lesser(n, v) <= g
      BY ONLY n \in Nat, <3>1, <3>2, <3>3 DEF Lesser, Minus
    <3>. QED BY <3>4 DEF v, g
  <2>5. StoreOK(q) /\ Follows(q, prev, id) /\ Tracks(b, q.disk[id]) /\ q.disk[id].hasLog
    <3>1. /\ b.text = Total(d.text) /\ (b.images = 0 <=> d.history = <<>>)
          /\ (b.images = 0 => b.current = 0)
      BY <1>3, <2>2 DEF Tracks
    <3>2. /\ d = p.disk[id] /\ IndexedAs(d.log \o rows, Total(d.text), Len(d.history))
          /\ q = AppendEventsLog(p, id, rows, n)
      BY <1>2
    <3>. HIDE DEF p, d, g, q
    <3>. QED BY ONLY <1>2, <2>4, <3>1, <3>2, rows \in Seq(LogRow), n \in Nat, RowsFit
  <2>. HIDE DEF q
  <2>6. RunBase(r, prev, id) /\ r.s = q /\ r.b = b
    <3>1. b.id = id
      BY <1>3, <2>2
    <3>. QED BY ONLY <1>1, <2>1, <2>2, <2>5, <3>1, RunStoreBundle
  <2>. QED BY <2>5, <2>6 DEF RunOK
<1>. QED BY <1>4, <1>5, <1>6

(* materialize_events_log writes an index of all that is there.            *)
LEMMA MaterializeKeeps ==
  ASSUME NEW a, NEW prev, NEW id, RunOK(a, prev, id), prev # 0 => Roomy, NEW item,
         NEW io, io.cut \in Nat, NEW r, r = MaterializeEventsLog(a, item, io)
  PROVE  RunOK(r, prev, id) /\ (r.err \/ r.s.disk[id].hasLog)
<1>1. RunBase(a, prev, id) /\ a \in RunType /\ a.b.id = id /\ StoreOK(a.s) /\ Follows(a.s, prev, id)
  BY DEF RunOK, RunBase
<1>2. CASE a.err \/ HasLog(a)
  <2>1. r = a /\ (a.err \/ a.s.disk[id].hasLog)
    BY <1>1, <1>2 DEF MaterializeEventsLog, HasLog
  <2>. QED BY <2>1
<1>3. CASE ~(a.err \/ HasLog(a))
  <2>. DEFINE b == a.b
              d == a.s.disk[id]
              held == HeldRows(b)
              rows == held \o (IF b.omitted THEN <<[row |-> "S"]>> ELSE <<>>)
              n == Header + Row * Len(HeldRows(b)) + (IF b.omitted THEN OmissionLine ELSE 0)
              need == Minus(n, Share(a.s, id).reserved)
              cap == PrepareAppendCapacity(a.s, id, need, io)
              v == b.recorded \/ b.omitted
              c == [b EXCEPT !.recorded = v]
  <2>1. ~a.err /\ ~d.hasLog
    BY <1>1, <1>3 DEF HasLog
  <2>2. b \in BundleType
    BY <1>1, RunParts
  <2>3. r = WriteEventsLog(a, c, cap, held, n, need, item, io)
    BY <1>1, <1>3, <2>2 DEF MaterializeEventsLog, Share
  <2>4. Tracks(b, d) /\ Stored(a.s, id)
    BY <1>1, <2>1, FollowsStored DEF RunOK
  <2>5. d \in Dir /\ IndexFits(d) /\ Share(a.s, id) \in Entry
    BY <1>1, <2>4, PositionIs DEF EntryOK, IndexFits, Tracks, Intact
  <2>. HIDE DEF d
  <2>6. /\ rows \in Seq(LogRow) /\ Len(HeldRows(b)) \in Nat
        /\ IndexedAs(d.log \o rows, Total(d.text), Len(d.history))
    <3>. HIDE DEF b
    <3>. QED BY <2>1, <2>2, <2>4, <2>5, LateIndex
  <2>7. n \in Nat
    <3>. DEFINE h == Len(HeldRows(b))
                m == IF b.omitted THEN OmissionLine ELSE 0
    <3>1. h \in Nat /\ m \in Nat /\ Row \in Nat /\ Header \in Nat
      BY <2>6, QuotaNumbers
    <3>2. n = Header + Row * h + m
      OBVIOUS
    <3>. HIDE DEF h, m, n
    <3>3. Row * h \in Nat
      BY <3>1
    <3>. QED BY <3>1, <3>2, <3>3
  <2>8. need \in Nat
    <3>. DEFINE w == Share(a.s, id).reserved
    <3>1. w \in Nat
      BY <2>5 DEF Entry
    <3>. HIDE DEF w, n
    <3>2. Minus(n, w) \in Nat
      BY <2>7, <3>1 DEF Minus
    <3>. QED BY <3>2 DEF w
  <2>9. SameCounts(b, c)
    <3>1. v \in BOOLEAN
      BY <2>2, BundleParts
    <3>. HIDE DEF v, b
    <3>. QED BY <2>2, <3>1, SetRecorded
  <2>10. CapFits(a, cap, prev, id)
    <3>. HIDE DEF need
    <3>1. cap = PrepareAppendCapacity(a.s, id, need, io)
      OBVIOUS
    <3>. HIDE DEF cap
    <3>. QED BY ONLY <2>1, <2>8, <3>1, RunOK(a, prev, id), prev # 0 => Roomy, CapRun
  <2>11. /\ need = Minus(n, Share(a.s, id).reserved) /\ d = a.s.disk[id] /\ SameCounts(a.b, c)
    BY <2>9 DEF d
  <2>12. /\ IndexedAs(a.s.disk[id].log \o rows, Total(a.s.disk[id].text), Len(a.s.disk[id].history))
         /\ ~a.s.disk[id].hasLog
    BY <2>1, <2>6, <2>11
  <2>13. CutRows(a.s.disk[id], held)
    <3>1. held = HeldRows(b)
      OBVIOUS
    <3>. HIDE DEF b, held
    <3>2. CutRows(d, held)
      BY ONLY <2>1, <2>2, <2>4, <2>5, <3>1, HeldCut
    <3>. QED BY <2>11, <3>2
  <2>14. rows = held \o (IF c.omitted THEN <<[row |-> "S"]>> ELSE <<>>)
    <3>1. c.omitted = b.omitted
      BY <2>2 DEF BundleType
    <3>. QED BY <3>1
  <2>. HIDE DEF need, n, cap, c, rows, held
  <2>. QED BY ONLY <2>1, <2>3, <2>6, <2>7, <2>10, <2>11, <2>12, <2>13, <2>14, RunOK(a, prev, id),
                  io.cut \in Nat, WriteLogKeeps
<1>. QED BY <1>2, <1>3

(* Text at the end of a bundle.                                            *)
LEMMA TextTracked ==
  ASSUME NEW c, NEW b, NEW d \in Dir, Tracks(c, d), NEW piece \in Piece, c.text \in Nat,
         b.text = c.text + piece.n, b.images = c.images, b.current = c.current, b.preIndex = c.preIndex,
         NEW y, y.text = TextWritten(d, piece).text, y.history = d.history, y.torn = d.torn, y.gone = d.gone,
         y.hasLog \/ (~d.hasLog /\ c.images = 0)
  PROVE  Tracks(b, y)
<1>1. Total(y.text) = Total(d.text) + piece.n
  BY TextFiles
<1>. QED BY <1>1 DEF Tracks, Intact

(* A stored text keeps the index complete, and the bundle tracks it.       *)
LEMMA TextStored ==
  ASSUME NEW p, NEW prev, NEW id, Follows(p, prev, id), NEW g, Room(p, id, g), NEW piece \in Piece,
         piece.n + Row <= g, NEW d, d = p.disk[id], NEW c, NEW b, Tracks(c, d), c.text \in Nat,
         b.text = c.text + piece.n, b.images = c.images, b.current = c.current, b.preIndex = c.preIndex,
         d.hasLog \/ c.images = 0, NEW row, row = [row |-> "T", from |-> c.text, to |-> b.text],
         NEW q, q = IF d.hasLog THEN AppendEventsLog(WriteText(p, id, piece.n, piece), id, <<row>>, Row)
                    ELSE WriteText(p, id, piece.n, piece)
  PROVE  StoreOK(q) /\ Follows(q, prev, id) /\ Tracks(b, q.disk[id])
<1>. DEFINE t == TextWritten(d, piece)
            y == LogWritten(t, <<row>>, Row)
<1>1. d \in Dir /\ Row \in Nat /\ piece.n \in Nat /\ g \in Nat
  BY RoomParts, QuotaNumbers DEF Room, Piece
<1>2. t.text = t.text /\ t.history = d.history /\ t.torn = d.torn /\ t.gone = d.gone
  BY DEF TextWritten
<1>3. CASE d.hasLog
  <2>. DEFINE m == Row
  <2>1. c.text = Total(d.text)
    BY DEF Tracks
  <2>2. row.row = "T" /\ row.from = Total(d.text) /\ row.to = Total(d.text) + piece.n
    BY <2>1
  <2>3. row \in LogRow
    <3>1. c.text \in Nat /\ b.text \in Nat
      BY <1>1
    <3>. QED BY <3>1 DEF LogRow
  <2>4. q = AppendEventsLog(WriteText(p, id, piece.n, piece), id, <<row>>, m) /\ m \in Nat /\ piece.n + m <= g
    BY <1>1, <1>3
  <2>. HIDE DEF m
  <2>5. Wrote(p, q, id, LogWritten(TextWritten(d, piece), <<row>>, m))
    BY ONLY <1>3, <2>2, <2>3, <2>4, Room(p, id, g), piece \in Piece, d = p.disk[id], TextRowGrows
  <2>6. StoreOK(q) /\ Follows(q, prev, id) /\ q.disk[id] = y
    BY <2>5 DEF Wrote, m
  <2>7. y.text = t.text /\ y.history = t.history /\ y.hasLog /\ y.torn = t.torn /\ y.gone = t.gone
    BY DEF LogWritten
  <2>8. /\ y.text = TextWritten(d, piece).text /\ y.history = d.history /\ y.hasLog /\ d \in Dir
        /\ y.torn = d.torn /\ y.gone = d.gone
    BY <1>1, <1>2, <2>7
  <2>. HIDE DEF y
  <2>9. Tracks(b, y)
    BY ONLY <2>8, Tracks(c, d), piece \in Piece, c.text \in Nat, b.text = c.text + piece.n,
       b.images = c.images, b.current = c.current, b.preIndex = c.preIndex, TextTracked
  <2>. QED BY <2>6, <2>9
<1>4. CASE ~d.hasLog
  <2>1. q = WriteText(p, id, piece.n, piece) /\ piece.n <= g
    BY <1>1, <1>4
  <2>2. Wrote(p, q, id, TextWritten(d, piece))
    BY ONLY <1>4, <2>1, Room(p, id, g), piece \in Piece, d = p.disk[id], TextGrows
  <2>3. StoreOK(q) /\ Follows(q, prev, id) /\ q.disk[id] = t
    BY <2>2 DEF Wrote
  <2>4. Tracks(b, t)
    <3>1. t.text = TextWritten(d, piece).text
      OBVIOUS
    <3>. HIDE DEF t
    <3>. QED BY <1>1, <1>2, <1>4, <3>1, TextTracked
  <2>. QED BY <2>3, <2>4
<1>. QED BY <1>3, <1>4

(* Storing a text that fits, or failing to.                                *)
LEMMA StoreTextKeeps ==
  ASSUME NEW a, NEW prev, NEW id, RunOK(a, prev, id), ~a.err, a.s.disk[id].hasLog \/ a.b.images = 0,
         NEW item \in Item, NEW cap, CapFits(a, cap, prev, id), NEW n \in Nat, n + Row <= cap.granted,
         NEW io, io.cut \in Nat, NEW r, r = StoreText(a, item, cap, n, io)
  PROVE  RunOK(r, prev, id)
<1>. DEFINE p == cap.s
            d == p.disk[id]
            g == cap.granted
            piece == [item |-> item.id, n |-> n]
            v == a.b.text + n
            x == a.dropped \/ n < item.n
            b == [a.b EXCEPT !.text = v]
            row == [row |-> "T", from |-> a.b.text, to |-> v]
            q == IF d.hasLog THEN AppendEventsLog(WriteText(p, id, n, piece), id, <<row>>, Row)
                 ELSE WriteText(p, id, n, piece)
<1>1. RunBase(a, prev, id) /\ Tracks(a.b, a.s.disk[id]) /\ a \in RunType /\ a.b.id = id
  BY DEF RunOK, RunBase
<1>2. /\ StoreOK(p) /\ Follows(p, prev, id) /\ d = a.s.disk[id] /\ Room(p, id, g)
  BY DEF CapFits
<1>3. /\ a.b \in BundleType /\ a.dropped \in BOOLEAN
      /\ a = [s |-> a.s, b |-> a.b, kept |-> a.kept, order |-> a.order, dropped |-> a.dropped, err |-> a.err]
  BY <1>1, RunParts
<1>4. a.b.text \in Nat /\ v \in Nat /\ x \in BOOLEAN /\ item.id \in Nat
  BY <1>3, BundleParts, ItemParts
<1>5. piece \in Piece /\ piece.n = n
  BY <1>4 DEF Piece
<1>. DEFINE k == Share(p, id).reserved + g
            cutText == Fails(io, "content", item)
            cutRow == d.hasLog /\ Fails(io, "row", item)
<1>12. Bears(d, k) /\ n <= k /\ k \in Nat /\ n + Row <= k /\ Row \in Nat /\ g \in Nat /\ d \in Dir
  <2>1. Room(p, id, g) /\ d = p.disk[id] /\ k = Share(p, id).reserved + g
    BY <1>2
  <2>2. n + Row <= g /\ Row \in Nat /\ g \in Nat
    BY <1>2, QuotaNumbers DEF Room
  <2>. HIDE DEF p, d, g, k
  <2>3. Bears(d, k) /\ g <= k
    BY ONLY <2>1, RoomBears
  <2>4. k \in Nat /\ d \in Dir
    BY <2>3 DEF Bears
  <2>5. n <= k /\ n + Row <= k
    BY ONLY <2>2, <2>3, <2>4, n \in Nat
  <2>. QED BY <2>2, <2>3, <2>4, <2>5
<1>13. HasLog(a) <=> d.hasLog
  BY <1>1, <1>2 DEF HasLog
<1>14. CASE cutText
  <2>. DEFINE c == CutOf(io, n)
              y == TextFile(d, item, c)
  <2>1. r = Torn(a, cap.s, y)
    BY <1>1, <1>14 DEF StoreText
  <2>2. c \in Nat /\ c <= n
    BY CutIs
  <2>. HIDE DEF c, d, k
  <2>3. c <= k /\ y = TextFile(d, item, c)
    BY <1>12, <2>2
  <2>. HIDE DEF y
  <2>4. Bears(y, k - c)
    BY ONLY <1>4, <1>12, <2>2, <2>3, BearsText
  <2>5. Spoilt(y)
    BY ONLY <2>4, BearsSpoilt
  <2>. QED BY ONLY <1>1, <2>1, <2>5, CapFits(a, cap, prev, id), CapTorn
<1>15. CASE ~cutText /\ cutRow
  <2>. DEFINE c == CutOf(io, Row)
              y == TextFile(d, item, n)
              z == LogFile(y, <<>>, c)
              zero == 0
  <2>1. r = Torn(a, RecordBytes(cap.s, id, n, zero), z)
    <3>1. r = Torn(a, RecordBytes(cap.s, a.b.id, n, 0), LogFile(TextFile(cap.s.disk[a.b.id], item, n), <<>>, c))
      BY <1>13, <1>15 DEF StoreText
    <3>. HIDE DEF c
    <3>. QED BY <1>1, <3>1
  <2>2. c \in Nat /\ c <= Row
    BY <1>12, CutIs
  <2>. HIDE DEF c, d, k
  <2>3. y = TextFile(d, item, n) /\ z = LogFile(y, <<>>, c) /\ c <= k - n
    BY <1>12, <2>2
  <2>. HIDE DEF y, z
  <2>4. Bears(y, k - n)
    BY ONLY <1>4, <1>12, <2>3, n \in Nat, BearsText
  <2>. DEFINE m == k - n
  <2>5. Bears(y, m) /\ c <= m
    BY <2>3, <2>4
  <2>. HIDE DEF m
  <2>6. Spoilt(z)
    BY ONLY <2>2, <2>3, <2>5, BearsLog
  <2>7. zero \in Nat /\ zero <= Share(cap.s, id).bytes + n /\ n <= cap.granted + zero
    <3>1. Share(p, id).bytes \in Nat
      BY <1>2, RoomParts
    <3>2. n + Row <= g
      OBVIOUS
    <3>. QED BY <1>12, <3>1, <3>2
  <2>. HIDE DEF zero
  <2>. QED BY ONLY <1>1, <2>1, <2>6, <2>7, n \in Nat, CapFits(a, cap, prev, id), CapTornCharged
<1>. DEFINE w == WithText(a, q, b, x)
<1>6. ASSUME ~cutText, ~cutRow PROVE r = Keep(w, item, n)
  <2>. DEFINE so == [a EXCEPT !.s = q, !.b.text = @ + n, !.dropped = @ \/ n < item.n]
              q0 == IF ~HasLog(a) THEN WithFiles(RecordBytes(cap.s, a.b.id, n, 0), a.b.id,
                                                 TextFile(cap.s.disk[a.b.id], item, n))
                    ELSE AppendEventsLog(WithFiles(RecordBytes(cap.s, a.b.id, n, 0), a.b.id,
                                                   TextFile(cap.s.disk[a.b.id], item, n)),
                                         a.b.id, <<row>>, Row)
              s0 == [a EXCEPT !.s = q0, !.b.text = @ + n, !.dropped = @ \/ n < item.n]
  <2>1. r = Keep(s0, item, n)
    BY <1>6, <1>13 DEF StoreText
  <2>2. TextFile(d, item, n) = TextWritten(d, piece)
    BY <1>12, TextFileIs
  <2>3. q0 = q
    <3>1. q0 = IF ~d.hasLog THEN WithFiles(RecordBytes(p, id, n, 0), id, TextFile(d, item, n))
               ELSE AppendEventsLog(WithFiles(RecordBytes(p, id, n, 0), id, TextFile(d, item, n)), id, <<row>>, Row)
      BY <1>1, <1>13
    <3>2. WithFiles(RecordBytes(p, id, n, 0), id, TextFile(d, item, n)) = WriteText(p, id, n, piece)
      BY <2>2 DEF WriteText
    <3>. HIDE DEF q0, row
    <3>. QED BY <3>1, <3>2
  <2>. HIDE DEF q0, q
  <2>4. r = Keep(so, item, n)
    BY <2>1, <2>3
  <2>5. so = w
    <3>1. so = [a EXCEPT !.s = q, !.b.text = v, !.dropped = x]
      BY <1>3
    <3>. HIDE DEF so, v, x
    <3>. QED BY ONLY <1>3, <3>1 DEF w, b, WithText
  <2>. HIDE DEF so, w
  <2>. QED BY <2>4, <2>5
<1>7. /\ b \in BundleType /\ b.id = a.b.id /\ b.text = v /\ b.images = a.b.images
      /\ b.current = a.b.current /\ b.preIndex = a.b.preIndex
  <2>. HIDE DEF v
  <2>. QED BY <1>3, <1>4, SetText
<1>. HIDE DEF b, p, x
<1>9. StoreOK(q) /\ Follows(q, prev, id) /\ Tracks(b, q.disk[id])
  <2>. DEFINE c == a.b
  <2>1. /\ Tracks(c, d) /\ c.text \in Nat /\ b.text = c.text + piece.n /\ b.images = c.images
        /\ b.current = c.current /\ b.preIndex = c.preIndex /\ (d.hasLog \/ c.images = 0)
        /\ row = [row |-> "T", from |-> c.text, to |-> b.text] /\ piece.n + Row <= g /\ d = p.disk[id]
    BY <1>1, <1>2, <1>4, <1>5, <1>7
  <2>2. q = IF d.hasLog THEN AppendEventsLog(WriteText(p, id, piece.n, piece), id, <<row>>, Row)
            ELSE WriteText(p, id, piece.n, piece)
    BY <1>5
  <2>3. Follows(p, prev, id) /\ Room(p, id, g) /\ piece \in Piece
    BY <1>2, <1>5
  <2>. HIDE DEF q, d, piece, row, c, g
  <2>. QED BY ONLY <2>1, <2>2, <2>3, TextStored
<1>. HIDE DEF q
<1>10. RunOK(w, prev, id)
  <2>1. w = WithText(a, q, b, x) /\ b.id = id /\ b \in BundleType /\ x \in BOOLEAN
    BY <1>1, <1>4, <1>7 DEF x
  <2>. HIDE DEF w
  <2>2. RunBase(w, prev, id) /\ w.s = q /\ w.b = b
    BY ONLY <1>1, <1>9, <2>1, RunText
  <2>. QED BY <1>9, <2>2 DEF RunOK
<1>11. ASSUME ~cutText, ~cutRow PROVE RunOK(r, prev, id)
  <2>1. r = Keep(w, item, n)
    BY <1>6, <1>11
  <2>. HIDE DEF w
  <2>. QED BY ONLY <1>10, <2>1, item \in Item, n \in Nat, KeepKeeps
<1>. QED BY <1>11, <1>14, <1>15

(* Dropped text is recorded as an omission.                                *)
LEMMA DropKeeps ==
  ASSUME NEW a, NEW prev, NEW id, RunOK(a, prev, id), NEW cap, CapFits(a, cap, prev, id),
         NEW r, r = [a EXCEPT !.s = cap.s, !.dropped = TRUE]
  PROVE  RunOK(r, prev, id)
<1>. DEFINE p == cap.s
            yes == TRUE
<1>1. StoreOK(p) /\ Follows(p, prev, id) /\ p.disk[id] = a.s.disk[id] /\ RunBase(a, prev, id)
  BY DEF CapFits, RunOK
<1>2. r = WithDropped(a, p, yes) /\ yes \in BOOLEAN
  BY DEF WithDropped
<1>. HIDE DEF p, yes
<1>3. RunBase(r, prev, id) /\ r.s = p /\ r.b = a.b /\ r.err = a.err
  BY ONLY <1>1, <1>2, RunStoreDropped
<1>. QED BY <1>1, <1>3 DEF RunOK

(* Storing as much of a text as fits.                                      *)
LEMMA FitTextKeeps ==
  ASSUME NEW a, NEW prev, NEW id, RunOK(a, prev, id), prev # 0 => Roomy, ~a.err,
         a.s.disk[id].hasLog \/ a.b.images = 0,
         NEW item \in Item, NEW cap, CapFits(a, cap, prev, id), NEW n \in Nat,
         n # 0 => n + Row <= cap.granted, NEW io, io.cut \in Nat, NEW r, r = FitText(a, item, cap, n, io)
  PROVE  RunOK(r, prev, id)
<1>. DEFINE vis == item.visible
<1>1. vis \in BOOLEAN
  BY ItemParts
<1>2. CASE cap.err
  <2>1. r = [a EXCEPT !.s = cap.s, !.err = TRUE] /\ RunBase(a, prev, id)
    BY <1>2 DEF FitText, RunOK
  <2>. QED BY ONLY <2>1, CapFits(a, cap, prev, id), CapErrRun
<1>3. CASE ~cap.err /\ n = 0
  <2>. DEFINE st == [a EXCEPT !.s = cap.s, !.dropped = TRUE]
  <2>1. r = ApplyOmission(st, vis, item, io)
    BY <1>3 DEF FitText
  <2>2. RunOK(st, prev, id)
    <3>1. st = [a EXCEPT !.s = cap.s, !.dropped = TRUE]
      OBVIOUS
    <3>. HIDE DEF st
    <3>. QED BY ONLY <3>1, RunOK(a, prev, id), CapFits(a, cap, prev, id), DropKeeps
  <2>. HIDE DEF st, vis
  <2>. QED BY ONLY <1>1, <2>1, <2>2, prev # 0 => Roomy, io.cut \in Nat, ApplyOmissionKeeps
<1>4. CASE ~cap.err /\ n # 0
  <2>. DEFINE st == StoreText(a, item, cap, n, io)
  <2>1. r = st \/ r = ApplyOmission(st, vis, item, io)
    BY <1>4 DEF FitText
  <2>2. st = StoreText(a, item, cap, n, io) /\ n + Row <= cap.granted
    BY <1>4
  <2>. HIDE DEF st, vis
  <2>3. RunOK(st, prev, id)
    BY ONLY <2>2, RunOK(a, prev, id), ~a.err, a.s.disk[id].hasLog \/ a.b.images = 0, item \in Item,
       CapFits(a, cap, prev, id), n \in Nat, io.cut \in Nat, StoreTextKeeps
  <2>4. CASE r = st
    BY <2>3, <2>4
  <2>5. CASE r = ApplyOmission(st, vis, item, io)
    BY ONLY <1>1, <2>3, <2>5, prev # 0 => Roomy, io.cut \in Nat, ApplyOmissionKeeps
  <2>. QED BY <2>1, <2>4, <2>5
<1>. QED BY <1>2, <1>3, <1>4

(* What is retained of a text fits with its row.                           *)
LEMMA RetainedFits ==
  ASSUME NEW n \in Nat, NEW granted \in Nat, NEW reserve \in Nat, NEW omission \in Nat, NEW k,
         k = RetainedText(n, granted, reserve, omission)
  PROVE  k \in Nat /\ (k # 0 => k + Row <= granted)
<1>. DEFINE m == Row
<1>1. m \in Nat
  BY QuotaNumbers
<1>2. k = IF n + m + Minus(reserve, omission) <= granted THEN n ELSE Minus(granted, m + reserve)
  BY DEF RetainedText
<1>. HIDE DEF m
<1>3. k \in Nat /\ (k # 0 => k + m <= granted)
  BY ONLY <1>1, <1>2, n \in Nat, granted \in Nat, reserve \in Nat, omission \in Nat DEF Minus
<1>. QED BY <1>3 DEF m

(* append_worker_text_with_visibility.                                     *)
LEMMA VisibleTextKeeps ==
  ASSUME NEW a, NEW prev, NEW id, RunOK(a, prev, id), prev # 0 => Roomy,
         a.err \/ a.s.disk[id].hasLog \/ a.b.images = 0, NEW item \in Item, NEW after \in Nat,
         NEW io, io.cut \in Nat, NEW r, r = AppendWorkerTextWithVisibility(a, item, after, io)
  PROVE  RunOK(r, prev, id)
<1>. DEFINE om == IF ~a.b.recorded /\ HasLog(a) THEN OmissionLine ELSE 0
            n == item.n
            want == n + RowOverhead + after + om
            cap == PrepareAppendCapacity(a.s, id, want, io)
            g == cap.granted
            reserve == after + om
            k == RetainedText(n, g, reserve, om)
<1>1. CASE a.err
  BY <1>1 DEF AppendWorkerTextWithVisibility
<1>2. CASE ~a.err
  <2>1. a.b.id = id
    BY DEF RunOK, RunBase
  <2>2. r = FitText(a, item, cap, k, io)
    BY <1>2, <2>1 DEF AppendWorkerTextWithVisibility, GrantText
  <2>3. om \in Nat /\ n \in Nat
    BY QuotaNumbers, ItemParts
  <2>. HIDE DEF om, n
  <2>4. want \in Nat /\ reserve \in Nat
    BY <2>3, QuotaNumbers
  <2>5. cap = PrepareAppendCapacity(a.s, id, want, io)
    OBVIOUS
  <2>. HIDE DEF want, cap, reserve
  <2>6. CapFits(a, cap, prev, id)
    BY ONLY <1>2, <2>4, <2>5, RunOK(a, prev, id), prev # 0 => Roomy, CapRun
  <2>7. g \in Nat /\ k = RetainedText(n, g, reserve, om)
    BY <2>6 DEF CapFits
  <2>8. k \in Nat /\ (k # 0 => k + Row <= cap.granted)
    <3>. HIDE DEF k, g
    <3>1. k \in Nat /\ (k # 0 => k + Row <= g)
      BY ONLY <2>3, <2>4, <2>7, RetainedFits
    <3>. QED BY <3>1 DEF g
  <2>. HIDE DEF k
  <2>9. a.s.disk[id].hasLog \/ a.b.images = 0
    BY <1>2
  <2>. QED BY ONLY <1>2, <2>2, <2>6, <2>8, <2>9, RunOK(a, prev, id), prev # 0 => Roomy,
              item \in Item, io.cut \in Nat, FitTextKeeps
<1>. QED BY <1>1, <1>2

(* append_worker_text, with the index that text after images needs.        *)
LEMMA WorkerTextKeeps ==
  ASSUME NEW a, NEW prev, NEW id, RunOK(a, prev, id), prev # 0 => Roomy,
         NEW item \in Item, NEW after \in Nat, NEW io, io.cut \in Nat,
         NEW r, r = AppendWorkerText(a, item, after, io)
  PROVE  RunOK(r, prev, id)
<1>. DEFINE first == ~HasLog(a) /\ (a.b.images > 0 \/ (a.b.omitted /\ ~a.b.recorded /\ item.visible))
            m == MaterializeEventsLog(a, item, io)
            st == IF first THEN m ELSE a
<1>1. r = AppendWorkerTextWithVisibility(st, item, after, io)
  BY DEF AppendWorkerText
<1>2. RunOK(st, prev, id) /\ (st.err \/ st.s.disk[id].hasLog \/ st.b.images = 0)
  <2>1. CASE first
    <3>1. m = MaterializeEventsLog(a, item, io)
      OBVIOUS
    <3>2. st = m
      BY <2>1
    <3>. HIDE DEF m, st
    <3>3. RunOK(m, prev, id) /\ (m.err \/ m.s.disk[id].hasLog)
      BY ONLY <3>1, RunOK(a, prev, id), prev # 0 => Roomy, io.cut \in Nat, MaterializeKeeps
    <3>. QED BY <3>2, <3>3
  <2>2. CASE ~first
    <3>1. st = a
      BY <2>2
    <3>2. a.b.id = id /\ a \in RunType
      BY DEF RunOK, RunBase
    <3>3. a.b.images \in Nat
      BY <3>2, RunParts, BundleParts
    <3>4. a.s.disk[id].hasLog \/ a.b.images = 0
      BY <2>2, <3>2, <3>3 DEF HasLog
    <3>. QED BY <3>1, <3>4
  <2>. QED BY <2>1, <2>2
<1>. HIDE DEF st
<1>. QED BY ONLY <1>1, <1>2, prev # 0 => Roomy, item \in Item, after \in Nat, io.cut \in Nat, VisibleTextKeeps

(* An image at the end of a bundle.                                        *)
LEMMA ImageStored ==
  ASSUME NEW p, NEW prev, NEW id, Follows(p, prev, id), NEW g, NEW piece, NEW number, NEW n, NEW old,
         NEW m, ImagePlace(p, id, g, piece, number, n, old, m), NEW d, d = p.disk[id],
         NEW c, NEW b, Tracks(c, d), c.text \in Nat, c.preIndex \in Nat, b.text = c.text, number # 0,
         b.images = number, b.preIndex = (IF d.hasLog THEN c.preIndex ELSE c.preIndex + 1),
         d.hasLog \/ c.text = 0, NEW row, row = [row |-> "I", image |-> Len(d.history) + 1],
         NEW f, f = WriteImage(p, id, 2 * n, old, piece, number, n),
         NEW q, q = IF d.hasLog THEN AppendEventsLog(f, id, <<row>>, m) ELSE ReserveEventsLogBytes(f, id, m)
  PROVE  StoreOK(q) /\ Follows(q, prev, id) /\ Tracks(b, q.disk[id])
<1>. DEFINE x == ImageWritten(d, piece, NewAlias(d.alias, number, n))
            y == LogWritten(x, <<row>>, m)
<1>1. /\ x.text = d.text /\ x.hasLog = d.hasLog /\ x.history = Append(d.history, piece)
      /\ x.torn = d.torn /\ x.gone = d.gone
  BY DEF ImageWritten
<1>2. d \in Dir /\ piece \in Piece
  BY RoomParts DEF ImagePlace
<1>3. x.history # <<>> /\ Len(x.history) = Len(d.history) + 1
  <2>1. d.history \in Seq(Piece)
    BY <1>2, DirParts
  <2>. DEFINE h == d.history
              k == x.history
  <2>2. h \in Seq(Piece) /\ k = Append(h, piece)
    BY <1>1, <2>1
  <2>. HIDE DEF h, k
  <2>3. k # <<>> /\ Len(k) = Len(h) + 1
    BY ONLY <1>2, <2>2
  <2>. QED BY <2>3 DEF h, k
<1>4. x = ImageWritten(d, piece, NewAlias(d.alias, number, n))
  OBVIOUS
<1>5. CASE d.hasLog
  <2>1. q = AppendEventsLog(f, id, <<row>>, m)
    BY <1>5
  <2>. HIDE DEF x
  <2>2. Wrote(p, q, id, LogWritten(x, <<row>>, m))
    BY ONLY <1>4, <1>5, <2>1, ImagePlace(p, id, g, piece, number, n, old, m), d = p.disk[id],
       row = [row |-> "I", image |-> Len(d.history) + 1],
       f = WriteImage(p, id, 2 * n, old, piece, number, n), ImageRowGrows
  <2>3. StoreOK(q) /\ Follows(q, prev, id) /\ q.disk[id] = y
    BY <2>2 DEF Wrote
  <2>4. y.text = x.text /\ y.history = x.history /\ y.hasLog /\ y.torn = x.torn /\ y.gone = x.gone
    BY DEF LogWritten
  <2>. HIDE DEF y
  <2>5. Tracks(b, y)
    BY <1>1, <1>3, <2>4 DEF Tracks, Intact
  <2>. QED BY <2>3, <2>5
<1>6. CASE ~d.hasLog
  <2>1. q = ReserveEventsLogBytes(f, id, m)
    BY <1>6
  <2>. HIDE DEF x
  <2>2. Wrote(p, q, id, x)
    BY ONLY <1>4, <1>6, <2>1, ImagePlace(p, id, g, piece, number, n, old, m), d = p.disk[id],
       f = WriteImage(p, id, 2 * n, old, piece, number, n), ImageGrows
  <2>3. StoreOK(q) /\ Follows(q, prev, id) /\ q.disk[id] = x
    BY <2>2 DEF Wrote
  <2>4. c.preIndex = Len(d.history) /\ c.text = 0 /\ c.text = Total(d.text)
    BY <1>6 DEF Tracks
  <2>5. Tracks(b, x)
    BY <1>1, <1>3, <1>6, <2>4 DEF Tracks, Intact
  <2>. QED BY <2>3, <2>5
<1>. QED BY <1>5, <1>6

(* Writing the files of an image that fits, or failing to.                 *)
LEMMA ImageFilesKeeps ==
  ASSUME NEW a, NEW prev, NEW id, RunOK(a, prev, id), ~a.err, a.s.disk[id].hasLog \/ a.b.text = 0,
         NEW item \in Item, NEW cap, CapFits(a, cap, prev, id), NEW number \in Nat, number # 0,
         NEW old, old = OldAlias(a.s.disk[id].alias, number), NEW index \in Nat, Row <= index,
         a.s.disk[id].hasLog => index = Row, item.n + Minus(item.n, old) + index <= cap.granted,
         NEW io, io.cut \in Nat, NEW r, r = AppendImageFiles(a, item, cap, number, old, index, io)
  PROVE  RunOK(r, prev, id)
<1>. DEFINE p == cap.s
            d == p.disk[id]
            g == cap.granted
            n == item.n
            piece == [item |-> item.id, n |-> n]
            img == item.img
            v == IF d.hasLog THEN a.b.preIndex ELSE a.b.preIndex + 1
            b == [a.b EXCEPT !.images = number, !.current = img, !.preIndex = v]
            row == [row |-> "I", image |-> Len(d.history) + 1]
            f == WriteImage(p, id, 2 * n, old, piece, number, n)
            q == IF d.hasLog THEN AppendEventsLog(f, id, <<row>>, index)
                 ELSE ReserveEventsLogBytes(f, id, index)
            w == WithBundle(a, q, b)
            k == Share(p, id).reserved + g
            held == Share(p, id).bytes
            history == HistoryFile(d, item, n)
            c == CutOf(io, n)
            m == CutOf(io, Row)
            content == Fails(io, "content", item)
            oldAlias == Fails(io, "old alias", item)
            alias == Fails(io, "alias", item)
            newAlias == Fails(io, "new alias", item)
            cutRow == d.hasLog /\ Fails(io, "row", item)
<1>1. RunBase(a, prev, id) /\ Tracks(a.b, a.s.disk[id]) /\ a \in RunType /\ a.b.id = id
  BY DEF RunOK, RunBase
<1>2. /\ StoreOK(p) /\ Follows(p, prev, id) /\ d = a.s.disk[id] /\ Room(p, id, g) /\ g \in Nat
  BY DEF CapFits
<1>3. a.b \in BundleType
  BY <1>1, RunParts
<1>4. a.b.preIndex \in Nat /\ a.b.text \in Nat /\ n \in Nat /\ img \in Nat /\ item.id \in Nat
  BY <1>3, BundleParts, ItemParts
<1>5. /\ Bears(d, k) /\ g <= k /\ k \in Nat /\ d \in Dir
  <2>1. Room(p, id, g) /\ d = p.disk[id] /\ k = Share(p, id).reserved + g
    BY <1>2
  <2>. HIDE DEF p, d, g, k
  <2>2. Bears(d, k) /\ g <= k
    BY ONLY <2>1, RoomBears
  <2>. QED BY <2>2 DEF Bears
<1>6. HasLog(a) <=> d.hasLog
  BY <1>1, <1>2 DEF HasLog
<1>7. old \in Nat /\ old <= held /\ held \in Nat /\ old = OldAlias(d.alias, number)
  <2>. DEFINE y == ImageWritten(d, piece, NewAlias(d.alias, number, n))
  <2>1. ImageAt(d, piece, n)
    BY <1>4, <1>5 DEF ImageAt, Piece
  <2>2. old = OldAlias(d.alias, number) /\ y = ImageWritten(d, piece, NewAlias(d.alias, number, n))
    BY <1>2
  <2>3. held = FilesOf(d) /\ held \in Nat
    BY <1>2, RoomParts
  <2>. HIDE DEF y, d, piece, n
  <2>4. ImageKept(d, y, piece, n, old)
    BY ONLY <2>1, <2>2, ImageFiles
  <2>. QED BY <2>2, <2>3, <2>4 DEF ImageKept
<1>8. /\ c \in Nat /\ c <= n /\ m \in Nat /\ m <= Row /\ Row \in Nat
  BY <1>4, CutIs, QuotaNumbers
<1>9. /\ n + index <= g /\ 2 * n + index <= g + old
  <2>1. n + Minus(n, old) + index <= g
    OBVIOUS
  <2>. HIDE DEF n, g
  <2>. QED BY ONLY <1>2, <1>4, <1>7, <2>1, index \in Nat DEF Minus
<1>10. /\ n <= g /\ n <= k /\ c <= k /\ n + c <= k + old /\ 2 * n <= g + old /\ n <= g + old
       /\ n + n <= k + old /\ m <= (k + old) - (n + n)
  <2>. HIDE DEF n, g, k, c, m
  <2>. QED BY ONLY <1>2, <1>4, <1>5, <1>7, <1>8, <1>9, index \in Nat, Row <= index
<1>11. CASE content
  <2>. DEFINE x == HistoryFile(d, item, c)
  <2>1. r = Torn(a, cap.s, x)
    BY <1>1, <1>11 DEF AppendImageFiles
  <2>2. x = HistoryFile(d, item, c)
    OBVIOUS
  <2>. HIDE DEF x, c, d, k
  <2>3. Spoilt(x)
    BY ONLY <1>4, <1>5, <1>8, <1>10, <2>2, BearsHistory
  <2>. QED BY ONLY <1>1, <2>1, <2>3, CapFits(a, cap, prev, id), CapTorn
<1>. DEFINE zero == 0
<1>12. zero \in Nat /\ zero <= Share(cap.s, id).bytes + n /\ n <= cap.granted + zero
  <2>1. zero <= held + n /\ n <= g + zero
    <3>. HIDE DEF held, n, g
    <3>. QED BY <1>2, <1>4, <1>7, <1>10
  <2>. QED BY <2>1
<1>13. CASE ~content /\ oldAlias
  <2>1. r = Torn(a, RecordBytes(cap.s, id, n, zero), history)
    BY <1>1, <1>13 DEF AppendImageFiles
  <2>2. history = HistoryFile(d, item, n)
    OBVIOUS
  <2>. HIDE DEF history, d, k, n, zero
  <2>3. Spoilt(history)
    BY ONLY <1>4, <1>5, <1>10, <2>2, BearsHistory
  <2>. QED BY ONLY <1>1, <1>4, <1>12, <2>1, <2>3, CapFits(a, cap, prev, id), CapTornCharged
<1>. DEFINE part == AliasFile(history, number, c)
<1>14. Spoilt(part)
  <2>1. part = AliasFile(HistoryFile(d, item, n), number, c)
    OBVIOUS
  <2>. HIDE DEF part, d, k, n, c
  <2>2. Bears(part, (k + old) - (n + c))
    BY ONLY <1>4, <1>5, <1>7, <1>8, <1>10, <2>1, BearsImage
  <2>. QED BY <2>2, BearsSpoilt
<1>15. CASE ~content /\ ~oldAlias /\ alias
  <2>1. r = Torn(a, RecordBytes(cap.s, id, n, zero), part)
    BY <1>1, <1>15 DEF AppendImageFiles
  <2>. HIDE DEF part, n, zero
  <2>. QED BY ONLY <1>1, <1>4, <1>12, <1>14, <2>1, CapFits(a, cap, prev, id), CapTornCharged
<1>16. CASE ~content /\ ~oldAlias /\ ~alias /\ newAlias
  <2>1. r = Torn(a, RecordBytes(cap.s, id, n, old), part)
    BY <1>1, <1>16 DEF AppendImageFiles
  <2>2. old <= Share(cap.s, id).bytes + n /\ n <= cap.granted + old
    <3>1. old <= held + n /\ n <= g + old
      <4>. HIDE DEF held, n, g
      <4>. QED BY <1>2, <1>4, <1>7, <1>10
    <3>. QED BY <3>1
  <2>. HIDE DEF part, n
  <2>. QED BY ONLY <1>1, <1>4, <1>7, <1>14, <2>1, <2>2, CapFits(a, cap, prev, id), CapTornCharged
<1>. DEFINE whole == ~content /\ ~oldAlias /\ ~alias /\ ~newAlias
<1>17. CASE whole /\ cutRow
  <2>. DEFINE plus == 2 * n
              x == AliasFile(history, number, n)
              z == LogFile(x, <<>>, m)
              space == (k + old) - (n + n)
  <2>1. r = Torn(a, RecordBytes(cap.s, id, plus, old), z)
    BY <1>1, <1>6, <1>17 DEF AppendImageFiles
  <2>2. plus \in Nat /\ old <= Share(cap.s, id).bytes + plus /\ plus <= cap.granted + old
    <3>1. plus \in Nat /\ old <= held + plus /\ plus <= g + old
      <4>. HIDE DEF held, n, g
      <4>. QED BY <1>2, <1>4, <1>7, <1>10
    <3>. QED BY <3>1
  <2>3. x = AliasFile(HistoryFile(d, item, n), number, n) /\ z = LogFile(x, <<>>, m)
    OBVIOUS
  <2>. HIDE DEF x, z, plus, d, k, n, m
  <2>4. Bears(x, (k + old) - (n + n))
    BY ONLY <1>4, <1>5, <1>7, <1>10, <2>3, BearsImage
  <2>5. Bears(x, space) /\ m <= space
    BY <1>10, <2>4
  <2>. HIDE DEF space
  <2>6. Spoilt(z)
    BY ONLY <1>8, <2>3, <2>5, BearsLog
  <2>. QED BY ONLY <1>1, <1>7, <2>1, <2>2, <2>6, CapFits(a, cap, prev, id), CapTornCharged
<1>18. ASSUME whole, ~cutRow PROVE r = Keep(w, item, n)
  <2>. DEFINE at == a.b.id
              Bun(hold) == [a.b EXCEPT !.images = number, !.current = item.img, !.preIndex = hold]
              f0 == WithFiles(RecordBytes(cap.s, at, 2 * item.n, old), at,
                              AliasFile(HistoryFile(cap.s.disk[at], item, item.n), number, item.n))
              row0 == [row |-> "I", image |-> Len(a.s.disk[at].history) + 1]
              r1 == Keep([a EXCEPT !.s = AppendEventsLog(f0, at, <<row0>>, Row), !.b = Bun(a.b.preIndex)], item, item.n)
              r2 == Keep([a EXCEPT !.s = ReserveEventsLogBytes(f0, at, index), !.b = Bun(a.b.preIndex + 1)], item, item.n)
  <2>1. r = IF ~HasLog(a) THEN r2 ELSE r1
    BY <1>6, <1>18 DEF AppendImageFiles
  <2>2. AliasFile(HistoryFile(d, item, n), number, n) = ImageWritten(d, piece, NewAlias(d.alias, number, n))
    <3>1. HistoryFile(d, item, n) = ImageWritten(d, piece, d.alias)
      BY <1>5, HistoryFileIs
    <3>. HIDE DEF d, piece, n
    <3>2. AliasFile(ImageWritten(d, piece, d.alias), number, n) = ImageWritten(d, piece, NewAlias(d.alias, number, n))
      BY <1>5, AliasFileIs
    <3>. QED BY <3>1, <3>2
  <2>3. f0 = f
    BY <1>1, <2>2 DEF WriteImage
  <2>4. row0 = row /\ at = id
    BY <1>1, <1>2
  <2>. HIDE DEF f0, f, row0, row
  <2>5. CASE d.hasLog
    <3>1. r = r1 /\ index = Row /\ v = a.b.preIndex
      BY <1>2, <1>6, <2>1, <2>5
    <3>2. q = AppendEventsLog(f0, at, <<row0>>, Row) /\ b = Bun(a.b.preIndex)
      BY <2>3, <2>4, <2>5, <3>1
    <3>. QED BY <3>1, <3>2 DEF WithBundle
  <2>6. CASE ~d.hasLog
    <3>1. r = r2 /\ v = a.b.preIndex + 1
      BY <1>6, <2>1, <2>6
    <3>2. q = ReserveEventsLogBytes(f0, at, index) /\ b = Bun(a.b.preIndex + 1)
      BY <2>3, <2>4, <2>6, <3>1
    <3>. QED BY <3>1, <3>2 DEF WithBundle
  <2>. QED BY <2>5, <2>6
<1>19. ASSUME whole, ~cutRow PROVE RunOK(r, prev, id)
  <2>2. /\ b \in BundleType /\ b.id = a.b.id /\ b.text = a.b.text /\ b.images = number
        /\ b.current = img /\ b.preIndex = v
    <3>1. v \in Nat
      BY <1>4
    <3>. DEFINE e == a.b
                num == number
    <3>2. Counts(e, num, img, v) /\ b = WithImages(e, num, img, v)
      BY <1>3, <1>4, <3>1 DEF WithImages, Counts
    <3>. HIDE DEF v, img, e, b, num
    <3>3. /\ b \in BundleType /\ b.id = e.id /\ b.text = e.text /\ b.images = num
          /\ b.current = img /\ b.preIndex = v
      BY ONLY <3>2, SetImages
    <3>. QED BY <3>3 DEF e, num
  <2>. HIDE DEF b
  <2>4. ImagePlace(p, id, g, piece, number, n, old, index)
    <3>1. piece \in Piece /\ piece.n = n
      BY <1>4 DEF Piece
    <3>4. old = OldAlias(p.disk[id].alias, number)
      BY <1>2
    <3>. HIDE DEF p, g, n, piece
    <3>. QED BY <1>2, <1>4, <1>9, <3>1, <3>4 DEF ImagePlace
  <2>5. StoreOK(q) /\ Follows(q, prev, id) /\ Tracks(b, q.disk[id])
    <3>. DEFINE e == a.b
    <3>1. /\ Tracks(e, d) /\ e.text \in Nat /\ e.preIndex \in Nat /\ b.text = e.text /\ b.images = number
          /\ b.preIndex = (IF d.hasLog THEN e.preIndex ELSE e.preIndex + 1)
          /\ (d.hasLog \/ e.text = 0)
      BY <1>1, <1>2, <1>4, <2>2
    <3>2. /\ q = IF d.hasLog THEN AppendEventsLog(f, id, <<row>>, index) ELSE ReserveEventsLogBytes(f, id, index)
          /\ row = [row |-> "I", image |-> Len(d.history) + 1] /\ d = p.disk[id]
          /\ f = WriteImage(p, id, 2 * n, old, piece, number, n) /\ Follows(p, prev, id)
      BY <1>2
    <3>. HIDE DEF q, f, row, d, piece, n, e, p, g
    <3>. QED BY ONLY <2>4, <3>1, <3>2, number # 0, ImageStored
  <2>6. RunOK(w, prev, id)
    <3>1. w = WithBundle(a, q, b) /\ b \in BundleType /\ b.id = id
      BY <1>1, <2>2
    <3>. HIDE DEF w, q
    <3>2. RunBase(w, prev, id) /\ w.s = q /\ w.b = b
      BY ONLY <1>1, <2>5, <3>1, RunStoreBundle
    <3>. QED BY <2>5, <3>2 DEF RunOK
  <2>7. r = Keep(w, item, n)
    BY <1>18, <1>19
  <2>. HIDE DEF w, n
  <2>. QED BY ONLY <1>4, <2>6, <2>7, item \in Item, KeepKeeps
<1>. QED BY <1>11, <1>13, <1>15, <1>16, <1>17, <1>19

(* Storing an image if it fits.                                            *)
LEMMA StoreImageKeeps ==
  ASSUME NEW a, NEW prev, NEW id, RunOK(a, prev, id), ~a.err, a.s.disk[id].hasLog \/ a.b.text = 0,
         NEW item \in Item, NEW cap, CapFits(a, cap, prev, id), NEW number \in Nat, number # 0,
         NEW old, old = OldAlias(a.s.disk[id].alias, number), NEW index \in Nat, Row <= index,
         a.s.disk[id].hasLog => index = Row,
         NEW need \in Nat, need = item.n + Minus(item.n, old) + index, NEW io, io.cut \in Nat, NEW image,
         image = StoreImage(a, item, cap, number, old, index, need, io)
  PROVE  RunOK(image.a, prev, id)
<1>. DEFINE g == cap.granted
            r == image.a
<1>1. RunBase(a, prev, id) /\ g \in Nat
  BY DEF RunOK, CapFits
<1>5. CASE cap.err
  <2>2. r = [a EXCEPT !.s = cap.s, !.err = TRUE]
    BY <1>5 DEF StoreImage
  <2>. HIDE DEF r
  <2>3. RunOK(r, prev, id)
    BY ONLY <1>1, <2>2, CapFits(a, cap, prev, id), CapErrRun
  <2>. QED BY <2>3 DEF r
<1>6. CASE ~cap.err /\ g < need
  <2>2. r = [a EXCEPT !.s = cap.s]
    BY <1>6 DEF StoreImage
  <2>. HIDE DEF r
  <2>3. RunOK(r, prev, id)
    BY ONLY <2>2, RunOK(a, prev, id), CapFits(a, cap, prev, id), CapStore
  <2>. QED BY <2>3 DEF r
<1>7. CASE ~cap.err /\ ~(g < need)
  <2>1. r = AppendImageFiles(a, item, cap, number, old, index, io)
    BY <1>7 DEF StoreImage
  <2>2. item.n + Minus(item.n, old) + index <= cap.granted
    <3>1. need <= g
      <4>. HIDE DEF g
      <4>. QED BY <1>1, <1>7
    <3>. QED BY <3>1
  <2>. HIDE DEF r
  <2>3. RunOK(r, prev, id)
    BY ONLY <2>1, <2>2, RunOK(a, prev, id), ~a.err, a.s.disk[id].hasLog \/ a.b.text = 0, item \in Item,
       CapFits(a, cap, prev, id), number \in Nat, number # 0, old = OldAlias(a.s.disk[id].alias, number),
       index \in Nat, Row <= index, a.s.disk[id].hasLog => index = Row, io.cut \in Nat, ImageFilesKeeps
  <2>. QED BY <2>3 DEF r
<1>. QED BY <1>5, <1>6, <1>7

(* An image in its bundle.                                                 *)
LEMMA FitImageKeeps ==
  ASSUME NEW a, NEW prev, NEW id, RunOK(a, prev, id), prev # 0 => Roomy,
         a.err \/ a.s.disk[id].hasLog \/ a.b.text = 0,
         NEW item \in Item, item.kind = "image", NEW io, io.cut \in Nat, NEW image, image = FitImage(a, item, io)
  PROVE  RunOK(image.a, prev, id)
<1>. DEFINE d == a.s.disk[id]
            number == IF a.b.current = item.img THEN a.b.images ELSE a.b.images + 1
            old == OldAlias(d.alias, number)
            index == Row + (IF ~d.hasLog /\ a.b.preIndex = 0 THEN Header ELSE 0)
            need == item.n + Minus(item.n, old) + index
            cap == PrepareAppendCapacity(a.s, id, need, io)
<1>1. CASE a.err
  <2>1. image = [fits |-> TRUE, a |-> a]
    BY <1>1 DEF FitImage
  <2>. QED BY <2>1
<1>2. CASE ~a.err
  <2>1. a.b.id = id /\ a \in RunType /\ StoreOK(a.s) /\ Follows(a.s, prev, id) /\ Tracks(a.b, d)
    BY <1>2 DEF RunOK, RunBase
  <2>2. a.b \in BundleType
    BY <2>1, RunParts
  <2>3. a.b.images \in Nat /\ a.b.current \in Nat /\ a.b.preIndex \in Nat
    BY <2>2, BundleParts
  <2>4. item.n \in Nat /\ item.img \in Nat /\ item.img # 0
    BY ItemParts
  <2>5. image = StoreImage(a, item, cap, number, old, index, need, io)
    BY <1>2, <2>1 DEF FitImage, OldAlias, HasLog
  <2>6. number \in Nat /\ number # 0
    BY <2>1, <2>3, <2>4 DEF Tracks
  <2>7. d.alias \in Seq(Nat) /\ d.hasLog \in BOOLEAN
    BY <2>1, FollowsStored, PositionIs, DirParts
  <2>8. old \in Nat
    <3>. DEFINE al == d.alias
                o == old
    <3>1. al \in Seq(Nat) /\ o = OldAlias(al, number)
      BY <2>7
    <3>. HIDE DEF al, number, o
    <3>2. o \in Nat
      BY ONLY <3>1 DEF OldAlias
    <3>. QED BY <3>2 DEF o
  <2>9. index \in Nat /\ Row <= index /\ (d.hasLog => index = Row)
    BY <2>7, QuotaNumbers
  <2>. HIDE DEF number, old, index
  <2>10. need \in Nat
    <3>. DEFINE n == item.n
                m == Minus(n, old)
    <3>1. n \in Nat /\ m \in Nat /\ need = n + m + index
      BY <2>4, <2>8 DEF Minus
    <3>. HIDE DEF n, m, need
    <3>. QED BY ONLY <2>9, <3>1
  <2>11. cap = PrepareAppendCapacity(a.s, id, need, io) /\ need = item.n + Minus(item.n, old) + index
    OBVIOUS
  <2>. HIDE DEF need, cap
  <2>12. CapFits(a, cap, prev, id)
    BY ONLY <1>2, <2>10, <2>11, RunOK(a, prev, id), prev # 0 => Roomy, CapRun
  <2>13. a.s.disk[id].hasLog \/ a.b.text = 0
    BY <1>2
  <2>14. old = OldAlias(a.s.disk[id].alias, number) /\ (a.s.disk[id].hasLog => index = Row)
    BY <2>9 DEF old
  <2>. QED BY ONLY <1>2, <2>5, <2>6, <2>9, <2>10, <2>11, <2>12, <2>13, <2>14, RunOK(a, prev, id), item \in Item,
              io.cut \in Nat, StoreImageKeeps
<1>. QED BY <1>1, <1>2

(* append_image, with the index that an image after text needs.            *)
LEMMA AppendImageKeeps ==
  ASSUME NEW a, NEW prev, NEW id, RunOK(a, prev, id), prev # 0 => Roomy,
         NEW item \in Item, item.kind = "image", NEW io, io.cut \in Nat, NEW image, image = AppendImage(a, item, io)
  PROVE  RunOK(image.a, prev, id)
<1>. DEFINE first == HasText(a.b) /\ ~HasLog(a)
            m == MaterializeEventsLog(a, item, io)
            st == IF first THEN m ELSE a
<1>1. image = FitImage(st, item, io)
  BY DEF AppendImage
<1>2. RunOK(st, prev, id) /\ (st.err \/ st.s.disk[id].hasLog \/ st.b.text = 0)
  <2>1. CASE first
    <3>1. m = MaterializeEventsLog(a, item, io)
      OBVIOUS
    <3>2. st = m
      BY <2>1
    <3>. HIDE DEF m, st
    <3>3. RunOK(m, prev, id) /\ (m.err \/ m.s.disk[id].hasLog)
      BY ONLY <3>1, RunOK(a, prev, id), prev # 0 => Roomy, io.cut \in Nat, MaterializeKeeps
    <3>. QED BY <3>2, <3>3
  <2>2. CASE ~first
    <3>1. st = a
      BY <2>2
    <3>2. a.b.id = id /\ a \in RunType
      BY DEF RunOK, RunBase
    <3>3. a.b.text \in Nat
      BY <3>2, RunParts, BundleParts
    <3>4. a.s.disk[id].hasLog \/ a.b.text = 0
      BY <2>2, <3>2, <3>3 DEF HasLog, HasText
    <3>. QED BY <3>1, <3>4
  <2>. QED BY <2>1, <2>2
<1>. HIDE DEF st
<1>. QED BY ONLY <1>1, <1>2, prev # 0 => Roomy, item \in Item, item.kind = "image", io.cut \in Nat, FitImageKeeps

(* An image that the quota has no room for.                                *)
LEMMA AppendedKeeps ==
  ASSUME NEW a, NEW prev, NEW id, prev # 0 => Roomy, NEW item \in Item, NEW io, io.cut \in Nat,
         NEW image, RunOK(image.a, prev, id), NEW r, r = AppendedImage(a, item, image, io)
  PROVE  RunOK(r, prev, id)
<1>. DEFINE i == image.a
            yes == TRUE
            no == FALSE
            k == Append(i.kept, item)
            u == [i EXCEPT !.kept = k, !.dropped = yes]
            w == [i EXCEPT !.dropped = yes]
<1>1. RunOK(i, prev, id) /\ RunBase(i, prev, id) /\ i \in RunType
  BY DEF RunOK, RunBase
<1>2. i.kept \in Seq(Item)
  BY <1>1, RunParts
<1>3. k \in Seq(Item)
  <2>. DEFINE o == i.kept
  <2>1. o \in Seq(Item)
    BY <1>2
  <2>. HIDE DEF o
  <2>2. Append(o, item) \in Seq(Item)
    BY <2>1
  <2>. QED BY <2>2 DEF o
<1>4. r = i \/ r = ApplyOmission(u, no, item, io) \/ r = ApplyOmission(w, yes, item, io)
  BY DEF AppendedImage
<1>5. u = WithKeptDropped(i, k, yes) /\ w = [i EXCEPT !.dropped = yes]
      /\ yes \in BOOLEAN /\ no \in BOOLEAN
  BY DEF WithKeptDropped
<1>. HIDE DEF i, yes, no, k, u, w
<1>6. RunOK(u, prev, id)
  <2>1. RunBase(u, prev, id) /\ u.s = i.s /\ u.b = i.b /\ u.err = i.err
    BY ONLY <1>1, <1>3, <1>5, RunKeptDropped
  <2>. QED BY <1>1, <2>1 DEF RunOK
<1>7. RunOK(w, prev, id)
  <2>1. RunBase(w, prev, id) /\ w.s = i.s /\ w.b = i.b /\ w.err = i.err
    BY ONLY <1>1, <1>5, RunDropped
  <2>. QED BY <1>1, <2>1 DEF RunOK
<1>8. CASE r = i
  BY <1>1, <1>8
<1>9. CASE r = ApplyOmission(u, no, item, io)
  BY ONLY <1>5, <1>6, <1>9, prev # 0 => Roomy, io.cut \in Nat, ApplyOmissionKeeps
<1>10. CASE r = ApplyOmission(w, yes, item, io)
  BY ONLY <1>5, <1>7, <1>10, prev # 0 => Roomy, io.cut \in Nat, ApplyOmissionKeeps
<1>. QED BY <1>4, <1>8, <1>9, <1>10

(* The reserve for later content is a number.                              *)
LEMMA ReserveType ==
  ASSUME NEW items \in Seq(Item)
  PROVE  ReplyVisibleBundleReserve(items) \in Nat
<1>1. ASSUME NEW i \in Item PROVE ReplyVisibleReserve(i) \in Nat
  <2>. DEFINE n == i.n
              v == i.visible
              kd == i.kind
              ro == RowOverhead
              h == Header
              o == OmissionLine
  <2>1. n \in Nat /\ ro \in Nat /\ h \in Nat /\ o \in Nat
    BY ItemParts, QuotaNumbers
  <2>2. ReplyVisibleReserve(i) = CASE kd = "text" /\ v -> n + ro
                                   [] kd = "image" -> 2 * n + ro + h + o
                                   [] OTHER -> 0
    BY DEF ReplyVisibleReserve
  <2>. HIDE DEF n, v, kd, ro, h, o
  <2>3. CASE kd = "text" /\ v
    BY <2>1, <2>2, <2>3
  <2>4. CASE kd = "image"
    BY <2>1, <2>2, <2>4
  <2>5. CASE ~(kd = "text" /\ v) /\ kd # "image"
    BY <2>1, <2>2, <2>5
  <2>. QED BY <2>3, <2>4, <2>5
<1>. DEFINE f == [i \in DOMAIN items |-> ReplyVisibleReserve(items[i])]
<1>2. \A i \in DOMAIN items : items[i] \in Item
  OBVIOUS
<1>3. \A i \in DOMAIN items : ReplyVisibleReserve(items[i]) \in Nat
  BY <1>1, <1>2
<1>4. f \in Seq(Nat)
  BY <1>3
<1>5. ReplyVisibleBundleReserve(items) = SumOf(f)
  BY DEF ReplyVisibleBundleReserve
<1>. HIDE DEF f
<1>. QED BY <1>4, <1>5, SumType

(* append_item.                                                            *)
LEMMA AppendItemKeeps ==
  ASSUME NEW a, NEW prev, NEW id, RunOK(a, prev, id), prev # 0 => Roomy,
         NEW item \in Item, NEW rest \in Seq(Item), NEW io, io.cut \in Nat, NEW r, r = AppendItem(a, item, rest, io)
  PROVE  RunOK(r, prev, id)
<1>1. item.kind \in {"text", "image", "server"}
  BY ItemParts
<1>2. CASE a.err
  BY <1>2 DEF AppendItem
<1>3. CASE ~a.err /\ item.kind = "server"
  <2>. DEFINE k == Append(a.kept, item)
  <2>1. r = [a EXCEPT !.kept = k]
    BY <1>3 DEF AppendItem
  <2>2. RunBase(a, prev, id) /\ a.kept \in Seq(Item)
    BY RunParts DEF RunOK, RunBase
  <2>3. k \in Seq(Item)
    <3>. DEFINE o == a.kept
    <3>1. o \in Seq(Item)
      BY <2>2
    <3>. HIDE DEF o
    <3>2. Append(o, item) \in Seq(Item)
      BY <3>1
    <3>. QED BY <3>2 DEF o
  <2>. HIDE DEF k
  <2>4. RunBase(r, prev, id) /\ r.s = a.s /\ r.b = a.b /\ r.err = a.err
    BY ONLY <2>1, <2>2, <2>3, RunKept
  <2>. QED BY <2>4 DEF RunOK
<1>4. CASE ~a.err /\ item.kind = "text"
  <2>. DEFINE after == IF item.visible /\ ~a.b.omitted THEN 0 ELSE ReplyVisibleBundleReserve(rest)
  <2>1. r = a \/ r = AppendWorkerText(a, item, after, io)
    BY <1>4 DEF AppendItem
  <2>2. after \in Nat
    BY ReserveType
  <2>. HIDE DEF after
  <2>3. CASE r = a
    BY <2>3
  <2>4. CASE r = AppendWorkerText(a, item, after, io)
    BY ONLY <2>2, <2>4, RunOK(a, prev, id), prev # 0 => Roomy, item \in Item, io.cut \in Nat, WorkerTextKeeps
  <2>. QED BY <2>1, <2>3, <2>4
<1>5. CASE ~a.err /\ item.kind = "image"
  <2>. DEFINE image == AppendImage(a, item, io)
  <2>1. r = a \/ r = AppendedImage(a, item, image, io)
    BY <1>5 DEF AppendItem
  <2>2. image = AppendImage(a, item, io) /\ item.kind = "image"
    BY <1>5
  <2>. HIDE DEF image
  <2>3. RunOK(image.a, prev, id)
    BY ONLY <2>2, RunOK(a, prev, id), prev # 0 => Roomy, item \in Item, io.cut \in Nat, AppendImageKeeps
  <2>4. CASE r = a
    BY <2>4
  <2>5. CASE r = AppendedImage(a, item, image, io)
    BY ONLY <2>3, <2>5, prev # 0 => Roomy, item \in Item, io.cut \in Nat, AppendedKeeps
  <2>. QED BY <2>1, <2>4, <2>5
<1>. QED BY <1>1, <1>2, <1>3, <1>4, <1>5

(* All the items of an append.                                             *)
LEMMA AppendAllKeeps ==
  ASSUME NEW a, NEW prev, NEW id, RunOK(a, prev, id), prev # 0 => Roomy,
         NEW items \in Seq(Item), NEW io, io.cut \in Nat, NEW z, z = AppendAll(a, items, io)
  PROVE  RunOK(z, prev, id)
<1>. DEFINE n == Len(items)
            V == {r \in RunType : RunOK(r, prev, id)}
            One(r, k) == AppendItem(r, items[k], SubSeq(items, k + 1, n), io)
            S == [k \in 1..n |-> [r \in V |-> One(r, k)]]
            L == CHOOSE f : f = [k \in 0..n |-> IF k = 0 THEN a ELSE One(f[k - 1], k)]
<1>1. n \in Nat /\ a \in V
  BY DEF RunOK, RunBase
<1>2. \A k \in 1..n, r \in V : One(r, k) \in V
  <2>1. ASSUME NEW k \in 1..n, NEW r \in V PROVE One(r, k) \in V
    <3>. DEFINE item == items[k]
                rest == SubSeq(items, k + 1, n)
                q == AppendItem(r, item, rest, io)
    <3>1. item \in Item /\ rest \in Seq(Item) /\ RunOK(r, prev, id) /\ q = AppendItem(r, item, rest, io)
      OBVIOUS
    <3>. HIDE DEF item, rest, q, V
    <3>2. RunOK(q, prev, id)
      BY ONLY <3>1, prev # 0 => Roomy, io.cut \in Nat, AppendItemKeeps
    <3>3. q \in V
      BY <3>2 DEF V, RunOK, RunBase
    <3>. QED BY <3>3 DEF q, item, rest
  <2>. QED BY <2>1
<1>. HIDE DEF V, n
<1>3. S \in [1..n -> [V -> V]] /\ \A k \in 1..n, r \in V : S[k][r] = One(r, k)
  BY <1>2
<1>. HIDE DEF S
<1>4. PICK f : Rounds(n, V, a, S, f)
  BY <1>1, <1>3, RoundsExist
<1>5. f \in [0..n -> V] /\ f[0] = a /\ \A k \in 1..n : f[k] = S[k][f[k - 1]]
  BY <1>4 DEF Rounds
<1>6. \A k \in 1..n : k - 1 \in 0..n /\ f[k - 1] \in V
  BY <1>1, <1>5
<1>7. \A k \in 1..n : f[k] = One(f[k - 1], k)
  BY <1>3, <1>5, <1>6
<1>8. \A k \in 0..n : f[k] = IF k = 0 THEN a ELSE One(f[k - 1], k)
  BY <1>1, <1>5, <1>7
<1>9. f = [k \in 0..n |-> IF k = 0 THEN a ELSE One(f[k - 1], k)]
  BY <1>5, <1>8
<1>10. L = [k \in 0..n |-> IF k = 0 THEN a ELSE One(L[k - 1], k)]
  BY <1>9
<1>11. z = L[n]
  BY DEF AppendAll, n
<1>. HIDE DEF L
<1>12. L[0] = a /\ \A k \in 1..n : L[k] = One(L[k - 1], k)
  BY <1>1, <1>10
<1>. DEFINE T == {k \in 0..n : L[k] \in V}
<1>13. 0 \in T /\ \A k \in T \cap (0..n) : k < n => k + 1 \in T
  <2>1. 0 \in T
    BY <1>1, <1>12
  <2>2. ASSUME NEW k \in T \cap (0..n), k < n PROVE k + 1 \in T
    <3>1. k + 1 \in 1..n /\ (k + 1) - 1 = k /\ L[k] \in V /\ k + 1 \in 0..n
      BY <1>1, <2>2
    <3>2. L[k + 1] = One(L[k], k + 1)
      BY <1>12, <3>1
    <3>3. L[k + 1] \in V
      BY <1>2, <3>1, <3>2
    <3>. QED BY <3>1, <3>3
  <2>. QED BY <2>1, <2>2
<1>14. 0..n \subseteq T
  <2>. HIDE DEF T
  <2>. QED BY <1>1, <1>13, CountingUp
<1>15. L[n] \in V
  BY <1>1, <1>14
<1>. QED BY <1>11, <1>15 DEF V

(* A bundle that may be appended to.                                       *)
Open(s, prev, b) ==
    /\ StoreOK(s) /\ b \in BundleType /\ Follows(s, prev, b.id) /\ Tracks(b, s.disk[b.id])

(* append_items: whatever fails, the store is sound at its end.            *)
LEMMA AppendItemsKeeps ==
  ASSUME NEW s, NEW prev, NEW b, Open(s, prev, b), prev # 0 => Roomy, NEW items \in Seq(Item), NEW io, io.cut \in Nat,
         NEW z, z = AppendItems(s, b, items, io)
  PROVE  RunOK(z, prev, b.id)
<1>. DEFINE id == b.id
            none == <<>>
            no == FALSE
            a == [s |-> s, b |-> b, kept |-> none, order |-> none, dropped |-> no, err |-> no]
<1>1. RunPieces(s, b, none, none, no, no, prev, id)
  BY DEF Open, RunPieces
<1>2. a = [s |-> s, b |-> b, kept |-> none, order |-> none, dropped |-> no, err |-> no]
      /\ z = AppendAll(a, items, io)
  BY DEF AppendItems
<1>. HIDE DEF none, no, a, id
<1>3. RunBase(a, prev, id) /\ a.s = s /\ a.b = b
  BY ONLY <1>1, <1>2, RunMade
<1>4. RunOK(a, prev, id)
  BY <1>3 DEF RunOK, Open, id
<1>5. RunOK(z, prev, id)
  BY ONLY <1>2, <1>4, prev # 0 => Roomy, items \in Seq(Item), io.cut \in Nat, AppendAllKeeps
<1>. QED BY <1>5 DEF id

(* The worker's items of a reply.                                          *)
LEMMA RetainedType ==
  ASSUME NEW items \in Seq(Item) PROVE RetainedItems(items) \in Seq(Item)
<1>. DEFINE n == Len(items)
            V == Seq(Item)
            none == <<>>
            One(r, k) == IF IsWorker(items[k]) THEN Append(r, items[k]) ELSE r
            S == [k \in 1..n |-> [r \in V |-> One(r, k)]]
            L == CHOOSE f : f = [k \in 0..n |-> IF k = 0 THEN none ELSE One(f[k - 1], k)]
<1>1. n \in Nat /\ none \in V
  OBVIOUS
<1>2. \A k \in 1..n, r \in V : One(r, k) \in V
  <2>1. ASSUME NEW k \in 1..n, NEW r \in V PROVE One(r, k) \in V
    <3>. DEFINE item == items[k]
    <3>1. item \in Item
      OBVIOUS
    <3>. HIDE DEF item
    <3>2. Append(r, item) \in V
      BY <3>1
    <3>. QED BY <3>2 DEF item
  <2>. QED BY <2>1
<1>0. L[n] = RetainedItems(items)
  BY DEF RetainedItems
<1>. HIDE DEF V, n, none, One
<1>3. S \in [1..n -> [V -> V]] /\ \A k \in 1..n, r \in V : S[k][r] = One(r, k)
  BY <1>2
<1>. HIDE DEF S
<1>4. PICK f : Rounds(n, V, none, S, f)
  BY <1>1, <1>3, RoundsExist
<1>5. f \in [0..n -> V] /\ f[0] = none /\ \A k \in 1..n : f[k] = S[k][f[k - 1]]
  BY <1>4 DEF Rounds
<1>6. \A k \in 1..n : k - 1 \in 0..n /\ f[k - 1] \in V
  BY <1>1, <1>5
<1>7. \A k \in 1..n : f[k] = One(f[k - 1], k)
  BY <1>3, <1>5, <1>6
<1>8. \A k \in 0..n : f[k] = IF k = 0 THEN none ELSE One(f[k - 1], k)
  BY <1>1, <1>5, <1>7
<1>9. f = [k \in 0..n |-> IF k = 0 THEN none ELSE One(f[k - 1], k)]
  BY <1>5, <1>8
<1>10. L = [k \in 0..n |-> IF k = 0 THEN none ELSE One(L[k - 1], k)]
  BY <1>9
<1>. HIDE DEF L
<1>12. L[0] = none /\ \A k \in 1..n : L[k] = One(L[k - 1], k)
  BY <1>1, <1>10
<1>. DEFINE T == {k \in 0..n : L[k] \in V}
<1>13. 0 \in T /\ \A k \in T \cap (0..n) : k < n => k + 1 \in T
  <2>1. 0 \in T
    BY <1>1, <1>12
  <2>2. ASSUME NEW k \in T \cap (0..n), k < n PROVE k + 1 \in T
    <3>1. k + 1 \in 1..n /\ (k + 1) - 1 = k /\ L[k] \in V /\ k + 1 \in 0..n
      BY <1>1, <2>2
    <3>2. L[k + 1] = One(L[k], k + 1)
      BY <1>12, <3>1
    <3>3. L[k + 1] \in V
      BY <1>2, <3>1, <3>2
    <3>. QED BY <3>1, <3>3
  <2>. QED BY <2>1, <2>2
<1>14. 0..n \subseteq T
  <2>. HIDE DEF T
  <2>. QED BY <1>1, <1>13, CountingUp
<1>15. L[n] \in V
  BY <1>1, <1>14
<1>. QED BY <1>0, <1>15 DEF V

(* The items of a call.                                                    *)
LEMMA NumberType ==
  ASSUME calls \in Nat, NEW seg \in Seq(Shapes), NEW from \in Nat
  PROVE  Number(seg, from) \in Seq(Item)
<1>. DEFINE It(i) == [kind |-> seg[i].kind, n |-> seg[i].n, img |-> seg[i].img,
                      visible |-> seg[i].visible, id |-> 10 * calls + from + i]
<1>1. ASSUME NEW i \in DOMAIN seg PROVE It(i) \in Item
  <2>. DEFINE x == seg[i]
              m == 10 * calls + from + i
  <2>1. x \in Shapes
    OBVIOUS
  <2>2. m \in Nat
    OBVIOUS
  <2>3. It(i) = [kind |-> x.kind, n |-> x.n, img |-> x.img, visible |-> x.visible, id |-> m]
    OBVIOUS
  <2>. HIDE DEF x, m, It
  <2>4. /\ x.kind \in {"text", "image", "server"} /\ x.n \in Nat /\ x.visible \in BOOLEAN /\ x.img \in Nat
        /\ (x.kind = "image" => x.img # 0)
    BY <2>1 DEF Shapes
  <2>. QED BY <2>2, <2>3, <2>4 DEF Item
<1>2. Number(seg, from) = [i \in DOMAIN seg |-> It(i)]
  BY DEF Number
<1>3. DOMAIN seg = 1..Len(seg) /\ Len(seg) \in Nat
  OBVIOUS
<1>. HIDE DEF It
<1>. QED BY <1>1, <1>2, <1>3

(* A new bundle has a new number.                                          *)
LEMMA NewBundleFresh ==
  ASSUME NEW s, StoreOK(s), NEW protected, NEW io, NEW new, new = NewBundle(s, protected, io), ~new.err
  PROVE  ~Stored(s, new.b.id)
<1>. DEFINE c == PruneUntilCount(s, protected)
            p == PruneUntilTotalCapacity(c, protected, 0)
            id == s.next + 1
            st == [p EXCEPT !.next = id,
                            !.bundles = Append(@, [id |-> id, bytes |-> 0, reserved |-> 0]),
                            !.disk = [k \in DOMAIN @ \cup {id} |-> IF k = id THEN EmptyDir ELSE @[k]]]
            Error(x) == [s |-> x, b |-> FreshBundle(0), err |-> TRUE]
<1>1. s.next \in Nat
  BY StoreParts DEF StoreOK
<1>2. new = AddBundle(s, c, p, io)
  BY DEF NewBundle
<1>. HIDE DEF c, p
<1>3. new = [s |-> st, b |-> FreshBundle(id), err |-> FALSE] \/ \E x : new = Error(x)
  <2>. DEFINE q == [p EXCEPT !.next = id]
              h == HalfPruned(s, p)
  <2>1. \/ new = [s |-> st, b |-> FreshBundle(id), err |-> FALSE] \/ new = Error(h) \/ new = Error(c)
        \/ new = Error(p) \/ new = Error(q)
    BY <1>2 DEF AddBundle
  <2>. HIDE DEF st, q, h, Error
  <2>. QED BY <2>1
<1>. HIDE DEF st
<1>4. new.b = FreshBundle(id)
  <2>1. CASE new = [s |-> st, b |-> FreshBundle(id), err |-> FALSE]
    <3>. DEFINE f == FreshBundle(id)
    <3>1. new = [s |-> st, b |-> f, err |-> FALSE]
      BY <2>1
    <3>. HIDE DEF f
    <3>2. new.b = f
      BY ONLY <3>1
    <3>. QED BY <3>2 DEF f
  <2>2. ASSUME NEW x, new = Error(x) PROVE FALSE
    <3>1. new.err = TRUE
      BY <2>2
    <3>. QED BY <3>1
  <2>. DEFINE made == new = [s |-> st, b |-> FreshBundle(id), err |-> FALSE]
  <2>3. made \/ \E x : new = Error(x)
    BY <1>3
  <2>4. made => new.b = FreshBundle(id)
    BY <2>1
  <2>. HIDE DEF Error, made
  <2>. QED BY <2>2, <2>3, <2>4
<1>5. new.b.id = id
  BY <1>4 DEF FreshBundle
<1>6. \A i \in DOMAIN s.bundles : s.bundles[i].id \in 1..s.next
  BY DEF StoreOK
<1>. QED BY <1>1, <1>5, <1>6 DEF Stored

(* The end of a bundle: it goes, unless some reply named it.               *)
Spares(b, id) == id # 0 /\ (id # b.id \/ b.disclosed)
(* A bundle that a removal, done or failed half-way, is not about.         *)
LEMMA RemovalSpares ==
  ASSUME NEW s, StoreOK(s), NEW id, NEW io, NEW r, r = RemoveUnlessFails(s, id, io)
  PROVE  /\ StoreOK(r)
         /\ \A x : Whole(s, x) /\ x # id => Whole(r, x)
         /\ id # 0 => \A x : Newest(s, x) /\ x # id => Newest(r, x) /\ r.disk[x] = s.disk[x]
<1>1. CASE "remove" \in io.ops
  <2>. DEFINE ids == {id}
  <2>1. r = HalfRemoved(s, ids) /\ \A x : x # id => x \notin ids
    BY <1>1 DEF RemoveUnlessFails
  <2>. HIDE DEF ids
  <2>2. /\ StoreOK(r) /\ (\A x : Stored(r, x) <=> Stored(s, x))
        /\ (\A x : Stored(s, x) /\ x \notin ids => r.disk[x] = s.disk[x])
        /\ (\A x : Newest(s, x) => Newest(r, x))
    BY <2>1, HalfKeeps
  <2>. QED BY <2>1, <2>2, NewestStored DEF Whole
<1>2. CASE "remove" \notin io.ops
  <2>1. r = RemoveBundle(s, id)
    BY <1>2 DEF RemoveUnlessFails
  <2>2. /\ StoreOK(r) /\ \A x : Stored(r, x) <=> Stored(s, x) /\ x # id
        /\ \A x : Stored(r, x) => r.disk[x] = s.disk[x]
        /\ \A prev, x : Follows(s, prev, x) /\ x # id /\ prev # id => Follows(r, prev, x)
    BY <2>1, RemoveKeeps
  <2>3. ASSUME id # 0, NEW x, Newest(s, x), x # id PROVE Newest(r, x) /\ r.disk[x] = s.disk[x]
    <3>1. Follows(s, 0, x)
      BY <2>3 DEF Follows
    <3>2. Follows(r, 0, x)
      BY <2>2, <2>3, <3>1
    <3>3. Newest(r, x)
      BY <3>2 DEF Follows
    <3>4. Stored(r, x)
      BY <2>2, <3>3, NewestStored
    <3>. QED BY <2>2, <3>3, <3>4
  <2>. QED BY <2>2, <2>3 DEF Whole
<1>. QED BY <1>1, <1>2

(* Finishing a bundle leaves all others, and it too once it was named.     *)
LEMMA FinishKeeps ==
  ASSUME NEW s, StoreOK(s), NEW b, NEW io, NEW r, r = FinishBundle(s, b, io)
  PROVE  /\ StoreOK(r)
         /\ \A x : Whole(s, x) /\ Spares(b, x) => Whole(r, x)
         /\ \A x : Newest(s, x) /\ Spares(b, x) => Newest(r, x) /\ r.disk[x] = s.disk[x]
<1>1. CASE b.id = 0 \/ b.disclosed
  <2>1. r = s
    BY <1>1 DEF FinishBundle
  <2>. QED BY <2>1
<1>2. CASE ~(b.id = 0 \/ b.disclosed)
  <2>. DEFINE id == b.id
  <2>1. r = RemoveUnlessFails(s, id, io) /\ id # 0 /\ ~b.disclosed
    BY <1>2 DEF FinishBundle
  <2>2. \A x : Spares(b, x) => x # id
    BY <2>1 DEF Spares
  <2>. HIDE DEF id
  <2>3. /\ StoreOK(r) /\ (\A x : Whole(s, x) /\ x # id => Whole(r, x))
        /\ (\A x : Newest(s, x) /\ x # id => Newest(r, x) /\ r.disk[x] = s.disk[x])
    BY <2>1, RemovalSpares
  <2>. QED BY <2>2, <2>3
<1>. QED BY <1>1, <1>2

(* What a reply names: at most the bundle it was written to.               *)
Names(c, id) == \A n \in c.notices : n.bundle = 0 \/ n.bundle = id
(* A compacted reply names the bundle it was made from, at most.           *)
LEMMA CompactNames ==
  ASSUME NEW s, NEW b, NEW items
  PROVE  /\ Names(Contents({}, {}), 0)
         /\ Names(MaterializeItems(items), 0)
         /\ Names(CompactText(items, Unavailable), 0)
         /\ Names(CompactOutputWithoutBundle(items), 0)
         /\ Names(CompactItemsWithoutOutputBundle(items), 0)
         /\ Names(CompactText(items, Notice(b)), b.id)
         /\ Names(CompactOutputBundle(s, b), b.id)
         /\ Names(CompactOmittedBundle(s, b, items), b.id)
         /\ Names(Join(MaterializeItems(items), Contents({}, {Notice(b)})), b.id)
<1>. DEFINE x == FirstLast(ImageIds(items))
            m == Ids(SelectSeq(items, LAMBDA i : i.visible))
            h == FirstLast({s.disk[b.id].history[i].item : i \in DOMAIN s.disk[b.id].history})
            im == ImageIds(items)
            id == b.id
            n == Notice(b)
            u == Unavailable
<1>1. n.bundle = id /\ u.bundle = 0
  BY DEF Notice, Unavailable
<1>2. /\ MaterializeItems(items) = Contents(m, {})
      /\ CompactText(items, u) = Contents(im, {u})
      /\ CompactOutputWithoutBundle(items) = Contents(x, {u})
      /\ CompactText(items, n) = Contents(im, {n})
      /\ CompactOutputBundle(s, b) = Contents(h, {n})
  BY DEF MaterializeItems, CompactText, CompactOutputWithoutBundle, CompactOutputBundle
<1>. HIDE DEF x, m, h, im, id, n, u
<1>3. \A y, z : Names(Contents(y, {}), z)
  BY DEF Names, Contents
<1>4. \A y : Names(Contents(y, {u}), 0)
  BY <1>1 DEF Names, Contents
<1>5. \A y : Names(Contents(y, {n}), id)
  BY <1>1 DEF Names, Contents
<1>6. Names(Join(CompactOutputWithoutBundle(items), Contents({}, {n})), id)
  BY <1>1, <1>2 DEF Names, Join, Contents
<1>7. Names(Join(MaterializeItems(items), Contents({}, {n})), id)
  BY <1>1, <1>2 DEF Names, Join, Contents
<1>8. Names(CompactOmittedBundle(s, b, items), id)
  BY <1>2, <1>5, <1>6 DEF CompactOmittedBundle, n
<1>9. Names(CompactItemsWithoutOutputBundle(items), 0)
  <2>. DEFINE q == CollapseImageUpdates(items)
  <2>1. \/ CompactItemsWithoutOutputBundle(items) = CompactOutputWithoutBundle(items)
        \/ CompactItemsWithoutOutputBundle(items) = CompactText(q, u)
        \/ CompactItemsWithoutOutputBundle(items) = MaterializeItems(q)
    BY DEF CompactItemsWithoutOutputBundle, u
  <2>. HIDE DEF q
  <2>2. CompactText(q, u) = Contents(ImageIds(q), {u})
    BY DEF CompactText
  <2>3. MaterializeItems(q) = Contents(Ids(SelectSeq(q, LAMBDA i : i.visible)), {})
    BY DEF MaterializeItems
  <2>4. Names(CompactText(q, u), 0)
    BY <1>4, <2>2
  <2>5. Names(MaterializeItems(q), 0)
    BY <1>3, <2>3
  <2>6. Names(CompactOutputWithoutBundle(items), 0)
    BY <1>2, <1>4
  <2>. QED BY <2>1, <2>4, <2>5, <2>6
<1>10. Names(Contents({}, {}), 0) /\ Names(MaterializeItems(items), 0) /\ Names(CompactText(items, u), 0)
       /\ Names(CompactOutputWithoutBundle(items), 0)
  BY <1>2, <1>3, <1>4
<1>11. Names(CompactText(items, n), id) /\ Names(CompactOutputBundle(s, b), id)
  BY <1>2, <1>5
<1>. QED BY <1>7, <1>8, <1>9, <1>10, <1>11 DEF id, n, u

(* A reply without a bundle names none.                                    *)
LEMMA WithoutNames ==
  ASSUME NEW items
  PROVE  /\ Names(MaterializeItems(items), 0)
         /\ Names(CompactText(items, Unavailable), 0)
         /\ Names(CompactOutputWithoutBundle(items), 0)
         /\ Names(CompactItemsWithoutOutputBundle(items), 0)
<1>. DEFINE s == EmptyStore
            b == NoBundle
<1>1. Names(CompactOutputBundle(s, b), b.id) /\ Names(MaterializeItems(items), 0)
      /\ Names(CompactText(items, Unavailable), 0) /\ Names(CompactOutputWithoutBundle(items), 0)
      /\ Names(CompactItemsWithoutOutputBundle(items), 0) /\ Names(CompactOmittedBundle(s, b, items), b.id)
  BY CompactNames
<1>. QED BY <1>1

(* A rendered bundle: a reply that names it discloses it.                  *)
Drawn(a, named, c) ==
    [s |-> a.s, b |-> [a.b EXCEPT !.disclosed = a.b.disclosed \/ named], err |-> a.err, order |-> a.order,
     contents |-> c]
RenderOK(x, prev, id) ==
    /\ StoreOK(x.s) /\ x.b \in BundleType /\ x.b.id = id /\ Follows(x.s, prev, id) /\ x.err \in BOOLEAN
    /\ ~x.err => Tracks(x.b, x.s.disk[id])
    /\ Names(x.contents, id) /\ (x.b.disclosed \/ Names(x.contents, 0))

(* What a render shows, with the bundle it names marked as disclosed.      *)
LEMMA DrawnOK ==
  ASSUME NEW a, NEW prev, NEW id, RunOK(a, prev, id), NEW named \in BOOLEAN, NEW c,
         Names(c, id), named \/ Names(c, 0), NEW x, x = Drawn(a, named, c)
  PROVE  RenderOK(x, prev, id)
<1>. DEFINE v == a.b.disclosed \/ named
            b == [a.b EXCEPT !.disclosed = v]
<1>1. RunBase(a, prev, id) /\ a \in RunType /\ StoreOK(a.s) /\ a.b.id = id /\ Follows(a.s, prev, id)
  BY DEF RunOK, RunBase
<1>2. a.b \in BundleType /\ a.err \in BOOLEAN
  BY <1>1, RunParts
<1>3. v \in BOOLEAN /\ (named => v)
  BY <1>2, BundleParts
<1>4. SameCounts(a.b, b) /\ b.disclosed = v
  <2>. HIDE DEF v
  <2>. QED BY <1>2, <1>3, SetDisclosed
<1>5. x.s = a.s /\ x.b = b /\ x.err = a.err /\ x.contents = c
  <2>1. x = [s |-> a.s, b |-> b, err |-> a.err, order |-> a.order, contents |-> c]
    BY DEF Drawn
  <2>. HIDE DEF b
  <2>. QED BY ONLY <2>1
<1>. HIDE DEF b, v
<1>6. b \in BundleType /\ b.id = id
  BY <1>1, <1>4 DEF SameCounts
<1>7. ~a.err => Tracks(b, a.s.disk[id])
  BY <1>4, TracksSame DEF RunOK
<1>8. b.disclosed \/ Names(c, 0)
  BY <1>3, <1>4
<1>. QED BY <1>1, <1>2, <1>5, <1>6, <1>7, <1>8 DEF RenderOK

(* Each of the ways to show an append.                                     *)
LEMMA RenderKeeps ==
  ASSUME NEW a, NEW prev, NEW id, RunOK(a, prev, id), NEW items, NEW chars,
         NEW x, x = RenderAppended(a, items, chars)
  PROVE  RenderOK(x, prev, id)
<1>. DEFINE yes == TRUE
            no == FALSE
            q == CollapseImageUpdates(items)
            c0 == Contents({}, {})
            c1 == CompactOmittedBundle(a.s, a.b, a.kept)
            c2 == CompactOutputWithoutBundle(a.kept)
            c3 == CompactOutputBundle(a.s, a.b)
            c4 == CompactText(a.kept, Notice(a.b))
            c5 == Join(MaterializeItems(q), Contents({}, {Notice(a.b)}))
            c6 == MaterializeItems(q)
<1>1. a.b.id = id
  BY DEF RunOK, RunBase
<1>2. /\ Names(c0, 0) /\ Names(c1, id) /\ Names(c2, 0) /\ Names(c3, id) /\ Names(c4, id) /\ Names(c5, id)
      /\ Names(c6, 0)
  <2>1. Names(c0, 0)
    BY CompactNames
  <2>2. Names(c1, a.b.id) /\ Names(c2, 0) /\ Names(c3, a.b.id) /\ Names(c4, a.b.id)
    BY CompactNames
  <2>3. Names(c5, a.b.id) /\ Names(c6, 0)
    BY CompactNames
  <2>. HIDE DEF c0, c1, c2, c3, c4, c5, c6
  <2>. QED BY <1>1, <2>1, <2>2, <2>3
<1>3. \/ x = Drawn(a, no, c0) \/ x = Drawn(a, yes, c1) \/ x = Drawn(a, no, c2) \/ x = Drawn(a, yes, c3)
      \/ x = Drawn(a, yes, c4) \/ x = Drawn(a, yes, c5) \/ x = Drawn(a, no, c6)
  BY DEF RenderAppended, Drawn
<1>4. Names(c0, id) /\ Names(c2, id) /\ Names(c6, id) /\ yes /\ yes \in BOOLEAN /\ no \in BOOLEAN
  BY <1>2 DEF Names
<1>. HIDE DEF yes, no, c0, c1, c2, c3, c4, c5, c6
<1>5. CASE x = Drawn(a, no, c0)
  BY ONLY <1>2, <1>4, <1>5, RunOK(a, prev, id), DrawnOK
<1>6. CASE x = Drawn(a, yes, c1)
  BY ONLY <1>2, <1>4, <1>6, RunOK(a, prev, id), DrawnOK
<1>7. CASE x = Drawn(a, no, c2)
  BY ONLY <1>2, <1>4, <1>7, RunOK(a, prev, id), DrawnOK
<1>8. CASE x = Drawn(a, yes, c3)
  BY ONLY <1>2, <1>4, <1>8, RunOK(a, prev, id), DrawnOK
<1>9. CASE x = Drawn(a, yes, c4)
  BY ONLY <1>2, <1>4, <1>9, RunOK(a, prev, id), DrawnOK
<1>10. CASE x = Drawn(a, yes, c5)
  BY ONLY <1>2, <1>4, <1>10, RunOK(a, prev, id), DrawnOK
<1>11. CASE x = Drawn(a, no, c6)
  BY ONLY <1>2, <1>4, <1>11, RunOK(a, prev, id), DrawnOK
<1>. QED BY <1>3, <1>5, <1>6, <1>7, <1>8, <1>9, <1>10, <1>11

(* render_active_bundle_contents.                                          *)
LEMMA RenderBundleKeeps ==
  ASSUME NEW s, NEW prev, NEW b, Open(s, prev, b), prev # 0 => Roomy, NEW items \in Seq(Item), NEW chars,
         NEW io, io.cut \in Nat, NEW x, x = RenderActiveBundle(s, b, items, chars, io)
  PROVE  RenderOK(x, prev, b.id)
<1>. DEFINE z == AppendItems(s, b, items, io)
            id == b.id
<1>1. z = AppendItems(s, b, items, io) /\ x = RenderAppended(z, items, chars)
  BY DEF RenderActiveBundle
<1>. HIDE DEF z
<1>2. RunOK(z, prev, id)
  BY ONLY <1>1, Open(s, prev, b), prev # 0 => Roomy, items \in Seq(Item), io.cut \in Nat, AppendItemsKeeps
<1>. HIDE DEF id
<1>3. RenderOK(x, prev, id)
  BY ONLY <1>1, <1>2, RenderKeeps
<1>. QED BY <1>3 DEF id

(* The two newest bundles are two.                                         *)
LEMMA FollowsPrev ==
  ASSUME NEW s, StoreOK(s), NEW prev, prev # 0, NEW id, Follows(s, prev, id)
  PROVE  Whole(s, prev) /\ Stored(s, id) /\ prev # id
<1>. DEFINE n == Len(s.bundles)
<1>1. s.bundles \in Seq(Entry)
  BY StoreParts DEF StoreOK
<1>2. n \in Nat /\ DOMAIN s.bundles = 1..n
  BY <1>1
<1>3. n >= 2 /\ s.bundles[n].id = id /\ s.bundles[n - 1].id = prev /\ Intact(s.disk[prev])
  BY DEF Follows, Newest
<1>4. \A i, j \in DOMAIN s.bundles : s.bundles[i].id = s.bundles[j].id => i = j
  BY DEF StoreOK
<1>. HIDE DEF n
<1>5. n \in DOMAIN s.bundles /\ n - 1 \in DOMAIN s.bundles /\ n # n - 1
  BY <1>2, <1>3
<1>. QED BY <1>3, <1>4, <1>5 DEF Stored, Whole, Intact

(* No bundle at all is a sound active bundle.                              *)
LEMMA NoBundleOK ==
  /\ NoBundle \in BundleType /\ NoBundle.id = 0
  /\ \A s : ActiveOK(s, NoBundle)
<1>1. NoBundle \in BundleType /\ NoBundle.id = 0
  BY FreshBundleOK DEF NoBundle
<1>. QED BY <1>1 DEF ActiveOK

(* The result of a part of a reply that may write to the bundle id.        *)
Settled(r, prev, id) ==
    /\ StoreOK(r.s) /\ ActiveOK(r.s, r.active) /\ r.active.id \in {0, id} /\ r.staged \in Seq(Item)
    /\ \A n \in r.contents.notices : n.bundle # 0 => n.bundle = id /\ Whole(r.s, id)
    /\ prev # 0 => Whole(r.s, prev)

(* The fields of a result.                                                 *)
LEMMA ResultParts ==
  ASSUME NEW s, NEW act, NEW stg, NEW c, NEW ord, NEW p, NEW r, r = Result(s, act, stg, c, ord, p)
  PROVE  /\ r.s = s /\ r.active = act /\ r.staged = stg /\ r.contents = c /\ r.order = ord
         /\ r.protected = p
BY DEF Result

(* A result without a bundle.                                              *)
LEMMA SettledWithout ==
  ASSUME NEW s, StoreOK(s), NEW prev, prev # 0 => Whole(s, prev), NEW id, NEW stg \in Seq(Item), NEW c,
         Names(c, 0), NEW ord, NEW r, r = Result(s, NoBundle, stg, c, ord, 0)
  PROVE  Settled(r, prev, id)
<1>. DEFINE b == NoBundle
            zero == 0
<1>1. b.id = 0 /\ ActiveOK(s, b)
  BY NoBundleOK
<1>2. r = Result(s, b, stg, c, ord, zero)
  OBVIOUS
<1>. HIDE DEF b, zero
<1>3. r.s = s /\ r.active = b /\ r.staged = stg /\ r.contents = c
  BY ONLY <1>2, ResultParts
<1>. QED BY <1>1, <1>3 DEF Settled, Names

(* A result with a bundle.                                                 *)
LEMMA SettledIn ==
  ASSUME NEW s, StoreOK(s), NEW prev, prev # 0 => Whole(s, prev), NEW id, NEW c,
         Names(c, id), Names(c, 0) \/ Whole(s, id), NEW act, ActiveOK(s, act), act.id \in {0, id},
         NEW ord, NEW r, r = Result(s, act, <<>>, c, ord, 0)
  PROVE  Settled(r, prev, id)
<1>. DEFINE none == <<>>
            zero == 0
<1>1. r = Result(s, act, none, c, ord, zero) /\ none \in Seq(Item)
  OBVIOUS
<1>. HIDE DEF none, zero
<1>2. r.s = s /\ r.active = act /\ r.staged = none /\ r.contents = c
  BY ONLY <1>1, ResultParts
<1>3. \A n \in c.notices : n.bundle # 0 => n.bundle = id /\ Whole(s, id)
  BY DEF Names
<1>. QED BY <1>1, <1>2, <1>3 DEF Settled

(* After a render the bundle is retained or finished, or was given up.     *)
LEMMA RenderedKeeps ==
  ASSUME NEW x, NEW prev, NEW id, id # 0, RenderOK(x, prev, id), NEW all, NEW keep, NEW ord, NEW io,
         NEW r, r = Rendered(x, all, keep, ord, io)
  PROVE  Settled(r, prev, id)
<1>. DEFINE f == FinishBundle(x.s, x.b, io)
            c == x.contents
            b == x.b
            s == x.s
            none == <<>>
<1>1. /\ StoreOK(s) /\ b \in BundleType /\ b.id = id /\ Follows(s, prev, id)
      /\ (~x.err => Tracks(b, s.disk[id])) /\ Names(c, id) /\ (b.disclosed \/ Names(c, 0))
  BY DEF RenderOK
<1>2. Newest(s, id) /\ (~x.err => Whole(s, id))
  BY <1>1, FollowsStored DEF Follows, Tracks, Whole, Intact
<1>3. /\ StoreOK(f) /\ (\A y : Whole(s, y) /\ Spares(b, y) => Whole(f, y))
  <2>1. f = FinishBundle(s, b, io)
    OBVIOUS
  <2>. HIDE DEF f, s, b
  <2>. QED BY <1>1, <2>1, FinishKeeps
<1>4. prev # 0 => Whole(s, prev) /\ prev # id
  BY <1>1, FollowsPrev
<1>5. prev # 0 => Whole(f, prev)
  BY <1>1, <1>3, <1>4 DEF Spares
<1>6. ActiveOK(f, NoBundle) /\ NoBundle.id = 0
  BY NoBundleOK
<1>7. CASE x.err
  <2>. DEFINE e == CompactItemsWithoutOutputBundle(all)
  <2>1. r = Result(f, NoBundle, none, e, ord, 0) /\ Names(e, 0) /\ none \in Seq(Item)
    BY <1>7, WithoutNames DEF Rendered
  <2>. HIDE DEF f, e, none
  <2>. QED BY ONLY <1>3, <1>5, <2>1, SettledWithout
<1>8. CASE ~x.err /\ keep
  <2>. DEFINE o == AddOrder(ord, x.b.id, x.order)
  <2>1. r = Result(s, b, <<>>, c, o, 0)
    BY <1>8 DEF Rendered, Retain
  <2>2. ActiveOK(s, b) /\ b.id \in {0, id}
    BY <1>1, <1>2, <1>8 DEF ActiveOK
  <2>3. (prev # 0 => Whole(s, prev)) /\ (Names(c, 0) \/ Whole(s, id)) /\ StoreOK(s) /\ Names(c, id)
    BY <1>1, <1>2, <1>4, <1>8
  <2>. HIDE DEF s, b, c, o
  <2>. QED BY ONLY <2>1, <2>2, <2>3, SettledIn
<1>9. CASE ~x.err /\ ~keep
  <2>. DEFINE o == AddOrder(ord, x.b.id, x.order)
              e == NoBundle
  <2>1. r = Result(f, e, <<>>, c, o, 0)
    BY <1>9 DEF Rendered, Retain
  <2>2. ActiveOK(f, e) /\ e.id \in {0, id}
    BY <1>6
  <2>3. Names(c, 0) \/ Whole(f, id)
    BY <1>1, <1>2, <1>3, <1>9 DEF Spares
  <2>4. Names(c, id)
    BY <1>1
  <2>. HIDE DEF f, e, c, o
  <2>. QED BY ONLY <1>3, <1>5, <2>1, <2>2, <2>3, <2>4, SettledIn
<1>. QED BY <1>7, <1>8, <1>9

(* A bundle made for what was staged.                                      *)
Guarded(s, prev, protected) ==
    prev # 0 => Roomy /\ prev = protected /\ Newest(s, prev) /\ Intact(s.disk[prev])
Staged(s, prev, m) ==
    /\ StoreOK(m.s) /\ m.err \in BOOLEAN
    /\ prev # 0 => Whole(m.s, prev)
    /\ ~m.err => m.b.id # 0 /\ Open(m.s, prev, m.b) /\ ~Stored(s, m.b.id)

(* A bundle that was just made.                                            *)
LEMMA MadeKeeps ==
  ASSUME NEW s, StoreOK(s), NEW prev, NEW protected, Guarded(s, prev, protected), NEW io,
         NEW new, new = NewBundle(s, protected, io)
  PROVE  Staged(s, prev, new)
<1>1. /\ StoreOK(new.s) /\ new.b \in BundleType /\ new.err \in BOOLEAN
      /\ Whole(s, protected) => Whole(new.s, protected)
      /\ ~new.err => /\ new.b.id # 0 /\ Newest(new.s, new.b.id)
                     /\ Tracks(new.b, new.s.disk[new.b.id])
                     /\ protected # 0 /\ Newest(s, protected) /\ Intact(s.disk[protected])
                           => Follows(new.s, protected, new.b.id)
  BY NewBundleKeeps
<1>2. prev # 0 => Whole(new.s, prev)
  BY <1>1, NewestStored DEF Guarded, Whole, Intact
<1>3. ~new.err => Follows(new.s, prev, new.b.id)
  <2>1. CASE prev = 0
    BY <1>1, <2>1 DEF Follows
  <2>2. CASE prev # 0
    BY <1>1, <2>2 DEF Guarded
  <2>. QED BY <2>1, <2>2
<1>4. ~new.err => ~Stored(s, new.b.id)
  BY NewBundleFresh
<1>. QED BY <1>1, <1>2, <1>3, <1>4 DEF Staged, Open

(* A run, once it has ended, leaves a bundle that may be appended to.      *)
LEMMA RunEnds ==
  ASSUME NEW a, NEW prev, NEW id, RunOK(a, prev, id)
  PROVE  /\ StoreOK(a.s) /\ a.b \in BundleType /\ a.b.id = id /\ Follows(a.s, prev, id) /\ Stored(a.s, id)
         /\ a.err \in BOOLEAN /\ (~a.err => Open(a.s, prev, a.b) /\ Whole(a.s, id))
         /\ prev # 0 => Whole(a.s, prev) /\ prev # id
<1>1. a \in RunType /\ StoreOK(a.s) /\ a.b.id = id /\ Follows(a.s, prev, id)
  BY DEF RunOK, RunBase
<1>2. a.b \in BundleType /\ a.err \in BOOLEAN
  BY <1>1, RunParts
<1>3. Stored(a.s, id) /\ (prev # 0 => Whole(a.s, prev) /\ prev # id)
  BY <1>1, FollowsStored, FollowsPrev
<1>4. ~a.err => Tracks(a.b, a.s.disk[id]) /\ Whole(a.s, id)
  BY <1>3 DEF RunOK, Tracks, Whole, Intact
<1>. QED BY <1>1, <1>2, <1>3, <1>4 DEF Open

(* materialize_staged_timeout_output.                                      *)
LEMMA StagedKeeps ==
  ASSUME NEW s, StoreOK(s), NEW prev, NEW protected, Guarded(s, prev, protected), NEW stg \in Seq(Item),
         NEW io, io.cut \in Nat, NEW m, m = MaterializeStaged(s, stg, protected, io)
  PROVE  Staged(s, prev, m)
<1>. DEFINE new == NewBundle(s, protected, io)
            a == AppendItems(new.s, new.b, stg, io)
            id == new.b.id
<1>1. new = NewBundle(s, protected, io) /\ m = StageInto(new, stg, io)
  BY DEF MaterializeStaged
<1>. HIDE DEF new
<1>2. Staged(s, prev, new)
  BY ONLY <1>1, StoreOK(s), Guarded(s, prev, protected), MadeKeeps
<1>3. CASE new.err
  <2>1. m = NotStaged(new.s)
    BY <1>1, <1>3 DEF StageInto
  <2>2. m.s = new.s /\ m.err = TRUE
    BY <2>1 DEF NotStaged
  <2>. QED BY <1>2, <2>2 DEF Staged
<1>4. CASE ~new.err
  <2>1. m = StagedWritten(a, io)
    BY <1>1, <1>4 DEF StageInto
  <2>2. id # 0 /\ Open(new.s, prev, new.b) /\ ~Stored(s, id)
    BY <1>2, <1>4 DEF Staged
  <2>3. RunOK(a, prev, id)
    <3>. DEFINE ns == new.s
                nb == new.b
    <3>1. a = AppendItems(ns, nb, stg, io) /\ Open(ns, prev, nb) /\ (prev # 0 => Roomy)
      BY <2>2 DEF Guarded
    <3>. HIDE DEF a, ns, nb
    <3>2. RunOK(a, prev, nb.id)
      BY ONLY <3>1, stg \in Seq(Item), io.cut \in Nat, AppendItemsKeeps
    <3>. QED BY <3>2 DEF nb
  <2>. HIDE DEF a, id
  <2>4. /\ StoreOK(a.s) /\ a.b \in BundleType /\ a.b.id = id /\ a.err \in BOOLEAN
        /\ (~a.err => Open(a.s, prev, a.b)) /\ (prev # 0 => Whole(a.s, prev) /\ prev # id)
    BY ONLY <2>3, RunEnds
  <2>5. CASE a.err
    <3>. DEFINE as == a.s
                ab == a.b
                f == FinishBundle(as, ab, io)
    <3>1. m = NotStaged(f) /\ StoreOK(as) /\ f = FinishBundle(as, ab, io)
      BY <2>1, <2>4, <2>5 DEF StagedWritten
    <3>. HIDE DEF f, as, ab
    <3>2. StoreOK(f) /\ \A y : Whole(as, y) /\ Spares(ab, y) => Whole(f, y)
      BY ONLY <3>1, FinishKeeps
    <3>3. m.s = f /\ m.err = TRUE
      BY <3>1 DEF NotStaged
    <3>4. prev # 0 => Whole(f, prev)
      BY <2>4, <3>2 DEF Spares, as, ab
    <3>. QED BY <3>2, <3>3, <3>4 DEF Staged
  <2>6. CASE ~a.err
    <3>. DEFINE as == a.s
                ab == a.b
    <3>1. m = [s |-> as, b |-> ab, kept |-> a.kept, order |-> a.order, err |-> FALSE]
      BY <2>1, <2>6 DEF StagedWritten
    <3>. HIDE DEF as, ab
    <3>2. m.s = as /\ m.b = ab /\ m.err = FALSE
      BY <3>1
    <3>3. StoreOK(as) /\ (prev # 0 => Whole(as, prev)) /\ ab.id = id /\ Open(as, prev, ab)
      BY <2>4, <2>6 DEF as, ab
    <3>. QED BY <2>2, <3>2, <3>3 DEF Staged
  <2>. QED BY <2>4, <2>5, <2>6
<1>. QED BY <1>2, <1>3, <1>4 DEF Staged

(* A result that names, or leaves active, only the bundle act or a new one.*)
Fresh(s, act, id) == id = act.id \/ ~Stored(s, id)
SegmentOK(s, prev, act, r) ==
    /\ StoreOK(r.s) /\ ActiveOK(r.s, r.active) /\ r.staged \in Seq(Item)
    /\ r.active.id # 0 => Fresh(s, act, r.active.id)
    /\ \A n \in r.contents.notices : n.bundle # 0 => Whole(r.s, n.bundle) /\ Fresh(s, act, n.bundle)
    /\ prev # 0 => Whole(r.s, prev)
(* A settled result is a sound segment.                                    *)
LEMMA SettledSegment ==
  ASSUME NEW s, NEW prev, NEW act, NEW r, NEW id, Settled(r, prev, id), Fresh(s, act, id)
  PROVE  SegmentOK(s, prev, act, r)
BY DEF Settled, SegmentOK

(* The items go to a bundle that was just made.                            *)
LEMMA IntoKeeps ==
  ASSUME NEW s, StoreOK(s), NEW prev, prev # 0 => Roomy, NEW act, NEW m, Staged(s, prev, m),
         NEW items \in Seq(Item), NEW all, NEW chars, NEW keep, NEW ord, NEW io, io.cut \in Nat,
         NEW r, r = RenderInto(m, items, all, chars, keep, ord, io)
  PROVE  SegmentOK(s, prev, act, r)
<1>1. CASE m.err
  <2>. DEFINE e == CompactItemsWithoutOutputBundle(all)
              p == m.s
              none == <<>>
              z == act.id
  <2>1. r = Result(p, NoBundle, none, e, ord, 0) /\ none \in Seq(Item) /\ Names(e, 0)
    BY <1>1, WithoutNames DEF RenderInto
  <2>2. StoreOK(p) /\ (prev # 0 => Whole(p, prev))
    BY DEF Staged
  <2>. HIDE DEF p, e, none, z
  <2>3. Settled(r, prev, z)
    BY ONLY <2>1, <2>2, SettledWithout
  <2>4. Fresh(s, act, z)
    BY DEF Fresh, z
  <2>. QED BY ONLY <2>3, <2>4, SettledSegment
<1>2. CASE ~m.err
  <2>. DEFINE p == m.s
              b == m.b
              id == b.id
              o == AddOrder(ord, m.b.id, m.order)
              x == RenderActiveBundle(p, b, items, chars, io)
  <2>1. r = Rendered(x, all, keep, o, io) /\ x = RenderActiveBundle(p, b, items, chars, io)
    BY <1>2 DEF RenderInto
  <2>2. Open(p, prev, b) /\ id # 0 /\ ~Stored(s, id)
    BY <1>2 DEF Staged
  <2>. HIDE DEF p, b, x, o
  <2>3. RenderOK(x, prev, id)
    BY ONLY <2>1, <2>2, prev # 0 => Roomy, items \in Seq(Item), io.cut \in Nat, RenderBundleKeeps
  <2>. HIDE DEF id
  <2>4. Settled(r, prev, id)
    BY ONLY <2>1, <2>2, <2>3, RenderedKeeps
  <2>5. Fresh(s, act, id)
    BY <2>2 DEF Fresh
  <2>. QED BY ONLY <2>4, <2>5, SettledSegment
<1>. QED BY <1>1, <1>2

(* A bundle for one reply.                                                 *)
LEMMA WithoutNewKeeps ==
  ASSUME NEW s, StoreOK(s), NEW prev, prev # 0 => Whole(s, prev), NEW id, NEW items, NEW textOnly, NEW ord,
         NEW r, r = CompactWithoutNew(s, items, textOnly, ord)
  PROVE  Settled(r, prev, id)
<1>. DEFINE q == CollapseImageUpdates(items)
            c == IF textOnly THEN CompactText(q, Unavailable) ELSE CompactOutputWithoutBundle(q)
            none == <<>>
<1>1. Names(c, 0) /\ r = Result(s, NoBundle, none, c, ord, 0) /\ none \in Seq(Item)
  BY WithoutNames DEF CompactWithoutNew
<1>. HIDE DEF c, none
<1>. QED BY ONLY <1>1, StoreOK(s), prev # 0 => Whole(s, prev), SettledWithout

(* A bundle for this reply only, once its items are written.               *)
LEMMA WrittenKeeps ==
  ASSUME NEW a, NEW prev, NEW id, id # 0, RunOK(a, prev, id), NEW items, NEW textOnly, NEW ord, NEW io,
         NEW r, r = CompactWritten(a, items, textOnly, ord, io)
  PROVE  Settled(r, prev, id)
<1>. DEFINE s == a.s
            b == a.b
<1>1. /\ StoreOK(s) /\ b \in BundleType /\ b.id = id /\ (~a.err => Whole(s, id))
      /\ (prev # 0 => Whole(s, prev) /\ prev # id)
  BY RunEnds
<1>2. CASE a.err
  <2>. DEFINE f == RemoveUnlessFails(s, id, io)
  <2>1. r = CompactWithoutNew(f, items, textOnly, ord)
    BY <1>1, <1>2 DEF CompactWritten
  <2>2. StoreOK(f) /\ (prev # 0 => Whole(f, prev))
    <3>1. f = RemoveUnlessFails(s, id, io)
      OBVIOUS
    <3>. HIDE DEF s, f
    <3>2. StoreOK(f) /\ \A x : Whole(s, x) /\ x # id => Whole(f, x)
      BY <1>1, <3>1, RemovalSpares
    <3>. QED BY <1>1, <3>2
  <2>. HIDE DEF f
  <2>. QED BY ONLY <2>1, <2>2, WithoutNewKeeps
<1>3. CASE ~a.err
  <2>. DEFINE o == AddOrder(ord, a.b.id, a.order)
              c == IF textOnly THEN CompactText(a.kept, Notice(b))
                   ELSE IF a.dropped THEN CompactOmittedBundle(s, b, a.kept)
                   ELSE CompactOutputBundle(s, b)
              e == NoBundle
  <2>1. r = Result(s, e, <<>>, c, o, 0)
    BY <1>3 DEF CompactWritten
  <2>2. Names(c, b.id)
    <3>1. /\ Names(CompactText(a.kept, Notice(b)), b.id) /\ Names(CompactOutputBundle(s, b), b.id)
          /\ Names(CompactOmittedBundle(s, b, a.kept), b.id)
      BY CompactNames
    <3>. QED BY <3>1
  <2>3. ActiveOK(s, e) /\ e.id \in {0, id}
    BY NoBundleOK
  <2>. HIDE DEF c, o, e, s
  <2>4. Names(c, id) /\ StoreOK(s) /\ (prev # 0 => Whole(s, prev)) /\ (Names(c, 0) \/ Whole(s, id))
    BY <1>1, <1>3, <2>2
  <2>. QED BY ONLY <2>1, <2>3, <2>4, SettledIn
<1>. QED BY <1>2, <1>3

(* compact_reply_items_with_new_bundle.                                    *)
LEMMA CompactKeeps ==
  ASSUME NEW s, StoreOK(s), NEW prev, NEW protected, Guarded(s, prev, protected), NEW act,
         NEW items \in Seq(Item), NEW textOnly, NEW ord, NEW io, io.cut \in Nat,
         NEW r, r = CompactWithNewBundle(s, items, textOnly, protected, ord, io)
  PROVE  SegmentOK(s, prev, act, r)
<1>. DEFINE new == NewBundle(s, protected, io)
            p == new.s
            b == new.b
            a == AppendItems(p, b, items, io)
            id == b.id
            z == act.id
<1>1. new = NewBundle(s, protected, io) /\ r = CompactInto(new, items, textOnly, ord, io)
  BY DEF CompactWithNewBundle
<1>. HIDE DEF new
<1>2. Staged(s, prev, new)
  BY ONLY <1>1, StoreOK(s), Guarded(s, prev, protected), MadeKeeps
<1>3. StoreOK(p) /\ (prev # 0 => Whole(p, prev)) /\ (~new.err => id # 0 /\ Open(p, prev, b) /\ ~Stored(s, id))
  BY <1>2 DEF Staged
<1>4. prev # 0 => Roomy
  BY DEF Guarded
<1>5. CASE new.err
  <2>1. r = CompactWithoutNew(p, items, textOnly, ord)
    BY <1>1, <1>5 DEF CompactInto
  <2>. HIDE DEF p, z
  <2>2. Settled(r, prev, z)
    BY ONLY <1>3, <2>1, WithoutNewKeeps
  <2>3. Fresh(s, act, z)
    BY DEF Fresh, z
  <2>. QED BY ONLY <2>2, <2>3, SettledSegment
<1>6. CASE ~new.err
  <2>1. r = CompactWritten(a, items, textOnly, ord, io) /\ a = AppendItems(p, b, items, io)
    BY <1>1, <1>6 DEF CompactInto
  <2>2. id # 0 /\ Open(p, prev, b) /\ ~Stored(s, id)
    BY <1>3, <1>6
  <2>. HIDE DEF p, b, a
  <2>3. RunOK(a, prev, id)
    BY ONLY <1>4, <2>1, <2>2, items \in Seq(Item), io.cut \in Nat, AppendItemsKeeps
  <2>. HIDE DEF id
  <2>4. Settled(r, prev, id)
    BY ONLY <2>1, <2>2, <2>3, WrittenKeeps
  <2>5. Fresh(s, act, id)
    BY <2>2 DEF Fresh
  <2>. QED BY ONLY <2>4, <2>5, SettledSegment
<1>. QED BY <1>5, <1>6

(* A result without any bundle.                                            *)
LEMMA InlineSegment ==
  ASSUME NEW s, StoreOK(s), NEW prev, prev # 0 => Whole(s, prev), NEW act, NEW stg \in Seq(Item), NEW items,
         NEW ord, NEW r, r = Result(s, NoBundle, stg, MaterializeItems(items), ord, 0)
  PROVE  SegmentOK(s, prev, act, r)
<1>. DEFINE c == MaterializeItems(items)
            z == act.id
<1>1. Names(c, 0) /\ r = Result(s, NoBundle, stg, c, ord, 0)
  BY WithoutNames
<1>. HIDE DEF c, z
<1>2. Settled(r, prev, z)
  BY ONLY <1>1, StoreOK(s), prev # 0 => Whole(s, prev), stg \in Seq(Item), SettledWithout
<1>3. Fresh(s, act, z)
  BY DEF Fresh, z
<1>. QED BY ONLY <1>2, <1>3, SettledSegment

(* render_timeout_reply_segment.                                           *)
LEMMA SegmentKeeps ==
  ASSUME NEW s, StoreOK(s), NEW act, ActiveOK(s, act), NEW prev, NEW protected, Guarded(s, prev, protected),
         act.id # 0 => prev = 0, NEW items \in Seq(Item), NEW stg \in Seq(Item), NEW timeout, NEW keep,
         NEW ord, NEW io, io.cut \in Nat,
         NEW r, r = RenderTimeoutReplySegment(s, items, timeout, protected, keep, act, stg, ord, io)
  PROVE  SegmentOK(s, prev, act, r)
<1>. DEFINE chars == TextChars(stg) + TextChars(items)
            spills == NeedsBundle(CountImages(stg) + CountImages(items), chars)
            q == CollapseImageUpdates(items)
            none == <<>>
<1>1. (prev # 0 => Roomy) /\ (prev # 0 => Whole(s, prev)) /\ none \in Seq(Item)
  BY NewestStored DEF Guarded, Whole, Intact
<1>2. CASE act.id # 0
  <2>. DEFINE x == RenderActiveBundle(s, act, items, TextChars(items), io)
              ch == TextChars(items)
              id == act.id
  <2>1. r = Rendered(x, items, keep, ord, io) /\ x = RenderActiveBundle(s, act, items, ch, io)
    BY <1>2 DEF RenderTimeoutReplySegment
  <2>2. prev = 0 /\ id # 0 /\ Open(s, prev, act)
    BY <1>2 DEF ActiveOK, Open, Follows
  <2>. HIDE DEF x, ch
  <2>3. RenderOK(x, prev, id)
    BY ONLY <1>1, <2>1, <2>2, items \in Seq(Item), io.cut \in Nat, RenderBundleKeeps
  <2>. HIDE DEF id
  <2>4. Settled(r, prev, id)
    BY ONLY <2>1, <2>2, <2>3, RenderedKeeps
  <2>5. Fresh(s, act, id)
    BY DEF Fresh, id
  <2>. QED BY ONLY <2>4, <2>5, SettledSegment
<1>3. CASE act.id = 0 /\ stg = <<>> /\ ~timeout
  <2>1. r = RenderReplyItems(s, items, protected, ord, io)
    BY <1>3 DEF RenderTimeoutReplySegment
  <2>. DEFINE images == CountImages(items)
              mixed == images > 0 /\ ShouldUseOutputBundle(images, TextChars(items))
              only == ~mixed
              big == mixed \/ TextShouldSpill(TextChars(items))
  <2>2. CASE big
    <3>1. r = CompactWithNewBundle(s, items, only, protected, ord, io)
      BY <2>1, <2>2 DEF RenderReplyItems
    <3>. HIDE DEF only
    <3>. QED BY ONLY <3>1, StoreOK(s), Guarded(s, prev, protected), items \in Seq(Item), io.cut \in Nat, CompactKeeps
  <2>3. CASE ~big
    <3>1. r = Result(s, NoBundle, none, MaterializeItems(q), ord, 0)
      BY <2>1, <2>3 DEF RenderReplyItems
    <3>. HIDE DEF q, none
    <3>. QED BY ONLY <1>1, <3>1, StoreOK(s), InlineSegment
  <2>. QED BY <2>2, <2>3
<1>4. CASE act.id = 0 /\ ~(stg = <<>> /\ ~timeout) /\ ~spills
  <2>. DEFINE g == IF keep THEN stg \o RetainedItems(items) ELSE <<>>
  <2>1. r = Result(s, NoBundle, g, MaterializeItems(q), ord, 0)
    BY <1>4 DEF RenderTimeoutReplySegment
  <2>2. g \in Seq(Item)
    <3>. DEFINE k == RetainedItems(items)
    <3>1. k \in Seq(Item)
      BY RetainedType
    <3>. HIDE DEF k
    <3>2. stg \o k \in Seq(Item)
      BY <3>1
    <3>3. g = stg \o k \/ g = none
      BY DEF k
    <3>. QED BY <1>1, <3>2, <3>3
  <2>. HIDE DEF q, g
  <2>. QED BY ONLY <1>1, <2>1, <2>2, StoreOK(s), InlineSegment
<1>5. CASE act.id = 0 /\ ~(stg = <<>> /\ ~timeout) /\ spills
  <2>. DEFINE m == MaterializeStaged(s, stg, protected, io)
              all == stg \o items
  <2>1. r = RenderInto(m, items, all, chars, keep, ord, io) /\ m = MaterializeStaged(s, stg, protected, io)
    BY <1>5 DEF RenderTimeoutReplySegment
  <2>. HIDE DEF m, all, chars
  <2>2. Staged(s, prev, m)
    BY ONLY <2>1, StoreOK(s), Guarded(s, prev, protected), stg \in Seq(Item), io.cut \in Nat, StagedKeeps
  <2>. QED BY ONLY <1>1, <2>1, <2>2, StoreOK(s), items \in Seq(Item), io.cut \in Nat, IntoKeeps
<1>. QED BY <1>2, <1>3, <1>4, <1>5

(* A rendered prefix names only the bundle that the rest must spare, which *)
(* is whole unless it could not be written and nothing names it.           *)
PrefixParts(s, act, stg, c, protected) ==
    /\ StoreOK(s) /\ ActiveOK(s, act) /\ stg \in Seq(Item)
    /\ protected # 0 => Newest(s, protected)
    /\ Names(c, protected) /\ (Names(c, 0) \/ Whole(s, protected))
    /\ act.id # 0 /\ protected # 0 => act.id = protected /\ act.disclosed
PrefixOK(p) == PrefixParts(p.s, p.active, p.staged, p.contents, p.protected)

(* A rendered prefix, from its parts.                                      *)
LEMMA PrefixMade ==
  ASSUME NEW s, NEW act, NEW stg, NEW c, NEW ord, NEW protected, PrefixParts(s, act, stg, c, protected),
         NEW r, r = Result(s, act, stg, c, ord, protected)
  PROVE  PrefixOK(r)
<1>1. r.s = s /\ r.active = act /\ r.staged = stg /\ r.contents = c /\ r.protected = protected
  BY ONLY r = Result(s, act, stg, c, ord, protected), ResultParts
<1>. QED BY <1>1 DEF PrefixOK

(* A prefix without a bundle.                                              *)
LEMMA PrefixWithout ==
  ASSUME NEW s, StoreOK(s), NEW stg \in Seq(Item), NEW c, Names(c, 0), NEW ord,
         NEW r, r = Result(s, NoBundle, stg, c, ord, 0)
  PROVE  PrefixOK(r)
<1>. DEFINE b == NoBundle
            zero == 0
<1>1. r = Result(s, b, stg, c, ord, zero) /\ PrefixParts(s, b, stg, c, zero)
  BY NoBundleOK DEF PrefixParts
<1>. HIDE DEF b, zero
<1>. QED BY ONLY <1>1, PrefixMade

(* A prefix after its render: its bundle is protected once named.          *)
LEMMA PrefixRenderedKeeps ==
  ASSUME NEW x, NEW id, id # 0, RenderOK(x, 0, id), NEW prefix, NEW ord, NEW io,
         NEW r, r = PrefixRendered(x, prefix, ord, io)
  PROVE  PrefixOK(r)
<1>. DEFINE s == x.s
            b == x.b
            c == x.contents
            protected == IF b.disclosed THEN b.id ELSE 0
            f == FinishBundle(s, b, io)
            none == <<>>
<1>1. /\ StoreOK(s) /\ b \in BundleType /\ b.id = id /\ Newest(s, id)
      /\ (~x.err => Tracks(b, s.disk[id])) /\ Names(c, id) /\ (b.disclosed \/ Names(c, 0))
  BY DEF RenderOK, Follows
<1>2. StoreOK(f) /\ \A y : Newest(s, y) /\ Spares(b, y) => Newest(f, y)
  <2>1. f = FinishBundle(s, b, io)
    OBVIOUS
  <2>. HIDE DEF f, s, b
  <2>. QED BY <1>1, <2>1, FinishKeeps
<1>3. CASE x.err
  <2>. DEFINE e == CompactItemsWithoutOutputBundle(prefix)
              no == NoBundle
  <2>1. r = Result(f, no, none, e, ord, protected)
    BY <1>3 DEF PrefixRendered
  <2>2. Names(e, 0) /\ none \in Seq(Item) /\ ActiveOK(f, no) /\ no.id = 0
    BY WithoutNames, NoBundleOK
  <2>3. protected # 0 => Newest(f, protected)
    BY <1>1, <1>2 DEF Spares
  <2>. HIDE DEF e, f, protected, none, no
  <2>4. Names(e, protected)
    BY <2>2 DEF Names
  <2>5. PrefixParts(f, no, none, e, protected)
    BY <1>2, <2>2, <2>3, <2>4 DEF PrefixParts
  <2>. QED BY ONLY <2>1, <2>5, PrefixMade
<1>4. CASE ~x.err
  <2>. DEFINE o == AddOrder(ord, x.b.id, x.order)
  <2>1. r = Result(s, b, none, c, o, protected)
    BY <1>4 DEF PrefixRendered
  <2>2. /\ Names(c, protected) /\ (Names(c, 0) \/ Whole(s, protected))
        /\ (protected # 0 => Newest(s, protected) /\ protected = b.id /\ b.disclosed)
    BY <1>1, <1>4, NewestStored DEF Names, Tracks, Whole, Intact
  <2>3. ActiveOK(s, b) /\ none \in Seq(Item)
    BY <1>1, <1>4 DEF ActiveOK
  <2>. HIDE DEF s, b, c, protected, none, o
  <2>4. PrefixParts(s, b, none, c, protected)
    BY <1>1, <2>2, <2>3 DEF PrefixParts
  <2>. QED BY ONLY <2>1, <2>4, PrefixMade
<1>. QED BY <1>3, <1>4

(* render_follow_up_detached_prefix_with_active_bundle.                    *)
LEMMA PrefixWithKeeps ==
  ASSUME NEW s, NEW b, Open(s, 0, b), b.id # 0, NEW prefix \in Seq(Item), NEW chars, NEW ord, NEW io, io.cut \in Nat,
         NEW r, r = RenderPrefixWithActive(s, b, prefix, chars, ord, io)
  PROVE  PrefixOK(r)
<1>. DEFINE x == RenderActiveBundle(s, b, prefix, chars, io)
            zero == 0
            id == b.id
<1>1. r = PrefixRendered(x, prefix, ord, io) /\ x = RenderActiveBundle(s, b, prefix, chars, io)
      /\ Open(s, zero, b) /\ (zero # 0 => Roomy)
  BY DEF RenderPrefixWithActive
<1>. HIDE DEF x, zero
<1>2. RenderOK(x, zero, id)
  BY ONLY <1>1, prefix \in Seq(Item), io.cut \in Nat, RenderBundleKeeps
<1>3. RenderOK(x, 0, id) /\ id # 0
  BY <1>2 DEF zero
<1>. HIDE DEF id
<1>. QED BY ONLY <1>1, <1>3, PrefixRenderedKeeps

(* render_follow_up_detached_prefix.                                       *)
LEMMA PrefixKeeps ==
  ASSUME NEW s, StoreOK(s), NEW act, ActiveOK(s, act), NEW stg \in Seq(Item), NEW prefix \in Seq(Item),
         NEW items, NEW ord, NEW io, io.cut \in Nat, NEW r, r = RenderDetachedPrefix(s, act, stg, prefix, items, ord, io)
  PROVE  PrefixOK(r)
<1>. DEFINE counted == IF prefix = <<>> THEN <<>> ELSE items
            images == CountImages(stg) + CountImages(prefix) + CountImages(counted)
            chars == TextChars(stg) + TextChars(prefix) + TextChars(counted)
            mixed == images > 0 /\ ShouldUseOutputBundle(images, chars)
            small == ~mixed /\ ~TextShouldSpill(chars)
            none == <<>>
            zero == 0
<1>1. none \in Seq(Item) /\ Guarded(s, zero, zero)
  BY DEF Guarded
<1>2. CASE act.id # 0
  <2>. DEFINE ch == TextChars(prefix)
  <2>1. r = RenderPrefixWithActive(s, act, prefix, ch, ord, io)
    BY <1>2 DEF RenderDetachedPrefix
  <2>2. Open(s, 0, act)
    BY <1>2 DEF ActiveOK, Open, Follows
  <2>. HIDE DEF ch
  <2>. QED BY ONLY <1>2, <2>1, <2>2, prefix \in Seq(Item), io.cut \in Nat, PrefixWithKeeps
<1>3. CASE act.id = 0 /\ small
  <2>. DEFINE g == IF stg = <<>> THEN <<>> ELSE stg \o RetainedItems(prefix)
              c == MaterializeItems(CollapseImageUpdates(prefix))
  <2>1. r = Result(s, NoBundle, g, c, ord, 0)
    BY <1>3 DEF RenderDetachedPrefix
  <2>2. g \in Seq(Item)
    <3>. DEFINE k == RetainedItems(prefix)
    <3>1. k \in Seq(Item)
      BY RetainedType
    <3>. HIDE DEF k
    <3>2. stg \o k \in Seq(Item)
      BY <3>1
    <3>3. g = stg \o k \/ g = none
      BY DEF k
    <3>. QED BY <1>1, <3>2, <3>3
  <2>3. Names(c, 0)
    BY WithoutNames
  <2>. HIDE DEF g, c
  <2>. QED BY ONLY <2>1, <2>2, <2>3, StoreOK(s), PrefixWithout
<1>4. CASE act.id = 0 /\ ~small /\ stg # <<>>
  <2>. DEFINE m == MaterializeStaged(s, stg, zero, io)
              p == m.s
              b == m.b
  <2>1. r = PrefixInStaged(m, prefix, stg, chars, ord, io) /\ m = MaterializeStaged(s, stg, zero, io)
    BY <1>4 DEF RenderDetachedPrefix
  <2>. HIDE DEF m, chars
  <2>2. Staged(s, zero, m)
    <3>. HIDE DEF zero
    <3>. QED BY ONLY <1>1, <2>1, StoreOK(s), stg \in Seq(Item), io.cut \in Nat, StagedKeeps
  <2>3. StoreOK(p) /\ (~m.err => b.id # 0 /\ Open(p, 0, b))
    BY <2>2 DEF Staged
  <2>4. CASE m.err
    <3>. DEFINE c == CompactItemsWithoutOutputBundle(stg \o prefix)
    <3>1. r = Result(p, NoBundle, none, c, ord, 0) /\ Names(c, 0)
      BY <2>1, <2>4, WithoutNames DEF PrefixInStaged
    <3>. HIDE DEF c, p, none
    <3>. QED BY ONLY <1>1, <2>3, <3>1, PrefixWithout
  <2>5. CASE ~m.err
    <3>. DEFINE o == AddOrder(ord, m.b.id, m.order)
    <3>1. r = RenderPrefixWithActive(p, b, prefix, chars, o, io)
      BY <2>1, <2>5 DEF PrefixInStaged
    <3>2. b.id # 0 /\ Open(p, 0, b)
      BY <2>3, <2>5
    <3>. HIDE DEF p, b, o
    <3>. QED BY ONLY <3>1, <3>2, prefix \in Seq(Item), io.cut \in Nat, PrefixWithKeeps
  <2>. QED BY <2>4, <2>5
<1>5. CASE act.id = 0 /\ ~small /\ stg = <<>>
  <2>. DEFINE m == MaterializeStaged(s, prefix, zero, io)
              p == m.s
              yes == TRUE
              b == [m.b EXCEPT !.disclosed = yes]
  <2>1. r = PrefixOnly(m, prefix, mixed, ord) /\ m = MaterializeStaged(s, prefix, zero, io)
    BY <1>5 DEF RenderDetachedPrefix
  <2>. HIDE DEF m, mixed
  <2>2. Staged(s, zero, m)
    <3>. HIDE DEF zero
    <3>. QED BY ONLY <1>1, <2>1, StoreOK(s), prefix \in Seq(Item), io.cut \in Nat, StagedKeeps
  <2>3. StoreOK(p) /\ (~m.err => m.b.id # 0 /\ Open(p, 0, m.b))
    BY <2>2 DEF Staged
  <2>4. CASE m.err
    <3>. DEFINE c == CompactItemsWithoutOutputBundle(prefix)
    <3>1. r = Result(p, NoBundle, none, c, ord, 0) /\ Names(c, 0)
      BY <2>1, <2>4, WithoutNames DEF PrefixOnly
    <3>. HIDE DEF c, p, none
    <3>. QED BY ONLY <1>1, <2>3, <3>1, PrefixWithout
  <2>5. CASE ~m.err
    <3>. DEFINE c == IF mixed THEN CompactOutputBundle(p, b) ELSE CompactText(m.kept, Notice(b))
                o == AddOrder(ord, b.id, m.order)
                id == b.id
                q == Result(p, b, none, c, o, id)
    <3>1. r = [q EXCEPT !.prefixOnly = TRUE]
      BY <2>1, <2>5 DEF PrefixOnly
    <3>2. Names(c, b.id)
      <4>1. Names(CompactOutputBundle(p, b), b.id) /\ Names(CompactText(m.kept, Notice(b)), b.id)
        BY CompactNames
      <4>. QED BY <4>1
    <3>3. m.b \in BundleType /\ m.b.id # 0 /\ Newest(p, m.b.id) /\ Tracks(m.b, p.disk[m.b.id])
      BY <2>3, <2>5 DEF Open, Follows
    <3>4. SameCounts(m.b, b) /\ b.disclosed = yes
      <4>1. yes \in BOOLEAN
        OBVIOUS
      <4>. HIDE DEF yes
      <4>. QED BY <3>3, <4>1, SetDisclosed
    <3>. HIDE DEF b
    <3>5. b \in BundleType /\ b.id = m.b.id /\ Tracks(b, p.disk[m.b.id])
      BY <3>3, <3>4, TracksSame DEF SameCounts
    <3>6. ActiveOK(p, b) /\ Newest(p, id) /\ Whole(p, id)
      BY <2>3, <3>3, <3>5, NewestStored DEF ActiveOK, Tracks, Whole, Intact
    <3>. HIDE DEF c, p
    <3>7. PrefixParts(p, b, none, c, id)
      BY <1>1, <2>3, <3>2, <3>4, <3>6 DEF PrefixParts
    <3>8. r.s = p /\ r.active = b /\ r.staged = none /\ r.contents = c /\ r.protected = id
      <4>. HIDE DEF none, id, o
      <4>. QED BY ONLY <3>1 DEF q, Result
    <3>. HIDE DEF none, id
    <3>. QED BY <3>7, <3>8 DEF PrefixOK
  <2>. QED BY <2>4, <2>5
<1>. QED BY <1>2, <1>3, <1>4, <1>5

(* A reply of notices only needs no bundle.                                *)
LEMMA ServerCounts ==
  ASSUME NEW items \in Seq(Item), ServerOnly(items)
  PROVE  CountImages(items) = 0 /\ TextChars(items) = 0
<1>1. \A i \in DOMAIN items : items[i].kind = "server"
  BY DEF ServerOnly, IsWorker
<1>. DEFINE f == [i \in DOMAIN items |-> IF items[i].kind = "text" THEN items[i].n ELSE 0]
<1>2. {i \in DOMAIN items : items[i].kind = "image"} = {}
  BY <1>1
<1>3. CountImages(items) = 0
  BY <1>2, FS_EmptySet DEF CountImages
<1>4. \A i \in DOMAIN items : (IF items[i].kind = "text" THEN items[i].n ELSE 0) = 0
  BY <1>1
<1>5. DOMAIN items = 1..Len(items) /\ Len(items) \in Nat
  OBVIOUS
<1>6. f \in Seq(Nat) /\ \A k \in 1..Len(f) : f[k] = 0
  BY <1>4, <1>5
<1>7. TextChars(items) = SumOf(f)
  BY DEF TextChars
<1>. HIDE DEF f
<1>8. SumOf(f) = 0
  BY <1>6, SumZero
<1>. QED BY <1>3, <1>7, <1>8

(* A reply of server text only stays inline.                               *)
LEMMA ServerSegment ==
  ASSUME NEW items \in Seq(Item), ServerOnly(items), NEW s, NEW timeout, NEW protected, NEW keep, NEW ord,
         NEW io,
         NEW q, q = RenderTimeoutReplySegment(s, items, timeout, protected, keep, NoBundle, <<>>, ord, io)
  PROVE  q.s = s /\ q.active = NoBundle /\ q.contents.notices = {}
<1>. DEFINE none == <<>>
            g == IF keep THEN none \o RetainedItems(items) ELSE <<>>
            c == MaterializeItems(CollapseImageUpdates(items))
            b == NoBundle
            zero == 0
<1>1. none \in Seq(Item) /\ ServerOnly(none)
  BY DEF ServerOnly
<1>2. CountImages(items) = 0 /\ TextChars(items) = 0
  BY ServerCounts
<1>3. CountImages(none) = 0 /\ TextChars(none) = 0
  <2>. HIDE DEF none
  <2>. QED BY <1>1, ServerCounts
<1>4. SpillChars \in Nat
  BY SegmentAssumption
<1>5. ~TextShouldSpill(0)
  BY <1>4 DEF TextShouldSpill
<1>6. ~NeedsBundle(0 + 0, 0 + 0)
  BY <1>5 DEF NeedsBundle
<1>7. b.id = 0
  BY NoBundleOK
<1>8. q = Result(s, b, none, c, ord, zero) \/ q = Result(s, b, g, c, ord, zero)
  <2>1. CASE timeout
    <3>1. ~NeedsBundle(CountImages(none) + CountImages(items), TextChars(none) + TextChars(items))
      BY <1>2, <1>3, <1>6
    <3>. QED BY <1>7, <2>1, <3>1 DEF RenderTimeoutReplySegment
  <2>2. CASE ~timeout
    <3>1. q = RenderReplyItems(s, items, protected, ord, io)
      BY <1>7, <2>2 DEF RenderTimeoutReplySegment
    <3>. QED BY <1>2, <1>5, <3>1 DEF RenderReplyItems
  <2>. QED BY <2>1, <2>2
<1>9. c.notices = {}
  BY DEF MaterializeItems, Contents
<1>. HIDE DEF none, g, c, b, zero
<1>10. CASE q = Result(s, b, none, c, ord, zero)
  <2>1. q.s = s /\ q.active = b /\ q.contents = c
    BY ONLY <1>10, ResultParts
  <2>. QED BY <1>9, <2>1 DEF b
<1>11. CASE q = Result(s, b, g, c, ord, zero)
  <2>1. q.s = s /\ q.active = b /\ q.contents = c
    BY ONLY <1>11, ResultParts
  <2>. QED BY <1>9, <2>1 DEF b
<1>. QED BY <1>8, <1>10, <1>11

(* The end of a finalization.                                              *)
FinalParts(s, act, stg, c) ==
    /\ StoreOK(s) /\ ActiveOK(s, act) /\ stg \in Seq(Item) /\ (Roomy => NoticesKept(s, c.notices))
FinalOK(r) == FinalParts(r.s, r.active, r.staged, r.contents)
(* The end of a finalization, from its parts.                              *)
LEMMA FinalMade ==
  ASSUME NEW s, NEW act, NEW stg, NEW c, FinalParts(s, act, stg, c), NEW ord, NEW p,
         NEW r, r = Result(s, act, stg, c, ord, p)
  PROVE  FinalOK(r)
<1>1. r.s = s /\ r.active = act /\ r.staged = stg /\ r.contents = c
  BY ONLY r = Result(s, act, stg, c, ord, p), ResultParts
<1>. QED BY <1>1 DEF FinalOK

(* The reply proper takes over from the prefix.                            *)
LEMMA TakeOver ==
  ASSUME NEW p, PrefixOK(p), NEW prev, Roomy /\ ~Names(p.contents, 0) => prev = p.protected, NEW q,
         SegmentOK(p.s, prev, NoBundle, q), NEW io,
         NEW r, r = Result(FinishBundle(q.s, p.active, io), q.active, q.staged,
                           Join(p.contents, q.contents), q.order, 0)
  PROVE  FinalOK(r)
<1>. DEFINE s == q.s
            b == p.active
            f == FinishBundle(s, b, io)
            act == q.active
            stg == q.staged
            c == Join(p.contents, q.contents)
            o == q.order
            zero == 0
<1>1. /\ StoreOK(s) /\ ActiveOK(s, act) /\ stg \in Seq(Item)
      /\ (act.id # 0 => Fresh(p.s, NoBundle, act.id)) /\ (prev # 0 => Whole(s, prev))
      /\ \A n \in q.contents.notices : n.bundle # 0 => Whole(s, n.bundle) /\ Fresh(p.s, NoBundle, n.bundle)
  BY DEF SegmentOK
<1>2. /\ StoreOK(p.s) /\ (b.id # 0 => Newest(p.s, b.id)) /\ Names(p.contents, p.protected)
      /\ (b.id # 0 /\ p.protected # 0 => b.id = p.protected /\ b.disclosed)
  BY DEF PrefixOK, PrefixParts, ActiveOK
<1>3. ASSUME NEW x, x # 0, Fresh(p.s, NoBundle, x) PROVE Spares(b, x)
  <2>1. ~Stored(p.s, x)
    BY <1>3, NoBundleOK DEF Fresh
  <2>2. b.id # 0 => Stored(p.s, b.id)
    BY <1>2, NewestStored
  <2>. QED BY <1>3, <2>1, <2>2 DEF Spares
<1>4. p.protected # 0 => Spares(b, p.protected)
  BY <1>2 DEF Spares
<1>5. /\ StoreOK(f)
      /\ \A x : Whole(s, x) /\ Spares(b, x) => Whole(f, x)
      /\ \A x : Newest(s, x) /\ Spares(b, x) => Newest(f, x) /\ f.disk[x] = s.disk[x]
  <2>1. f = FinishBundle(s, b, io)
    OBVIOUS
  <2>. HIDE DEF f, s, b
  <2>. QED BY <1>1, <2>1, FinishKeeps
<1>. HIDE DEF f, b
<1>6. ActiveOK(f, act)
  BY <1>1, <1>3, <1>5 DEF ActiveOK
<1>7. Roomy => NoticesKept(f, c.notices)
  <2>1. c.notices = p.contents.notices \cup q.contents.notices
    BY DEF Join, Contents
  <2>2. ASSUME Roomy, NEW n \in p.contents.notices, n.bundle # 0 PROVE Whole(f, n.bundle)
    <3>1. n.bundle = p.protected /\ prev = p.protected
      BY <1>2, <2>2 DEF Names
    <3>. QED BY <1>1, <1>4, <1>5, <2>2, <3>1
  <2>3. ASSUME NEW n \in q.contents.notices, n.bundle # 0 PROVE Whole(f, n.bundle)
    BY <1>1, <1>3, <1>5, <2>3
  <2>. HIDE DEF c
  <2>. QED BY <2>1, <2>2, <2>3 DEF NoticesKept
<1>8. FinalParts(f, act, stg, c)
  <2>. HIDE DEF act, stg, c
  <2>. QED BY <1>1, <1>5, <1>6, <1>7 DEF FinalParts
<1>9. r = Result(f, act, stg, c, o, zero)
  BY DEF f, b
<1>. HIDE DEF act, stg, c, o, zero
<1>. QED BY ONLY <1>8, <1>9, FinalMade

(* The reply proper after the prefix, whichever bundle is retained.        *)
LEMMA AfterPrefixKeeps ==
  ASSUME NEW p, PrefixOK(p), NEW spilled, NEW items \in Seq(Item), NEW timeout, NEW keep, keep => timeout,
         NEW io, io.cut \in Nat, NEW r, r = AfterPrefix(p, spilled, items, timeout, keep, io)
  PROVE  FinalOK(r)
<1>. DEFINE s == p.s
            protected == p.protected
            prev == IF Roomy /\ ~Names(p.contents, 0) THEN protected ELSE 0
            b == NoBundle
            none == <<>>
            ord == p.order
            q == RenderTimeoutReplySegment(s, items, timeout, protected, keep, b, none, ord, io)
            taken == keep /\ ServerOnly(items)
<1>1. /\ StoreOK(s) /\ (protected # 0 => Newest(s, protected)) /\ ActiveOK(s, p.active)
      /\ p.staged \in Seq(Item) /\ Names(p.contents, protected)
      /\ (Names(p.contents, 0) \/ Whole(s, protected))
  BY DEF PrefixOK, PrefixParts
<1>2. /\ r = JoinPrefix(p, q, spilled, items, timeout, keep, io)
      /\ q = RenderTimeoutReplySegment(s, items, timeout, protected, keep, b, none, ord, io)
  BY DEF AfterPrefix
<1>3. Guarded(s, prev, protected) /\ ActiveOK(s, b) /\ (b.id # 0 => prev = 0) /\ none \in Seq(Item) /\ b.id = 0
  BY <1>1, NoBundleOK DEF Guarded, Whole, Intact
<1>4. Roomy /\ ~Names(p.contents, 0) => prev = p.protected
  OBVIOUS
<1>. HIDE DEF q
<1>5. SegmentOK(s, prev, b, q)
  <2>1. StoreOK(s)
    BY <1>1
  <2>. HIDE DEF s, prev, protected, b, none, ord
  <2>. QED BY ONLY <1>2, <1>3, <2>1, items \in Seq(Item), io.cut \in Nat, SegmentKeeps
<1>6. CASE spilled \/ ~taken
  <2>1. r = Result(FinishBundle(q.s, p.active, io), q.active, q.staged, Join(p.contents, q.contents), q.order, 0)
    <3>1. CASE spilled
      BY <1>2, <3>1 DEF JoinPrefix, SpilledPrefixReply
    <3>2. CASE ~spilled /\ ~taken
      <4>1. r = FollowUpReply(p, q, items, timeout, keep, io)
        BY <1>2, <3>2 DEF JoinPrefix
      <4>2. ~(keep /\ ServerOnly(items)) /\ ~(keep /\ (ServerOnly(items) \/ (~p.prefixOnly /\ ~timeout)))
        BY <3>2
      <4>. QED BY <4>1, <4>2 DEF FollowUpReply
    <3>. QED BY <1>6, <3>1, <3>2
  <2>. HIDE DEF prev
  <2>. QED BY ONLY <1>4, <1>5, <2>1, PrefixOK(p), TakeOver DEF s, b
<1>7. CASE ~spilled /\ taken
  <2>1. q.s = s /\ q.active = b /\ q.contents.notices = {}
    <3>1. ServerOnly(items)
      BY <1>7
    <3>. HIDE DEF s, protected, ord
    <3>. QED BY ONLY <1>2, <3>1, items \in Seq(Item), ServerSegment DEF b, none
  <2>. DEFINE act == p.active
              stg == IF ~p.prefixOnly THEN p.staged ELSE none
              c == Join(p.contents, q.contents)
              o == q.order
              zero == 0
  <2>2. r = Result(s, act, stg, c, o, zero)
    <3>1. r = FollowUpReply(p, q, items, timeout, keep, io)
      BY <1>2, <1>7 DEF JoinPrefix
    <3>2. FinishBundle(q.s, q.active, io) = s
      BY <1>3, <2>1 DEF FinishBundle
    <3>. QED BY <1>3, <1>7, <2>1, <3>1, <3>2 DEF FollowUpReply
  <2>3. NoticesKept(s, c.notices)
    <3>1. c.notices = p.contents.notices
      BY <2>1 DEF Join, Contents
    <3>2. \A n \in p.contents.notices : n.bundle # 0 => Whole(s, n.bundle)
      BY <1>1 DEF Names
    <3>. HIDE DEF c, s
    <3>. QED BY <3>1, <3>2 DEF NoticesKept
  <2>4. FinalParts(s, act, stg, c)
    <3>1. stg \in Seq(Item)
      BY <1>1, <1>3
    <3>. HIDE DEF s, c, stg
    <3>. QED BY <1>1, <2>3, <3>1 DEF FinalParts
  <2>. HIDE DEF s, act, stg, c, o, zero
  <2>. QED BY ONLY <2>2, <2>4, FinalMade
<1>. QED BY <1>6, <1>7

(* A whole finalization keeps the invariant's parts, and the bundles that  *)
(* its notices name are stored at its end (finalize_reply).                *)
LEMMA FinalizeReplyKeeps ==
  ASSUME StoreOK(store), ActiveOK(store, active), staged \in Seq(Item), NEW reuse,
         NEW prefix \in Seq(Item), NEW items \in Seq(Item), NEW timeout, NEW keep, keep => timeout, NEW io, io.cut \in Nat,
         NEW r, r = FinalizeReply(reuse, prefix, items, timeout, keep, io)
  PROVE  FinalOK(r)
<1>. DEFINE fresh == reuse = "none"
            s == IF fresh THEN FinishBundle(store, active, io) ELSE store
            act == IF fresh THEN NoBundle ELSE active
            stg == IF fresh THEN <<>> ELSE staged
            spilled == /\ reuse # "follow_up" /\ act.id = 0 /\ stg = <<>>
                       /\ ShouldSpillDetachedPrefixOnly(prefix, items)
            p == RenderDetachedPrefix(s, act, stg, prefix, items, order, io)
            all == prefix \o items
            zero == 0
<1>1. StoreOK(s)
  <2>1. CASE fresh
    <3>. DEFINE f == FinishBundle(store, active, io)
    <3>1. s = f /\ f = FinishBundle(store, active, io)
      BY <2>1
    <3>. HIDE DEF f
    <3>. QED BY ONLY <3>1, StoreOK(store), FinishKeeps
  <2>. QED BY <2>1
<1>2. ActiveOK(s, act) /\ stg \in Seq(Item)
  BY NoBundleOK
<1>3. r = IF reuse = "follow_up" \/ spilled THEN AfterPrefix(p, spilled, items, timeout, keep, io)
          ELSE RenderTimeoutReplySegment(s, all, timeout, zero, keep, act, stg, order, io)
  BY DEF FinalizeReply
<1>4. p = RenderDetachedPrefix(s, act, stg, prefix, items, order, io)
  OBVIOUS
<1>5. all \in Seq(Item)
  OBVIOUS
<1>6. Guarded(s, zero, zero) /\ (act.id # 0 => zero = 0)
  BY DEF Guarded
<1>. HIDE DEF s, act, stg, p, spilled, all, zero
<1>7. CASE reuse = "follow_up" \/ spilled
  <2>1. PrefixOK(p)
    <3>. DEFINE ord == order
    <3>1. p = RenderDetachedPrefix(s, act, stg, prefix, items, ord, io)
      BY <1>4
    <3>. HIDE DEF ord
    <3>. QED BY ONLY <1>1, <1>2, <3>1, prefix \in Seq(Item), io.cut \in Nat, PrefixKeeps
  <2>2. r = AfterPrefix(p, spilled, items, timeout, keep, io)
    BY <1>3, <1>7
  <2>. QED BY ONLY <2>1, <2>2, items \in Seq(Item), keep => timeout, io.cut \in Nat, AfterPrefixKeeps
<1>8. CASE ~(reuse = "follow_up" \/ spilled)
  <2>. DEFINE ord == order
  <2>1. r = RenderTimeoutReplySegment(s, all, timeout, zero, keep, act, stg, ord, io)
    BY <1>3, <1>8
  <2>. HIDE DEF ord
  <2>2. SegmentOK(s, zero, act, r)
    BY ONLY <1>1, <1>2, <1>5, <1>6, <2>1, io.cut \in Nat, SegmentKeeps
  <2>. QED BY <2>2 DEF SegmentOK, FinalOK, FinalParts, NoticesKept
<1>. QED BY <1>7, <1>8

(* The empty store, whatever its next number.                              *)
LEMMA EmptyStoreOK ==
  ASSUME NEW n \in Nat, NEW s, s = [EmptyStore EXCEPT !.next = n]
  PROVE  StoreOK(s)
<1>1. s = [bundles |-> <<>>, total |-> 0, next |-> n, disk |-> <<>>]
  BY DEF EmptyStore
<1>2. <<>> \in Disks
  <2>1. <<>> \in [{} -> Dir]
    OBVIOUS
  <2>. QED BY <2>1 DEF Disks
<1>3. s \in StoreType
  <2>. DEFINE none == <<>>
  <2>1. none \in Seq(Entry) /\ none \in Disks
    BY <1>2
  <2>2. s = [bundles |-> none, total |-> 0, next |-> n, disk |-> none]
    BY <1>1
  <2>3. 0 \in Nat
    OBVIOUS
  <2>. HIDE DEF none
  <2>4. [bundles |-> none, total |-> 0, next |-> n, disk |-> none]
           \in [bundles : Seq(Entry), total : Nat, next : Nat, disk : Disks]
    BY ONLY <2>1, <2>3, n \in Nat, Zenon
  <2>. QED BY ONLY <2>2, <2>4 DEF StoreType
<1>4. SumOf(Accounts(<<>>)) = 0
  <2>. DEFINE none == <<>>
  <2>1. none \in Seq(Entry) /\ Len(none) = 0
    OBVIOUS
  <2>. HIDE DEF none
  <2>2. Accounts(none) \in Seq(Nat) /\ Len(Accounts(none)) = 0
    BY ONLY <2>1, AccountsType
  <2>3. SumOf(Accounts(none)) = 0
    BY ONLY <2>2, SumEmpty
  <2>. QED BY <2>3 DEF none
<1>5. s.bundles = <<>> /\ s.total = 0 /\ DOMAIN s.disk = {} /\ DOMAIN s.bundles = {} /\ Len(s.bundles) = 0
  BY <1>1
<1>. QED BY <1>3, <1>4, <1>5, QuotaAssumption DEF StoreOK

(***************************************************************************)
(* The steps.                                                              *)
(***************************************************************************)

(* What finalize_visible_reply leaves behind, respawned or not.            *)
LEMMA FinalizeKeeps ==
  ASSUME BundlesInv, NEW reuse, NEW prefix \in Seq(Item), NEW items \in Seq(Item), NEW timeout,
         NEW respawned, NEW io, io.cut \in Nat, Finalize(reuse, prefix, items, timeout, timeout, respawned, io)
  PROVE  BundlesInv'
<1>1. /\ StoreOK(store) /\ ActiveOK(store, active) /\ staged \in Seq(Item) /\ calls \in Nat
  BY DEF BundlesInv
<1>2. PICK r \in {FinalizeReply(reuse, prefix, items, timeout, timeout, io)} :
          /\ store' = r.s
          /\ active' = IF respawned /\ active.disclosed /\ r.active.id = active.id
                       THEN NoBundle ELSE r.active
          /\ staged' = r.staged
          /\ reply' = [items |-> prefix \o items, shown |-> r.contents.shown,
                       notices |-> r.contents.notices]
  BY DEF Finalize
<1>3. r = FinalizeReply(reuse, prefix, items, timeout, timeout, io)
  BY <1>2
<1>4. FinalOK(r)
  BY ONLY <1>1, <1>3, prefix \in Seq(Item), items \in Seq(Item), io.cut \in Nat, FinalizeReplyKeeps
<1>5. calls' \in Nat
  BY <1>1 DEF Finalize
<1>6. /\ StoreOK(r.s) /\ ActiveOK(r.s, r.active) /\ r.staged \in Seq(Item)
      /\ (Roomy => NoticesKept(r.s, r.contents.notices))
  BY <1>4 DEF FinalOK, FinalParts
<1>7. StoreOK(store') /\ staged' \in Seq(Item)
  BY <1>2, <1>6
<1>8. ActiveOK(store', active')
  BY <1>2, <1>6, NoBundleOK
<1>9. Roomy => NoticesKept(store', reply'.notices)
  <2>1. reply'.notices = r.contents.notices
    BY <1>2
  <2>. QED BY <1>2, <1>6, <2>1
<1>. QED BY <1>5, <1>7, <1>8, <1>9 DEF BundlesInv

(* The number of bytes a failed write leaves is a number.                  *)
LEMMA FaultsCut ==
  ASSUME NEW io \in Faults PROVE io.cut \in Nat
<1>1. NoFault.cut \in Nat
  BY DEF NoFault
<1>2. ASSUME NEW f \in IoFaults, io \in [ops : {f.ops}, at : At(f), cut : {f.cut}] PROVE io.cut \in Nat
  BY <1>2, SegmentAssumption
<1>. QED BY <1>1, <1>2 DEF Faults

(* Number gives items for the segments and the status of a call.           *)
LEMMA NumberedItems ==
  ASSUME calls \in Nat, NEW seg \in Segments \cup Detached, NEW from \in Nat
  PROVE  /\ Number(seg, from) \in Seq(Item)
         /\ Number(seg \o Status, from) \in Seq(Item)
         /\ Number(Status, from) \in Seq(Item)
<1>1. Status \in Seq(Shapes)
  <2>1. [kind |-> "server", n |-> 1, visible |-> TRUE, img |-> 0] \in Shapes
    BY DEF Shapes
  <2>. QED BY <2>1 DEF Status
<1>2. seg \in Seq(Shapes)
  BY SegmentAssumption
<1>3. seg \o Status \in Seq(Shapes)
  BY <1>1, <1>2
<1>. QED BY <1>1, <1>2, <1>3, NumberType

(* A poll of a pending request keeps the invariant.                        *)
LEMMA PollKeeps ==
  ASSUME BundlesInv, Poll PROVE BundlesInv'
<1>1. PICK seg \in Segments, done \in BOOLEAN, io \in Faults, respawned \in BOOLEAN :
         Finalize("full", <<>>, Number(IF done THEN seg ELSE seg \o Status, 0), ~done, ~done, respawned, io)
  BY DEF Poll
<1>. DEFINE none == <<>>
            items == Number(IF done THEN seg ELSE seg \o Status, 0)
            timeout == ~done
            full == "full"
<1>2. none \in Seq(Item)
  OBVIOUS
<1>3. items \in Seq(Item)
  <2>1. calls \in Nat /\ seg \in Segments \cup Detached /\ 0 \in Nat
    BY DEF BundlesInv
  <2>2. Number(seg, 0) \in Seq(Item) /\ Number(seg \o Status, 0) \in Seq(Item)
    BY ONLY <2>1, NumberedItems
  <2>. QED BY <2>2
<1>4. Finalize(full, none, items, timeout, timeout, respawned, io)
  BY <1>1
<1>. HIDE DEF none, items, timeout, full
<1>5. io.cut \in Nat
  BY FaultsCut
<1>. QED BY ONLY BundlesInv, <1>2, <1>3, <1>4, <1>5, FinalizeKeeps

(* An idle poll keeps the invariant.                                       *)
LEMMA IdlePollKeeps ==
  ASSUME BundlesInv, IdlePoll PROVE BundlesInv'
<1>1. PICK seg \in Segments, io \in Faults :
         Finalize("full", <<>>, Number(IF seg = <<>> THEN Status ELSE seg, 0), FALSE, FALSE, FALSE, io)
  BY DEF IdlePoll
<1>. DEFINE none == <<>>
            items == Number(IF seg = <<>> THEN Status ELSE seg, 0)
            timeout == FALSE
            full == "full"
            respawned == FALSE
<1>2. none \in Seq(Item)
  OBVIOUS
<1>3. items \in Seq(Item)
  <2>1. calls \in Nat /\ seg \in Segments \cup Detached /\ 0 \in Nat
    BY DEF BundlesInv
  <2>2. Number(seg, 0) \in Seq(Item) /\ Number(Status, 0) \in Seq(Item)
    BY ONLY <2>1, NumberedItems
  <2>. QED BY <2>2
<1>4. Finalize(full, none, items, timeout, timeout, respawned, io)
  BY <1>1
<1>. HIDE DEF none, items, timeout, full, respawned
<1>5. io.cut \in Nat
  BY FaultsCut
<1>. QED BY ONLY BundlesInv, <1>2, <1>3, <1>4, <1>5, FinalizeKeeps

(* Input refused while a request runs.                                     *)
LEMMA BusyFollowUpKeeps ==
  ASSUME BundlesInv, BusyFollowUp PROVE BundlesInv'
<1>1. PICK seg \in Segments, done \in BOOLEAN, io \in Faults :
         Finalize("follow_up", Number(IF done THEN seg ELSE seg \o Status, 0), Number(Status, 5),
                  ~done, ~done, FALSE, io)
  BY DEF BusyFollowUp
<1>. DEFINE prefix == Number(IF done THEN seg ELSE seg \o Status, 0)
            items == Number(Status, 5)
            timeout == ~done
            followUp == "follow_up"
            respawned == FALSE
<1>2. prefix \in Seq(Item) /\ items \in Seq(Item)
  <2>1. calls \in Nat /\ seg \in Segments \cup Detached /\ 0 \in Nat /\ 5 \in Nat
    BY DEF BundlesInv
  <2>2. Number(seg, 0) \in Seq(Item) /\ Number(seg \o Status, 0) \in Seq(Item)
    BY ONLY <2>1, NumberedItems
  <2>3. Number(Status, 5) \in Seq(Item)
    BY ONLY <2>1, NumberedItems
  <2>. QED BY <2>2, <2>3
<1>3. Finalize(followUp, prefix, items, timeout, timeout, respawned, io)
  BY <1>1
<1>. HIDE DEF prefix, items, timeout, followUp, respawned
<1>5. io.cut \in Nat
  BY FaultsCut
<1>. QED BY ONLY BundlesInv, <1>2, <1>3, <1>5, FinalizeKeeps

(* Input that is accepted.                                                 *)
LEMMA InputKeeps ==
  ASSUME BundlesInv, Input PROVE BundlesInv'
<1>1. PICK seg \in Segments, pre \in Detached, done \in BOOLEAN, io \in Faults, respawned \in BOOLEAN :
         Finalize("follow_up", Number(pre, 0), Number(IF done THEN seg ELSE seg \o Status, 5),
                  ~done, ~done, respawned, io)
  BY DEF Input
<1>. DEFINE prefix == Number(pre, 0)
            items == Number(IF done THEN seg ELSE seg \o Status, 5)
            timeout == ~done
            followUp == "follow_up"
<1>2. prefix \in Seq(Item) /\ items \in Seq(Item)
  <2>1. /\ calls \in Nat /\ seg \in Segments \cup Detached /\ pre \in Segments \cup Detached
        /\ 0 \in Nat /\ 5 \in Nat
    BY DEF BundlesInv
  <2>2. Number(seg, 5) \in Seq(Item) /\ Number(seg \o Status, 5) \in Seq(Item)
    BY ONLY <2>1, NumberedItems
  <2>3. Number(pre, 0) \in Seq(Item)
    BY ONLY <2>1, NumberedItems
  <2>. QED BY <2>2, <2>3
<1>3. Finalize(followUp, prefix, items, timeout, timeout, respawned, io)
  BY <1>1
<1>. HIDE DEF prefix, items, timeout, followUp
<1>5. io.cut \in Nat
  BY FaultsCut
<1>. QED BY ONLY BundlesInv, <1>2, <1>3, <1>5, FinalizeKeeps

(* A restart of the session.                                               *)
LEMMA RestartKeeps ==
  ASSUME BundlesInv, Restart PROVE BundlesInv'
<1>1. PICK seg \in Segments, done \in BOOLEAN, io \in Faults :
         Finalize("none", <<>>, Number(seg \o Status, 0), ~done, ~done, TRUE, io)
  BY DEF Restart
<1>. DEFINE none == <<>>
            items == Number(seg \o Status, 0)
            timeout == ~done
            reuse == "none"
            respawned == TRUE
<1>2. none \in Seq(Item)
  OBVIOUS
<1>3. items \in Seq(Item)
  <2>1. calls \in Nat /\ seg \in Segments \cup Detached /\ 0 \in Nat
    BY DEF BundlesInv
  <2>. QED BY ONLY <2>1, NumberedItems
<1>4. Finalize(reuse, none, items, timeout, timeout, respawned, io)
  BY <1>1
<1>. HIDE DEF none, items, timeout, reuse, respawned
<1>5. io.cut \in Nat
  BY FaultsCut
<1>. QED BY ONLY BundlesInv, <1>2, <1>3, <1>4, <1>5, FinalizeKeeps

(* retire_disclosed_timeout_bundle.                                        *)
LEMMA RetireKeeps ==
  ASSUME BundlesInv, RetireDisclosedTimeoutBundle PROVE BundlesInv'
<1>1. /\ active' = NoBundle /\ store' = store /\ staged' = staged /\ reply' = reply /\ calls' = calls
  BY DEF RetireDisclosedTimeoutBundle
<1>2. ActiveOK(store', active')
  BY <1>1, NoBundleOK
<1>. QED BY <1>1, <1>2 DEF BundlesInv

(* A call that ends in an error.                                           *)
LEMMA WorkerErrorKeeps ==
  ASSUME BundlesInv, WorkerErrorResult PROVE BundlesInv'
<1>1. PICK io \in Faults :
        /\ calls' = calls + 1 /\ store' = FinishBundle(store, active, io) /\ active' = NoBundle
        /\ staged' \in {staged, <<>>} /\ reply' = NoReply
  BY DEF WorkerErrorResult
<1>. DEFINE f == FinishBundle(store, active, io)
<1>2. f = FinishBundle(store, active, io)
  OBVIOUS
<1>. HIDE DEF f
<1>3. StoreOK(f)
  <2>1. StoreOK(store)
    BY DEF BundlesInv
  <2>. QED BY ONLY <1>2, <2>1, FinishKeeps
<1>4. StoreOK(store')
  BY <1>1, <1>2, <1>3
<1>5. ActiveOK(store', active')
  BY <1>1, NoBundleOK
<1>6. staged' \in Seq(Item) /\ calls' \in Nat
  <2>1. staged \in Seq(Item) /\ calls \in Nat
    BY DEF BundlesInv
  <2>2. calls + 1 \in Nat
    BY ONLY <2>1
  <2>3. staged' \in Seq(Item)
    <3>. DEFINE none == <<>>
    <3>1. staged' \in {staged, none} /\ none \in Seq(Item)
      BY <1>1
    <3>. HIDE DEF none
    <3>. QED BY ONLY <2>1, <3>1
  <2>. QED BY <1>1, <2>2, <2>3
<1>7. NoticesKept(store', reply'.notices)
  BY <1>1 DEF NoticesKept, NoReply
<1>. QED BY <1>4, <1>5, <1>6, <1>7 DEF BundlesInv

(* The end of the server.                                                  *)
LEMMA ShutdownKeeps ==
  ASSUME BundlesInv, Shutdown PROVE BundlesInv'
<1>1. /\ calls' = MaxCalls /\ active' = NoBundle /\ staged' = <<>>
      /\ store' = [EmptyStore EXCEPT !.next = store.next] /\ reply' = NoReply
  BY DEF Shutdown
<1>2. store.next \in Nat
  BY DEF BundlesInv, StoreOK, StoreType
<1>3. StoreOK(store')
  BY ONLY <1>1, <1>2, EmptyStoreOK
<1>4. ActiveOK(store', active')
  BY <1>1, NoBundleOK
<1>5. staged' \in Seq(Item) /\ calls' \in Nat
  BY <1>1, SegmentAssumption
<1>6. NoticesKept(store', reply'.notices)
  BY <1>1 DEF NoticesKept, NoReply
<1>. QED BY <1>3, <1>4, <1>5, <1>6 DEF BundlesInv

(* The invariant holds initially.                                          *)
LEMMA InitBundles ==
  ASSUME Init PROVE BundlesInv
<1>1. store = EmptyStore /\ active = NoBundle /\ staged = <<>> /\ reply = NoReply /\ calls = 0
  BY DEF Init
<1>2. StoreOK(store)
  <2>. DEFINE zero == 0
              s == store
  <2>1. zero \in Nat /\ s = [EmptyStore EXCEPT !.next = zero]
    BY <1>1 DEF EmptyStore
  <2>2. StoreOK(s)
    <3>. HIDE DEF zero, s
    <3>. QED BY ONLY <2>1, EmptyStoreOK
  <2>. QED BY <2>2
<1>3. ActiveOK(store, active)
  BY <1>1, NoBundleOK
<1>4. staged \in Seq(Item) /\ calls \in Nat
  BY <1>1
<1>5. NoticesKept(store, reply.notices)
  BY <1>1 DEF NoticesKept, NoReply
<1>. QED BY <1>2, <1>3, <1>4, <1>5 DEF BundlesInv

(***************************************************************************)
(* The response finalizer's invariant (ResponseState, server/response.rs): *)
(* the store's accounts are true, the active bundle is the newest stored   *)
(* one and tracks its directory.                                           *)
(***************************************************************************)
THEOREM BundlesCorrect == Spec => []BundlesInv
<1>1. Init => BundlesInv
  BY InitBundles
<1>2. BundlesInv /\ [Next]_vars => BundlesInv'
  <2>. SUFFICES ASSUME BundlesInv, [Next]_vars PROVE BundlesInv'
    OBVIOUS
  <2>1. CASE UNCHANGED vars
    BY <2>1 DEF vars, BundlesInv
  <2>2. CASE Next
    BY <2>2, PollKeeps, IdlePollKeeps, BusyFollowUpKeeps, InputKeeps, RestartKeeps, RetireKeeps,
       WorkerErrorKeeps, ShutdownKeeps DEF Next
  <2>. QED BY <2>1, <2>2
<1>. QED BY <1>1, <1>2, PTL DEF Spec

(***************************************************************************)
(* Whatever is appended, pruned or reserved, and whichever operation fails *)
(* after whatever others and part of its bytes, the store accounts for     *)
(* what the files of a bundle hold unless a write in it failed, no bundle  *)
(* holds more than its quota, and neither the accounts of one or of all    *)
(* bundles nor their number exceeds a limit (OutputStore, response.rs).    *)
(***************************************************************************)
THEOREM QuotaCorrect == Spec => []QuotaKept
<1>1. BundlesInv => QuotaKept
  <2>. SUFFICES ASSUME BundlesInv PROVE QuotaKept
    OBVIOUS
  <2>1. StoreOK(store)
    BY DEF BundlesInv
  <2>2. ASSUME NEW e \in Entries
        PROVE  /\ store.disk[e.id].gone \/ FilesOf(store.disk[e.id]) <= MaxBundleBytes
               /\ \/ store.disk[e.id].gone \/ store.disk[e.id].torn
                  \/ e.bytes = FilesOf(store.disk[e.id])
               /\ AccountedBytes(e) <= MaxBundleBytes
    <3>1. PICK i \in DOMAIN store.bundles : e = store.bundles[i]
      BY DEF Entries
    <3>2. EntryOK(e, store.disk[e.id])
      BY <2>1, <3>1 DEF StoreOK
    <3>3. e \in Entry
      BY <2>1, <3>1, StoreParts DEF StoreOK
    <3>4. e.bytes <= AccountedBytes(e)
      BY <3>3 DEF Entry, AccountedBytes
    <3>5. e.bytes \in Nat /\ AccountedBytes(e) \in Nat /\ MaxBundleBytes \in Nat
      BY <3>3, QuotaNumbers DEF Entry, AccountedBytes
    <3>. QED BY <3>2, <3>4, <3>5 DEF EntryOK
  <2>3. /\ store.total = SumOf([i \in DOMAIN store.bundles |-> AccountedBytes(store.bundles[i])])
        /\ store.total <= MaxTotalBytes /\ Len(store.bundles) <= MaxBundleCount
    BY <2>1 DEF StoreOK, Accounts
  <2>. QED BY <2>2, <2>3 DEF QuotaKept
<1>. QED BY <1>1, BundlesCorrect, PTL

(***************************************************************************)
(* The events.log of a stored bundle is the complete ordered index of its  *)
(* transcript and image history, however late its first rows were written. *)
(* Once a write in the bundle failed it may lack rows, but lists nothing   *)
(* that is not there (materialize_events_log, append_image).               *)
(***************************************************************************)
THEOREM IndexCorrect == Spec => []IndexComplete
<1>1. BundlesInv => IndexComplete
  <2>. SUFFICES ASSUME BundlesInv, NEW e \in Entries, store.disk[e.id].hasLog
                PROVE  IF store.disk[e.id].torn THEN PartlyIndexed(store.disk[e.id])
                       ELSE Indexed(store.disk[e.id])
    BY DEF IndexComplete
  <2>1. PICK i \in DOMAIN store.bundles : e = store.bundles[i]
    BY DEF Entries
  <2>2. EntryOK(e, store.disk[e.id])
    BY <2>1 DEF BundlesInv, StoreOK
  <2>. QED BY <2>2 DEF EntryOK
<1>. QED BY <1>1, BundlesCorrect, PTL

(***************************************************************************)
(* With quotas that leave room for two full bundles, as the defaults do    *)
(* (response.rs: 1 GiB of 2 GiB), every bundle a reply names is there, and *)
(* whole, when the reply is returned, and so is the one that later polls   *)
(* append to, whichever operations failed.                                 *)
(***************************************************************************)
THEOREM NamedCorrect ==
  ASSUME Roomy
  PROVE  Spec => []NamedBundleExists
<1>1. BundlesInv => NamedBundleExists
  <2>. SUFFICES ASSUME BundlesInv PROVE NamedBundleExists
    OBVIOUS
  <2>1. active.id # 0 => Whole(store, active.id)
    BY NewestStored DEF BundlesInv, ActiveOK, Tracks, Whole, Intact
  <2>2. NoticesKept(store, reply.notices)
    BY DEF BundlesInv
  <2>. QED BY <2>1, <2>2 DEF NamedBundleExists, NoticesKept
<1>. QED BY <1>1, BundlesCorrect, PTL
=============================================================================
