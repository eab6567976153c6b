--------------------------- MODULE DataToolsProof ----------------------------
(***************************************************************************)
(* Proofs for DataTools: the induction over data and the facts about       *)
(* sequences that the file servers need as well (TextServersProof and      *)
(* DocumentServersProof go on from here), that headers are decoded and     *)
(* that messages are padded, whatever is in them.                          *)
(***************************************************************************)
EXTENDS DataTools, FileText, FiniteSetTheorems, SequenceTheorems,
        WellFoundedInduction, TLAPS

-----------------------------------------------------------------------------
(* Induction and recursion over the places of a sequence.                  *)

\* Of every set of numbers one is the least.
LEMMA Least ==
  ASSUME NEW T, T \subseteq Nat, T # {}
  PROVE  \E n \in T : \A m \in T : n <= m
<1> DEFINE R == OpToRel(<, Nat)
<1>1. IsWellFoundedOn(R, Nat)
  BY NatLessThanWellFounded
<1>2. \A x, y \in Nat : x < y => <<x, y>> \in R
  BY DEF OpToRel
<1> HIDE DEF R
<1>3. PICK n \in T : \A m \in T : ~(<<m, n>> \in R)
  BY <1>1, WFMin
<1>4. \A m \in T : ~(m < n)
  BY <1>2, <1>3
<1> QED BY <1>4

\* What holds at 0 and from each step to the next holds up to n.
LEMMA Induction ==
  ASSUME NEW n \in Nat, NEW S, 0 \in S, \A i \in 0 .. n - 1 : i \in S => i + 1 \in S
  PROVE  \A i \in 0 .. n : i \in S
<1> DEFINE T == {i \in Nat : i <= n /\ i \notin S}
<1>1. SUFFICES ASSUME T # {} PROVE FALSE
  OBVIOUS
<1>2. PICK i \in T : \A m \in T : i <= m
  <2> HIDE DEF T
  <2>1. T \subseteq Nat
    BY DEF T
  <2> QED BY <1>1, <2>1, Least
<1>3. i # 0 /\ i - 1 \in 0 .. n - 1
  BY <1>2
<1>4. i - 1 \in S
  BY <1>2, <1>3
<1> QED BY <1>2, <1>3, <1>4

\* A loop over n turns: f is its state after each, s0 the first, T the turns.
IsScan(f, n, s0, T) == \A i \in 0 .. n : f[i] = IF i = 0 THEN s0 ELSE T[i][f[i - 1]]

\* A recursive function over 0 .. n exists and satisfies its equation: the
\* scans of the servers are such functions.
LEMMA Recursion ==
  ASSUME NEW n \in Nat, NEW S, NEW s0 \in S, NEW T \in [1 .. n -> [S -> S]]
  PROVE  \E f \in [0 .. n -> S] : IsScan(f, n, s0, T)
<1> DEFINE I == {m \in 0 .. n : \E f \in [0 .. m -> S] : IsScan(f, m, s0, T)}
<1>1. 0 \in I
  <2> DEFINE f == [i \in 0 .. 0 |-> s0]
  <2>1. f \in [0 .. 0 -> S] /\ IsScan(f, 0, s0, T)
    BY DEF IsScan
  <2>2. 0 \in 0 .. n
    OBVIOUS
  <2> HIDE DEF f
  <2> QED BY <2>1, <2>2
<1>2. ASSUME NEW m \in 0 .. n - 1, m \in I PROVE m + 1 \in I
  <2>1. PICK f \in [0 .. m -> S] : IsScan(f, m, s0, T)
    BY <1>2
  <2>2. T[m + 1][f[m]] \in S
    <3>1. m + 1 \in 1 .. n /\ m \in 0 .. m
      OBVIOUS
    <3> QED BY <3>1
  <2> DEFINE g == [i \in 0 .. m + 1 |-> IF i <= m THEN f[i] ELSE T[m + 1][f[m]]]
  <2>3. g \in [0 .. m + 1 -> S]
    BY <2>2
  <2>4. ASSUME NEW i \in 0 .. m + 1
        PROVE  g[i] = IF i = 0 THEN s0 ELSE T[i][g[i - 1]]
    <3>1. CASE i <= m
      BY <3>1, <2>1 DEF IsScan
    <3>2. CASE i = m + 1
      BY <3>2
    <3> QED BY <3>1, <3>2
  <2>5. IsScan(g, m + 1, s0, T)
    BY <2>4 DEF IsScan
  <2>6. m + 1 \in 0 .. n
    OBVIOUS
  <2> HIDE DEF g
  <2> QED BY <2>3, <2>5, <2>6
<1> HIDE DEF I
<1>3. \A m \in 0 .. n - 1 : m \in I => m + 1 \in I
  BY <1>2
<1>4. \A m \in 0 .. n : m \in I
  BY <1>1, <1>3, Induction
<1>5. n \in I
  BY <1>4
<1> QED BY <1>5 DEF I

\* What the turns keep holds after each of them.
LEMMA ScanTypes ==
  ASSUME NEW n \in Nat, NEW f, NEW S, f[0] \in S,
         \A i \in 1 .. n : f[i - 1] \in S => f[i] \in S
  PROVE  \A i \in 0 .. n : f[i] \in S
<1> DEFINE I == {i \in 0 .. n : f[i] \in S}
<1>1. 0 \in I
  OBVIOUS
<1>2. ASSUME NEW i \in 0 .. n - 1, i \in I PROVE i + 1 \in I
  <2>1. i + 1 \in 1 .. n /\ i + 1 - 1 = i
    OBVIOUS
  <2> QED BY <1>2, <2>1
<1> HIDE DEF I
<1>3. \A i \in 0 .. n : i \in I
  BY <1>1, <1>2, Induction
<1> QED BY <1>3 DEF I

-----------------------------------------------------------------------------
(* Sets of places in their order.                                          *)

\* The ranks of a finite set of numbers are 1 .. its size, in its order.
LEMMA Ranks ==
  ASSUME NEW P, P \subseteq Int, IsFiniteSet(P)
  PROVE  /\ Cardinality(P) \in Nat
         /\ \A p \in P : Rank(P, p) \in 1 .. Cardinality(P)
         /\ \A p, q \in P : p < q => Rank(P, p) < Rank(P, q)
         /\ \A k \in 1 .. Cardinality(P) : \E p \in P : Rank(P, p) = k
<1> DEFINE Upto(p) == {q \in P : q <= p}
<1>0. Cardinality(P) \in Nat
  BY FS_CardinalityType
<1>1. ASSUME NEW p \in P
      PROVE  IsFiniteSet(Upto(p)) /\ Rank(P, p) \in 1 .. Cardinality(P)
  <2>1. IsFiniteSet(Upto(p)) /\ Cardinality(Upto(p)) <= Cardinality(P)
    <3>1. Upto(p) \in SUBSET P
      OBVIOUS
    <3> HIDE DEF Upto
    <3> QED BY <3>1, FS_Subset
  <2>2. p \in Upto(p)
    OBVIOUS
  <2>3. Cardinality(Upto(p)) \in Nat /\ Cardinality(Upto(p)) # 0
    <3> HIDE DEF Upto
    <3> QED BY <2>1, <2>2, FS_CardinalityType, FS_EmptySet
  <2> HIDE DEF Upto
  <2>4. Rank(P, p) = Cardinality(Upto(p))
    BY DEF Rank, Upto
  <2> QED BY <1>0, <2>1, <2>3, <2>4
<1>2. ASSUME NEW p \in P, NEW q \in P, p < q
      PROVE  Rank(P, p) < Rank(P, q)
  <2>1. Cardinality(Upto(p) \cup {q}) = Cardinality(Upto(p)) + 1
    <3>1. q \notin Upto(p)
      BY <1>2
    <3>2. IsFiniteSet(Upto(p))
      BY <1>1
    <3> HIDE DEF Upto
    <3> QED BY <3>1, <3>2, FS_AddElement
  <2>2. Upto(p) \cup {q} \in SUBSET Upto(q)
    <3>1. \A r \in Upto(p) : r \in P /\ r <= q
      BY <1>2
    <3>2. q \in Upto(q)
      OBVIOUS
    <3> QED BY <3>1, <3>2
  <2>3. IsFiniteSet(Upto(q))
    BY <1>1
  <2> HIDE DEF Upto
  <2>4. Cardinality(Upto(p) \cup {q}) <= Cardinality(Upto(q))
    BY <2>2, <2>3, FS_Subset
  <2>5. Rank(P, p) = Cardinality(Upto(p)) /\ Rank(P, q) = Cardinality(Upto(q))
    BY DEF Rank, Upto
  <2>6. Rank(P, p) \in Int /\ Rank(P, q) \in Int
    BY <1>1
  <2> QED BY <2>1, <2>4, <2>5, <2>6
<1>3. ASSUME NEW k \in 1 .. Cardinality(P) PROVE \E p \in P : Rank(P, p) = k
  <2> DEFINE f == [p \in P |-> Rank(P, p)]
  <2>1. f \in Injection(P, 1 .. Cardinality(P))
    <3>1. f \in [P -> 1 .. Cardinality(P)]
      BY <1>1
    <3>2. ASSUME NEW p \in P, NEW q \in P, f[p] = f[q] PROVE p = q
      <4> HIDE DEF Upto
      <4>1. Rank(P, p) = Rank(P, q) /\ Rank(P, p) \in Int /\ Rank(P, q) \in Int
        BY <1>1, <3>2
      <4>2. ~(p < q)
        BY <1>2, <4>1
      <4>3. ~(q < p)
        BY <1>2, <4>1
      <4> QED BY <4>2, <4>3
    <3> QED BY <3>1, <3>2 DEF Injection, IsInjective
  <2>2. IsFiniteSet(1 .. Cardinality(P)) /\ Cardinality(1 .. Cardinality(P)) = Cardinality(P)
    BY <1>0, FS_Interval
  <2> HIDE DEF f
  <2>3. f \in Surjection(P, 1 .. Cardinality(P))
    BY <2>1, <2>2, FS_Injection
  <2>4. PICK p \in P : f[p] = k
    BY <2>3 DEF Surjection
  <2> QED BY <2>4 DEF f
<1> QED BY <1>0, <1>1, <1>2, <1>3

\* The places of a set in order: every one once, and smaller ones first.
LEMMA Order ==
  ASSUME NEW P, P \subseteq Int, IsFiniteSet(P)
  PROVE  /\ InOrder(P) \in [1 .. Cardinality(P) -> P]
         /\ \A k \in 1 .. Cardinality(P) : Rank(P, InOrder(P)[k]) = k
         /\ \A p \in P : /\ Rank(P, p) \in 1 .. Cardinality(P)
                         /\ InOrder(P)[Rank(P, p)] = p
         /\ \A j, k \in 1 .. Cardinality(P) :
              j < k <=> InOrder(P)[j] < InOrder(P)[k]
<1> DEFINE n == Cardinality(P)
           f == InOrder(P)
<1>1. /\ n \in Nat
      /\ \A p \in P : Rank(P, p) \in 1 .. n
      /\ \A p, q \in P : p < q => Rank(P, p) < Rank(P, q)
      /\ \A k \in 1 .. n : \E p \in P : Rank(P, p) = k
  BY Ranks
<1>2. f = [k \in 1 .. n |-> CHOOSE p \in P : Rank(P, p) = k]
  BY DEF InOrder
<1> HIDE DEF n, f
<1>3. ASSUME NEW k \in 1 .. n PROVE f[k] \in P /\ Rank(P, f[k]) = k
  BY <1>1, <1>2
<1>4. \A p, q \in P : Rank(P, p) = Rank(P, q) => p = q
  BY <1>1
<1>5. \A p \in P : f[Rank(P, p)] = p
  BY <1>1, <1>3, <1>4
<1>6. ASSUME NEW j \in 1 .. n, NEW k \in 1 .. n PROVE j < k <=> f[j] < f[k]
  <2>1. f[j] \in Int /\ f[k] \in Int
    BY <1>3
  <2>2. f[j] < f[k] => j < k
    BY <1>1, <1>3
  <2>3. f[k] < f[j] => k < j
    BY <1>1, <1>3
  <2>4. f[j] = f[k] => j = k
    BY <1>3
  <2> QED BY <2>1, <2>2, <2>3, <2>4
<1> QED BY <1>1, <1>2, <1>3, <1>5, <1>6 DEF n, f

\* Whatever enumerates a set in order is its order.
LEMMA OrderIsUnique ==
  ASSUME NEW P, P \subseteq Int, IsFiniteSet(P), NEW n \in Nat, NEW f \in [1 .. n -> P],
         \A j, k \in 1 .. n : j < k => f[j] < f[k], \A p \in P : \E k \in 1 .. n : f[k] = p
  PROVE  Cardinality(P) = n /\ InOrder(P) = f
<1>1. \A j, k \in 1 .. n : j <= k <=> f[j] <= f[k]
  <2>1. \A j \in 1 .. n : f[j] \in Int
    OBVIOUS
  <2> QED BY <2>1
<1>2. ASSUME NEW k \in 0 .. n
      PROVE  Cardinality({f[j] : j \in 1 .. k}) = k
  <2> DEFINE g == [j \in 1 .. k |-> f[j]]
             T == {f[j] : j \in 1 .. k}
  <2>1. g \in Bijection(1 .. k, T)
    <3>1. g \in [1 .. k -> T] /\ \A t \in T : \E j \in 1 .. k : g[j] = t
      OBVIOUS
    <3>2. \A i, j \in 1 .. k : g[i] = g[j] => i = j
      BY <1>1
    <3> QED BY <3>1, <3>2 DEF Bijection, Injection, Surjection, IsInjective
  <2>2. ExistsBijection(1 .. k, T)
    BY <2>1 DEF ExistsBijection
  <2>3. Cardinality(T) = k
    <3> HIDE DEF T
    <3> QED BY <2>2, FS_CountingElements
  <2> QED BY <2>3
<1>3. P = {f[j] : j \in 1 .. n}
  OBVIOUS
<1>4. Cardinality(P) = n
  <2>1. n \in 0 .. n
    OBVIOUS
  <2> QED BY <1>2, <1>3, <2>1
<1>5. ASSUME NEW k \in 1 .. n PROVE Rank(P, f[k]) = k
  <2>1. {q \in P : q <= f[k]} = {f[j] : j \in 1 .. k}
    BY <1>1, <1>3
  <2> QED BY <1>2, <2>1 DEF Rank
<1>6. /\ InOrder(P) \in [1 .. n -> P]
      /\ \A p \in P : InOrder(P)[Rank(P, p)] = p
  BY <1>4, Order
<1>7. \A k \in 1 .. n : InOrder(P)[k] = f[k]
  BY <1>5, <1>6
<1> QED BY <1>4, <1>6, <1>7

\* A place behind all others comes last.
LEMMA OrderGrows ==
  ASSUME NEW P, P \subseteq Int, IsFiniteSet(P), NEW m \in Int, \A p \in P : p < m
  PROVE  /\ Cardinality(P \cup {m}) = Cardinality(P) + 1
         /\ InOrder(P \cup {m})
              = [k \in 1 .. Cardinality(P) + 1 |->
                   IF k <= Cardinality(P) THEN InOrder(P)[k] ELSE m]
<1> DEFINE n == Cardinality(P)
           f == [k \in 1 .. n + 1 |-> IF k <= n THEN InOrder(P)[k] ELSE m]
<1>1. /\ n \in Nat /\ InOrder(P) \in [1 .. n -> P]
      /\ \A p \in P : \E k \in 1 .. n : InOrder(P)[k] = p
      /\ \A j, k \in 1 .. n : j < k => InOrder(P)[j] < InOrder(P)[k]
  BY Order, FS_CardinalityType
<1>2. IsFiniteSet(P \cup {m}) /\ P \cup {m} \subseteq Int
  BY FS_AddElement
<1> HIDE DEF n
<1>3. f \in [1 .. n + 1 -> P \cup {m}]
  BY <1>1
<1>4. ASSUME NEW j \in 1 .. n + 1, NEW k \in 1 .. n + 1, j < k PROVE f[j] < f[k]
  <2>1. j \in 1 .. n /\ f[j] = InOrder(P)[j] /\ f[j] \in P
    BY <1>1, <1>4
  <2>2. CASE k <= n
    BY <1>1, <1>4, <2>1, <2>2
  <2>3. CASE k = n + 1
    <3>1. f[k] = m
      BY <1>1, <2>3
    <3> QED BY <2>1, <3>1
  <2> QED BY <1>1, <2>2, <2>3
<1>5. ASSUME NEW p \in P \cup {m} PROVE \E k \in 1 .. n + 1 : f[k] = p
  <2>1. CASE p = m
    <3>1. f[n + 1] = m /\ n + 1 \in 1 .. n + 1
      BY <1>1
    <3> QED BY <2>1, <3>1
  <2>2. CASE p \in P
    <3>1. PICK k \in 1 .. n : InOrder(P)[k] = p
      BY <1>1, <2>2
    <3>2. k \in 1 .. n + 1 /\ f[k] = p
      BY <1>1, <3>1
    <3> QED BY <3>2
  <2> QED BY <2>1, <2>2
<1>6. n + 1 \in Nat
  BY <1>1
<1> HIDE DEF f
<1>7. Cardinality(P \cup {m}) = n + 1 /\ InOrder(P \cup {m}) = f
  BY <1>2, <1>3, <1>4, <1>5, <1>6, OrderIsUnique
<1> QED BY <1>7 DEF n, f

\* Nothing is picked at no places.
LEMMA NothingPicked == \A seq : Picked(seq, {}) = <<>>
BY FS_EmptySet DEF Picked

\* What a sequence has at the places of a set, one element for each place.
LEMMA PickedTypes ==
  ASSUME NEW P, P \subseteq Int, IsFiniteSet(P), NEW S, NEW seq, \A p \in P : seq[p] \in S
  PROVE  /\ Picked(seq, P) \in Seq(S) /\ Len(Picked(seq, P)) = Cardinality(P)
         /\ \A k \in 1 .. Cardinality(P) : Picked(seq, P)[k] = seq[InOrder(P)[k]]
<1>1. Cardinality(P) \in Nat /\ InOrder(P) \in [1 .. Cardinality(P) -> P]
  BY Order, FS_CardinalityType
<1>2. Picked(seq, P) \in [1 .. Cardinality(P) -> S]
  BY <1>1 DEF Picked
<1>3. Picked(seq, P) \in Seq(S)
  BY <1>1, <1>2, SeqDef
<1>4. Len(Picked(seq, P)) = Cardinality(P)
  BY <1>1, <1>3 DEF Picked
<1> QED BY <1>3, <1>4 DEF Picked

\* A place behind all others adds its element at the end.
LEMMA PickedGrows ==
  ASSUME NEW P, P \subseteq Int, IsFiniteSet(P), NEW m \in Int, \A p \in P : p < m,
         NEW seq
  PROVE  Picked(seq, P \cup {m}) = Append(Picked(seq, P), seq[m])
<1> DEFINE n == Cardinality(P)
           S == {seq[p] : p \in P \cup {m}}
<1>1. n \in Nat /\ InOrder(P) \in [1 .. n -> P]
  BY Order, FS_CardinalityType
<1>2. /\ Cardinality(P \cup {m}) = n + 1
      /\ InOrder(P \cup {m}) = [k \in 1 .. n + 1 |-> IF k <= n THEN InOrder(P)[k] ELSE m]
  BY OrderGrows
<1>3. Picked(seq, P) \in Seq(S) /\ Len(Picked(seq, P)) = n
  <2>1. \A p \in P : seq[p] \in S
    OBVIOUS
  <2> HIDE DEF S
  <2> QED BY <2>1, PickedTypes
<1>4. Picked(seq, P) = [k \in 1 .. n |-> seq[InOrder(P)[k]]]
  BY DEF Picked
<1>5. Picked(seq, P \cup {m})
        = [k \in 1 .. n + 1 |-> IF k <= n THEN seq[InOrder(P)[k]] ELSE seq[m]]
  <2>1. Picked(seq, P \cup {m}) = [k \in 1 .. n + 1 |-> seq[InOrder(P \cup {m})[k]]]
    BY <1>2 DEF Picked
  <2> HIDE DEF n
  <2> QED BY <1>1, <1>2, <2>1
<1>6. Append(Picked(seq, P), seq[m])
        = [k \in 1 .. n + 1 |-> IF k <= n THEN Picked(seq, P)[k] ELSE seq[m]]
  <2> HIDE DEF n, S
  <2> QED BY <1>1, <1>3
<1>7. \A k \in 1 .. n : Picked(seq, P)[k] = seq[InOrder(P)[k]]
  BY <1>4
<1> HIDE DEF n, S
<1>8. [k \in 1 .. n + 1 |-> IF k <= n THEN Picked(seq, P)[k] ELSE seq[m]]
        = [k \in 1 .. n + 1 |-> IF k <= n THEN seq[InOrder(P)[k]] ELSE seq[m]]
  <2>1. \A k \in 1 .. n + 1 : (IF k <= n THEN Picked(seq, P)[k] ELSE seq[m])
                               = (IF k <= n THEN seq[InOrder(P)[k]] ELSE seq[m])
    BY <1>1, <1>7
  <2> QED BY <2>1
<1> QED BY <1>5, <1>6, <1>8

\* Only the elements at the places matter.
LEMMA PickedAgree ==
  ASSUME NEW P, P \subseteq Int, IsFiniteSet(P), NEW s, NEW t, \A p \in P : s[p] = t[p]
  PROVE  Picked(s, P) = Picked(t, P)
<1>1. InOrder(P) \in [1 .. Cardinality(P) -> P]
  BY Order
<1> QED BY <1>1 DEF Picked

-----------------------------------------------------------------------------
(* Parts of sequences, bounds and reads.                                   *)

\* The first elements of a sequence.
LEMMA PrefixTypes ==
  ASSUME NEW S, NEW s \in Seq(S), NEW i \in 0 .. Len(s)
  PROVE  /\ SubSeq(s, 1, i) \in Seq(S) /\ Len(SubSeq(s, 1, i)) = i
         /\ \A j \in 1 .. i : SubSeq(s, 1, i)[j] = s[j]
<1>1. \A j \in 1 .. i : s[j] \in S
  BY ElementOfSeq
<1>2. i \in Int /\ 1 \in Int
  OBVIOUS
<1>3. /\ SubSeq(s, 1, i) \in Seq(S)
      /\ Len(SubSeq(s, 1, i)) = IF 1 <= i THEN i - 1 + 1 ELSE 0
      /\ \A j \in 1 .. i - 1 + 1 : SubSeq(s, 1, i)[j] = s[1 + j - 1]
  BY <1>1, <1>2, SubSeqProperties
<1>4. \A j \in 1 .. i : 1 + j - 1 = j /\ j \in 1 .. i - 1 + 1
  OBVIOUS
<1> QED BY <1>3, <1>4

\* One more of the first elements is one element appended.
LEMMA PrefixGrows ==
  ASSUME NEW S, NEW s \in Seq(S), NEW i \in 1 .. Len(s)
  PROVE  SubSeq(s, 1, i) = Append(SubSeq(s, 1, i - 1), s[i])
<1>1. i - 1 \in 0 .. Len(s) /\ i \in 0 .. Len(s) /\ s[i] \in S
  OBVIOUS
<1>2. /\ SubSeq(s, 1, i - 1) \in Seq(S) /\ Len(SubSeq(s, 1, i - 1)) = i - 1
      /\ \A j \in 1 .. i - 1 : SubSeq(s, 1, i - 1)[j] = s[j]
  BY <1>1, PrefixTypes
<1>3. /\ SubSeq(s, 1, i) \in Seq(S) /\ Len(SubSeq(s, 1, i)) = i
      /\ \A j \in 1 .. i : SubSeq(s, 1, i)[j] = s[j]
  BY <1>1, PrefixTypes
<1>4. /\ Append(SubSeq(s, 1, i - 1), s[i]) \in Seq(S)
      /\ Len(Append(SubSeq(s, 1, i - 1), s[i])) = i
      /\ \A j \in 1 .. i : Append(SubSeq(s, 1, i - 1), s[i])[j] = s[j]
  BY <1>1, <1>2, AppendProperties
<1> QED BY <1>3, <1>4, SeqEqual

\* A prefix, element by element.
LEMMA PrefixMeans ==
  ASSUME NEW S, NEW s \in Seq(S), NEW t \in Seq(S)
  PROVE  IsPrefix(s, t) <=> Len(s) <= Len(t) /\ \A i \in 1 .. Len(s) : s[i] = t[i]
<1>1. SubSeq(s, 1, Len(s)) = s
  BY SubSeqFull
<1>2. ASSUME Len(s) <= Len(t)
      PROVE  SubSeq(t, 1, Len(s)) = s <=> \A i \in 1 .. Len(s) : s[i] = t[i]
  <2>1. Len(s) \in 0 .. Len(t)
    BY <1>2
  <2>2. /\ SubSeq(t, 1, Len(s)) \in Seq(S) /\ Len(SubSeq(t, 1, Len(s))) = Len(s)
        /\ \A j \in 1 .. Len(s) : SubSeq(t, 1, Len(s))[j] = t[j]
    BY <2>1, PrefixTypes
  <2> QED BY <2>2, SeqEqual
<1> QED BY <1>1, <1>2 DEF IsPrefix

\* A sequence is a prefix of itself and stays one when the other grows.
LEMMA PrefixAppend ==
  ASSUME NEW S, NEW s \in Seq(S), NEW t \in Seq(S), NEW e \in S
  PROVE  /\ IsPrefix(s, s)
         /\ IsPrefix(s, t) => IsPrefix(s, Append(t, e))
<1>1. IsPrefix(s, s)
  BY PrefixMeans
<1>2. ASSUME IsPrefix(s, t) PROVE IsPrefix(s, Append(t, e))
  <2>1. Len(s) <= Len(t) /\ \A i \in 1 .. Len(s) : s[i] = t[i]
    BY <1>2, PrefixMeans
  <2>2. /\ Append(t, e) \in Seq(S) /\ Len(Append(t, e)) = Len(t) + 1
        /\ \A i \in 1 .. Len(t) : Append(t, e)[i] = t[i]
    BY AppendProperties
  <2>3. Len(s) \in Nat /\ Len(t) \in Nat
    OBVIOUS
  <2>4. Len(s) <= Len(Append(t, e)) /\ \A i \in 1 .. Len(s) : s[i] = Append(t, e)[i]
    BY <2>1, <2>2, <2>3
  <2> QED BY <2>2, <2>4, PrefixMeans
<1> QED BY <1>1, <1>2

\* Places of a sequence of a length.
Places(P, n) == n \in Nat /\ P \subseteq 1 .. n

\* Places in a sequence are finitely many.
LEMMA FinitePlaces ==
  ASSUME NEW n, NEW P, Places(P, n)
  PROVE  IsFiniteSet(P) /\ P \subseteq Int /\ Cardinality(P) \in 0 .. n
<1>1. IsFiniteSet(1 .. n) /\ Cardinality(1 .. n) = n
  BY FS_Interval DEF Places
<1>2. P \in SUBSET (1 .. n)
  BY DEF Places
<1>3. IsFiniteSet(P) /\ Cardinality(P) <= n
  BY <1>1, <1>2, FS_Subset
<1>4. Cardinality(P) \in Nat
  BY <1>3, FS_CardinalityType
<1> QED BY <1>3, <1>4 DEF Places

\* The places of a set up to one, and what stands there.
Upto(P, i) == {p \in P : p <= i}

\* The places up to a position are places; up to the end they are all.
LEMMA PlacesUpto ==
  ASSUME NEW n, NEW P, Places(P, n)
  PROVE  /\ Upto(P, 0) = {} /\ Upto(P, n) = P
         /\ \A i : /\ Upto(P, i) \subseteq P /\ Places(Upto(P, i), n)
                   /\ IsFiniteSet(Upto(P, i)) /\ Upto(P, i) \subseteq Int
                   /\ Cardinality(Upto(P, i)) \in 0 .. n
<1>1. Upto(P, 0) = {} /\ Upto(P, n) = P
  <2>1. \A p \in P : p \in Int /\ ~(p <= 0) /\ p <= n
    BY DEF Places
  <2> QED BY <2>1 DEF Upto
<1>2. ASSUME NEW i PROVE Upto(P, i) \subseteq P /\ Places(Upto(P, i), n)
  BY DEF Upto, Places
<1> QED BY <1>1, <1>2, FinitePlaces

\* How the places up to a position, and what is picked there, grow by one.
LEMMA PickedPrefix ==
  ASSUME NEW n, NEW P, Places(P, n), NEW i \in 1 .. n
  PROVE  /\ Upto(P, i) = IF i \in P THEN Upto(P, i - 1) \cup {i} ELSE Upto(P, i - 1)
         /\ Cardinality(Upto(P, i)) = IF i \in P THEN Cardinality(Upto(P, i - 1)) + 1
                                      ELSE Cardinality(Upto(P, i - 1))
         /\ \A seq : Picked(seq, Upto(P, i))
                       = IF i \in P THEN Append(Picked(seq, Upto(P, i - 1)), seq[i])
                         ELSE Picked(seq, Upto(P, i - 1))
<1> DEFINE Before == Upto(P, i - 1)
<1>0. \A p \in P : p \in Int
  BY DEF Places
<1>1. Upto(P, i) = IF i \in P THEN Before \cup {i} ELSE Before
  <2>1. \A p \in P : p <= i <=> p <= i - 1 \/ p = i
    BY <1>0
  <2> QED BY <2>1 DEF Upto
<1>2. \A p \in Before : p < i
  <2> SUFFICES ASSUME NEW p \in Before PROVE p < i
    OBVIOUS
  <2>1. p \in P /\ p <= i - 1 /\ p \in Int
    BY <1>0 DEF Upto
  <2> QED BY <2>1
<1>3. IsFiniteSet(Before) /\ Before \subseteq Int
  BY PlacesUpto
<1>4. CASE i \in P
  <2>1. Upto(P, i) = Before \cup {i} /\ i \in Int
    BY <1>1, <1>4
  <2> HIDE DEF Before
  <2>2. Cardinality(Before \cup {i}) = Cardinality(Before) + 1
    BY <1>2, <1>3, <2>1, OrderGrows
  <2>3. \A seq : Picked(seq, Before \cup {i}) = Append(Picked(seq, Before), seq[i])
    BY <1>2, <1>3, <2>1, PickedGrows
  <2> QED BY <1>1, <1>4, <2>1, <2>2, <2>3 DEF Before
<1>5. CASE i \notin P
  BY <1>1, <1>5
<1> QED BY <1>4, <1>5

\* The smaller of two numbers.
LEMMA MinOfTwo ==
  ASSUME NEW a \in Int, NEW b \in Int
  PROVE  Min({a, b}) = IF a <= b THEN a ELSE b
<1>1. \E x \in {a, b} : \A y \in {a, b} : x <= y
  OBVIOUS
<1>2. Min({a, b}) \in {a, b} /\ \A y \in {a, b} : Min({a, b}) <= y
  BY <1>1 DEF Min
<1> QED BY <1>2

\* clamp stays within its bounds.
LEMMA Clamped ==
  ASSUME NEW n \in Int, NEW low \in Int, NEW high \in Int, low <= high
  PROVE  clamp(n, low, high) \in low .. high
BY DEF clamp

\* What a bounded read returns: a prefix of the file, flagged when it is a
\* proper one, or the reason why there is none (ReadBounded).
LEMMA BoundedRead ==
  ASSUME NEW S, NEW f, f.kind \in FileKinds, f.bytes \in Seq(S),
         NEW max_bytes \in Int, NEW largest \in Nat, largest > 0
  PROVE  LET read == ReadBounded(f, max_bytes, largest) IN
         /\ read.error \in (FileKinds \ {"file"}) \cup {""}
         /\ read.error = "" <=> f.kind = "file"
         /\ read.error = "" =>
              \E n \in 0 .. Len(f.bytes) : /\ read.text = SubSeq(f.bytes, 1, n)
                                           /\ read.truncated <=> n < Len(f.bytes)
         /\ read.error # "" => read.text = <<>> /\ ~read.truncated
<1> DEFINE limit == clamp(max_bytes, 1, largest)
           n == Min({limit, Len(f.bytes)})
           read == ReadBounded(f, max_bytes, largest)
<1>1. limit \in 1 .. largest
  BY Clamped
<1>2. Len(f.bytes) \in Nat
  OBVIOUS
<1> HIDE DEF limit
<1>3. n = IF limit <= Len(f.bytes) THEN limit ELSE Len(f.bytes)
  BY <1>1, <1>2, MinOfTwo
<1>4. n \in 0 .. Len(f.bytes)
  BY <1>1, <1>2, <1>3
<1>5. read = IF f.kind # "file"
             THEN [error |-> f.kind, text |-> <<>>, truncated |-> FALSE]
             ELSE [error |-> "", text |-> SubSeq(f.bytes, 1, n),
                   truncated |-> Len(f.bytes) > n]
  BY DEF ReadBounded, limit
<1> HIDE DEF n, read
<1>6. CASE f.kind # "file"
  <2>1. read.error = f.kind /\ read.text = <<>> /\ ~read.truncated
    BY <1>5, <1>6
  <2> QED BY <1>6, <2>1 DEF FileKinds, read
<1>7. CASE f.kind = "file"
  <2>1. /\ read.error = "" /\ read.text = SubSeq(f.bytes, 1, n)
        /\ read.truncated <=> n < Len(f.bytes)
    BY <1>2, <1>4, <1>5, <1>7
  <2> QED BY <1>4, <1>7, <2>1 DEF read
<1> QED BY <1>6, <1>7

\* The first elements of a sequence, at most so many.
Firsts(t, most) == SubSeq(t, 1, IF most <= Len(t) THEN most ELSE Len(t))

\* The first elements of a sequence up to a limit grow until they reach it.
LEMMA FirstsGrow ==
  ASSUME NEW S, NEW t \in Seq(S), NEW most \in Nat, NEW e \in S
  PROVE  /\ Firsts(t, most) \in Seq(S) /\ Len(Firsts(t, most)) <= most
         /\ Firsts(Append(t, e), most)
              = IF Len(Firsts(t, most)) < most THEN Append(Firsts(t, most), e)
                ELSE Firsts(t, most)
<1> DEFINE u == Append(t, e)
           n == Len(t)
<1>1. n \in Nat /\ u \in Seq(S) /\ Len(u) = n + 1 /\ u[n + 1] = e
      /\ \A i \in 1 .. n : u[i] = t[i]
  OBVIOUS
<1> HIDE DEF u, n
<1>2. CASE most <= n
  <2>1. Firsts(t, most) = SubSeq(t, 1, most) /\ Firsts(u, most) = SubSeq(u, 1, most)
    BY <1>1, <1>2 DEF Firsts, n
  <2>2. most \in 0 .. Len(t) /\ most \in 0 .. Len(u)
    BY <1>1, <1>2 DEF n
  <2>3. /\ SubSeq(t, 1, most) \in Seq(S) /\ Len(SubSeq(t, 1, most)) = most
        /\ \A j \in 1 .. most : SubSeq(t, 1, most)[j] = t[j]
    BY <2>2, PrefixTypes
  <2>4. /\ SubSeq(u, 1, most) \in Seq(S) /\ Len(SubSeq(u, 1, most)) = most
        /\ \A j \in 1 .. most : SubSeq(u, 1, most)[j] = u[j]
    BY <1>1, <2>2, PrefixTypes
  <2>5. \A j \in 1 .. most : SubSeq(u, 1, most)[j] = SubSeq(t, 1, most)[j]
    BY <1>1, <1>2, <2>3, <2>4
  <2>6. SubSeq(u, 1, most) = SubSeq(t, 1, most)
    BY <2>3, <2>4, <2>5, SeqEqual
  <2>7. /\ Firsts(t, most) \in Seq(S) /\ Len(Firsts(t, most)) = most
        /\ Firsts(u, most) = Firsts(t, most)
    BY <2>1, <2>3, <2>6
  <2>8. ~(Len(Firsts(t, most)) < most) /\ Len(Firsts(t, most)) <= most
    BY <2>7
  <2> QED BY <2>7, <2>8 DEF u
<1>3. CASE n < most
  <2>1. SubSeq(t, 1, n) = t /\ SubSeq(u, 1, n + 1) = u
    BY <1>1, SubSeqFull DEF n
  <2>2. Firsts(t, most) = t
    <3>1. most # n /\ ~(most <= n)
      BY <1>1, <1>3
    <3> QED BY <2>1, <3>1 DEF Firsts, n
  <2>3. Firsts(u, most) = u
    <3>1. most <= n + 1 => most = n + 1
      BY <1>1, <1>3
    <3> QED BY <1>1, <2>1, <3>1 DEF Firsts
  <2> QED BY <1>1, <1>3, <2>2, <2>3 DEF u, n
<1> QED BY <1>1, <1>2, <1>3

\* An empty sequence has no first elements.
LEMMA NoFirsts == ASSUME NEW most \in Nat PROVE Firsts(<<>>, most) = <<>>
<1>1. Len(<<>>) = 0
  OBVIOUS
<1>2. (IF most <= 0 THEN most ELSE 0) = 0
  OBVIOUS
<1>3. SubSeq(<<>>, 1, 0) = <<>>
  BY SubSeqEmpty
<1> QED BY <1>1, <1>2, <1>3 DEF Firsts

\* A slice of a sequence, element by element, and one element more.
LEMMA SliceGrows ==
  ASSUME NEW S, NEW s \in Seq(S), NEW a \in 0 .. Len(s), NEW b \in a .. Len(s)
  PROVE  /\ SubSeq(s, a + 1, b) \in Seq(S) /\ Len(SubSeq(s, a + 1, b)) = b - a
         /\ \A i \in 1 .. b - a : SubSeq(s, a + 1, b)[i] = s[a + i]
         /\ SubSeq(s, a + 1, a) = <<>>
         /\ b > a => SubSeq(s, a + 1, b) = Append(SubSeq(s, a + 1, b - 1), s[b])
<1> DEFINE n == Len(s)
<1>1. n \in Nat /\ a \in Nat /\ b \in Nat /\ a <= b /\ b <= n
  OBVIOUS
<1>2. ASSUME NEW c \in a .. n
      PROVE  /\ SubSeq(s, a + 1, c) \in Seq(S) /\ Len(SubSeq(s, a + 1, c)) = c - a
             /\ \A i \in 1 .. c - a : SubSeq(s, a + 1, c)[i] = s[a + i]
  <2>1. \A j \in a + 1 .. c : s[j] \in S
    BY <1>1
  <2>2. a + 1 \in Int /\ c \in Int
    BY <1>1
  <2> HIDE DEF n
  <2>3. /\ SubSeq(s, a + 1, c) \in Seq(S)
        /\ Len(SubSeq(s, a + 1, c)) = IF a + 1 <= c THEN c - (a + 1) + 1 ELSE 0
        /\ \A j \in 1 .. c - (a + 1) + 1 : SubSeq(s, a + 1, c)[j] = s[a + 1 + j - 1]
    BY <2>1, <2>2, SubSeqProperties
  <2>4. (IF a + 1 <= c THEN c - (a + 1) + 1 ELSE 0) = c - a
    BY <1>1
  <2>5. \A j \in 1 .. c - a : j \in 1 .. c - (a + 1) + 1 /\ a + 1 + j - 1 = a + j
    BY <1>1
  <2> QED BY <2>3, <2>4, <2>5
<1>3. SubSeq(s, a + 1, a) = <<>>
  <2>1. a \in a .. n /\ a - a = 0
    BY <1>1
  <2>2. SubSeq(s, a + 1, a) \in Seq(S) /\ Len(SubSeq(s, a + 1, a)) = 0
    BY <1>2, <2>1
  <2> QED BY <2>2, EmptySeq
<1>4. ASSUME b > a PROVE SubSeq(s, a + 1, b) = Append(SubSeq(s, a + 1, b - 1), s[b])
  <2> DEFINE t == SubSeq(s, a + 1, b - 1)
             u == SubSeq(s, a + 1, b)
  <2>1. b - 1 \in a .. n /\ b \in a .. n /\ b - 1 - a = b - a - 1 /\ b - a \in Nat /\ s[b] \in S
        /\ b - a - 1 \in Nat /\ a + (b - a) = b /\ b - a - 1 + 1 = b - a
    BY <1>1, <1>4
  <2> DEFINE m == b - a - 1
  <2>2. /\ t \in Seq(S) /\ Len(t) = m
        /\ \A i \in 1 .. m : t[i] = s[a + i]
    BY <1>2, <2>1
  <2>3. /\ u \in Seq(S) /\ Len(u) = b - a
        /\ \A i \in 1 .. b - a : u[i] = s[a + i]
    BY <1>2, <2>1
  <2> HIDE DEF t, u, m
  <2>4. /\ Append(t, s[b]) \in Seq(S) /\ Len(Append(t, s[b])) = m + 1
        /\ \A i \in 1 .. m : Append(t, s[b])[i] = t[i]
        /\ Append(t, s[b])[m + 1] = s[b]
    BY <2>1, <2>2, AppendProperties
  <2>5. m + 1 = b - a /\ m \in Nat
    BY <2>1 DEF m
  <2>6. \A i \in 1 .. b - a : i \in 1 .. m \/ i = m + 1
    BY <2>5
  <2>7. ASSUME NEW i \in 1 .. b - a PROVE Append(t, s[b])[i] = u[i]
    <3>1. u[i] = s[a + i]
      BY <2>3
    <3>2. CASE i \in 1 .. m
      BY <2>2, <2>4, <3>1, <3>2
    <3>3. CASE i = m + 1
      <4>1. a + i = b
        BY <1>1, <2>1, <2>5, <3>3
      <4> QED BY <2>4, <3>1, <3>3, <4>1
    <3> QED BY <2>6, <3>2, <3>3
  <2>8. u = Append(t, s[b])
    BY <2>3, <2>4, <2>5, <2>7, SeqEqual
  <2> QED BY <2>8 DEF t, u
<1>5. b \in a .. n
  BY <1>1
<1> QED BY <1>2, <1>3, <1>4, <1>5

-----------------------------------------------------------------------------
(* The decoding of a header.                                               *)

\* What the bits of a byte are worth.
LEMMA Bits ==
  ASSUME NEW x \in 0 .. 255
  PROVE  /\ \A i \in 0 .. 7 : HEADER!Bit(x, i) \in 0 .. 1
         /\ 32 * HEADER!Bit(x, 7) + 16 * HEADER!Bit(x, 6) + 8 * HEADER!Bit(x, 5)
              + 4 * HEADER!Bit(x, 4) + 2 * HEADER!Bit(x, 3) + HEADER!Bit(x, 2) = x \div 4
         /\ 8 * HEADER!Bit(x, 7) + 4 * HEADER!Bit(x, 6) + 2 * HEADER!Bit(x, 5)
              + HEADER!Bit(x, 4) = x \div 16
         /\ 2 * HEADER!Bit(x, 7) + HEADER!Bit(x, 6) = x \div 64
         /\ 2 * HEADER!Bit(x, 1) + HEADER!Bit(x, 0) = x % 4
         /\ 8 * HEADER!Bit(x, 3) + 4 * HEADER!Bit(x, 2) + 2 * HEADER!Bit(x, 1)
              + HEADER!Bit(x, 0) = x % 16
         /\ 32 * HEADER!Bit(x, 5) + 16 * HEADER!Bit(x, 4) + 8 * HEADER!Bit(x, 3)
              + 4 * HEADER!Bit(x, 2) + 2 * HEADER!Bit(x, 1) + HEADER!Bit(x, 0) = x % 64
<1> DEFINE b(i) == HEADER!Bit(x, i)
<1>1. /\ b(0) = (x \div 1) % 2 /\ b(1) = (x \div 2) % 2 /\ b(2) = (x \div 4) % 2
      /\ b(3) = (x \div 8) % 2 /\ b(4) = (x \div 16) % 2 /\ b(5) = (x \div 32) % 2
      /\ b(6) = (x \div 64) % 2 /\ b(7) = (x \div 128) % 2
  BY DEF HEADER!Bit, HEADER!Powers
<1> HIDE DEF b
<1>2. /\ b(0) = x % 2 /\ x \div 1 = x
      /\ x = 2 * (x \div 2) + b(0) /\ x \div 2 = 2 * (x \div 4) + b(1)
      /\ x \div 4 = 2 * (x \div 8) + b(2) /\ x \div 8 = 2 * (x \div 16) + b(3)
      /\ x \div 16 = 2 * (x \div 32) + b(4) /\ x \div 32 = 2 * (x \div 64) + b(5)
      /\ x \div 64 = 2 * (x \div 128) + b(6) /\ x \div 128 = b(7)
      /\ x % 4 = x - 4 * (x \div 4) /\ x % 16 = x - 16 * (x \div 16)
      /\ x % 64 = x - 64 * (x \div 64)
  BY <1>1
<1>3. /\ b(0) \in 0 .. 1 /\ b(1) \in 0 .. 1 /\ b(2) \in 0 .. 1 /\ b(3) \in 0 .. 1
      /\ b(4) \in 0 .. 1 /\ b(5) \in 0 .. 1 /\ b(6) \in 0 .. 1 /\ b(7) \in 0 .. 1
  BY <1>1
<1>4. \A i \in 0 .. 7 : i = 0 \/ i = 1 \/ i = 2 \/ i = 3 \/ i = 4 \/ i = 5 \/ i = 6 \/ i = 7
  OBVIOUS
<1>5. \A i \in 0 .. 7 : b(i) \in 0 .. 1
  BY <1>3, <1>4
<1> DEFINE x1 == x \div 2
           x2 == x \div 4
           x3 == x \div 8
           x4 == x \div 16
           x5 == x \div 32
           x6 == x \div 64
           x7 == x \div 128
           r2 == x % 4
           r4 == x % 16
           r6 == x % 64
<1>6. /\ x1 \in Int /\ x2 \in Int /\ x3 \in Int /\ x4 \in Int /\ x5 \in Int /\ x6 \in Int
      /\ x7 \in Int /\ r2 \in Int /\ r4 \in Int /\ r6 \in Int
  OBVIOUS
<1>7. /\ x = 2 * x1 + b(0) /\ x1 = 2 * x2 + b(1) /\ x2 = 2 * x3 + b(2) /\ x3 = 2 * x4 + b(3)
      /\ x4 = 2 * x5 + b(4) /\ x5 = 2 * x6 + b(5) /\ x6 = 2 * x7 + b(6) /\ x7 = b(7)
      /\ r2 = x - 4 * x2 /\ r4 = x - 16 * x4 /\ r6 = x - 64 * x6
  BY <1>2
<1> HIDE DEF x1, x2, x3, x4, x5, x6, x7, r2, r4, r6
<1>8. /\ b(0) \in Int /\ b(1) \in Int /\ b(2) \in Int /\ b(3) \in Int
      /\ b(4) \in Int /\ b(5) \in Int /\ b(6) \in Int /\ b(7) \in Int
  BY <1>3
<1>9. /\ x6 = 2 * b(7) + b(6) /\ x5 = 4 * b(7) + 2 * b(6) + b(5)
      /\ x4 = 8 * b(7) + 4 * b(6) + 2 * b(5) + b(4)
  BY <1>6, <1>7, <1>8
<1>10. /\ x2 = 32 * b(7) + 16 * b(6) + 8 * b(5) + 4 * b(4) + 2 * b(3) + b(2)
  BY <1>6, <1>7, <1>8, <1>9
<1>11. /\ r2 = 2 * b(1) + b(0) /\ r4 = 8 * b(3) + 4 * b(2) + 2 * b(1) + b(0)
       /\ r6 = 32 * b(5) + 16 * b(4) + 8 * b(3) + 4 * b(2) + 2 * b(1) + b(0)
  <2>1. x = 4 * x2 + 2 * b(1) + b(0)
    BY <1>6, <1>7, <1>8
  <2>2. x2 = 4 * x4 + 2 * b(3) + b(2)
    BY <1>6, <1>7, <1>8
  <2>3. x4 = 4 * x6 + 2 * b(5) + b(4)
    BY <1>6, <1>7, <1>8
  <2>4. r2 = 2 * b(1) + b(0)
    BY <1>6, <1>7, <1>8, <2>1
  <2>5. x = 16 * x4 + (8 * b(3) + 4 * b(2) + 2 * b(1) + b(0))
    BY <1>6, <1>8, <2>1, <2>2
  <2>6. r4 = 8 * b(3) + 4 * b(2) + 2 * b(1) + b(0)
    BY <1>6, <1>7, <1>8, <2>5
  <2>7. x = 64 * x6 + (32 * b(5) + 16 * b(4) + 8 * b(3) + 4 * b(2) + 2 * b(1) + b(0))
    BY <1>6, <1>8, <2>3, <2>5
  <2>8. r6 = 32 * b(5) + 16 * b(4) + 8 * b(3) + 4 * b(2) + 2 * b(1) + b(0)
    BY <1>6, <1>7, <1>8, <2>7
  <2> QED BY <2>4, <2>6, <2>8
<1> QED BY <1>5, <1>9, <1>10, <1>11 DEF b, x2, x4, x6, r2, r4, r6

\* The byte at a place of a text, and zero behind its end.
ByteAt(text, p) == IF p > Len(text) THEN 0 ELSE text[p]

\* A byte of a text, or zero behind its end.
LEMMA BytesAt ==
  ASSUME NEW text \in Seq(0 .. 255), NEW p \in Nat \ {0}
  PROVE  ByteAt(text, p) \in 0 .. 255
<1>1. Len(text) \in Nat /\ \A i \in 1 .. Len(text) : text[i] \in 0 .. 255
  <2> DEFINE S == 0 .. 255
  <2>1. text \in Seq(S)
    OBVIOUS
  <2> HIDE DEF S
  <2>2. Len(text) \in Nat /\ \A i \in 1 .. Len(text) : text[i] \in S
    BY <2>1
  <2> QED BY <2>2 DEF S
<1>2. p > Len(text) \/ p \in 1 .. Len(text)
  BY <1>1
<1> QED BY <1>1, <1>2 DEF ByteAt

\* A bit of three bytes is one of one of them.
LEMMA BitsAt ==
  ASSUME NEW text \in Seq(0 .. 255), NEW q \in Nat, NEW r \in 0 .. 23
  PROVE  HEADER!BitOf(text, 24 * q + r) = HEADER!Bit(ByteAt(text, 3 * q + (r \div 8) + 1), 7 - (r % 8))
<1> DEFINE k == 24 * q + r
<1>1. k \div 8 = 3 * q + (r \div 8) /\ k % 8 = r % 8 /\ r \div 8 \in 0 .. 2 /\ r % 8 \in 0 .. 7
      /\ k \in Nat
  OBVIOUS
<1> DEFINE p == 3 * q + (r \div 8) + 1
           i == 7 - (r % 8)
<1>2. k \div 8 + 1 = p /\ 7 - (k % 8) = i /\ i \in 0 .. 7 /\ p \in Nat \ {0}
      /\ (k >= 8 * Len(text) <=> p > Len(text))
  BY <1>1
<1> HIDE DEF k, p, i
<1>3. CASE p > Len(text)
  <2>1. HEADER!BitOf(text, k) = 0
    BY <1>2, <1>3 DEF HEADER!BitOf
  <2>2. ByteAt(text, p) = 0
    BY <1>3 DEF ByteAt
  <2>3. HEADER!Bit(0, i) = 0
    <3>1. \A j \in 1 .. 8 : HEADER!Powers[j] \in Nat \ {0}
      <4>1. \A j \in 1 .. 8 : j = 1 \/ j = 2 \/ j = 3 \/ j = 4 \/ j = 5 \/ j = 6 \/ j = 7 \/ j = 8
        OBVIOUS
      <4> QED BY <4>1 DEF HEADER!Powers
    <3>2. i + 1 \in 1 .. 8
      BY <1>2
    <3> DEFINE w == HEADER!Powers[i + 1]
    <3>3. w \in Nat \ {0}
      BY <3>1, <3>2
    <3> HIDE DEF w
    <3>4. (0 \div w) % 2 = 0
      <4>1. 0 \div w = 0
        BY <3>3, Z3
      <4> QED BY <4>1
    <3> QED BY <3>4 DEF HEADER!Bit, w
  <2> QED BY <2>1, <2>2, <2>3 DEF k, p, i
<1>4. CASE ~(p > Len(text))
  <2>1. ~(k >= 8 * Len(text))
    BY <1>2, <1>4
  <2>2. HEADER!BitOf(text, k) = HEADER!Bit(text[p], i)
    BY <1>2, <2>1 DEF HEADER!BitOf
  <2>3. ByteAt(text, p) = text[p]
    BY <1>4 DEF ByteAt
  <2> QED BY <2>2, <2>3 DEF k, p, i
<1> QED BY <1>3, <1>4

\* The four characters that three bytes are written in.
LEMMA CharactersOf ==
  ASSUME NEW text \in Seq(0 .. 255), NEW q \in Nat,
         NEW x1, NEW x2, NEW x3,
         x1 = ByteAt(text, 3 * q + 1), x2 = ByteAt(text, 3 * q + 2), x3 = ByteAt(text, 3 * q + 3)
  PROVE  /\ x1 \in 0 .. 255 /\ x2 \in 0 .. 255 /\ x3 \in 0 .. 255
         /\ HEADER!CharacterOf(text, 4 * q + 1) = IF 3 * q >= Len(text) THEN 64 ELSE x1 \div 4
         /\ HEADER!CharacterOf(text, 4 * q + 2) =
              IF 3 * q >= Len(text) THEN 64 ELSE 16 * (x1 % 4) + (x2 \div 16)
         /\ HEADER!CharacterOf(text, 4 * q + 3) =
              IF 3 * q + 1 >= Len(text) THEN 64 ELSE 4 * (x2 % 16) + (x3 \div 64)
         /\ HEADER!CharacterOf(text, 4 * q + 4) = IF 3 * q + 2 >= Len(text) THEN 64 ELSE x3 % 64
<1>1. x1 \in 0 .. 255 /\ x2 \in 0 .. 255 /\ x3 \in 0 .. 255
  <2>1. 3 * q + 1 \in Nat \ {0} /\ 3 * q + 2 \in Nat \ {0} /\ 3 * q + 3 \in Nat \ {0}
    OBVIOUS
  <2> QED BY <2>1, BytesAt
<1> DEFINE B(k) == HEADER!BitOf(text, k)
<1>2. /\ B(24 * q + 0) = HEADER!Bit(x1, 7) /\ B(24 * q + 1) = HEADER!Bit(x1, 6)
      /\ B(24 * q + 2) = HEADER!Bit(x1, 5) /\ B(24 * q + 3) = HEADER!Bit(x1, 4)
      /\ B(24 * q + 4) = HEADER!Bit(x1, 3) /\ B(24 * q + 5) = HEADER!Bit(x1, 2)
      /\ B(24 * q + 6) = HEADER!Bit(x1, 1) /\ B(24 * q + 7) = HEADER!Bit(x1, 0)
      /\ B(24 * q + 8) = HEADER!Bit(x2, 7) /\ B(24 * q + 9) = HEADER!Bit(x2, 6)
      /\ B(24 * q + 10) = HEADER!Bit(x2, 5) /\ B(24 * q + 11) = HEADER!Bit(x2, 4)
      /\ B(24 * q + 12) = HEADER!Bit(x2, 3) /\ B(24 * q + 13) = HEADER!Bit(x2, 2)
      /\ B(24 * q + 14) = HEADER!Bit(x2, 1) /\ B(24 * q + 15) = HEADER!Bit(x2, 0)
      /\ B(24 * q + 16) = HEADER!Bit(x3, 7) /\ B(24 * q + 17) = HEADER!Bit(x3, 6)
      /\ B(24 * q + 18) = HEADER!Bit(x3, 5) /\ B(24 * q + 19) = HEADER!Bit(x3, 4)
      /\ B(24 * q + 20) = HEADER!Bit(x3, 3) /\ B(24 * q + 21) = HEADER!Bit(x3, 2)
      /\ B(24 * q + 22) = HEADER!Bit(x3, 1) /\ B(24 * q + 23) = HEADER!Bit(x3, 0)
  <2> DEFINE at(r) == HEADER!Bit(ByteAt(text, 3 * q + (r \div 8) + 1), 7 - (r % 8))
  <2>1. \A r \in 0 .. 23 : B(24 * q + r) = at(r)
    BY BitsAt
  <2>2. \A r \in 0 .. 7 : r \div 8 = 0 /\ r % 8 = r
    OBVIOUS
  <2>3. \A r \in 8 .. 15 : r \div 8 = 1 /\ r % 8 = r - 8
    OBVIOUS
  <2>4. \A r \in 16 .. 23 : r \div 8 = 2 /\ r % 8 = r - 16
    OBVIOUS
  <2>5. 3 * q + 0 + 1 = 3 * q + 1 /\ 3 * q + 1 + 1 = 3 * q + 2 /\ 3 * q + 2 + 1 = 3 * q + 3
    OBVIOUS
  <2>6. \A r \in 0 .. 7 : at(r) = HEADER!Bit(x1, 7 - r)
    BY <2>2, <2>5
  <2>7. \A r \in 8 .. 15 : at(r) = HEADER!Bit(x2, 7 - (r - 8))
    BY <2>3, <2>5
  <2>8. \A r \in 16 .. 23 : at(r) = HEADER!Bit(x3, 7 - (r - 16))
    BY <2>4, <2>5
  <2> HIDE DEF at, B
  <2>9. /\ \A r \in 0 .. 7 : B(24 * q + r) = HEADER!Bit(x1, 7 - r)
        /\ \A r \in 8 .. 15 : B(24 * q + r) = HEADER!Bit(x2, 7 - (r - 8))
        /\ \A r \in 16 .. 23 : B(24 * q + r) = HEADER!Bit(x3, 7 - (r - 16))
    BY <2>1, <2>6, <2>7, <2>8
  <2> QED BY <2>9
<1> HIDE DEF B
<1> DEFINE C(i) == HEADER!CharacterOf(text, i)
           W(k) == 32 * B(k) + 16 * B(k + 1) + 8 * B(k + 2) + 4 * B(k + 3) + 2 * B(k + 4) + B(k + 5)
<1>3. ASSUME NEW m \in 1 .. 4
      PROVE  C(4 * q + m) = IF 24 * q + 6 * (m - 1) >= 8 * Len(text) THEN 64 ELSE W(24 * q + 6 * (m - 1))
  <2>1. 6 * (4 * q + m - 1) = 24 * q + 6 * (m - 1) /\ 24 * q + 6 * (m - 1) + 0 = 24 * q + 6 * (m - 1)
    OBVIOUS
  <2> DEFINE k == 24 * q + 6 * (m - 1)
             a == 6 * (4 * q + m - 1)
  <2>0. C(4 * q + m) = IF a >= 8 * Len(text) THEN 64
                       ELSE 32 * B(a + 0) + 16 * B(a + 1) + 8 * B(a + 2) + 4 * B(a + 3) + 2 * B(a + 4) + B(a + 5)
    <3> DEFINE i == 4 * q + m
    <3>1. a = 6 * (i - 1)
      OBVIOUS
    <3>2. HEADER!CharacterOf(text, i) =
            IF 6 * (i - 1) >= 8 * Len(text) THEN HEADER!Padding
            ELSE 32 * HEADER!BitOf(text, 6 * (i - 1) + 0) + 16 * HEADER!BitOf(text, 6 * (i - 1) + 1)
                 + 8 * HEADER!BitOf(text, 6 * (i - 1) + 2) + 4 * HEADER!BitOf(text, 6 * (i - 1) + 3)
                 + 2 * HEADER!BitOf(text, 6 * (i - 1) + 4) + HEADER!BitOf(text, 6 * (i - 1) + 5)
      <4> HIDE DEF i
      <4> QED BY DEF HEADER!CharacterOf
    <3>3. HEADER!Padding = 64
      BY DEF HEADER!Padding
    <3> HIDE DEF a
    <3>4. C(i) = IF a >= 8 * Len(text) THEN 64
                 ELSE 32 * B(a + 0) + 16 * B(a + 1) + 8 * B(a + 2) + 4 * B(a + 3) + 2 * B(a + 4) + B(a + 5)
      <4> HIDE DEF i
      <4> QED BY <3>1, <3>2, <3>3, Zenon DEF B
    <3> QED BY <3>4
  <2>2. a = k
    BY <2>1
  <2> HIDE DEF a
  <2>3. k + 0 = k
    OBVIOUS
  <2> HIDE DEF k, C
  <2>4. C(4 * q + m) = IF k >= 8 * Len(text) THEN 64 ELSE W(k)
    BY <2>0, <2>2, <2>3
  <2> QED BY <2>4 DEF k
<1>4. /\ W(24 * q) = x1 \div 4 /\ W(24 * q + 6) = 16 * (x1 % 4) + (x2 \div 16)
      /\ W(24 * q + 12) = 4 * (x2 % 16) + (x3 \div 64) /\ W(24 * q + 18) = x3 % 64
  <2> DEFINE b(x, i) == HEADER!Bit(x, i)
  <2>1. /\ 32 * b(x1, 7) + 16 * b(x1, 6) + 8 * b(x1, 5) + 4 * b(x1, 4) + 2 * b(x1, 3) + b(x1, 2) = x1 \div 4
        /\ 2 * b(x1, 1) + b(x1, 0) = x1 % 4
        /\ 8 * b(x2, 7) + 4 * b(x2, 6) + 2 * b(x2, 5) + b(x2, 4) = x2 \div 16
        /\ 8 * b(x2, 3) + 4 * b(x2, 2) + 2 * b(x2, 1) + b(x2, 0) = x2 % 16
        /\ 2 * b(x3, 7) + b(x3, 6) = x3 \div 64
        /\ 32 * b(x3, 5) + 16 * b(x3, 4) + 8 * b(x3, 3) + 4 * b(x3, 2) + 2 * b(x3, 1) + b(x3, 0) = x3 % 64
    BY <1>1, Bits
  <2>2. \A i \in 0 .. 7 : b(x1, i) \in Int /\ b(x2, i) \in Int /\ b(x3, i) \in Int
    <3>1. \A i \in 0 .. 7 : HEADER!Bit(x1, i) \in 0 .. 1
      BY <1>1, Bits
    <3>2. \A i \in 0 .. 7 : HEADER!Bit(x2, i) \in 0 .. 1
      BY <1>1, Bits
    <3>3. \A i \in 0 .. 7 : HEADER!Bit(x3, i) \in 0 .. 1
      BY <1>1, Bits
    <3> QED BY <3>1, <3>2, <3>3
  <2>3. /\ b(x1, 7) \in Int /\ b(x1, 6) \in Int /\ b(x1, 5) \in Int /\ b(x1, 4) \in Int
        /\ b(x1, 3) \in Int /\ b(x1, 2) \in Int /\ b(x1, 1) \in Int /\ b(x1, 0) \in Int
        /\ b(x2, 7) \in Int /\ b(x2, 6) \in Int /\ b(x2, 5) \in Int /\ b(x2, 4) \in Int
        /\ b(x2, 3) \in Int /\ b(x2, 2) \in Int /\ b(x2, 1) \in Int /\ b(x2, 0) \in Int
        /\ b(x3, 7) \in Int /\ b(x3, 6) \in Int /\ b(x3, 5) \in Int /\ b(x3, 4) \in Int
        /\ b(x3, 3) \in Int /\ b(x3, 2) \in Int /\ b(x3, 1) \in Int /\ b(x3, 0) \in Int
    BY <2>2
  <2> HIDE DEF b
  <2>4. /\ W(24 * q) = 32 * b(x1, 7) + 16 * b(x1, 6) + 8 * b(x1, 5) + 4 * b(x1, 4) + 2 * b(x1, 3) + b(x1, 2)
        /\ W(24 * q + 6) = 32 * b(x1, 1) + 16 * b(x1, 0) + 8 * b(x2, 7) + 4 * b(x2, 6) + 2 * b(x2, 5) + b(x2, 4)
        /\ W(24 * q + 12) = 32 * b(x2, 3) + 16 * b(x2, 2) + 8 * b(x2, 1) + 4 * b(x2, 0) + 2 * b(x3, 7) + b(x3, 6)
        /\ W(24 * q + 18) = 32 * b(x3, 5) + 16 * b(x3, 4) + 8 * b(x3, 3) + 4 * b(x3, 2) + 2 * b(x3, 1) + b(x3, 0)
    <3>1. /\ 24 * q + 0 = 24 * q /\ 24 * q + 6 + 1 = 24 * q + 7 /\ 24 * q + 6 + 2 = 24 * q + 8 /\ 24 * q + 6 + 3 = 24 * q + 9
          /\ 24 * q + 6 + 4 = 24 * q + 10 /\ 24 * q + 6 + 5 = 24 * q + 11
          /\ 24 * q + 12 + 1 = 24 * q + 13 /\ 24 * q + 12 + 2 = 24 * q + 14 /\ 24 * q + 12 + 3 = 24 * q + 15
          /\ 24 * q + 12 + 4 = 24 * q + 16 /\ 24 * q + 12 + 5 = 24 * q + 17
          /\ 24 * q + 18 + 1 = 24 * q + 19 /\ 24 * q + 18 + 2 = 24 * q + 20 /\ 24 * q + 18 + 3 = 24 * q + 21
          /\ 24 * q + 18 + 4 = 24 * q + 22 /\ 24 * q + 18 + 5 = 24 * q + 23
      OBVIOUS
    <3> QED BY <1>2, <3>1 DEF b
  <2> DEFINE d1 == x1 \div 4
             m1 == x1 % 4
             d2 == x2 \div 16
             m2 == x2 % 16
             d3 == x3 \div 64
             m3 == x3 % 64
  <2> HIDE DEF W, d1, m1, d2, m2, d3, m3
  <2>5. /\ 32 * b(x1, 7) + 16 * b(x1, 6) + 8 * b(x1, 5) + 4 * b(x1, 4) + 2 * b(x1, 3) + b(x1, 2) = d1
        /\ 2 * b(x1, 1) + b(x1, 0) = m1
        /\ 8 * b(x2, 7) + 4 * b(x2, 6) + 2 * b(x2, 5) + b(x2, 4) = d2
        /\ 8 * b(x2, 3) + 4 * b(x2, 2) + 2 * b(x2, 1) + b(x2, 0) = m2
        /\ 2 * b(x3, 7) + b(x3, 6) = d3
        /\ 32 * b(x3, 5) + 16 * b(x3, 4) + 8 * b(x3, 3) + 4 * b(x3, 2) + 2 * b(x3, 1) + b(x3, 0) = m3
    BY <2>1 DEF d1, m1, d2, m2, d3, m3
  <2>6. W(24 * q) = d1 /\ W(24 * q + 18) = m3
    BY <2>4, <2>5
  <2>7. W(24 * q + 6) = 16 * m1 + d2
    <3>1. /\ b(x1, 1) \in Int /\ b(x1, 0) \in Int
          /\ b(x2, 7) \in Int /\ b(x2, 6) \in Int /\ b(x2, 5) \in Int /\ b(x2, 4) \in Int
      BY <2>3
    <3>2. m1 = 2 * b(x1, 1) + b(x1, 0) /\ d2 = 8 * b(x2, 7) + 4 * b(x2, 6) + 2 * b(x2, 5) + b(x2, 4)
      BY <2>5
    <3> DEFINE p1 == b(x1, 1)
               p0 == b(x1, 0)
               p7 == b(x2, 7)
               p6 == b(x2, 6)
               p5 == b(x2, 5)
               p4 == b(x2, 4)
    <3> HIDE DEF p1, p0, p7, p6, p5, p4
    <3>5. p1 \in Int /\ p0 \in Int /\ p7 \in Int /\ p6 \in Int /\ p5 \in Int /\ p4 \in Int
          /\ m1 = 2 * p1 + p0 /\ d2 = 8 * p7 + 4 * p6 + 2 * p5 + p4
      BY <3>1, <3>2 DEF p1, p0, p7, p6, p5, p4
    <3>4. m1 \in Int /\ d2 \in Int
      BY <3>5
    <3>6. 32 * p1 + 16 * p0 + 8 * p7 + 4 * p6 + 2 * p5 + p4 = 16 * m1 + d2
      BY <3>4, <3>5
    <3>3. 32 * b(x1, 1) + 16 * b(x1, 0) + 8 * b(x2, 7) + 4 * b(x2, 6) + 2 * b(x2, 5) + b(x2, 4) = 16 * m1 + d2
      BY <3>6 DEF p1, p0, p7, p6, p5, p4
    <3> QED BY <2>4, <3>3
  <2>8. W(24 * q + 12) = 4 * m2 + d3
    <3>1. /\ b(x3, 7) \in Int /\ b(x3, 6) \in Int
          /\ b(x2, 3) \in Int /\ b(x2, 2) \in Int /\ b(x2, 1) \in Int /\ b(x2, 0) \in Int
      BY <2>3
    <3>2. d3 = 2 * b(x3, 7) + b(x3, 6) /\ m2 = 8 * b(x2, 3) + 4 * b(x2, 2) + 2 * b(x2, 1) + b(x2, 0)
      BY <2>5
    <3> DEFINE p1 == b(x3, 7)
               p0 == b(x3, 6)
               p7 == b(x2, 3)
               p6 == b(x2, 2)
               p5 == b(x2, 1)
               p4 == b(x2, 0)
    <3> HIDE DEF p1, p0, p7, p6, p5, p4
    <3>5. p1 \in Int /\ p0 \in Int /\ p7 \in Int /\ p6 \in Int /\ p5 \in Int /\ p4 \in Int
          /\ d3 = 2 * p1 + p0 /\ m2 = 8 * p7 + 4 * p6 + 2 * p5 + p4
      BY <3>1, <3>2 DEF p1, p0, p7, p6, p5, p4
    <3>4. m2 \in Int /\ d3 \in Int
      BY <3>5
    <3>6. 32 * p7 + 16 * p6 + 8 * p5 + 4 * p4 + 2 * p1 + p0 = 4 * m2 + d3
      BY <3>4, <3>5
    <3>3. 32 * b(x2, 3) + 16 * b(x2, 2) + 8 * b(x2, 1) + 4 * b(x2, 0) + 2 * b(x3, 7) + b(x3, 6) = 4 * m2 + d3
      BY <3>6 DEF p1, p0, p7, p6, p5, p4
    <3> QED BY <2>4, <3>3
  <2> QED BY <2>6, <2>7, <2>8 DEF d1, m1, d2, m2, d3, m3
<1> HIDE DEF W, C
<1>5. Len(text) \in Nat
  OBVIOUS
<1>6. /\ 24 * q + 6 * (1 - 1) = 24 * q /\ 24 * q + 6 * (2 - 1) = 24 * q + 6
      /\ 24 * q + 6 * (3 - 1) = 24 * q + 12 /\ 24 * q + 6 * (4 - 1) = 24 * q + 18
      /\ 1 \in 1 .. 4 /\ 2 \in 1 .. 4 /\ 3 \in 1 .. 4 /\ 4 \in 1 .. 4
      /\ (24 * q >= 8 * Len(text) <=> 3 * q >= Len(text))
      /\ (24 * q + 6 >= 8 * Len(text) <=> 3 * q >= Len(text))
      /\ (24 * q + 12 >= 8 * Len(text) <=> 3 * q + 1 >= Len(text))
      /\ (24 * q + 18 >= 8 * Len(text) <=> 3 * q + 2 >= Len(text))
  BY <1>5
<1>7. /\ C(4 * q + 1) = IF 24 * q >= 8 * Len(text) THEN 64 ELSE W(24 * q)
      /\ C(4 * q + 2) = IF 24 * q + 6 >= 8 * Len(text) THEN 64 ELSE W(24 * q + 6)
      /\ C(4 * q + 3) = IF 24 * q + 12 >= 8 * Len(text) THEN 64 ELSE W(24 * q + 12)
      /\ C(4 * q + 4) = IF 24 * q + 18 >= 8 * Len(text) THEN 64 ELSE W(24 * q + 18)
  BY <1>3, <1>6
<1> QED BY <1>1, <1>4, <1>6, <1>7 DEF C

\* Four sextets as three bytes, and back.
Quad(v1, v2, v3, v4) == v1 \in 0 .. 63 /\ v2 \in 0 .. 63 /\ v3 \in 0 .. 63 /\ v4 \in 0 .. 63
Triple(x1, x2, x3) == x1 \in 0 .. 255 /\ x2 \in 0 .. 255 /\ x3 \in 0 .. 255
FromSextets(x1, x2, x3, v1, v2, v3, v4) ==
  x1 = 4 * v1 + (v2 \div 16) /\ x2 = 16 * (v2 % 16) + (v3 \div 4) /\ x3 = 64 * (v3 % 4) + v4
FromBytes(v1, v2, v3, v4, x1, x2, x3) ==
  /\ v1 = x1 \div 4 /\ v2 = 16 * (x1 % 4) + (x2 \div 16)
  /\ v3 = 4 * (x2 % 16) + (x3 \div 64) /\ v4 = x3 % 64

\* Three bytes out of the number that four sextets make.
LEMMA Joined ==
  ASSUME NEW v1, NEW v2, NEW v3, NEW v4, Quad(v1, v2, v3, v4),
         NEW n, n = ((v1 * 64 + v2) * 64 + v3) * 64 + v4
  PROVE  FromSextets(n \div 65536, (n \div 256) % 256, n % 256, v1, v2, v3, v4)
<1>0. v1 \in 0 .. 63 /\ v2 \in 0 .. 63 /\ v3 \in 0 .. 63 /\ v4 \in 0 .. 63
  BY DEF Quad
<1> DEFINE h2 == v2 \div 16
           l2 == v2 % 16
           h3 == v3 \div 4
           l3 == v3 % 4
<1>1. /\ h2 \in 0 .. 3 /\ l2 \in 0 .. 15 /\ v2 = 16 * h2 + l2
      /\ h3 \in 0 .. 15 /\ l3 \in 0 .. 3 /\ v3 = 4 * h3 + l3
  BY <1>0
<1> HIDE DEF h2, l2, h3, l3
<1> DEFINE x1 == 4 * v1 + h2
           x2 == 16 * l2 + h3
           x3 == 64 * l3 + v4
<1>2. x1 \in 0 .. 255 /\ x2 \in 0 .. 255 /\ x3 \in 0 .. 255
  BY <1>0, <1>1
<1>3. n = 65536 * x1 + 256 * x2 + x3
  BY <1>0, <1>1
<1> HIDE DEF x1, x2, x3
<1>4. n \div 65536 = x1 /\ n \div 256 = 256 * x1 + x2 /\ n % 256 = x3
  BY <1>2, <1>3
<1>5. (256 * x1 + x2) % 256 = x2
  BY <1>2
<1>6. FromSextets(x1, x2, x3, v1, v2, v3, v4)
  BY DEF FromSextets, x1, x2, x3, h2, l2, h3, l3
<1> QED BY <1>4, <1>5, <1>6

\* The sextets of such three bytes are those they were made of.
LEMMA Divided ==
  ASSUME NEW v1, NEW v2, NEW v3, NEW v4, Quad(v1, v2, v3, v4),
         NEW x1, NEW x2, NEW x3, FromSextets(x1, x2, x3, v1, v2, v3, v4)
  PROVE  /\ Triple(x1, x2, x3) /\ FromBytes(v1, v2, v3, v4, x1, x2, x3)
         /\ 16 * (x1 % 4) + (0 \div 16) = v2 - (v2 % 16)
         /\ 4 * (x2 % 16) + (0 \div 64) = v3 - (v3 % 4)
<1> DEFINE h2 == v2 \div 16
           l2 == v2 % 16
           h3 == v3 \div 4
           l3 == v3 % 4
<1>8. v1 \in 0 .. 63 /\ v2 \in 0 .. 63 /\ v3 \in 0 .. 63 /\ v4 \in 0 .. 63
  BY DEF Quad
<1>1. /\ h2 \in 0 .. 3 /\ l2 \in 0 .. 15 /\ v2 = 16 * h2 + l2
      /\ h3 \in 0 .. 15 /\ l3 \in 0 .. 3 /\ v3 = 4 * h3 + l3
  BY <1>8
<1>0. x1 = 4 * v1 + h2 /\ x2 = 16 * l2 + h3 /\ x3 = 64 * l3 + v4
  BY DEF FromSextets
<1> HIDE DEF h2, l2, h3, l3
<1>2. x1 \in 0 .. 255 /\ x2 \in 0 .. 255 /\ x3 \in 0 .. 255
  BY <1>0, <1>1, <1>8
<1>3. x1 \div 4 = v1 /\ x1 % 4 = h2
  BY <1>0, <1>1, <1>8
<1>4. x2 \div 16 = l2 /\ x2 % 16 = h3
  BY <1>0, <1>1, <1>8
<1>5. x3 \div 64 = l3 /\ x3 % 64 = v4
  BY <1>0, <1>1, <1>8
<1>6. 16 * h2 + (0 \div 16) = v2 - l2 /\ 4 * h3 + (0 \div 64) = v3 - l3
  BY <1>1, <1>8
<1>7. FromBytes(v1, v2, v3, v4, x1, x2, x3)
  BY <1>1, <1>3, <1>4, <1>5 DEF FromBytes
<1> QED BY <1>2, <1>3, <1>4, <1>6, <1>7 DEF Triple, l2, l3

\* The other way: the bytes of such four sextets.
LEMMA Rejoined ==
  ASSUME NEW x1, NEW x2, NEW x3, Triple(x1, x2, x3),
         NEW v1, NEW v2, NEW v3, NEW v4, FromBytes(v1, v2, v3, v4, x1, x2, x3)
  PROVE  Quad(v1, v2, v3, v4) /\ FromSextets(x1, x2, x3, v1, v2, v3, v4)
<1>8. x1 \in 0 .. 255 /\ x2 \in 0 .. 255 /\ x3 \in 0 .. 255
  BY DEF Triple
<1> DEFINE h1 == x1 \div 4
           l1 == x1 % 4
           h2 == x2 \div 16
           l2 == x2 % 16
           h3 == x3 \div 64
           l3 == x3 % 64
<1>1. /\ h1 \in 0 .. 63 /\ l1 \in 0 .. 3 /\ x1 = 4 * h1 + l1
      /\ h2 \in 0 .. 15 /\ l2 \in 0 .. 15 /\ x2 = 16 * h2 + l2
      /\ h3 \in 0 .. 3 /\ l3 \in 0 .. 63 /\ x3 = 64 * h3 + l3
  BY <1>8
<1>0. v1 = h1 /\ v2 = 16 * l1 + h2 /\ v3 = 4 * l2 + h3 /\ v4 = l3
  BY DEF FromBytes
<1> HIDE DEF h1, l1, h2, l2, h3, l3
<1>2. v1 \in 0 .. 63 /\ v2 \in 0 .. 63 /\ v3 \in 0 .. 63 /\ v4 \in 0 .. 63
  BY <1>0, <1>1
<1>3. v2 \div 16 = l1 /\ v2 % 16 = h2
  BY <1>0, <1>1
<1>4. v3 \div 4 = l2 /\ v3 % 4 = h3
  BY <1>0, <1>1
<1> QED BY <1>0, <1>1, <1>2, <1>3, <1>4 DEF Quad, FromSextets

\* A payload of m blocks with p paddings.
IsCoded(c, m, p) ==
  /\ c \in Seq(0 .. 65) /\ m \in Nat \ {0} /\ p \in 0 .. 2 /\ Len(c) = 4 * m
  /\ \A i \in 1 .. 4 * m : IF i > 4 * m - p THEN c[i] = 64 ELSE c[i] \in 0 .. 63

\* The sextet at a place.
V(c, i) == HEADER!Value(c[i])

\* The value of a character; padding counts as zero.
LEMMA Sextet == ASSUME NEW c, NEW i, c[i] \in 0 .. 64
                PROVE  V(c, i) \in 0 .. 63 /\ (c[i] # 64 => V(c, i) = c[i]) /\ (c[i] = 64 => V(c, i) = 0)
BY DEF V, HEADER!Value, HEADER!Padding

\* The characters of a block.
LEMMA Parts ==
  ASSUME NEW S, NEW c \in Seq(S), NEW q \in Nat, 4 * q + 4 <= Len(c),
         NEW part, part = HEADER!Part(c, q + 1)
  PROVE  /\ part[1] = c[4 * q + 1] /\ part[2] = c[4 * q + 2]
         /\ part[3] = c[4 * q + 3] /\ part[4] = c[4 * q + 4]
<1> DEFINE m == 4 * q + 1
           n == 4 * q + 4
<1>1. 4 * (q + 1) - 3 = m /\ 4 * (q + 1) = n
  OBVIOUS
<1>2. part = SubSeq(c, m, n)
  BY <1>1 DEF HEADER!Part
<1>3. /\ m \in 1 .. Len(c) + 1 /\ n \in m - 1 .. Len(c) /\ n - m + 1 = 4
      /\ m + 1 - 1 = m /\ m + 2 - 1 = 4 * q + 2 /\ m + 3 - 1 = 4 * q + 3 /\ m + 4 - 1 = n
  OBVIOUS
<1> HIDE DEF m, n
<1>4. \A i \in 1 .. 4 : part[i] = c[m + i - 1]
  BY <1>2, <1>3, SubSeqProperties
<1>5. part[1] = c[m + 1 - 1] /\ part[2] = c[m + 2 - 1] /\ part[3] = c[m + 3 - 1] /\ part[4] = c[m + 4 - 1]
  BY <1>4
<1> QED BY <1>3, <1>5 DEF m, n

\* What a block decodes to.
LEMMA BlockBytes ==
  ASSUME NEW part, NEW v1, NEW v2, NEW v3, NEW v4, Quad(v1, v2, v3, v4),
         v1 = HEADER!Value(part[1]), v2 = HEADER!Value(part[2]),
         v3 = HEADER!Value(part[3]), v4 = HEADER!Value(part[4]),
         NEW k, k = IF part[3] = 64 THEN 1 ELSE IF part[4] = 64 THEN 2 ELSE 3
  PROVE  /\ HEADER!Bytes(part) \in Seq(0 .. 255) /\ Len(HEADER!Bytes(part)) = k
         /\ HEADER!Bytes(part)[1] = 4 * v1 + (v2 \div 16)
         /\ k >= 2 => HEADER!Bytes(part)[2] = 16 * (v2 % 16) + (v3 \div 4)
         /\ k = 3 => HEADER!Bytes(part)[3] = 64 * (v3 % 4) + v4
<1> DEFINE n == HEADER!Number(part)
           x1 == n \div 65536
           x2 == (n \div 256) % 256
           x3 == n % 256
           S == 0 .. 255
<1>1. n = ((v1 * 64 + v2) * 64 + v3) * 64 + v4
  BY DEF HEADER!Number
<1>2. FromSextets(x1, x2, x3, v1, v2, v3, v4)
  <2> HIDE DEF n
  <2> QED BY <1>1, Joined
<1>3. HEADER!Bytes(part) = SubSeq(<<x1, x2, x3>>, 1, k)
  BY DEF HEADER!Bytes, HEADER!Padding
<1> HIDE DEF n, x1, x2, x3
<1>4. Triple(x1, x2, x3) /\ x1 \in S /\ x2 \in S /\ x3 \in S
  <2>1. Triple(x1, x2, x3)
    BY <1>2, Divided
  <2> QED BY <2>1 DEF Triple
<1> DEFINE s == <<x1, x2, x3>>
<1> HIDE DEF S
<1>5. s \in Seq(S) /\ Len(s) = 3 /\ s[1] = x1 /\ s[2] = x2 /\ s[3] = x3
  BY <1>4
<1>6. k \in 1 .. 3
  OBVIOUS
<1> HIDE DEF s
<1>7. SubSeq(s, 1, k) \in Seq(S) /\ Len(SubSeq(s, 1, k)) = k
      /\ \A i \in 1 .. k : SubSeq(s, 1, k)[i] = s[i]
  <2>1. 1 \in Int /\ k \in Int /\ k - 1 + 1 = k /\ 1 <= k /\ \A i \in 1 .. k : s[i] \in S
    <3>1. \A i \in 1 .. 3 : s[i] \in S
      <4>1. \A i \in 1 .. 3 : i = 1 \/ i = 2 \/ i = 3
        OBVIOUS
      <4> QED BY <1>4, <1>5, <4>1
    <3> QED BY <1>6, <3>1
  <2>2. SubSeq(s, 1, k) \in Seq(S) /\ Len(SubSeq(s, 1, k)) = k
        /\ \A i \in 1 .. k - 1 + 1 : SubSeq(s, 1, k)[i] = s[1 + i - 1]
    BY <2>1, SubSeqProperties
  <2>3. \A i \in 1 .. k : 1 + i - 1 = i
    BY <1>6
  <2> QED BY <2>1, <2>2, <2>3
<1> DEFINE b == HEADER!Bytes(part)
<1>8. b = SubSeq(s, 1, k)
  BY <1>3 DEF s
<1> HIDE DEF b
<1>9. b \in Seq(S) /\ Len(b) = k /\ b[1] = s[1] /\ (k >= 2 => b[2] = s[2]) /\ (k = 3 => b[3] = s[3])
  BY <1>6, <1>7, <1>8
<1> QED BY <1>2, <1>5, <1>9 DEF S, b, FromSextets

\* The bytes of block q + 1, k of them, as they stand behind place o of b.
BlockAt(b, o, c, q, k) ==
  /\ b[o + 1] = 4 * V(c, 4 * q + 1) + (V(c, 4 * q + 2) \div 16)
  /\ k >= 2 => b[o + 2] = 16 * (V(c, 4 * q + 2) % 16) + (V(c, 4 * q + 3) \div 4)
  /\ k = 3 => b[o + 3] = 64 * (V(c, 4 * q + 3) % 4) + V(c, 4 * q + 4)
Width(q, m, p) == IF q = m - 1 THEN 3 - p ELSE 3

\* The four characters of a block: padding only in the last.
CodedAt(c, m, p, q) ==
  /\ m \in Nat \ {0} /\ p \in 0 .. 2 /\ Len(c) = 4 * m /\ 4 * q + 4 <= Len(c)
  /\ c[4 * q + 1] \in 0 .. 63 /\ c[4 * q + 2] \in 0 .. 63
  /\ c[4 * q + 3] \in 0 .. 64 /\ c[4 * q + 4] \in 0 .. 64
  /\ (c[4 * q + 3] = 64 <=> q = m - 1 /\ p = 2)
  /\ (c[4 * q + 4] = 64 <=> q = m - 1 /\ p >= 1)

\* Such are the blocks of a payload of the grammar.
LEMMA CodedPlaces ==
  ASSUME NEW c, NEW m, NEW p, IsCoded(c, m, p), NEW q \in 0 .. m - 1
  PROVE  CodedAt(c, m, p, q)
<1>1. m \in Nat \ {0} /\ p \in 0 .. 2 /\ Len(c) = 4 * m
      /\ \A i \in 1 .. 4 * m : IF i > 4 * m - p THEN c[i] = 64 ELSE c[i] \in 0 .. 63
  BY DEF IsCoded
<1> DEFINE i1 == 4 * q + 1
           i2 == 4 * q + 2
           i3 == 4 * q + 3
           i4 == 4 * q + 4
<1>2. /\ i1 \in 1 .. 4 * m /\ i2 \in 1 .. 4 * m /\ i3 \in 1 .. 4 * m /\ i4 \in 1 .. 4 * m
      /\ ~(i1 > 4 * m - p) /\ ~(i2 > 4 * m - p)
      /\ (i3 > 4 * m - p <=> q = m - 1 /\ p = 2)
      /\ (i4 > 4 * m - p <=> q = m - 1 /\ p >= 1)
      /\ i4 <= Len(c)
  BY <1>1
<1> HIDE DEF i1, i2, i3, i4
<1>3. c[i1] \in 0 .. 63 /\ c[i2] \in 0 .. 63
  BY <1>1, <1>2
<1>4. IF i3 > 4 * m - p THEN c[i3] = 64 ELSE c[i3] \in 0 .. 63
  BY <1>1, <1>2
<1>5. IF i4 > 4 * m - p THEN c[i4] = 64 ELSE c[i4] \in 0 .. 63
  BY <1>1, <1>2
<1>6. c[i3] \in 0 .. 64 /\ (c[i3] = 64 <=> i3 > 4 * m - p)
  BY <1>4
<1>7. c[i4] \in 0 .. 64 /\ (c[i4] = 64 <=> i4 > 4 * m - p)
  BY <1>5
<1> QED BY <1>1, <1>2, <1>3, <1>6, <1>7 DEF CodedAt, i1, i2, i3, i4

\* A block of a well-formed token decodes to its bytes.
LEMMA CodedBlock ==
  ASSUME NEW c, NEW m, NEW p, IsCoded(c, m, p), NEW q \in 0 .. m - 1,
         NEW part, part = HEADER!Part(c, q + 1)
  PROVE  /\ HEADER!IsBlock(part, q + 1 = m)
         /\ HEADER!Bytes(part) \in Seq(0 .. 255) /\ Len(HEADER!Bytes(part)) = Width(q, m, p)
         /\ BlockAt(HEADER!Bytes(part), 0, c, q, Width(q, m, p))
<1>1. /\ m \in Nat \ {0} /\ p \in 0 .. 2 /\ Len(c) = 4 * m /\ 4 * q + 4 <= Len(c)
      /\ c[4 * q + 1] \in 0 .. 63 /\ c[4 * q + 2] \in 0 .. 63
      /\ c[4 * q + 3] \in 0 .. 64 /\ c[4 * q + 4] \in 0 .. 64
      /\ (c[4 * q + 3] = 64 <=> q = m - 1 /\ p = 2)
      /\ (c[4 * q + 4] = 64 <=> q = m - 1 /\ p >= 1)
  <2>1. CodedAt(c, m, p, q)
    BY CodedPlaces
  <2> QED BY ONLY <2>1 DEF CodedAt
<1>2. c \in Seq(0 .. 65) /\ q \in Nat
  BY DEF IsCoded
<1>3. /\ part[1] = c[4 * q + 1] /\ part[2] = c[4 * q + 2]
      /\ part[3] = c[4 * q + 3] /\ part[4] = c[4 * q + 4]
  <2> DEFINE S == 0 .. 65
  <2>1. c \in Seq(S)
    BY <1>2
  <2>2. q \in Nat /\ 4 * q + 4 <= Len(c)
    BY <1>1, <1>2
  <2>3. part = HEADER!Part(c, q + 1)
    OBVIOUS
  <2> HIDE DEF S
  <2> QED BY ONLY <2>1, <2>2, <2>3, Parts
<1>4. HEADER!IsBlock(part, q + 1 = m)
  <2>1. part[1] \in 0 .. 63 /\ part[2] \in 0 .. 63 /\ part[3] \in 0 .. 64 /\ part[4] \in 0 .. 64
    BY <1>1, <1>3
  <2>2. (part[3] = 64 => part[4] = 64) /\ (part[3] = 64 \/ part[4] = 64 => q + 1 = m)
    BY <1>1, <1>3
  <2>3. (\A j \in 1 .. 4 : j = 1 \/ j = 2 \/ j = 3 \/ j = 4) /\ (\A j \in 1 .. 3 : j = 1 \/ j = 2 \/ j = 3)
    OBVIOUS
  <2>4. \A j \in 1 .. 4 : part[j] # 65 /\ (part[j] = 64 => q + 1 = m)
    <3>1. part[1] # 65 /\ part[2] # 65 /\ part[3] # 65 /\ part[4] # 65
          /\ part[1] # 64 /\ part[2] # 64
      BY <2>1
    <3> QED BY <2>2, <2>3, <3>1
  <2>5. part[1] # 64 /\ part[2] # 64
    BY <2>1
  <2>6. 3 + 1 = 4 /\ \A j \in 1 .. 3 : part[j] = 64 => part[j + 1] = 64
    BY <2>2, <2>3, <2>5
  <2> QED BY <2>4, <2>5, <2>6 DEF HEADER!IsBlock, HEADER!Padding, HEADER!Foreign
<1> DEFINE v1 == V(c, 4 * q + 1)
           v2 == V(c, 4 * q + 2)
           v3 == V(c, 4 * q + 3)
           v4 == V(c, 4 * q + 4)
           k == Width(q, m, p)
<1>5. Quad(v1, v2, v3, v4)
  <2>1. \A x \in 0 .. 63 : x \in 0 .. 64
    OBVIOUS
  <2> QED BY <1>1, <2>1, Sextet DEF Quad
<1>6. /\ v1 = HEADER!Value(part[1]) /\ v2 = HEADER!Value(part[2])
      /\ v3 = HEADER!Value(part[3]) /\ v4 = HEADER!Value(part[4])
  BY <1>3 DEF V
<1>7. k = IF part[3] = 64 THEN 1 ELSE IF part[4] = 64 THEN 2 ELSE 3
  <2>1. (part[3] = 64 <=> q = m - 1 /\ p = 2) /\ (part[4] = 64 <=> q = m - 1 /\ p >= 1)
    BY <1>1, <1>3
  <2>2. p = 0 \/ p = 1 \/ p = 2
    BY <1>1
  <2> QED BY <2>1, <2>2 DEF Width
<1> HIDE DEF v1, v2, v3, v4, k
<1>8. /\ HEADER!Bytes(part) \in Seq(0 .. 255) /\ Len(HEADER!Bytes(part)) = k
      /\ HEADER!Bytes(part)[1] = 4 * v1 + (v2 \div 16)
      /\ k >= 2 => HEADER!Bytes(part)[2] = 16 * (v2 % 16) + (v3 \div 4)
      /\ k = 3 => HEADER!Bytes(part)[3] = 64 * (v3 % 4) + v4
  BY <1>5, <1>6, <1>7, BlockBytes
<1>9. BlockAt(HEADER!Bytes(part), 0, c, q, k)
  <2>1. 0 + 1 = 1 /\ 0 + 2 = 2 /\ 0 + 3 = 3
    OBVIOUS
  <2> QED BY <1>8, <2>1 DEF BlockAt, v1, v2, v3, v4
<1> QED BY <1>4, <1>8, <1>9 DEF k

\* The decoding, block by block.
LEMMA DecodeTurns ==
  ASSUME NEW c, NEW m, NEW p, IsCoded(c, m, p)
  PROVE  LET D == HEADER!DecodeScan(c) IN
         /\ D[0] = <<>>
         /\ \A b \in 0 .. m : D[b] \in Seq(0 .. 255)
         /\ \A b \in 1 .. m : D[b] = D[b - 1] \o HEADER!Bytes(HEADER!Part(c, b))
<1> DEFINE n == Len(c) \div 4
           L == Seq(0 .. 255)
           Turn(s, b) == s \o HEADER!Bytes(HEADER!Part(c, b))
           T == [b \in 1 .. n |-> [s \in L |-> Turn(s, b)]]
           D == HEADER!DecodeScan(c)
<1>0. n = m /\ m \in Nat
  BY DEF IsCoded
<1>1. <<>> \in L /\ n \in Nat
  BY <1>0
<1>2. ASSUME NEW b \in 1 .. n, NEW s \in L PROVE Turn(s, b) \in L
  <2> DEFINE q == b - 1
  <2>1. q \in 0 .. m - 1 /\ q + 1 = b
    BY <1>0
  <2> HIDE DEF q
  <2>2. HEADER!Bytes(HEADER!Part(c, q + 1)) \in Seq(0 .. 255)
    BY <2>1, CodedBlock
  <2>3. s \in Seq(0 .. 255) /\ HEADER!Bytes(HEADER!Part(c, b)) \in Seq(0 .. 255)
    BY <2>1, <2>2
  <2> QED BY <2>3, ConcatProperties
<1>3. T \in [1 .. n -> [L -> L]]
  <2> HIDE DEF L, Turn, n
  <2> QED BY <1>2
<1> HIDE DEF L, T, Turn
<1>4. PICK g \in [0 .. n -> L] : IsScan(g, n, <<>>, T)
  BY <1>1, <1>3, Recursion
<1>5. g = [i \in 0 .. n |-> IF i = 0 THEN <<>> ELSE Turn(g[i - 1], i)]
  <2>1. ASSUME NEW i \in 0 .. n
        PROVE  g[i] = IF i = 0 THEN <<>> ELSE Turn(g[i - 1], i)
    <3>1. g[i] = IF i = 0 THEN <<>> ELSE T[i][g[i - 1]]
      BY <1>4 DEF IsScan
    <3>2. i # 0 => i \in 1 .. n /\ g[i - 1] \in L
      BY <1>0
    <3> QED BY <3>1, <3>2 DEF T
  <2> QED BY <2>1
<1>6. \E h : h = [i \in 0 .. n |-> IF i = 0 THEN <<>> ELSE Turn(h[i - 1], i)]
  BY <1>5
<1>7. D = [i \in 0 .. n |-> IF i = 0 THEN <<>> ELSE Turn(D[i - 1], i)]
  BY <1>6 DEF HEADER!DecodeScan, Turn
<1> HIDE DEF D, n
<1>8. D[0] = <<>>
  BY <1>1, <1>7
<1>9. \A i \in 1 .. n : D[i] = Turn(D[i - 1], i)
  BY <1>0, <1>7
<1>10. \A i \in 1 .. n : D[i - 1] \in L => D[i] \in L
  BY <1>2, <1>9
<1>11. \A i \in 0 .. n : D[i] \in L
  BY <1>1, <1>8, <1>10, ScanTypes
<1>12. \A i \in 1 .. n : D[i] = D[i - 1] \o HEADER!Bytes(HEADER!Part(c, i))
  BY <1>9 DEF Turn
<1> QED BY <1>0, <1>8, <1>11, <1>12 DEF D, L

\* What a payload decodes to.
LEMMA Decoding ==
  ASSUME NEW c, NEW m, NEW p, IsCoded(c, m, p),
         NEW d, d = HEADER!DecodeScan(c)[m]
  PROVE  /\ d \in Seq(0 .. 255) /\ Len(d) = 3 * m - p
         /\ \A q \in 0 .. m - 1 : BlockAt(d, 3 * q, c, q, Width(q, m, p))
<1> DEFINE D == HEADER!DecodeScan(c)
           B(b) == HEADER!Bytes(HEADER!Part(c, b))
           size(b) == 3 * b - (IF b = m THEN p ELSE 0)
           Good(b) == Len(D[b]) = size(b) /\ \A q \in 0 .. b - 1 : BlockAt(D[b], 3 * q, c, q, Width(q, m, p))
           I == {b \in 0 .. m : Good(b)}
           S == 0 .. 255
<1>0. m \in Nat \ {0} /\ p \in 0 .. 2
  BY DEF IsCoded
<1>1. D[0] = <<>> /\ (\A b \in 0 .. m : D[b] \in Seq(S)) /\ (\A b \in 1 .. m : D[b] = D[b - 1] \o B(b))
  BY DecodeTurns
<1>2. 0 \in I
  <2>1. D[0] = <<>> /\ Len(<<>>) = 0
    BY <1>1
  <2>2. size(0) = 0 /\ 0 \in 0 .. m /\ \A q \in 0 .. 0 - 1 : FALSE
    <3>1. 0 # m /\ 0 \in 0 .. m
      BY <1>0
    <3>2. size(0) = 3 * 0 - 0
      BY <3>1
    <3> QED BY <3>1, <3>2
  <2> HIDE DEF D, size
  <2> QED BY <2>1, <2>2
<1>3. ASSUME NEW b \in 0 .. m - 1, b \in I PROVE b + 1 \in I
  <2> DEFINE e == B(b + 1)
             s == D[b]
             t == D[b + 1]
             k == Width(b, m, p)
  <2>1. e \in Seq(S) /\ Len(e) = k /\ BlockAt(e, 0, c, b, k)
    BY CodedBlock
  <2>2. s \in Seq(S) /\ t = s \o e /\ b + 1 \in 1 .. m /\ b + 1 - 1 = b /\ b \in 0 .. m
    <3>1. b + 1 \in 1 .. m /\ b + 1 - 1 = b /\ b \in 0 .. m
      BY <1>0
    <3>2. \A j : j \in 1 .. m => D[j] = D[j - 1] \o B(j)
      BY <1>1
    <3> HIDE DEF B, D
    <3>4. D[b + 1] = D[b] \o B(b + 1)
      <4> DEFINE j == b + 1
      <4>1. j \in 1 .. m /\ j - 1 = b
        BY <3>1
      <4> HIDE DEF j
      <4>2. D[j] = D[b] \o B(j)
        BY <3>2, <4>1
      <4> QED BY <4>2, Zenon DEF j
    <3>5. D[b] \in Seq(S)
      BY <1>1, <3>1
    <3> QED BY <3>1, <3>4, <3>5
  <2>3. Len(s) = 3 * b /\ \A q \in 0 .. b - 1 : BlockAt(s, 3 * q, c, q, Width(q, m, p))
    <3>1. b # m
      BY <1>0
    <3>2. size(b) = 3 * b
      BY <3>1
    <3> QED BY <1>3, <3>2
  <2>4. k \in 1 .. 3 /\ (b # m - 1 => k = 3) /\ size(b + 1) = 3 * b + k
    BY <1>0 DEF Width
  <2> HIDE DEF e, s, t, k, S, size, D, B, Good
  <2>5. Len(t) = Len(s) + Len(e)
        /\ \A i \in 1 .. Len(s) + Len(e) : t[i] = IF i <= Len(s) THEN s[i] ELSE e[i - Len(s)]
    BY <2>1, <2>2, ConcatProperties
  <2>6. Len(t) = size(b + 1) /\ \A i \in 1 .. 3 * b + k : t[i] = IF i <= 3 * b THEN s[i] ELSE e[i - 3 * b]
    BY <2>1, <2>3, <2>4, <2>5
  <2>7. BlockAt(t, 3 * b, c, b, k)
    <3>1. t[3 * b + 1] = e[0 + 1] /\ (k >= 2 => t[3 * b + 2] = e[0 + 2]) /\ (k = 3 => t[3 * b + 3] = e[0 + 3])
      <4>1. 3 * b + 1 \in 1 .. 3 * b + k /\ ~(3 * b + 1 <= 3 * b) /\ 3 * b + 1 - 3 * b = 0 + 1
        BY <2>4
      <4>2. k >= 2 => 3 * b + 2 \in 1 .. 3 * b + k /\ ~(3 * b + 2 <= 3 * b) /\ 3 * b + 2 - 3 * b = 0 + 2
        BY <2>4
      <4>3. k = 3 => 3 * b + 3 \in 1 .. 3 * b + k /\ ~(3 * b + 3 <= 3 * b) /\ 3 * b + 3 - 3 * b = 0 + 3
        BY <2>4
      <4> DEFINE j1 == 3 * b + 1
                 j2 == 3 * b + 2
                 j3 == 3 * b + 3
      <4> HIDE DEF j1, j2, j3
      <4>4. j1 \in 1 .. 3 * b + k /\ ~(j1 <= 3 * b) /\ j1 - 3 * b = 0 + 1
        BY <4>1 DEF j1
      <4>5. k >= 2 => j2 \in 1 .. 3 * b + k /\ ~(j2 <= 3 * b) /\ j2 - 3 * b = 0 + 2
        BY <4>2 DEF j2
      <4>6. k = 3 => j3 \in 1 .. 3 * b + k /\ ~(j3 <= 3 * b) /\ j3 - 3 * b = 0 + 3
        BY <4>3 DEF j3
      <4>7. t[j1] = e[0 + 1]
        BY <2>6, <4>4
      <4>8. k >= 2 => t[j2] = e[0 + 2]
        BY <2>6, <4>5
      <4>9. k = 3 => t[j3] = e[0 + 3]
        BY <2>6, <4>6
      <4> QED BY <4>7, <4>8, <4>9 DEF j1, j2, j3
    <3> QED BY <2>1, <3>1 DEF BlockAt
  <2>8. ASSUME NEW q \in 0 .. b PROVE BlockAt(t, 3 * q, c, q, Width(q, m, p))
    <3>1. CASE q = b
      BY <2>7, <3>1 DEF k
    <3>2. CASE q # b
      <4>1. q \in 0 .. b - 1
        BY <3>2
      <4> DEFINE o == 3 * q
      <4>2. /\ o + 1 \in 1 .. 3 * b + k /\ o + 1 <= 3 * b /\ o + 2 \in 1 .. 3 * b + k /\ o + 2 <= 3 * b
            /\ o + 3 \in 1 .. 3 * b + k /\ o + 3 <= 3 * b
        BY <2>4, <4>1
      <4> HIDE DEF o
      <4>3. t[o + 1] = s[o + 1] /\ t[o + 2] = s[o + 2] /\ t[o + 3] = s[o + 3]
        BY <2>6, <4>2
      <4>4. BlockAt(s, o, c, q, Width(q, m, p))
        BY <2>3, <4>1 DEF o
      <4>5. BlockAt(t, o, c, q, Width(q, m, p))
        BY <4>3, <4>4 DEF BlockAt
      <4> QED BY <4>5 DEF o
    <3> QED BY <3>1, <3>2
  <2>9. Good(b + 1)
    <3>1. b + 1 - 1 = b
      OBVIOUS
    <3> QED BY <2>6, <2>8, <3>1 DEF Good, t, s
  <2>10. b + 1 \in 0 .. m
    BY <1>0
  <2> QED BY <2>9, <2>10
<1> HIDE DEF I
<1>4. \A b \in 0 .. m : b \in I
  BY <1>0, <1>2, <1>3, Induction
<1>5. Good(m)
  <2>1. m \in I
    BY <1>0, <1>4
  <2> HIDE DEF Good
  <2> QED BY <2>1 DEF I
<1>6. d \in Seq(S)
  BY <1>0, <1>1
<1> QED BY <1>5, <1>6

\* The payloads of the grammar are those of blocks and paddings ...
LEMMA Grammar ==
  ASSUME NEW c \in Seq(0 .. 65)
  PROVE  HEADER!IsBase64(c) <=> \E m, p : IsCoded(c, m, p)
<1>0. Len(c) \in Nat /\ DOMAIN c = 1 .. Len(c) /\ (c # <<>> <=> Len(c) # 0)
  <2> DEFINE S == 0 .. 65
  <2>1. c \in Seq(S)
    OBVIOUS
  <2> HIDE DEF S
  <2> QED BY <2>1, EmptySeq
<1>1. ASSUME HEADER!IsBase64(c) PROVE \E m, p : IsCoded(c, m, p)
  <2>1. c # <<>> /\ Len(c) % 4 = 0
    BY <1>1 DEF HEADER!IsBase64
  <2>2. PICK p \in 0 .. 2 : \A i \in DOMAIN c :
          IF i > Len(c) - p THEN c[i] = HEADER!Padding ELSE c[i] \in 0 .. 63
    BY <1>1 DEF HEADER!IsBase64
  <2> DEFINE m == Len(c) \div 4
  <2>3. m \in Nat \ {0} /\ Len(c) = 4 * m
    <3> DEFINE n == Len(c)
    <3>1. n \in Nat /\ n # 0 /\ n % 4 = 0
      BY <1>0, <2>1
    <3> HIDE DEF n
    <3>2. n \div 4 \in Nat \ {0} /\ n = 4 * (n \div 4)
      BY <3>1
    <3> QED BY <3>2 DEF n
  <2> HIDE DEF m
  <2>4. IsCoded(c, m, p)
    BY <1>0, <2>2, <2>3 DEF IsCoded, HEADER!Padding
  <2> QED BY <2>4
<1>2. ASSUME NEW m, NEW p, IsCoded(c, m, p) PROVE HEADER!IsBase64(c)
  <2>1. m \in Nat \ {0} /\ p \in 0 .. 2 /\ Len(c) = 4 * m
        /\ \A i \in 1 .. 4 * m : IF i > 4 * m - p THEN c[i] = 64 ELSE c[i] \in 0 .. 63
    BY <1>2 DEF IsCoded
  <2>2. Len(c) % 4 = 0 /\ Len(c) # 0
    BY <2>1
  <2> QED BY <1>0, <2>1, <2>2 DEF HEADER!IsBase64, HEADER!Padding
<1> QED BY <1>1, <1>2

\* ... which are accepted, ...
LEMMA Accepted ==
  ASSUME NEW c, NEW m, NEW p, IsCoded(c, m, p)
  PROVE  HEADER!strict_base64_decode(c) = [ok |-> TRUE, text |-> HEADER!DecodeScan(c)[m]]
<1>1. m \in Nat \ {0} /\ Len(c) = 4 * m /\ c \in Seq(0 .. 65)
  BY DEF IsCoded
<1>2. Len(c) \div 4 = m /\ Len(c) % 4 = 0 /\ Len(c) # 0
  BY <1>1
<1>3. c # <<>>
  <2>1. Len(<<>>) = 0
    OBVIOUS
  <2> QED BY <1>2, <2>1, Zenon
<1>4. ASSUME NEW b \in 1 .. m PROVE HEADER!IsBlock(HEADER!Part(c, b), b = m)
  <2> DEFINE q == b - 1
  <2>1. q \in 0 .. m - 1 /\ q + 1 = b
    BY <1>1
  <2> HIDE DEF q
  <2>2. HEADER!IsBlock(HEADER!Part(c, q + 1), q + 1 = m)
    BY <2>1, CodedBlock
  <2> QED BY <2>1, <2>2
<1>5. \A b \in 1 .. m : HEADER!IsBlock(HEADER!Part(c, b), b = m)
  BY <1>4
<1> QED BY <1>2, <1>3, <1>5, Zenon DEF HEADER!strict_base64_decode, HEADER!Decoded

\* ... and no other payload is.
LEMMA OnlyAccepted ==
  ASSUME NEW c \in Seq(0 .. 65), HEADER!strict_base64_decode(c).ok
  PROVE  \E m, p : IsCoded(c, m, p)
<1> DEFINE m == Len(c) \div 4
           S == 0 .. 65
<1>1. c # <<>> /\ Len(c) % 4 = 0 /\ \A b \in 1 .. m : HEADER!IsBlock(HEADER!Part(c, b), b = m)
  <2>1. ~HEADER!Refused.ok
    BY DEF HEADER!Refused
  <2> QED BY <2>1, Zenon DEF HEADER!strict_base64_decode
<1>2. c \in Seq(S) /\ (\A i \in 1 .. Len(c) : c[i] \in S) /\ Len(c) \in Nat /\ Len(c) # 0
  <2>1. c \in Seq(S)
    OBVIOUS
  <2> HIDE DEF S
  <2> QED BY <1>1, <2>1, EmptySeq
<1>3. m \in Nat \ {0} /\ Len(c) = 4 * m
  BY <1>1, <1>2
<1> HIDE DEF m, S
<1>4. ASSUME NEW q \in 0 .. m - 1
      PROVE  /\ c[4 * q + 1] # 65 /\ c[4 * q + 2] # 65 /\ c[4 * q + 3] # 65 /\ c[4 * q + 4] # 65
             /\ c[4 * q + 1] # 64 /\ c[4 * q + 2] # 64 /\ (c[4 * q + 3] = 64 => c[4 * q + 4] = 64)
             /\ c[4 * q + 4] = 64 => q + 1 = m
  <2> DEFINE part == HEADER!Part(c, q + 1)
  <2>1. HEADER!IsBlock(part, q + 1 = m)
    <3> DEFINE b == q + 1
    <3>1. b \in 1 .. m
      BY <1>3
    <3> HIDE DEF b
    <3>2. HEADER!IsBlock(HEADER!Part(c, b), b = m)
      BY <1>1, <3>1
    <3> QED BY <3>2, Zenon DEF b
  <2>2. q \in Nat /\ 4 * q + 4 <= Len(c)
    BY <1>3
  <2>3. /\ part[1] = c[4 * q + 1] /\ part[2] = c[4 * q + 2]
        /\ part[3] = c[4 * q + 3] /\ part[4] = c[4 * q + 4]
    BY <1>2, <2>2, Parts
  <2> HIDE DEF part
  <2>4. /\ \A j \in 1 .. 4 : part[j] # 65 /\ (part[j] = 64 => q + 1 = m)
        /\ \A j \in 1 .. 3 : part[j] = 64 => part[j + 1] = 64
        /\ part[2] # 64
    BY <2>1 DEF HEADER!IsBlock, HEADER!Padding, HEADER!Foreign
  <2>5. part[1] # 65 /\ part[2] # 65 /\ part[3] # 65 /\ part[4] # 65 /\ (part[4] = 64 => q + 1 = m)
    BY <2>4
  <2>6. (part[1] = 64 => part[2] = 64) /\ (part[3] = 64 => part[4] = 64)
    <3>1. 1 + 1 = 2 /\ 3 + 1 = 4 /\ 1 \in 1 .. 3 /\ 3 \in 1 .. 3
      OBVIOUS
    <3>2. (part[1] = 64 => part[1 + 1] = 64) /\ (part[3] = 64 => part[3 + 1] = 64)
      BY <2>4, <3>1, Zenon
    <3> QED BY <3>1, <3>2
  <2> QED BY <2>3, <2>4, <2>5, <2>6
<1> DEFINE p == IF c[4 * m] # 64 THEN 0 ELSE IF c[4 * m - 1] # 64 THEN 1 ELSE 2
<1>5. ASSUME NEW i \in 1 .. 4 * m
      PROVE  IF i > 4 * m - p THEN c[i] = 64 ELSE c[i] \in 0 .. 63
  <2> DEFINE q == (i - 1) \div 4
             last == m - 1
  <2>1. q \in 0 .. m - 1 /\ (i = 4 * q + 1 \/ i = 4 * q + 2 \/ i = 4 * q + 3 \/ i = 4 * q + 4)
        /\ last \in 0 .. m - 1 /\ 4 * last + 4 = 4 * m /\ 4 * last + 3 = 4 * m - 1
    BY <1>3
  <2> HIDE DEF q, last
  <2>2. c[i] # 65 /\ (c[i] = 64 => (i = 4 * q + 3 \/ i = 4 * q + 4) /\ q + 1 = m)
    <3>1. /\ c[4 * q + 1] # 65 /\ c[4 * q + 2] # 65 /\ c[4 * q + 3] # 65 /\ c[4 * q + 4] # 65
          /\ c[4 * q + 1] # 64 /\ c[4 * q + 2] # 64 /\ (c[4 * q + 3] = 64 => c[4 * q + 4] = 64)
          /\ (c[4 * q + 4] = 64 => q + 1 = m)
      BY <1>4, <2>1
    <3>2. CASE i = 4 * q + 1
      BY <3>1, <3>2, Zenon
    <3>3. CASE i = 4 * q + 2
      BY <3>1, <3>3, Zenon
    <3>4. CASE i = 4 * q + 3
      BY <3>1, <3>4, Zenon
    <3>5. CASE i = 4 * q + 4
      BY <3>1, <3>5, Zenon
    <3> QED BY <2>1, <3>2, <3>3, <3>4, <3>5
  <2>3. c[i] \in 0 .. 65
    BY <1>2, <1>3 DEF S
  <2>4. c[4 * last + 3] = 64 => c[4 * last + 4] = 64
    BY <1>4, <2>1
  <2>5. c[4 * m - 1] = 64 => c[4 * m] = 64
    BY <2>1, <2>4
  <2>6. c[i] = 64 => i = 4 * m - 1 \/ i = 4 * m
    BY <1>3, <2>1, <2>2
  <2>7. CASE c[4 * m] # 64
    <3>1. p = 0 /\ c[i] # 64
      BY <2>5, <2>6, <2>7
    <3> QED BY <1>3, <2>2, <2>3, <3>1
  <2>8. CASE c[4 * m] = 64 /\ c[4 * m - 1] # 64
    <3>1. p = 1 /\ (c[i] = 64 <=> i = 4 * m)
      BY <2>6, <2>8
    <3> HIDE DEF p
    <3>2. i > 4 * m - p <=> i = 4 * m
      BY <1>3, <3>1
    <3> QED BY <2>2, <2>3, <3>1, <3>2
  <2>9. CASE c[4 * m] = 64 /\ c[4 * m - 1] = 64
    <3>1. p = 2 /\ (c[i] = 64 <=> i = 4 * m \/ i = 4 * m - 1)
      BY <2>6, <2>9
    <3> HIDE DEF p
    <3>2. i > 4 * m - p <=> i = 4 * m \/ i = 4 * m - 1
      BY <1>3, <3>1
    <3> QED BY <2>2, <2>3, <3>1, <3>2
  <2> QED BY <2>7, <2>8, <2>9
<1>6. p \in 0 .. 2
  OBVIOUS
<1> HIDE DEF p
<1>7. IsCoded(c, m, p)
  BY <1>3, <1>5, <1>6 DEF IsCoded
<1> QED BY <1>7

\* The canonical form of a payload.
LEMMA CanonicalMeans ==
  ASSUME NEW c, NEW m, NEW p, IsCoded(c, m, p)
  PROVE  LET d == HEADER!Canonical(c) IN
         /\ DOMAIN d = 1 .. 4 * m
         /\ d = [i \in 1 .. 4 * m |-> d[i]]
         /\ \A i \in 1 .. 4 * m :
              d[i] = IF i = 4 * m - p THEN c[i] - (c[i] % (IF p = 0 THEN 1 ELSE IF p = 1 THEN 4 ELSE 16))
                     ELSE c[i]
<1>1. m \in Nat \ {0} /\ p \in 0 .. 2 /\ Len(c) = 4 * m /\ c \in Seq(0 .. 65)
      /\ \A i \in 1 .. 4 * m : IF i > 4 * m - p THEN c[i] = 64 ELSE c[i] \in 0 .. 63
  BY DEF IsCoded
<1> DEFINE S == 0 .. 65
<1>2. DOMAIN c = 1 .. 4 * m
  <2>1. c \in Seq(S)
    BY <1>1
  <2> HIDE DEF S
  <2> QED BY <1>1, <2>1
<1>3. HEADER!Paddings(c) = p
  <2> DEFINE a == 4 * m - p + 1
             b == 4 * m
             P == {i \in DOMAIN c : c[i] = 64}
  <2>1. P = a .. b
    <3>1. ASSUME NEW i \in 1 .. 4 * m PROVE c[i] = 64 <=> i \in a .. b
      <4>1. IF i > 4 * m - p THEN c[i] = 64 ELSE c[i] \in 0 .. 63
        BY <1>1
      <4>2. c[i] = 64 <=> i > 4 * m - p
        BY <4>1
      <4> QED BY <1>1, <4>2
    <3>2. \A i \in a .. b : i \in 1 .. 4 * m
      BY <1>1
    <3> QED BY <1>2, <3>1, <3>2
  <2>2. a \in Int /\ b \in Int /\ (IF a > b THEN 0 ELSE b - a + 1) = p
    BY <1>1
  <2> HIDE DEF a, b
  <2>3. Cardinality(a .. b) = p
    BY <2>2, FS_Interval
  <2>4. HEADER!Cardinality(P) = Cardinality(P)
    BY DEF HEADER!Cardinality, Cardinality
  <2>5. HEADER!Paddings(c) = HEADER!Cardinality(P)
    BY DEF HEADER!Paddings, HEADER!Padding
  <2> HIDE DEF P
  <2> QED BY <2>1, <2>3, <2>4, <2>5
<1> DEFINE o == 4 * m - p
           w == <<1, 4, 16>>[p + 1]
           d == HEADER!Canonical(c)
<1>4. d = [c EXCEPT ![o] = @ - (@ % w)]
  BY <1>1, <1>3 DEF HEADER!Canonical
<1>5. w = IF p = 0 THEN 1 ELSE IF p = 1 THEN 4 ELSE 16
  <2>1. p = 0 \/ p = 1 \/ p = 2
    BY <1>1
  <2>2. 0 + 1 = 1 /\ 1 + 1 = 2 /\ 2 + 1 = 3
    OBVIOUS
  <2> QED BY <2>1, <2>2
<1>6. o \in 1 .. 4 * m
  BY <1>1
<1> HIDE DEF o, w, d
<1>7. d = [i \in 1 .. 4 * m |-> IF i = o THEN c[i] - (c[i] % w) ELSE c[i]]
  BY <1>2, <1>4, <1>6
<1> QED BY <1>5, <1>7 DEF o, d

\* Four characters of two encodings are the same when ...
Text(f, m) == f = [i \in 1 .. 4 * m |-> f[i]]
SameBlocks(f, g, m) ==
  \A q \in 0 .. m - 1 : /\ f[4 * q + 1] = g[4 * q + 1] /\ f[4 * q + 2] = g[4 * q + 2]
                        /\ f[4 * q + 3] = g[4 * q + 3] /\ f[4 * q + 4] = g[4 * q + 4]

\* Texts of whole blocks that agree in each block agree.
LEMMA FourEach ==
  ASSUME NEW m \in Nat, NEW f, NEW g, Text(f, m), Text(g, m), SameBlocks(f, g, m)
  PROVE  f = g
<1>1. ASSUME NEW i \in 1 .. 4 * m PROVE f[i] = g[i]
  <2> DEFINE q == (i - 1) \div 4
             r == (i - 1) % 4
  <2>0. q \in Int /\ r \in 0 .. 3 /\ i - 1 = 4 * q + r
    OBVIOUS
  <2> HIDE DEF q, r
  <2>3. q \in 0 .. m - 1
    BY <2>0
  <2>4. i = 4 * q + 1 \/ i = 4 * q + 2 \/ i = 4 * q + 3 \/ i = 4 * q + 4
    <3>1. r = 0 \/ r = 1 \/ r = 2 \/ r = 3
      BY <2>0
    <3> QED BY <2>0, <3>1
  <2>1. q \in 0 .. m - 1 /\ (i = 4 * q + 1 \/ i = 4 * q + 2 \/ i = 4 * q + 3 \/ i = 4 * q + 4)
    BY <2>3, <2>4
  <2>2. /\ f[4 * q + 1] = g[4 * q + 1] /\ f[4 * q + 2] = g[4 * q + 2]
        /\ f[4 * q + 3] = g[4 * q + 3] /\ f[4 * q + 4] = g[4 * q + 4]
    BY <2>1 DEF SameBlocks
  <2> QED BY <2>1, <2>2, Zenon
<1> DEFINE D == 1 .. 4 * m
<1>2. f = [i \in D |-> f[i]] /\ g = [i \in D |-> g[i]] /\ \A i \in D : f[i] = g[i]
  BY <1>1 DEF Text
<1> HIDE DEF D
<1> QED BY <1>2

\* The encoding of what a payload decodes to is its canonical form.
LEMMA EncodedAgain ==
  ASSUME NEW c, NEW m, NEW p, IsCoded(c, m, p)
  PROVE  HEADER!Encoding(HEADER!DecodeScan(c)[m]) = HEADER!Canonical(c)
<1> DEFINE d == HEADER!DecodeScan(c)[m]
           f == HEADER!Encoding(d)
           g == HEADER!Canonical(c)
           w == IF p = 0 THEN 1 ELSE IF p = 1 THEN 4 ELSE 16
           n == Len(d)
<1>0. m \in Nat \ {0} /\ p \in 0 .. 2 /\ Len(c) = 4 * m
  BY DEF IsCoded
<1>1. d \in Seq(0 .. 255) /\ n = 3 * m - p /\ \A q \in 0 .. m - 1 : BlockAt(d, 3 * q, c, q, Width(q, m, p))
  BY Decoding
<1>2. g = [i \in 1 .. 4 * m |-> g[i]]
      /\ \A i \in 1 .. 4 * m : g[i] = IF i = 4 * m - p THEN c[i] - (c[i] % w) ELSE c[i]
  BY CanonicalMeans
<1>3. f = [i \in 1 .. 4 * m |-> HEADER!CharacterOf(d, i)]
  <2>1. (n + 2) \div 3 = m
    BY <1>0, <1>1
  <2> HIDE DEF d
  <2> QED BY <2>1 DEF HEADER!Encoding
<1>4. f = [i \in 1 .. 4 * m |-> f[i]] /\ \A i \in 1 .. 4 * m : f[i] = HEADER!CharacterOf(d, i)
  <2> HIDE DEF f, d
  <2> QED BY <1>3
<1> HIDE DEF f, g, d, w, n
<1>5. ASSUME NEW q \in 0 .. m - 1
      PROVE  /\ f[4 * q + 1] = g[4 * q + 1] /\ f[4 * q + 2] = g[4 * q + 2]
             /\ f[4 * q + 3] = g[4 * q + 3] /\ f[4 * q + 4] = g[4 * q + 4]
  <2> DEFINE i1 == 4 * q + 1
             i2 == 4 * q + 2
             i3 == 4 * q + 3
             i4 == 4 * q + 4
             k == Width(q, m, p)
             v1 == V(c, i1)
             v2 == V(c, i2)
             v3 == V(c, i3)
             v4 == V(c, i4)
             y1 == 4 * v1 + (v2 \div 16)
             y2 == 16 * (v2 % 16) + (v3 \div 4)
             y3 == 64 * (v3 % 4) + v4
             x1 == ByteAt(d, 3 * q + 1)
             x2 == ByteAt(d, 3 * q + 2)
             x3 == ByteAt(d, 3 * q + 3)
  <2>1. /\ c[i1] \in 0 .. 63 /\ c[i2] \in 0 .. 63 /\ c[i3] \in 0 .. 64 /\ c[i4] \in 0 .. 64
        /\ (c[i3] = 64 <=> q = m - 1 /\ p = 2) /\ (c[i4] = 64 <=> q = m - 1 /\ p >= 1)
    <3>1. CodedAt(c, m, p, q)
      BY CodedPlaces
    <3> QED BY ONLY <3>1 DEF CodedAt, i1, i2, i3, i4
  <2>2. q \in Nat /\ i1 \in 1 .. 4 * m /\ i2 \in 1 .. 4 * m /\ i3 \in 1 .. 4 * m /\ i4 \in 1 .. 4 * m
    BY <1>0
  <2>3. /\ f[i1] = IF 3 * q >= n THEN 64 ELSE x1 \div 4
        /\ f[i2] = IF 3 * q >= n THEN 64 ELSE 16 * (x1 % 4) + (x2 \div 16)
        /\ f[i3] = IF 3 * q + 1 >= n THEN 64 ELSE 4 * (x2 % 16) + (x3 \div 64)
        /\ f[i4] = IF 3 * q + 2 >= n THEN 64 ELSE x3 % 64
    <3>1. /\ HEADER!CharacterOf(d, i1) = IF 3 * q >= n THEN 64 ELSE x1 \div 4
          /\ HEADER!CharacterOf(d, i2) = IF 3 * q >= n THEN 64 ELSE 16 * (x1 % 4) + (x2 \div 16)
          /\ HEADER!CharacterOf(d, i3) = IF 3 * q + 1 >= n THEN 64 ELSE 4 * (x2 % 16) + (x3 \div 64)
          /\ HEADER!CharacterOf(d, i4) = IF 3 * q + 2 >= n THEN 64 ELSE x3 % 64
      BY <1>1, <2>2, CharactersOf DEF n
    <3> HIDE DEF i1, i2, i3, i4, x1, x2, x3
    <3>2. f[i1] = HEADER!CharacterOf(d, i1) /\ f[i2] = HEADER!CharacterOf(d, i2)
          /\ f[i3] = HEADER!CharacterOf(d, i3) /\ f[i4] = HEADER!CharacterOf(d, i4)
      BY <1>4, <2>2
    <3> QED BY <3>1, <3>2
  <2>4. /\ Quad(v1, v2, v3, v4) /\ v1 = c[i1] /\ v2 = c[i2]
        /\ (c[i3] # 64 => v3 = c[i3]) /\ (c[i3] = 64 => v3 = 0)
        /\ (c[i4] # 64 => v4 = c[i4]) /\ (c[i4] = 64 => v4 = 0)
    <3> HIDE DEF i1, i2, i3, i4
    <3>1. c[i1] \in 0 .. 64 /\ c[i2] \in 0 .. 64 /\ c[i1] # 64 /\ c[i2] # 64
      BY <2>1
    <3>2. v1 \in 0 .. 63 /\ v1 = c[i1]
      BY <3>1, Sextet
    <3>3. v2 \in 0 .. 63 /\ v2 = c[i2]
      BY <3>1, Sextet
    <3>4. v3 \in 0 .. 63 /\ (c[i3] # 64 => v3 = c[i3]) /\ (c[i3] = 64 => v3 = 0)
      BY <2>1, Sextet
    <3>5. v4 \in 0 .. 63 /\ (c[i4] # 64 => v4 = c[i4]) /\ (c[i4] = 64 => v4 = 0)
      BY <2>1, Sextet
    <3> QED BY <3>2, <3>3, <3>4, <3>5 DEF Quad
  <2>5. FromSextets(y1, y2, y3, v1, v2, v3, v4)
    <3> HIDE DEF v1, v2, v3, v4
    <3> QED BY DEF FromSextets
  <2>6. /\ d[3 * q + 1] = y1 /\ (k >= 2 => d[3 * q + 2] = y2) /\ (k = 3 => d[3 * q + 3] = y3)
    <3>1. BlockAt(d, 3 * q, c, q, k)
      BY <1>1
    <3> QED BY <3>1 DEF BlockAt
  <2>7. /\ x1 = y1 /\ x2 = (IF k >= 2 THEN y2 ELSE 0) /\ x3 = (IF k = 3 THEN y3 ELSE 0)
        /\ k \in 1 .. 3 /\ ~(3 * q >= n) /\ (3 * q + 1 >= n <=> k = 1) /\ (3 * q + 2 >= n <=> k # 3)
    <3>1. /\ k \in 1 .. 3 /\ ~(3 * q >= n) /\ (3 * q + 1 >= n <=> k = 1) /\ (3 * q + 2 >= n <=> k # 3)
          /\ ~(3 * q + 1 > n) /\ (3 * q + 2 > n <=> k < 2) /\ (3 * q + 3 > n <=> k # 3)
      BY <1>0, <1>1 DEF Width
    <3> HIDE DEF y1, y2, y3, k
    <3>2. x1 = y1
      BY <2>6, <3>1 DEF ByteAt, n
    <3>3. x2 = IF k >= 2 THEN y2 ELSE 0
      <4>1. CASE k >= 2
        BY <2>6, <3>1, <4>1 DEF ByteAt, n
      <4>2. CASE ~(k >= 2)
        BY <3>1, <4>2 DEF ByteAt, n
      <4> QED BY <4>1, <4>2
    <3>4. x3 = IF k = 3 THEN y3 ELSE 0
      <4>1. CASE k = 3
        BY <2>6, <3>1, <4>1 DEF ByteAt, n
      <4>2. CASE k # 3
        BY <3>1, <4>2 DEF ByteAt, n
      <4> QED BY <4>1, <4>2
    <3> QED BY <3>1, <3>2, <3>3, <3>4
  <2>8. /\ v1 = y1 \div 4 /\ v2 = 16 * (y1 % 4) + (y2 \div 16)
        /\ v3 = 4 * (y2 % 16) + (y3 \div 64) /\ v4 = y3 % 64
        /\ 16 * (y1 % 4) + (0 \div 16) = v2 - (v2 % 16)
        /\ 4 * (y2 % 16) + (0 \div 64) = v3 - (v3 % 4)
    <3> HIDE DEF y1, y2, y3, v1, v2, v3, v4
    <3> QED BY <2>4, <2>5, Divided DEF FromBytes
  <2>9. /\ g[i1] = IF i1 = 4 * m - p THEN c[i1] - (c[i1] % w) ELSE c[i1]
        /\ g[i2] = IF i2 = 4 * m - p THEN c[i2] - (c[i2] % w) ELSE c[i2]
        /\ g[i3] = IF i3 = 4 * m - p THEN c[i3] - (c[i3] % w) ELSE c[i3]
        /\ g[i4] = IF i4 = 4 * m - p THEN c[i4] - (c[i4] % w) ELSE c[i4]
    <3> HIDE DEF i1, i2, i3, i4
    <3> QED BY <1>2, <2>2
  <2>10. /\ i1 # 4 * m - p /\ (i2 = 4 * m - p <=> q = m - 1 /\ p = 2)
         /\ (i3 = 4 * m - p <=> q = m - 1 /\ p = 1) /\ (i4 = 4 * m - p <=> q = m - 1 /\ p = 0)
    BY <1>0
  <2>11. /\ (k = 1 <=> q = m - 1 /\ p = 2) /\ (k = 3 <=> ~(q = m - 1 /\ p >= 1))
         /\ (k = 2 <=> q = m - 1 /\ p = 1)
    BY <1>0 DEF Width
  <2> HIDE DEF i1, i2, i3, i4, k, v1, v2, v3, v4, y1, y2, y3, x1, x2, x3
  <2>12. g[i1] = c[i1] /\ f[i1] = v1
    BY <2>3, <2>7, <2>8, <2>9, <2>10
  <2>13. f[i1] = g[i1]
    BY <2>4, <2>12
  <2>14. CASE k = 3
    <3>1. f[i2] = v2 /\ f[i3] = v3 /\ f[i4] = v4
      <4>1. x1 = y1 /\ x2 = y2 /\ x3 = y3 /\ ~(3 * q >= n) /\ ~(3 * q + 1 >= n) /\ ~(3 * q + 2 >= n)
        BY <2>7, <2>14
      <4> QED BY <2>3, <2>8, <4>1, Zenon
    <3>2. c[i3] # 64 /\ c[i4] # 64
      BY <2>1, <2>11, <2>14, <1>0
    <3>3. v2 = c[i2] /\ v3 = c[i3] /\ v4 = c[i4]
      BY <2>4, <3>2
    <3>4. g[i2] = c[i2] /\ g[i3] = c[i3]
      BY <1>0, <2>9, <2>10, <2>11, <2>14
    <3>5. g[i4] = c[i4]
      <4>1. CASE i4 # 4 * m - p
        BY <2>9, <4>1
      <4>2. CASE i4 = 4 * m - p
        <5>1. w = 1
          BY <2>10, <4>2 DEF w
        <5>2. c[i4] \in Int
          BY <2>1
        <5>3. c[i4] - (c[i4] % 1) = c[i4]
          BY <5>2
        <5> QED BY <2>9, <4>2, <5>1, <5>3
      <4> QED BY <4>1, <4>2
    <3> QED BY <2>13, <3>1, <3>3, <3>4, <3>5 DEF i1, i2, i3, i4
  <2>15. CASE k = 2
    <3>1. f[i2] = v2 /\ f[i3] = v3 - (v3 % 4) /\ f[i4] = 64
      <4>1. x1 = y1 /\ x2 = y2 /\ x3 = 0 /\ ~(3 * q >= n) /\ ~(3 * q + 1 >= n) /\ 3 * q + 2 >= n
        BY <2>7, <2>15
      <4> QED BY <2>3, <2>8, <4>1, Zenon
    <3>2. c[i3] # 64 /\ c[i4] = 64 /\ p = 1 /\ q = m - 1 /\ w = 4
      BY <2>1, <2>11, <2>15 DEF w
    <3>3. v2 = c[i2] /\ v3 = c[i3]
      BY <2>4, <3>2
    <3>4. g[i2] = c[i2] /\ g[i3] = c[i3] - (c[i3] % 4) /\ g[i4] = 64
      BY <2>9, <2>10, <3>2
    <3> QED BY <2>13, <3>1, <3>3, <3>4 DEF i1, i2, i3, i4
  <2>16. CASE k = 1
    <3>1. f[i2] = v2 - (v2 % 16) /\ f[i3] = 64 /\ f[i4] = 64
      <4>1. x1 = y1 /\ x2 = 0 /\ ~(3 * q >= n) /\ 3 * q + 1 >= n /\ 3 * q + 2 >= n
        BY <2>7, <2>16
      <4> QED BY <2>3, <2>8, <4>1, Zenon
    <3>2. c[i3] = 64 /\ c[i4] = 64 /\ p = 2 /\ q = m - 1 /\ w = 16
      BY <2>1, <2>11, <2>16 DEF w
    <3>3. v2 = c[i2]
      BY <2>4
    <3>4. g[i2] = c[i2] - (c[i2] % 16) /\ g[i3] = 64 /\ g[i4] = 64
      BY <2>9, <2>10, <3>2
    <3> QED BY <2>13, <3>1, <3>3, <3>4 DEF i1, i2, i3, i4
  <2>17. k = 1 \/ k = 2 \/ k = 3
    BY <2>7
  <2> QED BY <2>14, <2>15, <2>16, <2>17
<1>6. f = g
  <2>1. Text(f, m) /\ Text(g, m)
    BY <1>2, <1>4 DEF Text
  <2>2. SameBlocks(f, g, m)
    BY <1>5 DEF SameBlocks
  <2> QED BY <1>0, <2>1, <2>2, FourEach
<1> QED BY <1>6 DEF f, g, d

\* Of three bytes, whatever of them there is, a block is written ...
CharactersAt(t, q, x1, x2, x3) ==
  /\ x1 \in 0 .. 255 /\ x2 \in 0 .. 255 /\ x3 \in 0 .. 255
  /\ HEADER!CharacterOf(t, 4 * q + 1) = IF 3 * q >= Len(t) THEN 64 ELSE x1 \div 4
  /\ HEADER!CharacterOf(t, 4 * q + 2) = IF 3 * q >= Len(t) THEN 64 ELSE 16 * (x1 % 4) + (x2 \div 16)
  /\ HEADER!CharacterOf(t, 4 * q + 3) = IF 3 * q + 1 >= Len(t) THEN 64 ELSE 4 * (x2 % 16) + (x3 \div 64)
  /\ HEADER!CharacterOf(t, 4 * q + 4) = IF 3 * q + 2 >= Len(t) THEN 64 ELSE x3 % 64
\* The characters RFC 4648 writes for three bytes.
LEMMA CharactersHere ==
  ASSUME NEW t \in Seq(0 .. 255), NEW q \in Nat
  PROVE  CharactersAt(t, q, ByteAt(t, 3 * q + 1), ByteAt(t, 3 * q + 2), ByteAt(t, 3 * q + 3))
<1> DEFINE x1 == ByteAt(t, 3 * q + 1)
           x2 == ByteAt(t, 3 * q + 2)
           x3 == ByteAt(t, 3 * q + 3)
<1>1. CharactersAt(t, q, x1, x2, x3)
  BY CharactersOf DEF CharactersAt
<1> QED BY <1>1

Sized(t, m, p) == m \in Nat /\ p \in 0 .. 2 /\ Len(t) = 3 * m - p
IsWritten(c, t, q, m, p) ==
  /\ \A j \in 4 * q + 1 .. 4 * q + 4 : IF j > 4 * m - p THEN c[j] = 64 ELSE c[j] \in 0 .. 63
  /\ \A d : BlockAt(d, 3 * q, c, q, Width(q, m, p)) =>
       \A i \in 3 * q + 1 .. 3 * q + 3 : i <= Len(t) => d[i] = t[i]
Written(c, t, q) == \A j \in 4 * q + 1 .. 4 * q + 4 : c[j] = HEADER!CharacterOf(t, j)

\* A block of the encoding, padded when it is the last.
LEMMA EncodedBlock ==
  ASSUME NEW t \in Seq(0 .. 255), NEW m, NEW p, Sized(t, m, p),
         NEW c, NEW q \in Nat, 3 * q < Len(t), Written(c, t, q)
  PROVE  IsWritten(c, t, q, m, p)
<1>0. PICK n : n = Len(t)
  OBVIOUS
<1>00. n \in Nat /\ 3 * q < n /\ m \in Nat /\ p \in 0 .. 2 /\ n = 3 * m - p
  BY <1>0 DEF Sized
<1> DEFINE x1 == ByteAt(t, 3 * q + 1)
           x2 == ByteAt(t, 3 * q + 2)
           x3 == ByteAt(t, 3 * q + 3)
           i1 == 4 * q + 1
           i2 == 4 * q + 2
           i3 == 4 * q + 3
           i4 == 4 * q + 4
           v1 == V(c, i1)
           v2 == V(c, i2)
           v3 == V(c, i3)
           v4 == V(c, i4)
           w1 == x1 \div 4
           w2 == 16 * (x1 % 4) + (x2 \div 16)
           w3 == 4 * (x2 % 16) + (x3 \div 64)
           w4 == x3 % 64
<1>1. /\ Triple(x1, x2, x3)
      /\ c[i1] = IF 3 * q >= n THEN 64 ELSE w1
      /\ c[i2] = IF 3 * q >= n THEN 64 ELSE w2
      /\ c[i3] = IF 3 * q + 1 >= n THEN 64 ELSE w3
      /\ c[i4] = IF 3 * q + 2 >= n THEN 64 ELSE w4
  <2>1. /\ x1 \in 0 .. 255 /\ x2 \in 0 .. 255 /\ x3 \in 0 .. 255
        /\ HEADER!CharacterOf(t, i1) = IF 3 * q >= Len(t) THEN 64 ELSE w1
        /\ HEADER!CharacterOf(t, i2) = IF 3 * q >= Len(t) THEN 64 ELSE w2
        /\ HEADER!CharacterOf(t, i3) = IF 3 * q + 1 >= Len(t) THEN 64 ELSE w3
        /\ HEADER!CharacterOf(t, i4) = IF 3 * q + 2 >= Len(t) THEN 64 ELSE w4
    <3>1. CharactersAt(t, q, x1, x2, x3)
      BY CharactersHere
    <3> HIDE DEF x1, x2, x3
    <3> QED BY <3>1, Zenon DEF CharactersAt
  <2>2. i1 \in 4 * q + 1 .. 4 * q + 4 /\ i2 \in 4 * q + 1 .. 4 * q + 4
        /\ i3 \in 4 * q + 1 .. 4 * q + 4 /\ i4 \in 4 * q + 1 .. 4 * q + 4
    OBVIOUS
  <2> HIDE DEF i1, i2, i3, i4, x1, x2, x3, w1, w2, w3, w4
  <2>3. c[i1] = HEADER!CharacterOf(t, i1) /\ c[i2] = HEADER!CharacterOf(t, i2)
        /\ c[i3] = HEADER!CharacterOf(t, i3) /\ c[i4] = HEADER!CharacterOf(t, i4)
    BY <2>2 DEF Written
  <2> QED BY <1>0, <2>1, <2>3, Zenon DEF Triple
<1>2. Quad(w1, w2, w3, w4) /\ FromSextets(x1, x2, x3, w1, w2, w3, w4)
  <2>1. FromBytes(w1, w2, w3, w4, x1, x2, x3)
    <3> HIDE DEF x1, x2, x3
    <3> QED BY DEF FromBytes
  <2> HIDE DEF w1, w2, w3, w4, x1, x2, x3
  <2> QED BY <1>1, <2>1, Rejoined
<1>3. (3 * q + 1 >= n => x2 = 0 /\ x3 = 0) /\ (3 * q + 2 >= n => x3 = 0)
      /\ x1 = t[3 * q + 1] /\ (3 * q + 2 <= n => x2 = t[3 * q + 2]) /\ (3 * q + 3 <= n => x3 = t[3 * q + 3])
  <2>1. n \in Int
    BY <1>00
  <2>2. ~(3 * q + 1 > n) /\ (3 * q + 1 >= n => 3 * q + 2 > n /\ 3 * q + 3 > n)
        /\ (3 * q + 2 >= n => 3 * q + 3 > n) /\ (3 * q + 2 <= n => ~(3 * q + 2 > n))
        /\ (3 * q + 3 <= n => ~(3 * q + 3 > n))
    BY <1>00
  <2> DEFINE j1 == 3 * q + 1
             j2 == 3 * q + 2
             j3 == 3 * q + 3
  <2> HIDE DEF j1, j2, j3
  <2>3. /\ x1 = (IF j1 > Len(t) THEN 0 ELSE t[j1]) /\ x2 = (IF j2 > Len(t) THEN 0 ELSE t[j2])
        /\ x3 = (IF j3 > Len(t) THEN 0 ELSE t[j3])
    BY DEF ByteAt, j1, j2, j3
  <2> QED BY <1>0, <2>2, <2>3 DEF j1, j2, j3
<1>4. (3 * q + 1 >= n => w3 = 0 /\ w4 = 0) /\ (3 * q + 2 >= n => w4 = 0)
  <2>1. 4 * (0 % 16) + (0 \div 64) = 0 /\ 0 % 64 = 0
    OBVIOUS
  <2> HIDE DEF x1, x2, x3
  <2> QED BY <1>3, <2>1
<1> HIDE DEF w1, w2, w3, w4, x1, x2, x3, i1, i2, i3, i4
<1>5. w1 \in 0 .. 63 /\ w2 \in 0 .. 63 /\ w3 \in 0 .. 63 /\ w4 \in 0 .. 63
  BY <1>2 DEF Quad
<1>6. c[i1] = w1 /\ c[i2] = w2 /\ (3 * q + 1 < n => c[i3] = w3) /\ (3 * q + 2 < n => c[i4] = w4)
      /\ (3 * q + 1 >= n => c[i3] = 64) /\ (3 * q + 2 >= n => c[i4] = 64)
  <2>1. n \in Int
    BY <1>00
  <2>2. ~(3 * q >= n) /\ (3 * q + 1 < n => ~(3 * q + 1 >= n)) /\ (3 * q + 2 < n => ~(3 * q + 2 >= n))
    BY <1>00
  <2> QED BY <1>1, <2>2
<1>7. v1 = w1 /\ v2 = w2 /\ v3 = w3 /\ v4 = w4
  <2>0. n \in Int
    BY <1>00
  <2>1. w1 # 64 /\ w2 # 64 /\ w3 # 64 /\ w4 # 64
    BY <1>5
  <2>2. v1 = w1 /\ v2 = w2
    BY <1>6, <2>1 DEF V, HEADER!Value, HEADER!Padding
  <2>3. v3 = w3
    <3>1. CASE 3 * q + 1 >= n
      BY <1>4, <1>6, <3>1 DEF V, HEADER!Value, HEADER!Padding
    <3>2. CASE 3 * q + 1 < n
      BY <1>6, <2>1, <3>2 DEF V, HEADER!Value, HEADER!Padding
    <3> QED BY <2>0, <3>1, <3>2
  <2>4. v4 = w4
    <3>1. CASE 3 * q + 2 >= n
      BY <1>4, <1>6, <3>1 DEF V, HEADER!Value, HEADER!Padding
    <3>2. CASE 3 * q + 2 < n
      BY <1>6, <2>1, <3>2 DEF V, HEADER!Value, HEADER!Padding
    <3> QED BY <2>0, <3>1, <3>2
  <2> QED BY <2>2, <2>3, <2>4
<1>8. ASSUME NEW j \in 4 * q + 1 .. 4 * q + 4
      PROVE  IF j > 4 * m - p THEN c[j] = 64 ELSE c[j] \in 0 .. 63
  <2>1. j = i1 \/ j = i2 \/ j = i3 \/ j = i4
    BY DEF i1, i2, i3, i4
  <2>2. /\ ~(i1 > 4 * m - p) /\ ~(i2 > 4 * m - p)
        /\ (i3 > 4 * m - p <=> 3 * q + 1 >= n) /\ (i4 > 4 * m - p <=> 3 * q + 2 >= n)
        /\ (~(3 * q + 1 >= n) => 3 * q + 1 < n) /\ (~(3 * q + 2 >= n) => 3 * q + 2 < n)
    BY <1>00 DEF i1, i2, i3, i4
  <2>3. CASE j = i1
    BY <1>5, <1>6, <2>2, <2>3
  <2>4. CASE j = i2
    BY <1>5, <1>6, <2>2, <2>4
  <2>5. CASE j = i3
    BY <1>5, <1>6, <2>2, <2>5
  <2>6. CASE j = i4
    BY <1>5, <1>6, <2>2, <2>6
  <2> QED BY <2>1, <2>3, <2>4, <2>5, <2>6
<1>9. ASSUME NEW d, BlockAt(d, 3 * q, c, q, Width(q, m, p)), NEW i \in 3 * q + 1 .. 3 * q + 3, i <= n
      PROVE  d[i] = t[i]
  <2> DEFINE k == Width(q, m, p)
             o == 3 * q
  <2>1. /\ d[o + 1] = 4 * v1 + (v2 \div 16)
        /\ k >= 2 => d[o + 2] = 16 * (v2 % 16) + (v3 \div 4)
        /\ k = 3 => d[o + 3] = 64 * (v3 % 4) + v4
    BY <1>9 DEF BlockAt, i1, i2, i3, i4
  <2>2. /\ x1 = 4 * w1 + (w2 \div 16) /\ x2 = 16 * (w2 % 16) + (w3 \div 4) /\ x3 = 64 * (w3 % 4) + w4
    BY <1>2 DEF FromSextets
  <2>3. d[o + 1] = x1 /\ (k >= 2 => d[o + 2] = x2) /\ (k = 3 => d[o + 3] = x3)
    <3> HIDE DEF v1, v2, v3, v4, k, o
    <3> QED BY <1>7, <2>1, <2>2
  <2>4. (i = o + 1 \/ i = o + 2 \/ i = o + 3) /\ (o + 2 <= n <=> k >= 2) /\ (o + 3 <= n <=> k = 3)
    BY <1>00, <1>9 DEF Width
  <2>5. x1 = t[o + 1] /\ (o + 2 <= n => x2 = t[o + 2]) /\ (o + 3 <= n => x3 = t[o + 3])
    BY <1>3
  <2> HIDE DEF k, o
  <2>6. CASE i = o + 1
    BY <2>3, <2>5, <2>6
  <2>7. CASE i = o + 2
    BY <1>9, <2>3, <2>4, <2>5, <2>7
  <2>8. CASE i = o + 3
    BY <1>9, <2>3, <2>4, <2>5, <2>8
  <2> QED BY <2>4, <2>6, <2>7, <2>8
<1> QED BY <1>0, <1>8, <1>9 DEF i1, i2, i3, i4, IsWritten

\* ... so that every text that is not empty comes back from its encoding.
LEMMA EncodingDecodes ==
  ASSUME NEW t \in Seq(0 .. 255), t # <<>>
  PROVE  HEADER!strict_base64_decode(HEADER!Encoding(t)) = [ok |-> TRUE, text |-> t]
<1> DEFINE n == Len(t)
           m == (n + 2) \div 3
           p == 3 * m - n
           c == HEADER!Encoding(t)
           S == 0 .. 255
<1>1. n \in Nat /\ n # 0 /\ t \in Seq(S)
  <2>1. t \in Seq(S)
    OBVIOUS
  <2> HIDE DEF S
  <2> QED BY <2>1, EmptySeq
<1>2. m \in Nat \ {0} /\ p \in 0 .. 2 /\ n = 3 * m - p
  <2> HIDE DEF n
  <2> QED BY <1>1
<1>3. c = [i \in 1 .. 4 * m |-> HEADER!CharacterOf(t, i)]
  BY DEF HEADER!Encoding
<1>4. \A i \in 1 .. 4 * m : c[i] = HEADER!CharacterOf(t, i)
  <2> HIDE DEF c, m
  <2> QED BY <1>3
<1> HIDE DEF n, m, p, c, S
<1>5. ASSUME NEW q \in 0 .. m - 1
      PROVE  IsWritten(c, t, q, m, p)
  <2>1. q \in Nat /\ 3 * q < n /\ \A j \in 4 * q + 1 .. 4 * q + 4 : j \in 1 .. 4 * m
    BY <1>2
  <2>2. Written(c, t, q)
    BY <1>4, <2>1 DEF Written
  <2>3. Sized(t, m, p) /\ q \in Nat /\ 3 * q < Len(t)
    BY <1>2, <2>1 DEF n, Sized
  <2> QED BY <2>2, <2>3, EncodedBlock
<1>6. ASSUME NEW i \in 1 .. 4 * m
      PROVE  IF i > 4 * m - p THEN c[i] = 64 ELSE c[i] \in 0 .. 63
  <2> DEFINE q == (i - 1) \div 4
  <2>1. q \in 0 .. m - 1 /\ i \in 4 * q + 1 .. 4 * q + 4
    BY <1>2
  <2> HIDE DEF q
  <2> QED BY <1>5, <2>1 DEF IsWritten
<1>7. c \in Seq(0 .. 65)
  <2>1. \A i \in 1 .. 4 * m : c[i] \in 0 .. 65
    <3>1. ASSUME NEW i \in 1 .. 4 * m PROVE c[i] \in 0 .. 65
      <4>1. c[i] = 64 \/ c[i] \in 0 .. 63
        BY <1>6
      <4> QED BY <4>1
    <3> QED BY <3>1
  <2> DEFINE f == [i \in 1 .. 4 * m |-> HEADER!CharacterOf(t, i)]
             R == 0 .. 65
             l == 4 * m
  <2>2. l \in Nat /\ c = [i \in 1 .. l |-> c[i]] /\ \A i \in 1 .. l : c[i] \in R
    BY <1>2, <1>3, <1>4, <2>1
  <2> HIDE DEF R, l
  <2>3. c \in [1 .. l -> R]
    BY <2>2
  <2>4. c \in Seq(R)
    BY <2>2, <2>3
  <2> QED BY <2>4 DEF R
<1>8. Len(c) = 4 * m
  <2> DEFINE l == 4 * m
  <2>1. l \in Nat /\ DOMAIN c = 1 .. l
    BY <1>2, <1>3
  <2> HIDE DEF l
  <2>2. c \in Seq(0 .. 65)
    BY <1>7
  <2>3. Len(c) = l
    BY <2>1, <2>2
  <2> QED BY <2>3 DEF l
<1>9. IsCoded(c, m, p)
  BY <1>2, <1>6, <1>7, <1>8 DEF IsCoded
<1> DEFINE d == HEADER!DecodeScan(c)[m]
<1>10. d \in Seq(0 .. 255) /\ Len(d) = n /\ \A q \in 0 .. m - 1 : BlockAt(d, 3 * q, c, q, Width(q, m, p))
  BY <1>2, <1>9, Decoding
<1> HIDE DEF d
<1>11. ASSUME NEW i \in 1 .. n PROVE d[i] = t[i]
  <2> DEFINE q == (i - 1) \div 3
  <2>1. q \in 0 .. m - 1 /\ i \in 3 * q + 1 .. 3 * q + 3 /\ i <= n
    BY <1>1, <1>2
  <2> HIDE DEF q
  <2> QED BY <1>5, <1>10, <2>1 DEF IsWritten, n
<1>12. d = t
  <2>1. d \in Seq(S) /\ Len(d) = Len(t) /\ \A i \in 1 .. Len(t) : d[i] = t[i]
    BY <1>10, <1>11 DEF S, n
  <2> QED BY <1>1, <2>1, SeqEqual
<1>13. HEADER!strict_base64_decode(c) = [ok |-> TRUE, text |-> d]
  BY <1>9, Accepted DEF d
<1> QED BY <1>12, <1>13 DEF c

\* What test_header_echo answers.
FirstNamed(hs) ==
  LET I == {i \in 1 .. Len(hs) : hs[i].named} IN IF I # {} THEN HEADER!Min(I) ELSE 0
VerdictOf(hs, t) ==
  IF FirstNamed(hs) = 0 THEN "missing"
  ELSE LET decoded == HEADER!decode_mcp_param_value(hs[FirstNamed(hs)].value)
       IN IF decoded.ok /\ decoded.text = t THEN "echo" ELSE "mismatch"
Verdict == VerdictOf(headers, token)

\* find_header returns the first header of the name.
LEMMA Found == HEADER!find_header = FirstNamed(headers)
BY DEF HEADER!find_header, HEADER!SelectInSeq, FirstNamed

\* A header that may be sent.
MayBeSent(h, c) ==
  \/ h = HEADER!Header(TRUE, HEADER!Wrapped(c))
  \/ h \in HEADER!OtherHeaders

HeaderInv ==
  /\ payload \in Seq(HEADER!Characters) /\ Len(payload) <= MaxPayload
  /\ DOMAIN headers = 1 .. Len(headers) /\ Len(headers) \in Nat
  /\ \A i \in DOMAIN headers : MayBeSent(headers[i], payload)
  /\ token \in Seq(0 .. 255)
  /\ echo \in {"none", "sent"} \/ echo = Verdict
  /\ echo = "none" => headers = <<>>

\* The first header of the name is found.
LEMMA FirstIsFound ==
  ASSUME NEW i \in DOMAIN headers, DOMAIN headers = 1 .. Len(headers), Len(headers) \in Nat,
         headers[i].named, \A j \in 1 .. i - 1 : ~headers[j].named
  PROVE  FirstNamed(headers) = i /\ i # 0
<1> DEFINE I == {j \in 1 .. Len(headers) : headers[j].named}
<1>1. FirstNamed(headers) = IF I # {} THEN HEADER!Min(I) ELSE 0
  BY DEF FirstNamed
<1>2. i \in I /\ \A j \in I : i <= j
  OBVIOUS
<1>3. I \subseteq Int
  OBVIOUS
<1> HIDE DEF I
<1>4. HEADER!Min(I) = i
  <2>1. \A x \in I : (\A y \in I : x <= y) => x = i
    <3> TAKE x \in I
    <3> HAVE \A y \in I : x <= y
    <3>1. x <= i /\ i <= x /\ x \in Int /\ i \in Int
      BY <1>2, <1>3
    <3> QED BY <3>1
  <2> QED BY <1>2, <2>1 DEF HEADER!Min
<1> QED BY <1>1, <1>2, <1>4

\* The characters a payload is written in.
LEMMA SextetsOf == ASSUME payload \in Seq(HEADER!Characters) PROVE payload \in Seq(0 .. 65)
<1>1. HEADER!Characters \subseteq 0 .. 65
  BY HeaderAssumption DEF HEADER!Characters, HEADER!Padding, HEADER!Foreign
<1> DEFINE S == HEADER!Characters
           R == 0 .. 65
<1> HIDE DEF S, R
<1>2. payload \in Seq(S) /\ S \subseteq R
  BY <1>1 DEF S, R
<1>3. payload \in Seq(R)
  BY <1>2
<1> QED BY <1>3 DEF R

\* What a decoder returns are bytes.
LEMMA DecodedBytes ==
  ASSUME payload \in Seq(HEADER!Characters), NEW h, MayBeSent(h, payload)
  PROVE  HEADER!decode_mcp_param_value(h.value).text \in Seq(0 .. 255)
<1>1. CASE h = HEADER!Header(TRUE, HEADER!Wrapped(payload))
  <2>1. HEADER!decode_mcp_param_value(h.value) = HEADER!strict_base64_decode(payload)
    BY <1>1 DEF HEADER!Header, HEADER!Wrapped, HEADER!decode_mcp_param_value
  <2>2. CASE HEADER!strict_base64_decode(payload).ok
    <3>1. PICK m, p : IsCoded(payload, m, p)
      BY <2>2, SextetsOf, OnlyAccepted
    <3>2. HEADER!DecodeScan(payload)[m] \in Seq(0 .. 255)
      BY <3>1, Decoding
    <3>3. HEADER!strict_base64_decode(payload).text = HEADER!DecodeScan(payload)[m]
      BY <3>1, Accepted
    <3> QED BY <2>1, <3>2, <3>3
  <2>3. CASE ~HEADER!strict_base64_decode(payload).ok
    <3>1. HEADER!strict_base64_decode(payload).text = <<>>
      BY <2>3 DEF HEADER!strict_base64_decode, HEADER!Decoded, HEADER!Refused
    <3> QED BY <2>1, <3>1
  <2> QED BY <2>2, <2>3
<1>2. CASE h \in HEADER!OtherHeaders
  <2>1. PICK text \in Literals : h.value = HEADER!Literal(text)
    BY <1>2 DEF HEADER!OtherHeaders
  <2>2. HEADER!decode_mcp_param_value(h.value).text = text
    BY <2>1 DEF HEADER!Literal, HEADER!decode_mcp_param_value, HEADER!Decoded
  <2> QED BY <2>2, HeaderAssumption
<1> QED BY <1>1, <1>2 DEF MayBeSent

\* The inductive invariant implies what the run checks.
LEMMA HeaderMeans ==
  ASSUME HeaderInv
  PROVE  HEADER!TypeOK /\ HEADER!DecodesExactly /\ HEADER!EchoesTheToken
<1>1. HEADER!TypeOK
  <2>1. \A i \in DOMAIN headers : headers[i].named \in BOOLEAN
    <3>1. ASSUME NEW h, MayBeSent(h, payload) PROVE h.named \in BOOLEAN
      <4>1. CASE h = HEADER!Header(TRUE, HEADER!Wrapped(payload))
        <5>1. h.named = TRUE
          BY <4>1 DEF HEADER!Header
        <5> QED BY <5>1
      <4>2. CASE h \in HEADER!OtherHeaders
        BY <4>2 DEF HEADER!OtherHeaders
      <4> QED BY <3>1, <4>1, <4>2 DEF MayBeSent
    <3> QED BY <3>1 DEF HeaderInv
  <2>2. \A i \in DOMAIN token : token[i] \in 0 .. 255
    <3> DEFINE S == 0 .. 255
    <3>1. token \in Seq(S)
      BY DEF HeaderInv
    <3> HIDE DEF S
    <3>2. \A i \in DOMAIN token : token[i] \in S
      BY <3>1
    <3> QED BY <3>2 DEF S
  <2>3. echo \in {"none", "sent", "echo", "missing", "mismatch"}
    BY DEF HeaderInv, Verdict, VerdictOf
  <2> QED BY <2>1, <2>2, <2>3 DEF HeaderInv, HEADER!TypeOK
<1>2. payload \in Seq(0 .. 65)
  BY SextetsOf DEF HeaderInv
<1>3. ASSUME HEADER!strict_base64_decode(payload).ok
      PROVE  /\ HEADER!IsBase64(payload)
             /\ HEADER!Encoding(HEADER!strict_base64_decode(payload).text) = HEADER!Canonical(payload)
  <2>1. PICK m, p : IsCoded(payload, m, p)
    BY <1>2, <1>3, OnlyAccepted
  <2>2. HEADER!IsBase64(payload)
    BY <1>2, <2>1, Grammar
  <2>3. HEADER!strict_base64_decode(payload).text = HEADER!DecodeScan(payload)[m]
    BY <2>1, Accepted
  <2>4. HEADER!Encoding(HEADER!DecodeScan(payload)[m]) = HEADER!Canonical(payload)
    BY <2>1, EncodedAgain
  <2> QED BY <2>2, <2>3, <2>4
<1>4. ASSUME HEADER!IsBase64(payload) PROVE HEADER!strict_base64_decode(payload).ok
  <2>1. PICK m, p : IsCoded(payload, m, p)
    BY <1>2, <1>4, Grammar
  <2> QED BY <2>1, Accepted
<1>5. HEADER!strict_base64_decode(payload).ok \in BOOLEAN
  BY DEF HEADER!strict_base64_decode, HEADER!Decoded, HEADER!Refused
<1>6. HEADER!DecodesExactly
  BY <1>3, <1>4, <1>5 DEF HEADER!DecodesExactly
<1>7. ASSUME NEW i \in DOMAIN headers,
             headers[i] = HEADER!Header(TRUE, HEADER!Wrapped(payload)),
             \A j \in 1 .. i - 1 : ~headers[j].named
      PROVE  /\ payload = HEADER!Encoding(token) /\ token # <<>> => echo \in {"sent", "echo"}
             /\ echo = "echo" => HEADER!Encoding(token) = HEADER!Canonical(payload)
  <2>1. headers[i].named /\ HEADER!decode_mcp_param_value(headers[i].value) = HEADER!strict_base64_decode(payload)
    BY <1>7 DEF HEADER!Header, HEADER!Wrapped, HEADER!decode_mcp_param_value
  <2>2. FirstNamed(headers) = i /\ i # 0
    BY <1>7, <2>1, FirstIsFound DEF HeaderInv
  <2> DEFINE decoded == HEADER!strict_base64_decode(payload)
  <2>3. Verdict = IF decoded.ok /\ decoded.text = token THEN "echo" ELSE "mismatch"
    BY <2>1, <2>2 DEF Verdict, VerdictOf
  <2>4. headers # <<>>
    OBVIOUS
  <2>5. echo = "sent" \/ echo = Verdict
    BY <2>4 DEF HeaderInv
  <2>6. ASSUME payload = HEADER!Encoding(token), token # <<>> PROVE decoded.ok /\ decoded.text = token
    <3>1. token \in Seq(0 .. 255)
      BY DEF HeaderInv
    <3>2. decoded = [ok |-> TRUE, text |-> token]
      BY <2>6, <3>1, EncodingDecodes
    <3> QED BY <3>2
  <2>7. ASSUME echo = "echo" PROVE decoded.ok /\ decoded.text = token
    BY <2>3, <2>5, <2>7
  <2> HIDE DEF decoded
  <2>8. payload = HEADER!Encoding(token) /\ token # <<>> => echo \in {"sent", "echo"}
    BY <2>3, <2>5, <2>6
  <2>9. echo = "echo" => HEADER!Encoding(token) = HEADER!Canonical(payload)
    BY <1>3, <2>7 DEF decoded
  <2> QED BY <2>8, <2>9
<1>8. HEADER!EchoesTheToken
  BY <1>7 DEF HEADER!EchoesTheToken
<1> QED BY <1>1, <1>6, <1>8

\* The first state of the header program.
LEMMA HeaderInit == HEADER!Init => HeaderInv
<1> SUFFICES ASSUME HEADER!Init PROVE HeaderInv
  OBVIOUS
<1>1. payload = <<>> /\ headers = <<>> /\ token = <<>> /\ echo = "none"
  BY DEF HEADER!Init
<1>2. MaxPayload \in Nat
  BY HeaderAssumption
<1> QED BY <1>1, <1>2 DEF HeaderInv

\* Every step of the header program keeps the invariant.
LEMMA HeaderNext ==
  ASSUME HeaderInv, HEADER!Next
  PROVE  HeaderInv'
<1>1. CASE HEADER!Write
  <2>1. PICK c \in HEADER!Characters : payload' = Append(payload, c)
    BY <1>1 DEF HEADER!Write
  <2>2. headers' = <<>> /\ token' = token /\ echo' = "none" /\ Len(payload) < MaxPayload
    BY <1>1 DEF HEADER!Write
  <2>3. payload' \in Seq(HEADER!Characters) /\ Len(payload') <= MaxPayload
    <3> DEFINE S == HEADER!Characters
    <3>1. payload \in Seq(S) /\ c \in S
      BY DEF HeaderInv
    <3> HIDE DEF S
    <3>2. Append(payload, c) \in Seq(S) /\ Len(Append(payload, c)) = Len(payload) + 1 /\ Len(payload) \in Nat
      BY <3>1
    <3>3. MaxPayload \in Nat
      BY HeaderAssumption
    <3> QED BY <2>1, <2>2, <3>2, <3>3 DEF S
  <2>4. DOMAIN headers' = {} /\ Len(headers') = 0 /\ 1 .. 0 = {}
    BY <2>2
  <2>5. (token \in Seq(0 .. 255))'
    BY <2>2 DEF HeaderInv
  <2>6. HEADER!Characters' = HEADER!Characters
    BY DEF HEADER!Characters, HEADER!Padding, HEADER!Foreign
  <2> QED BY <2>2, <2>3, <2>4, <2>5, <2>6 DEF HeaderInv
<1>2. CASE HEADER!Send
  <2> DEFINE w == HEADER!Header(TRUE, HEADER!Wrapped(payload))
  <2>1. PICK others \in {<<>>} \cup {<<other>> : other \in HEADER!OtherHeaders} :
          headers' \in {<<w>> \o others, others \o <<w>>, others}
    BY <1>2 DEF HEADER!Send
  <2>2. payload' = payload /\ echo' = "sent"
        /\ token' \in Literals \cup
               {HEADER!decode_mcp_param_value(headers'[i].value).text : i \in DOMAIN headers'}
    BY <1>2 DEF HEADER!Send
  <2>3. \E S : w \in S /\ others \in Seq(S) /\ \A h \in S : MayBeSent(h, payload)
    <3>1. CASE others = <<>>
      <4> DEFINE S == {w}
      <4>1. MayBeSent(w, payload)
        BY DEF MayBeSent
      <4> HIDE DEF w
      <4>2. w \in S /\ \A h \in S : MayBeSent(h, payload)
        BY <4>1
      <4> HIDE DEF S
      <4>3. others \in Seq(S)
        BY <3>1
      <4> QED BY <4>2, <4>3
    <3>2. ASSUME NEW x \in HEADER!OtherHeaders, others = <<x>>
          PROVE  \E S : w \in S /\ others \in Seq(S) /\ \A h \in S : MayBeSent(h, payload)
      <4> DEFINE S == {w, x}
      <4>1. MayBeSent(w, payload)
        BY DEF MayBeSent
      <4>2. MayBeSent(x, payload)
        BY DEF MayBeSent
      <4>3. others = <<x>>
        BY <3>2
      <4> HIDE DEF w
      <4>4. w \in S /\ x \in S /\ \A h \in S : MayBeSent(h, payload)
        BY <4>1, <4>2
      <4> HIDE DEF S
      <4>5. others \in Seq(S)
        BY <4>3, <4>4
      <4> QED BY <4>4, <4>5
    <3>3. others = <<>> \/ \E x \in HEADER!OtherHeaders : others = <<x>>
      BY <2>1
    <3> QED BY <3>1, <3>2, <3>3
  <2> HIDE DEF w
  <2>4. PICK S : w \in S /\ others \in Seq(S) /\ \A h \in S : MayBeSent(h, payload)
    BY <2>3
  <2>5. \A h \in S : MayBeSent(h, payload)
    BY <2>4
  <2>6. headers' \in Seq(S)
    <3>1. <<w>> \in Seq(S)
      BY <2>4
    <3>2. <<w>> \o others \in Seq(S) /\ others \o <<w>> \in Seq(S)
      BY <2>4, <3>1, ConcatProperties
    <3> QED BY <2>1, <2>4, <3>2
  <2>7. DOMAIN headers' = 1 .. Len(headers') /\ Len(headers') \in Nat
        /\ \A i \in DOMAIN headers' : headers'[i] \in S
    BY <2>6
  <2>8. \A i \in DOMAIN headers' : MayBeSent(headers'[i], payload)
    BY <2>5, <2>7
  <2>9. token' \in Seq(0 .. 255)
    <3>1. payload \in Seq(HEADER!Characters)
      BY DEF HeaderInv
    <3>2. \A i \in DOMAIN headers' : HEADER!decode_mcp_param_value(headers'[i].value).text \in Seq(0 .. 255)
      BY <2>8, <3>1, DecodedBytes
    <3> QED BY <2>2, <3>2, HeaderAssumption
  <2>10. (\A i \in DOMAIN headers : MayBeSent(headers[i], payload))'
    BY <2>2, <2>8 DEF MayBeSent, HEADER!Header, HEADER!Wrapped, HEADER!Literal, HEADER!OtherHeaders
  <2>11. (payload \in Seq(HEADER!Characters) /\ Len(payload) <= MaxPayload)'
    BY <2>2 DEF HeaderInv, HEADER!Characters, HEADER!Padding, HEADER!Foreign
  <2>12. (token \in Seq(0 .. 255))'
    BY <2>9
  <2> QED BY <2>2, <2>7, <2>10, <2>11, <2>12 DEF HeaderInv
<1>3. CASE HEADER!test_header_echo
  <2>1. payload' = payload /\ headers' = headers /\ token' = token /\ echo = "sent"
    BY <1>3 DEF HEADER!test_header_echo
  <2>2. echo' = Verdict
    BY <1>3, Found DEF HEADER!test_header_echo, Verdict, VerdictOf
  <2>3. Verdict' = Verdict
    BY <2>1 DEF Verdict
  <2>4. echo' # "none"
    BY <2>2 DEF Verdict, VerdictOf
  <2>5. (\A i \in DOMAIN headers : MayBeSent(headers[i], payload))'
    BY <2>1 DEF HeaderInv, MayBeSent
  <2>6. (payload \in Seq(HEADER!Characters) /\ Len(payload) <= MaxPayload)'
    BY <2>1 DEF HeaderInv, HEADER!Characters, HEADER!Padding, HEADER!Foreign
  <2>7. (DOMAIN headers = 1 .. Len(headers) /\ Len(headers) \in Nat /\ token \in Seq(0 .. 255))'
    BY <2>1 DEF HeaderInv
  <2> QED BY <2>2, <2>3, <2>4, <2>5, <2>6, <2>7 DEF HeaderInv
<1> QED BY <1>1, <1>2, <1>3 DEF HEADER!Next

\* Whatever the payload: what is decoded are the payloads of the alphabet and the
\* padding of RFC 4648, each to the bytes whose encoding it is but for the bits
\* behind the last byte, which may be any (the RFC wants zeros); and who sends the
\* token is echoed it (decode_mcp_param_value).
THEOREM HeadersAlways == DataSpec => []HeadersAreDecoded
<1>1. DataInit => HeaderInv
  BY HeaderInit DEF DataInit
<1>2. HeaderInv /\ [DataNext]_dataVars => HeaderInv'
  <2> SUFFICES ASSUME HeaderInv, [DataNext]_dataVars PROVE HeaderInv'
    OBVIOUS
  <2>1. CASE HeaderStep
    BY <2>1, HeaderNext DEF HeaderStep
  <2>2. CASE UNCHANGED headerVars
    <3>1. payload' = payload /\ headers' = headers /\ token' = token /\ echo' = echo
      BY <2>2 DEF headerVars
    <3>2. Verdict' = Verdict
      BY <3>1 DEF Verdict
    <3>3. (\A i \in DOMAIN headers : MayBeSent(headers[i], payload))'
      BY <3>1 DEF HeaderInv, MayBeSent
    <3>4. (payload \in Seq(HEADER!Characters) /\ Len(payload) <= MaxPayload)'
      BY <3>1 DEF HeaderInv, HEADER!Characters, HEADER!Padding, HEADER!Foreign
    <3> QED BY <3>1, <3>2, <3>3, <3>4 DEF HeaderInv
  <2>3. HeaderStep \/ UNCHANGED headerVars
    BY DEF DataNext, FileStep, HashStep, dataVars
  <2> QED BY <2>1, <2>2, <2>3
<1>3. HeaderInv => HeadersAreDecoded
  BY HeaderMeans DEF HeadersAreDecoded
<1> QED BY <1>1, <1>2, <1>3, PTL DEF DataSpec, dataVars

-----------------------------------------------------------------------------
(* Sha256 hashes the padded message whatever its length and for any size of *)
(* the block: bytes are added one by one, so the invariant says of every    *)
(* byte that was put where it belongs.                                      *)

\* The byte of a number is a byte.
LEMMA ByteIsByte ==
  ASSUME NEW number \in Nat, NEW i \in Nat
  PROVE  Byte(number, i) \in 0 .. 255
<1>1. CASE i > 3
  BY <1>1 DEF Byte
<1>2. CASE i \in 0 .. 3
  <2>1. Powers[i + 1] \in Nat \ {0}
    BY <1>2 DEF Powers
  <2>2. number \div Powers[i + 1] \in Int
    BY <2>1
  <2>3. (number \div Powers[i + 1]) % 256 \in 0 .. 255
    BY <2>2
  <2> QED BY <1>2, <2>3 DEF Byte
<1> QED BY <1>1, <1>2

\* The bytes of the data and of the padding.
LEMMA DataIsByte ==
  ASSUME NEW i \in Nat
  PROVE  Data(i) \in Bytes
<1>1. <<"data", i>> \in {"data"} \X Nat
  OBVIOUS
<1> QED BY <1>1, Zenon DEF Data, Bytes

LEMMA PadIsByte ==
  ASSUME NEW i \in 0 .. 255
  PROVE  Pad(i) \in Bytes
<1>1. <<"pad", i>> \in {"pad"} \X (0 .. 255)
  OBVIOUS
<1> QED BY <1>1, Zenon DEF Pad, Bytes

\* A whole number of blocks and one more.
LEMMA WholeNext ==
  ASSUME NEW n \in Nat, Whole(n)
  PROVE  Whole(n + Block)
<1>1. PICK blocks \in 0 .. n : n = blocks * Block
  BY DEF Whole
<1>2. n + Block = (blocks + 1) * Block
  BY <1>1, Sha256Assumption DEF Sha256Assumption
<1>3. blocks + 1 \in 0 .. n + Block
  BY <1>1, Sha256Assumption DEF Sha256Assumption
<1> QED BY <1>2, <1>3 DEF Whole

\* What is put behind the buffer, and what was put before stays.
LEMMA PutNext ==
  ASSUME TypeOK, NEW byte \in Bytes, UNCHANGED hashed,
         buffer' = Append(buffer, byte)
  PROVE  /\ buffer' \in Seq(Bytes) /\ Len(buffer') = Len(buffer) + 1
         /\ Position \in Nat /\ Position' = Position + 1
         /\ Put(Position)' = byte
         /\ \A k \in 1 .. Position : Put(k)' = Put(k)
<1>1. buffer \in Seq(Bytes) /\ hashed \in Seq(Bytes)
  BY DEF TypeOK
<1>2. buffer' \in Seq(Bytes) /\ Len(buffer') = Len(buffer) + 1
  BY <1>1
<1>3. Position \in Nat /\ Position' = Position + 1
  BY <1>1, <1>2 DEF Position
<1>4. Put(Position)' = byte
  BY <1>1, <1>2 DEF Position, Put
<1>5. ASSUME NEW k \in 1 .. Position
      PROVE  Put(k)' = Put(k)
  BY <1>1, <1>2 DEF Position, Put
<1> QED BY <1>2, <1>3, <1>4, <1>5

\* The buffer is transformed: every byte keeps its place.
LEMMA Transform ==
  ASSUME TypeOK, hashed' = hashed \o buffer
  PROVE  /\ hashed' \in Seq(Bytes) /\ Len(hashed') = Len(hashed) + Len(buffer)
         /\ \A k \in 1 .. Position : hashed'[k] = Put(k)
<1>1. buffer \in Seq(Bytes) /\ hashed \in Seq(Bytes)
  BY DEF TypeOK
<1>2. hashed' \in Seq(Bytes) /\ Len(hashed') = Len(hashed) + Len(buffer)
  BY <1>1
<1>3. ASSUME NEW k \in 1 .. Position
      PROVE  hashed'[k] = Put(k)
  BY <1>1 DEF Position, Put
<1> QED BY <1>2, <1>3

\* A buffer that was emptied holds nothing.
LEMMA Emptied ==
  ASSUME hashed' \in Seq(Bytes), buffer' = <<>>
  PROVE  /\ Len(buffer') = 0 /\ Position' = Len(hashed')
         /\ \A k \in 1 .. Position' : Put(k)' = hashed'[k]
<1>1. Len(buffer') = 0
  OBVIOUS
<1>2. Position' = Len(hashed')
  BY <1>1 DEF Position
<1> QED BY <1>1, <1>2 DEF Put

LEMMA Starts == Init => IInv
<1> SUFFICES ASSUME Init PROVE IInv
  OBVIOUS
<1>1. TypeOK
  BY Sha256Assumption DEF Init, TypeOK, Sha256Assumption
<1>2. Whole(Len(hashed))
  <2>1. Len(hashed) = 0
    BY DEF Init
  <2>2. 0 = 0 * Block
    BY Sha256Assumption DEF Sha256Assumption
  <2> QED BY <2>1, <2>2 DEF Whole
<1>3. BuffersTheData
  BY DEF Init, BuffersTheData, Position
<1>4. PadsTheMessage
  BY DEF Init, PadsTheMessage
<1> QED BY <1>1, <1>2, <1>3, <1>4 DEF IInv

LEMMA Updates ==
  ASSUME IInv, UpdateByte
  PROVE  IInv'
<1> DEFINE byte == Data(length + 1)
<1> DEFINE filled == Append(buffer, byte)
<1>0. Block \in Nat /\ LengthAt \in Nat /\ 0 < LengthAt /\ LengthAt < Block
  BY Sha256Assumption DEF Sha256Assumption
<1>1. /\ pc = "update" /\ pc' = "update" /\ length' = length + 1
      /\ UNCHANGED <<bits, left>>
  BY DEF UpdateByte
<1>2. /\ TypeOK /\ Whole(Len(hashed)) /\ length \in Nat /\ bit_length \in Nat
      /\ bits \in Nat /\ left \in Nat
      /\ buffer \in Seq(Bytes) /\ hashed \in Seq(Bytes) /\ Len(buffer) < Block
  BY <1>1 DEF IInv, TypeOK
<1>3. /\ Position = length /\ bit_length = 8 * Len(hashed)
      /\ \A k \in 1 .. Position : Put(k) = Data(k)
  BY <1>1 DEF IInv, BuffersTheData
<1>4. byte \in Bytes
  BY <1>2, DataIsByte
<1>5. filled \in Seq(Bytes) /\ Len(filled) = Len(buffer) + 1
  BY <1>2, <1>4
<1>6. PadsTheMessage'
  BY <1>1 DEF PadsTheMessage
<1>7. CASE Len(filled) # Block
  <2>1. buffer' = filled /\ UNCHANGED <<hashed, bit_length>>
    BY <1>7 DEF UpdateByte
  <2>2. /\ buffer' \in Seq(Bytes) /\ Len(buffer') = Len(buffer) + 1
        /\ Position \in Nat /\ Position' = Position + 1
        /\ Put(Position)' = byte
        /\ \A k \in 1 .. Position : Put(k)' = Put(k)
    BY <1>2, <1>4, <2>1, PutNext
  <2>3. TypeOK'
    BY <1>0, <1>1, <1>2, <1>5, <1>7, <2>1, <2>2 DEF TypeOK
  <2>4. ASSUME NEW k \in 1 .. Position'
        PROVE  Put(k)' = Data(k)
    <3>1. CASE k = Position + 1
      BY <3>1, <1>1, <1>3, <2>2
    <3>2. CASE k \in 1 .. Position
      BY <3>2, <1>3, <2>2
    <3> QED BY <2>2, <3>1, <3>2
  <2>5. BuffersTheData'
    BY <1>1, <1>3, <2>1, <2>2, <2>4 DEF BuffersTheData
  <2>6. Whole(Len(hashed))'
    BY <1>2, <2>1 DEF Whole
  <2> QED BY <1>6, <2>3, <2>5, <2>6 DEF IInv
<1>8. CASE Len(filled) = Block
  <2>1. /\ hashed' = hashed \o filled /\ buffer' = <<>>
        /\ bit_length' = bit_length + 8 * Block
    BY <1>8 DEF UpdateByte
  <2>2. hashed' \in Seq(Bytes) /\ Len(hashed') = Len(hashed) + Block
    BY <1>2, <1>5, <1>8, <2>1
  <2>3. /\ Len(buffer') = 0 /\ Position' = Len(hashed')
        /\ \A k \in 1 .. Position' : Put(k)' = hashed'[k]
    BY <2>1, <2>2, Emptied
  <2>4. TypeOK'
    BY <1>0, <1>1, <1>2, <2>1, <2>2, <2>3 DEF TypeOK
  <2>5. Whole(Len(hashed)')
    BY <1>2, <2>2, WholeNext
  <2>6. /\ Len(hashed) \in Nat /\ Len(buffer) \in Nat /\ Block = Len(buffer) + 1
        /\ Len(hashed) + Len(buffer) = length
    BY <1>2, <1>3, <1>5, <1>8 DEF Position
  <2>7. Position' = length + 1
    BY <2>2, <2>3, <2>6
  <2>8. ASSUME NEW k \in 1 .. Position'
        PROVE  Put(k)' = Data(k)
    <3>1. CASE k <= Len(hashed)
      <4>1. Put(k) = hashed[k] /\ k \in 1 .. Position /\ hashed'[k] = hashed[k]
        BY <3>1, <1>2, <1>5, <2>1, <2>6, <2>7 DEF Put, Position
      <4> QED BY <4>1, <1>3, <2>3
    <3>2. CASE k = length + 1
      <4>1. hashed'[k] = filled[Len(filled)]
        BY <3>2, <1>2, <1>5, <2>1, <2>6
      <4>2. filled[Len(filled)] = byte
        BY <1>2, <1>4
      <4> QED BY <3>2, <4>1, <4>2, <2>3
    <3>3. CASE k > Len(hashed) /\ k <= length
      <4>1. k - Len(hashed) \in 1 .. Len(buffer)
        BY <3>3, <1>2, <2>6, <2>7
      <4>2. hashed'[k] = buffer[k - Len(hashed)]
        BY <3>3, <4>1, <1>2, <1>4, <2>1
      <4>3. Put(k) = buffer[k - Len(hashed)] /\ k \in 1 .. Position
        BY <3>3, <4>1, <1>2, <1>3 DEF Put
      <4> QED BY <4>2, <4>3, <1>3, <2>3
    <3> QED BY <1>2, <2>7, <3>1, <3>2, <3>3
  <2>9. bit_length' = 8 * Len(hashed')
    BY <1>0, <1>3, <2>1, <2>2, <2>6
  <2>10. BuffersTheData'
    BY <1>1, <2>7, <2>8, <2>9 DEF BuffersTheData
  <2> QED BY <1>6, <2>4, <2>5, <2>10 DEF IInv
<1> QED BY <1>7, <1>8

\* 0x80 follows the data, and the total is known: in this block if the length
\* fits behind it, in the next one if it does not.
LEMMA Finishes ==
  ASSUME IInv, Finish
  PROVE  IInv'
<1>0. /\ Block \in Nat /\ LengthAt \in Nat /\ 0 < LengthAt /\ LengthAt < Block
      /\ LengthBytes = Block - LengthAt
  BY Sha256Assumption DEF Sha256Assumption, LengthBytes
<1>1. /\ pc = "update" /\ buffer' = Append(buffer, Pad(128))
      /\ bits' = bit_length + 8 * Len(buffer)
      /\ UNCHANGED <<length, bit_length, left, hashed>>
      /\ pc' = IF Len(buffer') > LengthAt THEN "fill" ELSE "pad"
  BY DEF Finish
<1>2. /\ TypeOK /\ Whole(Len(hashed)) /\ length \in Nat /\ bit_length \in Nat
      /\ left \in Nat /\ buffer \in Seq(Bytes) /\ hashed \in Seq(Bytes)
      /\ Len(buffer) \in Nat /\ Len(hashed) \in Nat /\ Len(buffer) < Block
  BY <1>1 DEF IInv, TypeOK
<1>3. /\ Position = length /\ bit_length = 8 * Len(hashed)
      /\ Len(hashed) + Len(buffer) = length
      /\ \A k \in 1 .. Position : Put(k) = Data(k)
  BY <1>1 DEF IInv, BuffersTheData, Position
<1>4. /\ buffer' \in Seq(Bytes) /\ Len(buffer') = Len(buffer) + 1
      /\ Position' = length + 1 /\ Put(Position)' = Pad(128)
      /\ \A k \in 1 .. Position : Put(k)' = Put(k)
  <2>1. Pad(128) \in Bytes
    BY PadIsByte
  <2>2. /\ buffer' \in Seq(Bytes) /\ Len(buffer') = Len(buffer) + 1
        /\ Position \in Nat /\ Position' = Position + 1
        /\ Put(Position)' = Pad(128)
        /\ \A k \in 1 .. Position : Put(k)' = Put(k)
    BY <1>1, <1>2, <2>1, PutNext
  <2> QED BY <1>3, <2>2
<1>5. bits' = 8 * length'
  <2>1. bits' = 8 * Len(hashed) + 8 * Len(buffer)
    BY <1>1, <1>3
  <2>2. length' = Len(hashed) + Len(buffer)
    BY <1>1, <1>3
  <2> QED BY <2>1, <2>2, <1>2
<1>6. TypeOK'
  BY <1>0, <1>1, <1>2, <1>4, <1>5 DEF TypeOK
<1>7. Whole(Len(hashed))'
  BY <1>1, <1>2 DEF Whole
<1>8. BuffersTheData'
  BY <1>1 DEF BuffersTheData
<1>9. Total' - (length' + 1 + LengthBytes) \in 0 .. Block - 1
  <2>1. CASE Len(buffer) + 1 > LengthAt
    <3>1. Total' = Len(hashed) + 2 * Block
      BY <2>1, <1>1, <1>4 DEF Total
    <3> QED BY <2>1, <3>1, <1>0, <1>1, <1>2, <1>3
  <2>2. CASE ~(Len(buffer) + 1 > LengthAt)
    <3>1. Total' = Len(hashed) + Block
      BY <2>2, <1>1, <1>4 DEF Total
    <3> QED BY <2>2, <3>1, <1>0, <1>1, <1>2, <1>3
  <2> QED BY <2>1, <2>2
<1>10. ASSUME NEW k \in 1 .. Position'
       PROVE  Put(k)' = PaddedByte(k, length', Total')
  <2>1. CASE k <= length
    BY <2>1, <1>1, <1>2, <1>3, <1>4 DEF PaddedByte
  <2>2. CASE k = length + 1
    BY <2>2, <1>1, <1>2, <1>4 DEF PaddedByte
  <2> QED BY <2>1, <2>2, <1>2, <1>4
<1>11. pc' = "fill" => length' + LengthBytes >= Len(hashed') + Block
  BY <1>0, <1>1, <1>2, <1>3, <1>4
<1>12. PadsTheMessage'
  <2>1. pc' \in {"fill", "pad"} /\ length' < Position'
    BY <1>1, <1>2, <1>4
  <2> QED BY <2>1, <1>5, <1>9, <1>10, <1>11 DEF PadsTheMessage
<1> QED BY <1>6, <1>7, <1>8, <1>12 DEF IInv

\* A byte of the padding is put where it belongs.
LEMMA PadsOne ==
  ASSUME IInv, pc \in {"fill", "pad", "length"}, NEW byte \in Bytes,
         buffer' = Append(buffer, byte), Len(buffer) < Block,
         UNCHANGED <<pc, length, bit_length, bits, hashed>>,
         byte = PaddedByte(Position + 1, length, Total),
         TypeOK'
  PROVE  IInv'
<1>1. /\ TypeOK /\ Whole(Len(hashed)) /\ length \in Nat
      /\ bits = 8 * length
      /\ Total - (length + 1 + LengthBytes) \in 0 .. Block - 1
      /\ pc \in {"fill", "pad"} => length < Position
      /\ pc = "fill" => length + LengthBytes >= Len(hashed) + Block
      /\ \A k \in 1 .. Position : Put(k) = PaddedByte(k, length, Total)
  BY DEF IInv, TypeOK, PadsTheMessage
<1>2. /\ buffer' \in Seq(Bytes) /\ Position \in Nat
      /\ Position' = Position + 1 /\ Put(Position)' = byte
      /\ \A k \in 1 .. Position : Put(k)' = Put(k)
  BY <1>1, PutNext
<1>3. Total' = Total
  BY DEF Total
<1>4. ASSUME NEW k \in 1 .. Position'
      PROVE  Put(k)' = PaddedByte(k, length', Total')
  <2>1. CASE k \in 1 .. Position
    <3>1. Put(k)' = PaddedByte(k, length, Total)
      BY <2>1, <1>1, <1>2
    <3> QED BY <3>1, <1>3
  <2>2. CASE k = Position + 1
    BY <2>2, <1>2, <1>3
  <2> QED BY <2>1, <2>2, <1>2
<1>5. Whole(Len(hashed))' /\ BuffersTheData'
  BY <1>1 DEF Whole, BuffersTheData
<1>6. LengthBytes' = LengthBytes
  BY DEF LengthBytes
<1>7. PadsTheMessage'
  <2>1. (pc \in {"fill", "pad"} => length < Position)'
    BY <1>1, <1>2
  <2> QED BY <1>1, <1>3, <1>4, <1>6, <2>1 DEF PadsTheMessage
<1> QED BY <1>5, <1>7 DEF IInv

LEMMA Fills ==
  ASSUME IInv, Fill
  PROVE  IInv'
<1>0. /\ Block \in Nat /\ LengthAt \in Nat /\ 0 < LengthAt /\ LengthAt < Block
      /\ LengthBytes = Block - LengthAt
  BY Sha256Assumption DEF Sha256Assumption, LengthBytes
<1>1. pc = "fill" /\ UNCHANGED <<length, bit_length, bits, left>>
  BY DEF Fill
<1>2. /\ TypeOK /\ Whole(Len(hashed)) /\ length \in Nat /\ bit_length \in Nat
      /\ bits \in Nat /\ left \in Nat
      /\ buffer \in Seq(Bytes) /\ hashed \in Seq(Bytes)
      /\ Len(buffer) \in Nat /\ Len(hashed) \in Nat /\ Len(buffer) <= Block
  BY <1>1 DEF IInv, TypeOK
<1>3. /\ bits = 8 * length
      /\ Total - (length + 1 + LengthBytes) \in 0 .. Block - 1
      /\ length < Position
      /\ length + LengthBytes >= Len(hashed) + Block
      /\ \A k \in 1 .. Position : Put(k) = PaddedByte(k, length, Total)
  BY <1>1 DEF IInv, PadsTheMessage
<1>4. Total = Len(hashed) + 2 * Block /\ Position = Len(hashed) + Len(buffer)
  BY <1>1 DEF Total, Position
<1>5. CASE Len(buffer) < Block
  <2>1. buffer' = Append(buffer, Pad(0)) /\ UNCHANGED <<pc, hashed>>
    BY <1>5 DEF Fill
  <2>2. Pad(0) \in Bytes
    BY PadIsByte
  <2>3. Pad(0) = PaddedByte(Position + 1, length, Total)
    <3>1. Position + 1 > length + 1 /\ Position + 1 <= Total - LengthBytes
      BY <1>0, <1>2, <1>3, <1>4, <1>5
    <3>2. Position \in Nat
      BY <1>2, <1>4
    <3> QED BY <3>1, <3>2, <1>2 DEF PaddedByte
  <2>4. buffer' \in Seq(Bytes) /\ Len(buffer') = Len(buffer) + 1
    BY <1>2, <2>1, <2>2
  <2>5. TypeOK'
    BY <1>0, <1>1, <1>2, <1>5, <2>1, <2>4 DEF TypeOK
  <2> QED BY <1>1, <1>5, <2>1, <2>2, <2>3, <2>5, PadsOne
<1>6. CASE ~(Len(buffer) < Block)
  <2>1. hashed' = hashed \o buffer /\ buffer' = <<>> /\ pc' = "pad"
    BY <1>6 DEF Fill
  <2>2. /\ hashed' \in Seq(Bytes) /\ Len(hashed') = Len(hashed) + Len(buffer)
        /\ \A k \in 1 .. Position : hashed'[k] = Put(k)
    BY <1>2, <2>1, Transform
  <2>3. /\ Len(buffer') = 0 /\ Position' = Len(hashed')
        /\ \A k \in 1 .. Position' : Put(k)' = hashed'[k]
    BY <2>1, <2>2, Emptied
  <2>4. Len(hashed') = Len(hashed) + Block
    BY <1>0, <1>2, <1>6, <2>2
  <2>5. TypeOK'
    BY <1>0, <1>1, <1>2, <2>1, <2>2, <2>3 DEF TypeOK
  <2>6. Whole(Len(hashed)')
    BY <1>2, <2>4, WholeNext
  <2>7. Total' = Total
    <3>1. Total' = Len(hashed') + Block
      BY <2>1 DEF Total
    <3> QED BY <3>1, <1>0, <1>2, <1>4, <2>4
  <2>8. Position' = Position
    BY <1>4, <2>2, <2>3
  <2>9. ASSUME NEW k \in 1 .. Position'
        PROVE  Put(k)' = PaddedByte(k, length', Total')
    <3>1. Put(k)' = PaddedByte(k, length, Total)
      BY <1>3, <2>2, <2>3, <2>8
    <3> QED BY <3>1, <1>1, <2>7
  <2>10. BuffersTheData'
    BY <2>1 DEF BuffersTheData
  <2>11. LengthBytes' = LengthBytes
    BY DEF LengthBytes
  <2>12. PadsTheMessage'
    BY <1>1, <1>3, <2>1, <2>7, <2>8, <2>9, <2>11 DEF PadsTheMessage
  <2> QED BY <2>5, <2>6, <2>10, <2>12 DEF IInv
<1> QED BY <1>5, <1>6

LEMMA Zeros ==
  ASSUME IInv, PadZeros
  PROVE  IInv'
<1>0. /\ Block \in Nat /\ LengthAt \in Nat /\ 0 < LengthAt /\ LengthAt < Block
      /\ LengthBytes = Block - LengthAt
  BY Sha256Assumption DEF Sha256Assumption, LengthBytes
<1>1. pc = "pad" /\ UNCHANGED <<length, bit_length, bits, hashed>>
  BY DEF PadZeros
<1>2. /\ TypeOK /\ Whole(Len(hashed)) /\ length \in Nat /\ bit_length \in Nat
      /\ bits \in Nat /\ left \in Nat
      /\ buffer \in Seq(Bytes) /\ hashed \in Seq(Bytes)
      /\ Len(buffer) \in Nat /\ Len(hashed) \in Nat /\ Len(buffer) <= LengthAt
  BY <1>1 DEF IInv, TypeOK
<1>3. /\ bits = 8 * length
      /\ Total - (length + 1 + LengthBytes) \in 0 .. Block - 1
      /\ length < Position
      /\ \A k \in 1 .. Position : Put(k) = PaddedByte(k, length, Total)
  BY <1>1 DEF IInv, PadsTheMessage
<1>4. Total = Len(hashed) + Block /\ Position = Len(hashed) + Len(buffer)
  BY <1>1 DEF Total, Position
<1>5. CASE Len(buffer) < LengthAt
  <2>1. buffer' = Append(buffer, Pad(0)) /\ UNCHANGED <<pc, left>>
    BY <1>5 DEF PadZeros
  <2>2. Pad(0) \in Bytes
    BY PadIsByte
  <2>3. Pad(0) = PaddedByte(Position + 1, length, Total)
    <3>1. Position + 1 > length + 1 /\ Position + 1 <= Total - LengthBytes
      BY <1>0, <1>2, <1>3, <1>4, <1>5
    <3>2. Position \in Nat
      BY <1>2, <1>4
    <3> QED BY <3>1, <3>2, <1>2 DEF PaddedByte
  <2>4. buffer' \in Seq(Bytes) /\ Len(buffer') = Len(buffer) + 1
    BY <1>2, <2>1, <2>2
  <2>5. TypeOK'
    BY <1>0, <1>1, <1>2, <1>5, <2>1, <2>4 DEF TypeOK
  <2>6. Len(buffer) < Block
    BY <1>0, <1>2, <1>5
  <2> QED BY <1>1, <2>1, <2>2, <2>3, <2>5, <2>6, PadsOne
<1>6. CASE ~(Len(buffer) < LengthAt)
  <2>1. pc' = "length" /\ left' = Block - LengthAt /\ UNCHANGED buffer
    BY <1>6 DEF PadZeros
  <2>2. TypeOK'
    BY <1>0, <1>1, <1>2, <1>6, <2>1 DEF TypeOK, LengthBytes
  <2>3. Total' = Total /\ Position' = Position /\ LengthBytes' = LengthBytes
    BY <1>1, <2>1 DEF Total, Position, LengthBytes
  <2>4. ASSUME NEW k \in 1 .. Position'
        PROVE  Put(k)' = PaddedByte(k, length', Total')
    <3>1. Put(k)' = Put(k)
      BY <1>1, <2>1 DEF Put
    <3> QED BY <3>1, <1>1, <1>3, <2>3
  <2>5. Whole(Len(hashed))' /\ BuffersTheData'
    BY <1>1, <1>2, <2>1 DEF Whole, BuffersTheData
  <2>6. PadsTheMessage'
    BY <1>1, <1>3, <2>1, <2>3, <2>4 DEF PadsTheMessage
  <2> QED BY <2>2, <2>5, <2>6 DEF IInv
<1> QED BY <1>5, <1>6

LEMMA PutsLength ==
  ASSUME IInv, PutLength
  PROVE  IInv'
<1>0. /\ Block \in Nat /\ LengthAt \in Nat /\ 0 < LengthAt /\ LengthAt < Block
      /\ LengthBytes = Block - LengthAt
  BY Sha256Assumption DEF Sha256Assumption, LengthBytes
<1>1. pc = "length" /\ UNCHANGED <<length, bit_length, bits>>
  BY DEF PutLength
<1>2. /\ TypeOK /\ Whole(Len(hashed)) /\ length \in Nat /\ bit_length \in Nat
      /\ bits \in Nat /\ left \in Nat
      /\ buffer \in Seq(Bytes) /\ hashed \in Seq(Bytes)
      /\ Len(buffer) \in Nat /\ Len(hashed) \in Nat
      /\ Len(buffer) + left = Block /\ left <= LengthBytes
  BY <1>1 DEF IInv, TypeOK
<1>3. /\ bits = 8 * length
      /\ Total - (length + 1 + LengthBytes) \in 0 .. Block - 1
      /\ \A k \in 1 .. Position : Put(k) = PaddedByte(k, length, Total)
  BY <1>1 DEF IInv, PadsTheMessage
<1>4. Total = Len(hashed) + Block /\ Position = Len(hashed) + Len(buffer)
  BY <1>1 DEF Total, Position
<1>5. CASE left > 0
  <2> DEFINE byte == Pad(Byte(bits, left - 1))
  <2>1. /\ buffer' = Append(buffer, byte) /\ left' = left - 1
        /\ UNCHANGED <<pc, hashed>>
    BY <1>5 DEF PutLength
  <2>2. byte \in Bytes
    <3>1. left - 1 \in Nat
      BY <1>2, <1>5
    <3>2. Byte(bits, left - 1) \in 0 .. 255
      BY <3>1, <1>2, ByteIsByte
    <3> QED BY <3>2, PadIsByte
  <2>3. byte = PaddedByte(Position + 1, length, Total)
    <3>1. left - 1 = Total - (Position + 1)
      BY <1>0, <1>2, <1>4
    <3>2. Position + 1 > length + 1 /\ ~(Position + 1 <= Total - LengthBytes)
      BY <1>0, <1>2, <1>3, <1>4
    <3>3. Position \in Nat /\ Total \in Nat
      BY <1>0, <1>2, <1>4
    <3>4. PaddedByte(Position + 1, length, Total)
            = Pad(Byte(8 * length, Total - (Position + 1)))
      BY <1>2, <3>2, <3>3 DEF PaddedByte
    <3> QED BY <1>3, <3>1, <3>4
  <2>4. buffer' \in Seq(Bytes) /\ Len(buffer') = Len(buffer) + 1
    BY <1>2, <2>1, <2>2
  <2>5. TypeOK'
    <3>1. /\ Len(buffer') + left' = Block /\ left' <= LengthBytes'
          /\ left' \in Nat /\ Len(buffer') <= Block
      <4>1. left' = left - 1 /\ LengthBytes' = LengthBytes
        BY <2>1 DEF LengthBytes
      <4> QED BY <4>1, <1>0, <1>2, <1>5, <2>4
    <3>2. pc' = "length" /\ length' \in Nat /\ bit_length' \in Nat /\ bits' \in Nat
          /\ hashed' \in Seq(Bytes)
      BY <1>1, <1>2, <2>1
    <3> QED BY <2>4, <3>1, <3>2 DEF TypeOK
  <2>6. Len(buffer) < Block
    BY <1>0, <1>2, <1>5
  <2> QED BY <1>1, <2>1, <2>2, <2>3, <2>5, <2>6, PadsOne
<1>6. CASE ~(left > 0)
  <2>1. hashed' = hashed \o buffer /\ pc' = "done" /\ UNCHANGED <<buffer, left>>
    BY <1>6 DEF PutLength
  <2>2. /\ hashed' \in Seq(Bytes) /\ Len(hashed') = Len(hashed) + Len(buffer)
        /\ \A k \in 1 .. Position : hashed'[k] = Put(k)
    BY <1>2, <2>1, Transform
  <2>3. Len(hashed') = Len(hashed) + Block
    <3>1. Len(buffer) = Block
      BY <1>0, <1>2, <1>6
    <3> QED BY <2>2, <3>1
  <2>4. TypeOK'
    BY <1>0, <1>1, <1>2, <2>1, <2>2 DEF TypeOK
  <2>5. Whole(Len(hashed)')
    BY <1>2, <2>3, WholeNext
  <2>6. Total' = Total /\ LengthBytes' = LengthBytes /\ Len(hashed') = Total
    BY <1>4, <2>1, <2>3 DEF Total, LengthBytes
  <2>7. Position = Total
    BY <1>0, <1>2, <1>4, <1>6
  <2>8. ASSUME NEW k \in 1 .. Len(hashed')
        PROVE  hashed'[k] = PaddedByte(k, length', Len(hashed'))
    BY <1>1, <1>3, <2>2, <2>6, <2>7
  <2>9. BuffersTheData'
    BY <2>1 DEF BuffersTheData
  <2>10. PadsTheMessage'
    BY <1>1, <1>3, <2>1, <2>6, <2>8 DEF PadsTheMessage
  <2> QED BY <2>4, <2>5, <2>9, <2>10 DEF IInv
<1> QED BY <1>5, <1>6

LEMMA Stutters ==
  ASSUME IInv, UNCHANGED vars
  PROVE  IInv'
<1>1. /\ UNCHANGED <<pc, length, buffer, bit_length, bits, left, hashed>>
      /\ TypeOK /\ Whole(Len(hashed)) /\ BuffersTheData /\ PadsTheMessage
  BY DEF IInv, vars
<1>2. TypeOK' /\ Whole(Len(hashed))'
  BY <1>1 DEF TypeOK, Whole, LengthBytes
<1>3. Position' = Position /\ Total' = Total /\ LengthBytes' = LengthBytes
  BY <1>1 DEF Position, Total, LengthBytes
<1>4. \A k \in 1 .. Position : Put(k)' = Put(k)
  BY <1>1 DEF Put
<1>5. BuffersTheData'
  BY <1>1, <1>3, <1>4 DEF BuffersTheData
<1>6. PadsTheMessage'
  BY <1>1, <1>3, <1>4 DEF PadsTheMessage
<1> QED BY <1>2, <1>5, <1>6 DEF IInv

\* At every step the bytes put so far are where the padding of FIPS 180-4 has
\* them.
THEOREM Invariance == Spec => []IInv
<1>1. ASSUME IInv, [Next]_vars
      PROVE  IInv'
  BY <1>1, Updates, Finishes, Fills, Zeros, PutsLength, Stutters DEF Next
<1> QED BY <1>1, Starts, PTL DEF Spec

\* No byte is written behind the buffer, which is never full when a byte is
\* added, and the length ends where the block does.
THEOREM TypeCorrect == Spec => []TypeOK
<1>1. IInv => TypeOK
  BY DEF IInv
<1> QED BY <1>1, Invariance, PTL

\* What is hashed is the padded message, for every length of the data.
THEOREM HashesPadded == Spec => []HashesThePaddedMessage
<1>1. IInv => HashesThePaddedMessage
  BY DEF IInv, PadsTheMessage, HashesThePaddedMessage, IsPadded, Total
<1> QED BY <1>1, Invariance, PTL
==============================================================================
