-------------------------- MODULE TextServersProof ---------------------------
(***************************************************************************)
(* Proofs for the servers of files of lines: the scanned lines are the     *)
(* first lines of the file, jsonl.summary counts each of them once, and    *)
(* the parser of csv.summary and csv.sample follows the parity of the      *)
(* quotes, cuts a line where the segments end and gives a quoted field     *)
(* back.                                                                   *)
(***************************************************************************)
EXTENDS DataToolsProof

-----------------------------------------------------------------------------
(* Lines of a text.                                                        *)

LinePlaces(t, b) == {p \in Content(t) : b <= p /\ SameLine(t, b, p)}

\* The line that begins at b has not ended at i.
OpenAt(t, b, i) == b \in Begins(t) /\ b <= i /\ SameLine(t, b, i)

\* The places of a text: its content, the beginnings of lines and each line.
LEMMA TextPlaces ==
  ASSUME NEW S, NEW t \in Seq(S)
  PROVE  /\ DOMAIN t = 1 .. Len(t) /\ Len(t) \in Nat
         /\ Places(Content(t), Len(t)) /\ Places(Begins(t), Len(t))
         /\ \A b : Places(LinePlaces(t, b), Len(t))
<1>1. DOMAIN t = 1 .. Len(t) /\ Len(t) \in Nat
  OBVIOUS
<1>2. Content(t) \subseteq 1 .. Len(t)
  BY <1>1 DEF Content
<1> QED BY <1>1, <1>2 DEF Places, Begins, LinePlaces

\* What a byte does to the lines that are open.
LEMMA LineSteps ==
  ASSUME NEW S, NEW t \in Seq(S), NEW i \in 1 .. Len(t)
  PROVE  /\ t[i] = "\n" => i \notin Begins(t) /\ \A b : ~OpenAt(t, b, i)
         /\ t[i] = "\r" => i \notin Begins(t)
         /\ t[i] # "\n" => \A b : OpenAt(t, b, i - 1) => OpenAt(t, b, i)
         /\ \A b : OpenAt(t, b, i) => b = i \/ OpenAt(t, b, i - 1)
         /\ t[i] \notin {"\n", "\r"} => \/ i \in Begins(t) /\ OpenAt(t, i, i)
                                        \/ \E b : OpenAt(t, b, i - 1)
         /\ \A b : OpenAt(t, b, i - 1) => i \notin Begins(t) \/ t[i] = "\n"
<1>1. Content(t) = {p \in 1 .. Len(t) : t[p] \notin {"\n", "\r"}} /\ Len(t) \in Nat
  BY TextPlaces DEF Content
<1>2. \A b \in Begins(t) : b \in Content(t) /\ b \in Int
  BY <1>1 DEF Begins
<1>3. ASSUME t[i] = "\n" PROVE i \notin Begins(t) /\ \A b : ~OpenAt(t, b, i)
  <2>1. i \notin Content(t)
    BY <1>1, <1>3
  <2>2. ASSUME NEW b, OpenAt(t, b, i) PROVE FALSE
    <3>1. b \in Int /\ b <= i
      BY <1>2, <2>2 DEF OpenAt
    <3>2. i \in b .. i
      BY <3>1
    <3> QED BY <1>3, <2>2, <3>2 DEF OpenAt, SameLine
  <2> QED BY <1>2, <2>1, <2>2
<1>4. t[i] = "\r" => i \notin Begins(t)
  BY <1>1, <1>2
<1>5. ASSUME t[i] # "\n", NEW b, OpenAt(t, b, i - 1) PROVE OpenAt(t, b, i)
  <2>1. b \in Begins(t) /\ b \in Int /\ b <= i
    BY <1>2, <1>5 DEF OpenAt
  <2>2. ASSUME NEW e \in b .. i PROVE t[e] # "\n"
    <3>1. e = i \/ e \in b .. i - 1
      BY <2>1
    <3> QED BY <1>5, <3>1 DEF OpenAt, SameLine
  <2> QED BY <2>1, <2>2 DEF OpenAt, SameLine
<1>6. ASSUME NEW b, OpenAt(t, b, i) PROVE b = i \/ OpenAt(t, b, i - 1)
  <2>1. b \in Begins(t) /\ b \in Int /\ b <= i /\ \A e \in b .. i : t[e] # "\n"
    BY <1>2, <1>6 DEF OpenAt, SameLine
  <2>2. b # i => b <= i - 1
    BY <2>1
  <2>3. \A e \in b .. i - 1 : e \in b .. i
    BY <2>1
  <2> QED BY <2>1, <2>2, <2>3 DEF OpenAt, SameLine
<1>7. ASSUME t[i] \notin {"\n", "\r"}, \A b : ~OpenAt(t, b, i - 1)
      PROVE  i \in Begins(t) /\ OpenAt(t, i, i)
  <2>1. i \in Content(t)
    BY <1>1, <1>7
  <2>2. SameLine(t, i, i)
    BY <1>7 DEF SameLine
  <2>3. ASSUME NEW q \in Content(t), q < i, SameLine(t, q, i) PROVE FALSE
    <3> DEFINE Q == {p \in Content(t) : p < i /\ SameLine(t, p, i)}
    <3>1. Q \subseteq Nat /\ q \in Q
      BY <1>1, <2>3
    <3>2. PICK b \in Q : \A p \in Q : b <= p
      <4> HIDE DEF Q
      <4> QED BY <3>1, Least
    <3>3. b \in Content(t) /\ b < i /\ SameLine(t, b, i) /\ b \in Int
      BY <1>1
    <3>4. ASSUME NEW p \in Content(t), p < b, SameLine(t, p, b) PROVE FALSE
      <4>1. p \in Int /\ p < i
        BY <1>1, <3>3, <3>4
      <4>2. ASSUME NEW e \in p .. i PROVE t[e] # "\n"
        <5>1. e \in p .. b \/ e \in b .. i
          BY <3>3, <4>1
        <5> QED BY <3>3, <3>4, <5>1 DEF SameLine
      <4>3. p \in Q
        BY <4>1, <4>2 DEF SameLine
      <4> QED BY <3>2, <3>3, <3>4, <4>1, <4>3
    <3>5. b \in Begins(t)
      BY <3>3, <3>4 DEF Begins
    <3>6. b <= i - 1 /\ \A e \in b .. i - 1 : t[e] # "\n"
      BY <3>3 DEF SameLine
    <3> QED BY <1>7, <3>5, <3>6 DEF OpenAt, SameLine
  <2> QED BY <2>1, <2>2, <2>3 DEF Begins, OpenAt
<1>8. ASSUME NEW b, OpenAt(t, b, i - 1), i \in Begins(t) PROVE t[i] = "\n"
  <2>1. b \in Content(t) /\ b \in Int /\ b < i
    BY <1>2, <1>8 DEF OpenAt
  <2>2. ~SameLine(t, b, i)
    BY <1>8, <2>1 DEF Begins
  <2>3. PICK e \in b .. i : t[e] = "\n"
    BY <2>2 DEF SameLine
  <2>4. e \notin b .. i - 1
    BY <1>8, <2>3 DEF OpenAt, SameLine
  <2> QED BY <2>1, <2>3, <2>4
<1> QED BY <1>3, <1>4, <1>5, <1>6, <1>7, <1>8

\* Of a line that is open: which it is, and what of it has been seen.
LEMMA OpenLine ==
  ASSUME NEW S, NEW t \in Seq(S), NEW i \in 0 .. Len(t), NEW b, OpenAt(t, b, i)
  PROVE  /\ b \in Begins(t) /\ b \in 1 .. i
         /\ Cardinality(Upto(Begins(t), i)) = Rank(Begins(t), b)
         /\ i + 1 <= Len(t) /\ t[i + 1] = "\n" => Upto(LinePlaces(t, b), i) = LinePlaces(t, b)
         /\ t[i] \notin {"\n", "\r"} => i \in LinePlaces(t, b)
         /\ b \in LinePlaces(t, b)
         /\ Upto(LinePlaces(t, b), b - 1) = {}
<1>1. Content(t) = {p \in 1 .. Len(t) : t[p] \notin {"\n", "\r"}} /\ Len(t) \in Nat
  BY TextPlaces DEF Content
<1>2. /\ b \in Begins(t) /\ b \in Content(t) /\ b \in 1 .. i /\ b \in Int
      /\ \A e \in b .. i : t[e] # "\n"
  BY <1>1 DEF Begins, OpenAt, SameLine
<1>3. Upto(Begins(t), i) = {q \in Begins(t) : q <= b}
  <2>1. ASSUME NEW q \in Begins(t), q <= i, ~(q <= b) PROVE FALSE
    <3>1. q \in Content(t) /\ q \in Int /\ b < q
      BY <1>1, <1>2, <2>1 DEF Begins
    <3>2. \A e \in b .. q : e \in b .. i
      BY <1>2, <2>1, <3>1
    <3>3. SameLine(t, b, q)
      BY <1>2, <3>2 DEF SameLine
    <3> QED BY <1>2, <2>1, <3>1, <3>3 DEF Begins
  <2>2. ASSUME NEW q \in Begins(t), q <= b PROVE q <= i
    <3>1. q \in Int
      BY <1>1 DEF Begins
    <3> QED BY <1>2, <2>2, <3>1
  <2> QED BY <2>1, <2>2 DEF Upto
<1>4. ASSUME i + 1 <= Len(t), t[i + 1] = "\n"
      PROVE  Upto(LinePlaces(t, b), i) = LinePlaces(t, b)
  <2>1. ASSUME NEW p \in LinePlaces(t, b), ~(p <= i) PROVE FALSE
    <3>1. p \in Int /\ b <= p /\ \A e \in b .. p : t[e] # "\n"
      BY <1>1 DEF LinePlaces, SameLine
    <3>2. i + 1 \in b .. p
      BY <1>2, <2>1, <3>1
    <3> QED BY <1>4, <3>1, <3>2
  <2> QED BY <2>1 DEF Upto
<1>5. ASSUME t[i] \notin {"\n", "\r"} PROVE i \in LinePlaces(t, b)
  <2>1. i \in 1 .. Len(t)
    BY <1>1, <1>2
  <2> QED BY <1>1, <1>2, <1>5, <2>1 DEF LinePlaces, OpenAt
<1>6. b \in LinePlaces(t, b)
  BY <1>2 DEF LinePlaces, SameLine
<1>7. Upto(LinePlaces(t, b), b - 1) = {}
  <2>1. \A p \in LinePlaces(t, b) : p \in Int /\ b <= p /\ ~(p <= b - 1)
    BY <1>1, <1>2 DEF LinePlaces
  <2> QED BY <2>1 DEF Upto
<1> QED BY <1>2, <1>3, <1>4, <1>5, <1>6, <1>7 DEF Rank

\* The loop of split_lines, byte by byte.
LEMMA SplitTurns ==
  ASSUME NEW E, NEW text \in Seq(E), NEW most
  PROVE  LET scan == SplitScan(text, most)
             S == [lines : Seq(Seq(E)), line : Seq(E), limited : BOOLEAN] IN
         /\ scan[0] = [lines |-> <<>>, line |-> <<>>, limited |-> FALSE]
         /\ \A i \in 0 .. Len(text) : scan[i] \in S
         /\ \A i \in 1 .. Len(text) : scan[i] = SplitByte(scan[i - 1], text[i], most)
<1> DEFINE n == Len(text)
           L == Seq(E)
           S == [lines : Seq(L), line : L, limited : BOOLEAN]
           s0 == [lines |-> <<>>, line |-> <<>>, limited |-> FALSE]
           T == [i \in 1 .. n |-> [s \in S |-> SplitByte(s, text[i], most)]]
           scan == SplitScan(text, most)
<1>1. n \in Nat /\ s0 \in S
  OBVIOUS
<1>2. ASSUME NEW i \in 1 .. n, NEW s \in S PROVE SplitByte(s, text[i], most) \in S
  <2>1. text[i] \in E /\ s.line \in L /\ s.lines \in Seq(L) /\ <<>> \in L
    OBVIOUS
  <2>2. Append(s.line, text[i]) \in L
    BY <2>1
  <2>3. Append(s.lines, s.line) \in Seq(L)
    <3> HIDE DEF L
    <3> QED BY <2>1
  <2>4. [lines |-> Append(s.lines, s.line), line |-> <<>>,
         limited |-> Len(s.lines) + 1 >= most] \in S
    <3>1. (Len(s.lines) + 1 >= most) \in BOOLEAN
      OBVIOUS
    <3> HIDE DEF L
    <3> QED BY <2>1, <2>3, <3>1
  <2>5. [s EXCEPT !.line = Append(@, text[i])] \in S
    <3> HIDE DEF L
    <3> QED BY <2>2
  <2> HIDE DEF S, L
  <2> QED BY <2>4, <2>5 DEF SplitByte
<1>3. T \in [1 .. n -> [S -> S]]
  BY <1>2
<1> HIDE DEF S, T, s0
<1>4. PICK f \in [0 .. n -> S] : IsScan(f, n, s0, T)
  BY <1>1, <1>3, Recursion
<1>5. f = [i \in 0 .. n |-> IF i = 0 THEN s0 ELSE SplitByte(f[i - 1], text[i], most)]
  <2>1. ASSUME NEW i \in 0 .. n
        PROVE  f[i] = IF i = 0 THEN s0 ELSE SplitByte(f[i - 1], text[i], most)
    <3>1. f[i] = IF i = 0 THEN s0 ELSE T[i][f[i - 1]]
      BY <1>4 DEF IsScan
    <3>2. i # 0 => i \in 1 .. n /\ f[i - 1] \in S
      OBVIOUS
    <3> QED BY <3>1, <3>2 DEF T
  <2> QED BY <2>1
<1>6. \E g : g = [i \in 0 .. n |-> IF i = 0 THEN s0 ELSE SplitByte(g[i - 1], text[i], most)]
  BY <1>5
<1>7. scan = [i \in 0 .. n |-> IF i = 0 THEN s0 ELSE SplitByte(scan[i - 1], text[i], most)]
  BY <1>6 DEF SplitScan, s0
<1> HIDE DEF scan
<1>8. scan[0] = s0
  BY <1>1, <1>7
<1>9. \A i \in 1 .. n : scan[i] = SplitByte(scan[i - 1], text[i], most)
  BY <1>7
<1>10. \A i \in 1 .. n : scan[i - 1] \in S => scan[i] \in S
  BY <1>2, <1>9
<1>11. \A i \in 0 .. n : scan[i] \in S
  <2> HIDE DEF n
  <2> QED BY <1>1, <1>8, <1>10, ScanTypes
<1> QED BY <1>8, <1>9, <1>11 DEF scan, S, s0

\* What is picked up to a place is a prefix of what is picked.
LEMMA PickedUpto ==
  ASSUME NEW S, NEW seq, NEW n, NEW P, Places(P, n), \A p \in P : seq[p] \in S,
         NEW m \in 0 .. n
  PROVE  /\ Picked(seq, P) \in Seq(S) /\ Picked(seq, Upto(P, m)) \in Seq(S)
         /\ IsPrefix(Picked(seq, Upto(P, m)), Picked(seq, P))
<1> DEFINE To(i) == Picked(seq, Upto(P, i))
           I == {i \in 0 .. n : m <= i => IsPrefix(To(m), To(i))}
<1>1. n \in Nat
  BY DEF Places
<1>2. ASSUME NEW i PROVE To(i) \in Seq(S)
  <2>1. Upto(P, i) \subseteq P /\ IsFiniteSet(Upto(P, i)) /\ Upto(P, i) \subseteq Int
    BY PlacesUpto
  <2>2. \A p \in Upto(P, i) : seq[p] \in S
    BY <2>1
  <2> QED BY <2>1, <2>2, PickedTypes
<1>3. IsPrefix(To(m), To(m))
  <2> HIDE DEF To
  <2>1. To(m) \in Seq(S)
    BY <1>2
  <2> QED BY <2>1, PrefixMeans
<1>4. 0 \in I
  <2>1. m <= 0 => m = 0
    OBVIOUS
  <2> HIDE DEF To
  <2> QED BY <1>1, <1>3, <2>1
<1>5. ASSUME NEW k \in 0 .. n - 1, k \in I PROVE k + 1 \in I
  <2>1. k + 1 \in 1 .. n /\ k + 1 - 1 = k /\ k + 1 \in 0 .. n
    BY <1>1
  <2>2. To(k + 1) = IF k + 1 \in P THEN Append(To(k), seq[k + 1]) ELSE To(k)
    <3> DEFINE i == k + 1
    <3>1. i \in 1 .. n /\ i - 1 = k
      BY <2>1
    <3> HIDE DEF i
    <3>2. To(i) = IF i \in P THEN Append(To(k), seq[i]) ELSE To(k)
      BY <3>1, PickedPrefix
    <3> QED BY <3>2 DEF i
  <2>3. m <= k => IsPrefix(To(m), To(k))
    BY <1>5
  <2>4. To(m) \in Seq(S) /\ To(k) \in Seq(S) /\ (k + 1 \in P => seq[k + 1] \in S)
    BY <1>2
  <2> HIDE DEF To
  <2>5. k + 1 \in P /\ m <= k => IsPrefix(To(m), Append(To(k), seq[k + 1]))
    BY <2>3, <2>4, PrefixAppend
  <2>6. m <= k + 1 => m <= k \/ m = k + 1
    OBVIOUS
  <2> QED BY <1>3, <2>1, <2>2, <2>3, <2>5, <2>6
<1>6. n \in I
  <2>1. \A i \in 0 .. n - 1 : i \in I => i + 1 \in I
    BY <1>5
  <2> HIDE DEF I
  <2>2. \A i \in 0 .. n : i \in I
    BY <1>1, <1>4, <2>1, Induction
  <2> QED BY <1>1, <2>2
<1>7. Upto(P, n) = P
  BY PlacesUpto
<1>8. IsPrefix(To(m), To(n)) /\ To(m) \in Seq(S) /\ To(n) \in Seq(S)
  <2> HIDE DEF To
  <2> QED BY <1>2, <1>6
<1> QED BY <1>7, <1>8

\* The state of the loop of split_lines over the first m bytes of a text, after i.
SplitState(t, m, most, i) == SplitScan(SubSeq(t, 1, m), most)[i]

\* The state of the loop by what the text says, at its begin and its type.
LEMMA SplitStates ==
  ASSUME NEW S, NEW t \in Seq(S), NEW m \in 0 .. Len(t), NEW most
  PROVE  /\ SplitState(t, m, most, 0) = [lines |-> <<>>, line |-> <<>>, limited |-> FALSE]
         /\ \A i \in 0 .. m : SplitState(t, m, most, i)
                               \in [lines : Seq(Seq(S)), line : Seq(S), limited : BOOLEAN]
<1> DEFINE r == SubSeq(t, 1, m)
           Z == [lines : Seq(Seq(S)), line : Seq(S), limited : BOOLEAN]
<1>1. r \in Seq(S) /\ Len(r) = m
  BY PrefixTypes
<1>2. \A i : SplitState(t, m, most, i) = SplitScan(r, most)[i]
  BY DEF SplitState
<1> HIDE DEF r
<1>3. /\ SplitScan(r, most)[0] = [lines |-> <<>>, line |-> <<>>, limited |-> FALSE]
      /\ \A i \in 0 .. Len(r) : SplitScan(r, most)[i] \in Z
  BY <1>1, SplitTurns
<1> HIDE DEF Z
<1>4. /\ SplitState(t, m, most, 0) = [lines |-> <<>>, line |-> <<>>, limited |-> FALSE]
      /\ \A i \in 0 .. m : SplitState(t, m, most, i) \in Z
  BY <1>1, <1>2, <1>3
<1> QED BY <1>4 DEF Z

\* From one byte to the next the loop does what the text says.
LEMMA SplitTurn ==
  ASSUME NEW S, NEW t \in Seq(S), NEW m \in 0 .. Len(t), NEW most
  PROVE  \A i \in 1 .. m :
         /\ SplitState(t, m, most, i - 1) \in [lines : Seq(Seq(S)), line : Seq(S), limited : BOOLEAN]
         /\ SplitState(t, m, most, i) = SplitByte(SplitState(t, m, most, i - 1), t[i], most)
<1> DEFINE r == SubSeq(t, 1, m)
           Z == [lines : Seq(Seq(S)), line : Seq(S), limited : BOOLEAN]
<1>1. r \in Seq(S) /\ Len(r) = m /\ \A i \in 1 .. m : r[i] = t[i]
  BY PrefixTypes
<1>2. \A j : SplitState(t, m, most, j) = SplitScan(r, most)[j]
  BY DEF SplitState
<1> HIDE DEF r
<1>3. /\ SplitScan(r, most)[0] = [lines |-> <<>>, line |-> <<>>, limited |-> FALSE]
      /\ \A i \in 0 .. Len(r) : SplitScan(r, most)[i] \in Z
      /\ \A i \in 1 .. Len(r) :
           SplitScan(r, most)[i] = SplitByte(SplitScan(r, most)[i - 1], r[i], most)
  BY <1>1, SplitTurns
<1>4. ASSUME NEW i \in 1 .. m
      PROVE  /\ SplitState(t, m, most, i - 1) \in Z
             /\ SplitState(t, m, most, i) = SplitByte(SplitState(t, m, most, i - 1), t[i], most)
  <2> DEFINE k == i - 1
  <2>1. k \in 0 .. Len(r) /\ i \in 1 .. Len(r) /\ r[i] = t[i]
    BY <1>1
  <2>2. SplitScan(r, most)[i] = SplitByte(SplitScan(r, most)[k], r[i], most)
    BY <1>3, <2>1
  <2> HIDE DEF k, Z
  <2>3. SplitState(t, m, most, k) \in Z
    BY <1>2, <1>3, <2>1
  <2>4. SplitState(t, m, most, i) = SplitByte(SplitState(t, m, most, k), t[i], most)
    BY <1>2, <2>1, <2>2
  <2> QED BY <2>3, <2>4 DEF k
<1> QED BY <1>4

\* The lines that have ended, in their order; the one that has not, as far as it
\* has been seen.
SplitInv(t, m, most, i) ==
  LET s == SplitState(t, m, most, i)
      begun == Cardinality(Upto(Begins(t), i)) IN
  /\ Len(s.lines) <= begun
  /\ \A j \in 1 .. Len(s.lines) : s.lines[j] = AllLines(t)[j]
  /\ s.limited => s.line = <<>> /\ Len(s.lines) >= most
  /\ ~s.limited =>
       /\ Len(s.lines) < most
       /\ \A b : OpenAt(t, b, i) =>
            Len(s.lines) + 1 = begun /\ s.line = Picked(t, Upto(LinePlaces(t, b), i))
       /\ (\A b : ~OpenAt(t, b, i)) => Len(s.lines) = begun /\ s.line = <<>>

\* The lines of a text, one for each place where a line begins.
LEMMA AllLinesAre ==
  ASSUME NEW S, NEW t \in Seq(S)
  PROVE  /\ Len(AllLines(t)) = Cardinality(Begins(t)) /\ Cardinality(Begins(t)) \in Nat
         /\ DOMAIN AllLines(t) = 1 .. Cardinality(Begins(t))
         /\ AllLines(t) \in Seq(Seq(S))
         /\ \A b \in Begins(t) : /\ Rank(Begins(t), b) \in 1 .. Cardinality(Begins(t))
                                 /\ AllLines(t)[Rank(Begins(t), b)] = Picked(t, LinePlaces(t, b))
<1> DEFINE B == Begins(t)
           K == Cardinality(B)
<1>1. /\ DOMAIN t = 1 .. Len(t) /\ Places(B, Len(t)) /\ \A b : Places(LinePlaces(t, b), Len(t))
  BY TextPlaces
<1>2. IsFiniteSet(B) /\ B \subseteq Int /\ K \in Nat
  BY <1>1, FinitePlaces
<1>3. ASSUME NEW b PROVE LineAt(t, b) = Picked(t, LinePlaces(t, b)) /\ LineAt(t, b) \in Seq(S)
  <2>1. LineAt(t, b) = Picked(t, LinePlaces(t, b))
    BY DEF LineAt, LinePlaces
  <2>2. \A p \in LinePlaces(t, b) : t[p] \in S
    BY <1>1 DEF LinePlaces, Content
  <2>3. IsFiniteSet(LinePlaces(t, b)) /\ LinePlaces(t, b) \subseteq Int
    BY <1>1, FinitePlaces
  <2> QED BY <2>1, <2>2, <2>3, PickedTypes
<1>4. AllLines(t) = [j \in 1 .. K |-> LineAt(t, InOrder(B)[j])]
  BY DEF AllLines
<1> HIDE DEF B, K
<1>5. AllLines(t) \in [1 .. K -> Seq(S)]
  BY <1>3, <1>4
<1>6. AllLines(t) \in Seq(Seq(S))
  <2> DEFINE L == Seq(S)
  <2> HIDE DEF L
  <2>1. AllLines(t) \in [1 .. K -> L]
    BY <1>5 DEF L
  <2>2. AllLines(t) \in Seq(L)
    BY <1>2, <2>1, SeqDef
  <2> QED BY <2>2 DEF L
<1>7. Len(AllLines(t)) = K /\ DOMAIN AllLines(t) = 1 .. K
  BY <1>2, <1>4, <1>6, LenProperties
<1>8. \A b \in B : Rank(B, b) \in 1 .. K /\ InOrder(B)[Rank(B, b)] = b
  BY <1>2, Order DEF K
<1>9. \A b \in B : AllLines(t)[Rank(B, b)] = Picked(t, LinePlaces(t, b))
  BY <1>3, <1>4, <1>8
<1> QED BY <1>2, <1>6, <1>7, <1>8, <1>9 DEF B, K

\* A byte keeps the invariant of the loop: what it has scanned so far are the
\* lines of the text so far.
LEMMA SplitKeeps ==
  ASSUME NEW S, NEW t \in Seq(S), NEW m \in 0 .. Len(t), NEW most \in Nat,
         NEW i \in 1 .. m, SplitInv(t, m, most, i - 1)
  PROVE  SplitInv(t, m, most, i)
<1> DEFINE s == SplitState(t, m, most, i - 1)
           z == SplitState(t, m, most, i)
           all == AllLines(t)
           c == Cardinality(Upto(Begins(t), i - 1))
           d == Cardinality(Upto(Begins(t), i))
<1>1. Len(t) \in Nat /\ i \in 1 .. Len(t) /\ i - 1 \in 0 .. Len(t) /\ i \in 0 .. Len(t)
  OBVIOUS
<1>2. /\ s.lines \in Seq(Seq(S)) /\ s.line \in Seq(S) /\ s.limited \in BOOLEAN
      /\ z = SplitByte(s, t[i], most)
      /\ s = [lines |-> s.lines, line |-> s.line, limited |-> s.limited]
  <2>1. \A j \in 1 .. m :
          /\ SplitState(t, m, most, j - 1) \in [lines : Seq(Seq(S)), line : Seq(S), limited : BOOLEAN]
          /\ SplitState(t, m, most, j) = SplitByte(SplitState(t, m, most, j - 1), t[j], most)
    BY SplitTurn
  <2>2. s \in [lines : Seq(Seq(S)), line : Seq(S), limited : BOOLEAN]
    BY <2>1
  <2>3. z = SplitByte(s, t[i], most)
    BY <2>1
  <2> HIDE DEF s, z
  <2>4. s = [lines |-> s.lines, line |-> s.line, limited |-> s.limited]
    BY <2>2
  <2> QED BY <2>2, <2>3, <2>4
<1>3. /\ c \in Nat /\ d = IF i \in Begins(t) THEN c + 1 ELSE c
  <2>1. Places(Begins(t), Len(t))
    BY TextPlaces
  <2>2. c \in 0 .. Len(t)
    BY <2>1, PlacesUpto
  <2> QED BY <1>1, <2>1, <2>2, PickedPrefix
<1>4. /\ Len(s.lines) <= c
      /\ \A j \in 1 .. Len(s.lines) : s.lines[j] = all[j]
      /\ s.limited => s.line = <<>> /\ Len(s.lines) >= most
      /\ ~s.limited =>
           /\ Len(s.lines) < most
           /\ \A b : OpenAt(t, b, i - 1) =>
                Len(s.lines) + 1 = c /\ s.line = Picked(t, Upto(LinePlaces(t, b), i - 1))
           /\ (\A b : ~OpenAt(t, b, i - 1)) => Len(s.lines) = c /\ s.line = <<>>
  BY DEF SplitInv
<1> DEFINE Goal ==
      /\ Len(z.lines) <= d
      /\ \A j \in 1 .. Len(z.lines) : z.lines[j] = all[j]
      /\ z.limited => z.line = <<>> /\ Len(z.lines) >= most
      /\ ~z.limited =>
           /\ Len(z.lines) < most
           /\ \A b : OpenAt(t, b, i) =>
                Len(z.lines) + 1 = d /\ z.line = Picked(t, Upto(LinePlaces(t, b), i))
           /\ (\A b : ~OpenAt(t, b, i)) => Len(z.lines) = d /\ z.line = <<>>
<1>5. SUFFICES Goal
  BY DEF SplitInv
<1>6. /\ t[i] = "\n" => i \notin Begins(t) /\ \A b : ~OpenAt(t, b, i)
      /\ t[i] = "\r" => i \notin Begins(t)
      /\ t[i] # "\n" => \A b : OpenAt(t, b, i - 1) => OpenAt(t, b, i)
      /\ \A b : OpenAt(t, b, i) => b = i \/ OpenAt(t, b, i - 1)
      /\ t[i] \notin {"\n", "\r"} => \/ i \in Begins(t) /\ OpenAt(t, i, i)
                                     \/ \E b : OpenAt(t, b, i - 1)
      /\ \A b : OpenAt(t, b, i - 1) => i \notin Begins(t) \/ t[i] = "\n"
  BY <1>1, LineSteps
<1>7. Len(s.lines) \in Nat /\ t[i] \in S
  BY <1>1, <1>2
<1>8. \A b : OpenAt(t, b, i) => b \in Begins(t)
  BY DEF OpenAt
<1>9. ASSUME NEW b
      PROVE  Picked(t, Upto(LinePlaces(t, b), i))
               = IF i \in LinePlaces(t, b)
                 THEN Append(Picked(t, Upto(LinePlaces(t, b), i - 1)), t[i])
                 ELSE Picked(t, Upto(LinePlaces(t, b), i - 1))
  <2>1. Places(LinePlaces(t, b), Len(t))
    BY TextPlaces
  <2> QED BY <1>1, <2>1, PickedPrefix
<1> HIDE DEF s, z, all, c, d
<1>10. CASE s.limited
  <2>1. z = s
    BY <1>2, <1>10 DEF SplitByte
  <2> QED BY <1>3, <1>4, <1>7, <1>10, <2>1
<1>11. CASE ~s.limited /\ t[i] = "\r"
  <2>1. z = s /\ d = c
    BY <1>2, <1>3, <1>6, <1>11 DEF SplitByte
  <2>2. t[i] # "\n"
    BY <1>11
  <2>3. \A b : OpenAt(t, b, i) <=> OpenAt(t, b, i - 1)
    BY <1>6, <1>8, <1>11, <2>2
  <2>4. \A b : i \notin LinePlaces(t, b)
    BY <1>11 DEF LinePlaces, Content
  <2> QED BY <1>4, <1>9, <1>11, <2>1, <2>3, <2>4
<1>12. CASE ~s.limited /\ t[i] = "\n" /\ \A b : ~OpenAt(t, b, i - 1)
  <2>1. s.line = <<>> /\ Len(s.lines) = c
    BY <1>4, <1>12
  <2>2. z = s /\ d = c /\ \A b : ~OpenAt(t, b, i)
    BY <1>2, <1>3, <1>6, <1>12, <2>1 DEF SplitByte
  <2> QED BY <1>4, <1>7, <1>12, <2>1, <2>2
<1>13. ASSUME ~s.limited, t[i] = "\n", NEW b, OpenAt(t, b, i - 1) PROVE Goal
  <2>1. /\ b \in Begins(t) /\ b \in 1 .. i - 1
        /\ c = Rank(Begins(t), b)
        /\ Upto(LinePlaces(t, b), i - 1) = LinePlaces(t, b)
        /\ b \in LinePlaces(t, b)
    <3> DEFINE k == i - 1
    <3>1. k \in 0 .. Len(t) /\ k + 1 = i /\ k + 1 <= Len(t) /\ t[k + 1] = "\n" /\ OpenAt(t, b, k)
      BY <1>1, <1>13
    <3> HIDE DEF k
    <3>2. /\ b \in Begins(t) /\ b \in 1 .. k /\ Cardinality(Upto(Begins(t), k)) = Rank(Begins(t), b)
          /\ Upto(LinePlaces(t, b), k) = LinePlaces(t, b) /\ b \in LinePlaces(t, b)
      BY <3>1, OpenLine
    <3> QED BY <3>2 DEF k, c
  <2>2. all[c] = Picked(t, LinePlaces(t, b))
    BY <2>1, AllLinesAre DEF all
  <2>3. Len(s.lines) + 1 = c /\ s.line = all[c]
    BY <1>4, <1>13, <2>1, <2>2
  <2>4. s.line # <<>>
    <3>1. Places(LinePlaces(t, b), Len(t))
      BY TextPlaces
    <3>2. IsFiniteSet(LinePlaces(t, b)) /\ LinePlaces(t, b) \subseteq Int
      BY <3>1, FinitePlaces
    <3>3. Cardinality(LinePlaces(t, b)) # 0
      BY <2>1, <3>2, FS_EmptySet
    <3>4. \A p \in LinePlaces(t, b) : t[p] \in {t[q] : q \in LinePlaces(t, b)}
      OBVIOUS
    <3>5. Len(Picked(t, LinePlaces(t, b))) = Cardinality(LinePlaces(t, b))
      BY <3>2, <3>4, PickedTypes
    <3> QED BY <2>2, <2>3, <3>3, <3>5
  <2>5. z = [lines |-> Append(s.lines, s.line), line |-> <<>>,
             limited |-> Len(s.lines) + 1 >= most]
    BY <1>2, <1>13, <2>4 DEF SplitByte
  <2>6. /\ Len(z.lines) = c /\ z.line = <<>> /\ (z.limited <=> c >= most)
        /\ \A j \in 1 .. c : z.lines[j] = all[j]
    <3> DEFINE L == Seq(S)
    <3>1. s.lines \in Seq(L) /\ s.line \in L
      BY <1>2
    <3> HIDE DEF L
    <3>2. /\ Len(Append(s.lines, s.line)) = c
          /\ \A j \in 1 .. Len(s.lines) : Append(s.lines, s.line)[j] = s.lines[j]
          /\ Append(s.lines, s.line)[Len(s.lines) + 1] = s.line
      BY <2>3, <3>1, AppendProperties
    <3>3. \A j \in 1 .. c : j \in 1 .. Len(s.lines) \/ j = Len(s.lines) + 1
      BY <1>7, <2>3
    <3>4. z.lines = Append(s.lines, s.line) /\ z.line = <<>> /\ (z.limited <=> c >= most)
      BY <2>3, <2>5
    <3> QED BY <1>4, <2>3, <3>2, <3>3, <3>4
  <2>7. d = c /\ \A a : ~OpenAt(t, a, i)
    BY <1>3, <1>6, <1>13
  <2>8. CASE c >= most
    <3>1. z.limited /\ c <= d
      BY <1>3, <2>6, <2>7, <2>8
    <3> QED BY <2>6, <2>7, <2>8, <3>1
  <2>9. CASE ~(c >= most)
    <3>1. c < most /\ c <= d
      BY <1>3, <2>7, <2>9
    <3> QED BY <2>6, <2>7, <2>9, <3>1
  <2> QED BY <2>8, <2>9
<1>14. ASSUME ~s.limited, t[i] \notin {"\n", "\r"}, NEW b, OpenAt(t, b, i - 1) PROVE Goal
  <2>1. i \notin Begins(t) /\ d = c /\ OpenAt(t, b, i)
    BY <1>3, <1>6, <1>14
  <2>2. z = [s EXCEPT !.line = Append(@, t[i])]
    BY <1>2, <1>14 DEF SplitByte
  <2>3. z.lines = s.lines /\ z.limited = s.limited /\ z.line = Append(s.line, t[i])
    BY <1>2, <2>2
  <2>4. ASSUME NEW a, OpenAt(t, a, i)
        PROVE  Len(z.lines) + 1 = d /\ z.line = Picked(t, Upto(LinePlaces(t, a), i))
    <3>1. OpenAt(t, a, i - 1)
      BY <1>6, <1>8, <2>1, <2>4
    <3>2. Len(s.lines) + 1 = c /\ s.line = Picked(t, Upto(LinePlaces(t, a), i - 1))
      BY <1>4, <1>14, <3>1
    <3>3. i \in LinePlaces(t, a)
      BY <1>1, <1>14, <2>4, OpenLine
    <3> QED BY <1>9, <2>1, <2>3, <3>2, <3>3
  <2> QED BY <1>4, <1>14, <2>1, <2>3, <2>4
<1>15. ASSUME ~s.limited, t[i] \notin {"\n", "\r"}, \A b : ~OpenAt(t, b, i - 1) PROVE Goal
  <2>1. i \in Begins(t) /\ d = c + 1 /\ OpenAt(t, i, i)
    BY <1>3, <1>6, <1>15
  <2>2. Len(s.lines) = c /\ s.line = <<>>
    BY <1>4, <1>15
  <2>3. z = [s EXCEPT !.line = Append(@, t[i])]
    BY <1>2, <1>15 DEF SplitByte
  <2>4. z.lines = s.lines /\ z.limited = s.limited /\ z.line = Append(<<>>, t[i])
    BY <1>2, <2>2, <2>3
  <2>5. ASSUME NEW a, OpenAt(t, a, i)
        PROVE  Len(z.lines) + 1 = d /\ z.line = Picked(t, Upto(LinePlaces(t, a), i))
    <3>1. a = i
      BY <1>6, <1>15, <2>5
    <3>2. i \in LinePlaces(t, i) /\ Upto(LinePlaces(t, i), i - 1) = {}
      BY <1>1, <1>15, <2>1, OpenLine
    <3>3. Picked(t, Upto(LinePlaces(t, i), i)) = Append(<<>>, t[i])
      BY <1>9, <3>2, NothingPicked
    <3> QED BY <2>1, <2>2, <2>4, <3>1, <3>3
  <2>6. Len(z.lines) <= d
    BY <1>3, <2>1, <2>2, <2>4
  <2> QED BY <1>4, <1>15, <2>1, <2>4, <2>5, <2>6
<1> HIDE DEF Goal
<1> QED BY <1>2, <1>10, <1>11, <1>12, <1>13, <1>14, <1>15

\* Before every byte the loop of split_lines has the lines that have ended.
LEMMA SplitHolds ==
  ASSUME NEW S, NEW t \in Seq(S), NEW m \in 0 .. Len(t), NEW most \in Nat \ {0}
  PROVE  SplitInv(t, m, most, m)
<1> DEFINE I == {i \in 0 .. m : SplitInv(t, m, most, i)}
<1>1. m \in Nat /\ 0 \in 0 .. m /\ most \in Nat /\ most > 0 /\ most # 0
  OBVIOUS
<1>2. 0 \in I
  <2>1. SplitState(t, m, most, 0) = [lines |-> <<>>, line |-> <<>>, limited |-> FALSE]
    BY SplitStates
  <2>2. Places(Begins(t), Len(t))
    BY TextPlaces
  <2>3. Upto(Begins(t), 0) = {}
    BY <2>2, PlacesUpto
  <2>4. Cardinality(Upto(Begins(t), 0)) = 0
    BY <2>3, FS_EmptySet
  <2>5. \A b : ~OpenAt(t, b, 0)
    BY <2>2 DEF OpenAt, Places
  <2> DEFINE s == SplitState(t, m, most, 0)
  <2>6. s.lines = <<>> /\ s.line = <<>> /\ ~s.limited /\ Len(s.lines) = 0
    BY <2>1
  <2> HIDE DEF s
  <2>7. /\ Len(s.lines) <= 0
        /\ \A j \in 1 .. Len(s.lines) : s.lines[j] = AllLines(t)[j]
        /\ Len(s.lines) < most
    BY <1>1, <2>6
  <2>8. SplitInv(t, m, most, 0)
    BY <2>4, <2>5, <2>6, <2>7 DEF SplitInv, s
  <2> QED BY <1>1, <2>8
<1>3. ASSUME NEW k \in 0 .. m - 1, k \in I PROVE k + 1 \in I
  <2> DEFINE i == k + 1
  <2>1. i \in 1 .. m /\ i \in 0 .. m /\ i - 1 = k
    BY <1>1
  <2>2. SplitInv(t, m, most, k)
    BY <1>3
  <2> HIDE DEF i
  <2>3. SplitInv(t, m, most, i - 1)
    BY <2>1, <2>2
  <2>4. SplitInv(t, m, most, i)
    BY <1>1, <2>1, <2>3, SplitKeeps
  <2> QED BY <2>1, <2>4 DEF i
<1>4. \A i \in 0 .. m - 1 : i \in I => i + 1 \in I
  BY <1>3
<1>5. \A i \in 0 .. m : i \in I
  <2> HIDE DEF I
  <2> QED BY <1>1, <1>2, <1>4, Induction
<1>6. m \in 0 .. m
  BY <1>1
<1> QED BY <1>5, <1>6

\* There are never more lines than the limit.
LEMMA SplitFits ==
  ASSUME NEW S, NEW t \in Seq(S), NEW m \in 0 .. Len(t), NEW most \in Nat \ {0}
  PROVE  LET s == SplitState(t, m, most, m) IN
         Len(s.lines) <= most /\ (~s.limited => Len(s.lines) < most)
<1> DEFINE Fits(s) == Len(s.lines) <= most /\ (~s.limited => Len(s.lines) < most)
           Z == [lines : Seq(Seq(S)), line : Seq(S), limited : BOOLEAN]
           I == {i \in 0 .. m : Fits(SplitState(t, m, most, i))}
<1>1. m \in Nat /\ 0 \in 0 .. m /\ m \in 0 .. m /\ most \in Nat /\ most > 0
  OBVIOUS
<1>2. 0 \in I
  <2>1. SplitState(t, m, most, 0) = [lines |-> <<>>, line |-> <<>>, limited |-> FALSE]
    BY SplitStates
  <2> DEFINE s == SplitState(t, m, most, 0)
  <2>2. Len(s.lines) = 0
    BY <2>1
  <2> HIDE DEF s
  <2>3. Fits(s)
    BY <1>1, <2>2
  <2> QED BY <1>1, <2>3 DEF s
<1>3. ASSUME NEW s \in Z, Fits(s), NEW e PROVE Fits(SplitByte(s, e, most))
  <2> DEFINE L == Seq(S)
  <2>1. s.lines \in Seq(L) /\ s.line \in L
    OBVIOUS
  <2> HIDE DEF L
  <2>2. Len(Append(s.lines, s.line)) = Len(s.lines) + 1 /\ Len(s.lines) \in Nat
    BY <2>1
  <2>3. CASE s.limited \/ e = "\r" \/ (e = "\n" /\ s.line = <<>>)
    BY <1>3, <2>3 DEF SplitByte
  <2>4. CASE ~(s.limited \/ e = "\r" \/ (e = "\n" /\ s.line = <<>>)) /\ e = "\n"
    <3> DEFINE z == SplitByte(s, e, most)
    <3>1. z = [lines |-> Append(s.lines, s.line), line |-> <<>>,
               limited |-> Len(s.lines) + 1 >= most]
      BY <2>4 DEF SplitByte
    <3> HIDE DEF z
    <3>2. z.lines = Append(s.lines, s.line) /\ (z.limited <=> Len(s.lines) + 1 >= most)
      BY <3>1
    <3>3. Len(s.lines) < most
      BY <1>3, <2>4
    <3>4. Fits(z)
      BY <1>1, <2>2, <3>2, <3>3
    <3> QED BY <3>4 DEF z
  <2>5. CASE ~(s.limited \/ e = "\r" \/ (e = "\n" /\ s.line = <<>>)) /\ e # "\n"
    <3>1. SplitByte(s, e, most) = [s EXCEPT !.line = Append(@, e)]
      BY <2>5 DEF SplitByte
    <3> QED BY <1>3, <3>1
  <2> QED BY <2>3, <2>4, <2>5
<1> HIDE DEF Z, Fits
<1>4. ASSUME NEW k \in 0 .. m - 1, k \in I PROVE k + 1 \in I
  <2> DEFINE i == k + 1
  <2>1. i \in 1 .. m /\ i \in 0 .. m /\ i - 1 = k
    BY <1>1
  <2>2. Fits(SplitState(t, m, most, k))
    BY <1>4
  <2> HIDE DEF i
  <2>3. \A j \in 1 .. m :
          /\ SplitState(t, m, most, j - 1) \in [lines : Seq(Seq(S)), line : Seq(S), limited : BOOLEAN]
          /\ SplitState(t, m, most, j) = SplitByte(SplitState(t, m, most, j - 1), t[j], most)
    BY SplitTurn
  <2>4. SplitState(t, m, most, k) \in Z /\ SplitState(t, m, most, i) = SplitByte(SplitState(t, m, most, k), t[i], most)
    BY <2>1, <2>3 DEF Z
  <2>5. Fits(SplitState(t, m, most, i))
    BY <1>3, <2>2, <2>4
  <2> QED BY <2>1, <2>5 DEF i
<1>5. \A i \in 0 .. m - 1 : i \in I => i + 1 \in I
  BY <1>4
<1>6. \A i \in 0 .. m : i \in I
  <2> HIDE DEF I
  <2> QED BY <1>1, <1>2, <1>5, Induction
<1> QED BY <1>1, <1>6 DEF Fits

\* split_lines of the first bytes of a text has its first lines.
LEMMA SplitIsFirstLines ==
  ASSUME NEW S, NEW t \in Seq(S), NEW m \in 0 .. Len(t), NEW most \in Nat \ {0}
  PROVE  LET r == SplitLines(SubSeq(t, 1, m), most) IN
         /\ r.lines \in Seq(Seq(S)) /\ r.limited \in BOOLEAN
         /\ Len(r.lines) <= most
         /\ FirstLines(r.lines, t, m < Len(t), r.limited)
<1> DEFINE s == SplitState(t, m, most, m)
           r == SplitLines(SubSeq(t, 1, m), most)
           open == s.line # <<>> /\ Len(s.lines) < most
           begun == Cardinality(Upto(Begins(t), m))
           all == AllLines(t)
<1>1. m \in Nat /\ m \in 0 .. m /\ Len(t) \in Nat /\ m <= Len(t) /\ most \in Nat /\ most > 0
  OBVIOUS
<1>2. /\ s.lines \in Seq(Seq(S)) /\ s.line \in Seq(S) /\ s.limited \in BOOLEAN
  <2>1. s \in [lines : Seq(Seq(S)), line : Seq(S), limited : BOOLEAN]
    BY <1>1, SplitStates
  <2> QED BY <2>1
<1>3. r = [lines |-> IF open THEN Append(s.lines, s.line) ELSE s.lines, limited |-> s.limited]
  <2>1. Len(SubSeq(t, 1, m)) = m
    BY PrefixTypes
  <2> QED BY <2>1 DEF SplitLines, SplitState
<1>4. /\ r.lines = IF open THEN Append(s.lines, s.line) ELSE s.lines
      /\ r.limited = s.limited
  <2> HIDE DEF r, s, open
  <2> QED BY <1>3
<1>5. Len(s.lines) <= most /\ (~s.limited => Len(s.lines) < most)
  BY SplitFits
<1>6. /\ Len(s.lines) <= begun
      /\ \A j \in 1 .. Len(s.lines) : s.lines[j] = all[j]
      /\ s.limited => s.line = <<>> /\ Len(s.lines) >= most
      /\ ~s.limited =>
           /\ Len(s.lines) < most
           /\ \A b : OpenAt(t, b, m) =>
                Len(s.lines) + 1 = begun /\ s.line = Picked(t, Upto(LinePlaces(t, b), m))
           /\ (\A b : ~OpenAt(t, b, m)) => Len(s.lines) = begun /\ s.line = <<>>
  BY SplitHolds DEF SplitInv
<1>7. /\ Len(all) = Cardinality(Begins(t)) /\ Cardinality(Begins(t)) \in Nat
      /\ all \in Seq(Seq(S))
      /\ \A b \in Begins(t) : /\ Rank(Begins(t), b) \in 1 .. Cardinality(Begins(t))
                              /\ all[Rank(Begins(t), b)] = Picked(t, LinePlaces(t, b))
  BY AllLinesAre
<1>8. /\ begun \in Nat /\ begun <= Len(all) /\ (m = Len(t) => begun = Len(all))
  <2>1. Places(Begins(t), Len(t))
    BY TextPlaces
  <2>2. Upto(Begins(t), m) \subseteq Begins(t) /\ Upto(Begins(t), Len(t)) = Begins(t)
    BY <2>1, PlacesUpto
  <2>3. IsFiniteSet(Begins(t)) /\ Upto(Begins(t), m) \in SUBSET Begins(t)
    BY <2>1, <2>2, FinitePlaces
  <2>4. begun <= Cardinality(Begins(t)) /\ IsFiniteSet(Upto(Begins(t), m))
    BY <2>3, FS_Subset
  <2>5. begun \in Nat
    BY <2>4, FS_CardinalityType
  <2> QED BY <1>7, <2>2, <2>4, <2>5
<1> DEFINE Goal(lines) ==
      /\ lines \in Seq(Seq(S)) /\ Len(lines) <= most /\ Len(lines) <= Len(all)
      /\ \A i \in 1 .. Len(lines) :
           \/ lines[i] = all[i]
           \/ m < Len(t) /\ i = Len(lines) /\ IsPrefix(lines[i], all[i])
      /\ ~(m < Len(t)) /\ ~s.limited => Len(lines) = Len(all)
<1>9. ASSUME ~open PROVE Goal(r.lines)
  <2>1. ~s.limited => s.line = <<>>
    BY <1>5, <1>9
  <2>2. ASSUME ~s.limited, NEW b, OpenAt(t, b, m) PROVE FALSE
    <3>1. s.line = Picked(t, Upto(LinePlaces(t, b), m))
      BY <1>6, <2>2
    <3>2. b \in LinePlaces(t, b) /\ b \in 1 .. m
      BY <2>2, OpenLine
    <3>3. Places(LinePlaces(t, b), Len(t))
      BY TextPlaces
    <3> DEFINE P == Upto(LinePlaces(t, b), m)
    <3>4. b \in P
      BY <3>2 DEF Upto
    <3>5. IsFiniteSet(P) /\ P \subseteq Int
      BY <3>3, PlacesUpto
    <3>6. Cardinality(P) # 0
      BY <3>4, <3>5, FS_EmptySet
    <3>7. Len(Picked(t, P)) = Cardinality(P)
      <4>1. \A p \in P : t[p] \in {t[q] : q \in P}
        OBVIOUS
      <4> QED BY <3>5, <4>1, PickedTypes
    <3> QED BY <2>1, <2>2, <3>1, <3>6, <3>7
  <2>3. ~s.limited => Len(s.lines) = begun
    BY <1>6, <2>2
  <2>4. r.lines = s.lines
    BY <1>4, <1>9
  <2> HIDE DEF s, r, all, begun, open
  <2>5. Goal(s.lines)
    <3>1. Len(s.lines) <= most /\ Len(s.lines) <= Len(all)
      BY <1>1, <1>2, <1>5, <1>6, <1>8
    <3>2. ~(m < Len(t)) /\ ~s.limited => Len(s.lines) = Len(all)
      BY <1>1, <1>8, <2>3
    <3> QED BY <1>2, <1>6, <3>1, <3>2
  <2> HIDE DEF Goal
  <2> QED BY <2>4, <2>5
<1>10. ASSUME open PROVE Goal(r.lines)
  <2>1. ~s.limited
    BY <1>6, <1>10
  <2>2. PICK b : OpenAt(t, b, m)
    BY <1>6, <1>10, <2>1
  <2>3. /\ b \in Begins(t) /\ begun = Rank(Begins(t), b)
    BY <2>2, OpenLine
  <2>4. Len(s.lines) + 1 = begun /\ s.line = Picked(t, Upto(LinePlaces(t, b), m))
    BY <1>6, <2>1, <2>2
  <2>5. all[begun] = Picked(t, LinePlaces(t, b))
    BY <1>7, <2>3
  <2>6. Places(LinePlaces(t, b), Len(t)) /\ \A p \in LinePlaces(t, b) : t[p] \in S
    <3>1. Places(LinePlaces(t, b), Len(t))
      BY TextPlaces
    <3>2. \A p \in LinePlaces(t, b) : p \in 1 .. Len(t)
      BY <3>1 DEF Places
    <3> QED BY <3>1, <3>2
  <2>7. IsPrefix(s.line, all[begun])
    <3>1. IsPrefix(Picked(t, Upto(LinePlaces(t, b), m)), Picked(t, LinePlaces(t, b)))
      BY <2>6, PickedUpto
    <3> QED BY <2>4, <2>5, <3>1
  <2>8. m = Len(t) => s.line = all[begun]
    BY <2>4, <2>5, <2>6, PlacesUpto
  <2>9. r.lines = Append(s.lines, s.line)
    BY <1>4, <1>10
  <2> DEFINE lines == Append(s.lines, s.line)
             L == Seq(S)
  <2>10. /\ lines \in Seq(L) /\ Len(lines) = begun /\ lines[begun] = s.line
         /\ \A j \in 1 .. Len(s.lines) : lines[j] = s.lines[j]
    <3>1. s.lines \in Seq(L) /\ s.line \in L
      BY <1>2
    <3> HIDE DEF L
    <3> QED BY <2>4, <3>1, AppendProperties
  <2>11. Len(s.lines) \in Nat /\ Len(s.lines) < most
    BY <1>2, <1>5, <2>1
  <2>12. lines \in Seq(Seq(S))
    BY <2>10
  <2> HIDE DEF lines, s, r, all, begun, open, L
  <2>13. \A j \in 1 .. begun : j \in 1 .. Len(s.lines) \/ j = begun
    BY <1>8, <2>4, <2>11
  <2>14. ~(m < Len(t)) => m = Len(t)
    BY <1>1
  <2>15. Goal(lines)
    <3>1. Len(lines) <= most /\ Len(lines) <= Len(all)
      BY <1>1, <1>8, <2>4, <2>10, <2>11
    <3>2. ~(m < Len(t)) /\ ~s.limited => Len(lines) = Len(all)
      BY <1>8, <2>10, <2>14
    <3>3. ASSUME NEW j \in 1 .. Len(lines)
          PROVE  \/ lines[j] = all[j]
                 \/ m < Len(t) /\ j = Len(lines) /\ IsPrefix(lines[j], all[j])
      <4>1. CASE j \in 1 .. Len(s.lines)
        BY <1>6, <2>10, <4>1
      <4>2. CASE j = begun
        BY <2>7, <2>8, <2>10, <2>14, <4>2
      <4> QED BY <2>10, <2>13, <4>1, <4>2
    <3> QED BY <2>12, <3>1, <3>2, <3>3
  <2> HIDE DEF Goal
  <2> QED BY <2>9, <2>15 DEF lines
<1>11. Goal(r.lines) /\ r.limited = s.limited
  <2> HIDE DEF Goal, r, s, open
  <2> QED BY <1>4, <1>9, <1>10
<1>12. DOMAIN r.lines = 1 .. Len(r.lines)
  <2> HIDE DEF r
  <2>1. r.lines \in Seq(Seq(S))
    BY <1>11
  <2> QED BY <2>1
<1>13. FirstLines(r.lines, t, m < Len(t), r.limited)
  <2> HIDE DEF r, s
  <2> QED BY <1>11, <1>12 DEF FirstLines
<1> HIDE DEF s
<1> QED BY <1>2, <1>11, <1>13

-----------------------------------------------------------------------------
(* JsonlServer.                                                            *)

\* The helpers JsonlServer takes from FileText are those of FileText.
LEMMA JsonlNames ==
  /\ \A f, n, l : JSONL!ReadBounded(f, n, l) = ReadBounded(f, n, l)
  /\ \A t, m : JSONL!SplitLines(t, m) = SplitLines(t, m)
  /\ \A n, l, h : JSONL!clamp(n, l, h) = clamp(n, l, h)
  /\ \A s : JSONL!Min(s) = Min(s)
  /\ \A s : JSONL!Cardinality(s) = Cardinality(s)
  /\ \A P : JSONL!InOrder(P) = InOrder(P)
  /\ \A t : JSONL!AllLines(t) = AllLines(t)
  /\ \A t, a, c, l : JSONL!FirstLines(t, a, c, l) = FirstLines(t, a, c, l)
  /\ JSONL!FileKinds = FileKinds
<1>1. /\ \A s : JSONL!Cardinality(s) = Cardinality(s)
      /\ \A s : JSONL!Min(s) = Min(s)
      /\ \A n, l, h : JSONL!clamp(n, l, h) = clamp(n, l, h)
      /\ \A s, t : JSONL!IsPrefix(s, t) = IsPrefix(s, t)
      /\ JSONL!FileKinds = FileKinds
  BY DEF JSONL!Cardinality, Cardinality, JSONL!Min, Min, JSONL!clamp, clamp, JSONL!IsPrefix, IsPrefix,
         JSONL!FileKinds, FileKinds
<1>2. \A f, n, l : JSONL!ReadBounded(f, n, l) = ReadBounded(f, n, l)
  BY <1>1 DEF JSONL!ReadBounded, ReadBounded
<1>3. \A t, m : JSONL!SplitLines(t, m) = SplitLines(t, m)
  <2>1. \A s, c, m : JSONL!SplitByte(s, c, m) = SplitByte(s, c, m)
    BY DEF JSONL!SplitByte, SplitByte
  <2>2. \A t, m : JSONL!SplitScan(t, m) = SplitScan(t, m)
    BY <2>1 DEF JSONL!SplitScan, SplitScan
  <2> QED BY <2>2 DEF JSONL!SplitLines, SplitLines
<1>4. \A P : JSONL!InOrder(P) = InOrder(P)
  <2>1. \A P, p : JSONL!Rank(P, p) = Rank(P, p)
    BY <1>1 DEF JSONL!Rank, Rank
  <2> QED BY <1>1, <2>1 DEF JSONL!InOrder, InOrder
<1>5. \A s, P : JSONL!Picked(s, P) = Picked(s, P)
  BY <1>1, <1>4 DEF JSONL!Picked, Picked
<1>6. \A t : JSONL!AllLines(t) = AllLines(t)
  <2>1. \A t : JSONL!Content(t) = Content(t)
    BY DEF JSONL!Content, Content
  <2>2. \A t, p, q : JSONL!SameLine(t, p, q) = SameLine(t, p, q)
    BY DEF JSONL!SameLine, SameLine
  <2>3. \A t : JSONL!Begins(t) = Begins(t)
    BY <2>1, <2>2 DEF JSONL!Begins, Begins
  <2>4. \A t, b : JSONL!LineAt(t, b) = LineAt(t, b)
    BY <1>5, <2>1, <2>2 DEF JSONL!LineAt, LineAt
  <2> QED BY <1>1, <1>4, <2>3, <2>4 DEF JSONL!AllLines, AllLines
<1>7. \A t, a, c, l : JSONL!FirstLines(t, a, c, l) = FirstLines(t, a, c, l)
  BY <1>1, <1>6 DEF JSONL!FirstLines, FirstLines
<1> QED BY <1>1, <1>2, <1>3, <1>4, <1>6, <1>7

JsonlTypes == {"number", "string", "object"}
JsonlStates == {"begin", "integer", "in string", "in object", "object", "member", "in key",
                "object with k", "string", "key", "in excess", "error"}

\* What Json::parse says of a line, and the types that are counted.
LEMMA JsonlVerdicts ==
  \A line : JSONL!Parse(line) # "malformed" => JSONL!json_type(JSONL!Parse(line)) \in JsonlTypes
<1> SUFFICES ASSUME NEW line, JSONL!Parse(line) # "malformed"
             PROVE  JSONL!json_type(JSONL!Parse(line)) \in JsonlTypes
  OBVIOUS
<1> DEFINE end == JSONL!Reading(line)[Len(line)]
           value == JSONL!Parse(line)
<1>1. value = IF end \in {"integer", "string", "object", "object with k"} THEN end ELSE "malformed"
  BY DEF JSONL!Parse
<1> HIDE DEF end
<1>2. value \in {"integer", "string", "object", "object with k", "malformed"}
  BY <1>1
<1> HIDE DEF value
<1>3. value \in {"integer", "string", "object", "object with k"}
  BY <1>2 DEF value
<1> QED BY <1>3 DEF JSONL!json_type, JsonlTypes, value

\* The parser, byte by byte; an error is the end of it.
LEMMA JsonlReads ==
  ASSUME NEW line \in Seq(STRING)
  PROVE  LET read == JSONL!Reading(line)
             previous(i) == IF i = 1 THEN "none" ELSE line[i - 1] IN
         /\ read[0] = "begin"
         /\ \A i \in 1 .. Len(line) : read[i] = JSONL!After(read[i - 1], previous(i), line[i])
         /\ \A i \in 1 .. Len(line) : read[i - 1] = "error" => read[i] = "error"
<1> DEFINE n == Len(line)
           S == JsonlStates
           Turn(s, i) == JSONL!After(s, IF i = 1 THEN "none" ELSE line[i - 1], line[i])
           T == [i \in 1 .. n |-> [s \in S |-> Turn(s, i)]]
           read == JSONL!Reading(line)
<1>1. n \in Nat /\ "begin" \in S
  BY DEF JsonlStates
<1>2. \A s \in S : \A p, c : JSONL!After(s, p, c) \in S /\ JSONL!After("error", p, c) = "error"
  <2> SUFFICES ASSUME NEW s \in S, NEW p, NEW c
               PROVE  JSONL!After(s, p, c) \in S /\ JSONL!After("error", p, c) = "error"
    OBVIOUS
  <2> QED BY DEF JSONL!After, JsonlStates
<1>3. T \in [1 .. n -> [S -> S]]
  <2> HIDE DEF S
  <2> QED BY <1>2
<1> HIDE DEF S, T, Turn, n
<1>4. PICK f \in [0 .. n -> S] : IsScan(f, n, "begin", T)
  BY <1>1, <1>3, Recursion
<1>5. f = [i \in 0 .. n |-> IF i = 0 THEN "begin" ELSE Turn(f[i - 1], i)]
  <2>1. ASSUME NEW i \in 0 .. n
        PROVE  f[i] = IF i = 0 THEN "begin" ELSE Turn(f[i - 1], i)
    <3>1. f[i] = IF i = 0 THEN "begin" ELSE T[i][f[i - 1]]
      BY <1>4 DEF IsScan
    <3>2. i # 0 => i \in 1 .. n /\ f[i - 1] \in S
      BY <1>1
    <3> QED BY <3>1, <3>2 DEF T
  <2> QED BY <2>1
<1>6. \E g : g = [i \in 0 .. n |-> IF i = 0 THEN "begin" ELSE Turn(g[i - 1], i)]
  BY <1>5
<1>7. read = [i \in 0 .. n |-> IF i = 0 THEN "begin" ELSE Turn(read[i - 1], i)]
  BY <1>6 DEF JSONL!Reading, Turn, n
<1> HIDE DEF read
<1>8. read[0] = "begin" /\ \A i \in 1 .. n : read[i] = Turn(read[i - 1], i)
  BY <1>1, <1>7
<1>9. \A i \in 1 .. n : read[i - 1] = "error" => read[i] = "error"
  <2> SUFFICES ASSUME NEW i \in 1 .. n, read[i - 1] = "error" PROVE read[i] = "error"
    OBVIOUS
  <2>1. read[i] = Turn("error", i)
    BY <1>8
  <2>2. "begin" \in S
    BY <1>1
  <2> QED BY <1>2, <2>1, <2>2 DEF Turn
<1> QED BY <1>8, <1>9 DEF read, Turn, n

\* What begins with an error is malformed: the parser reads a line as it reads
\* what begins like it, and does not recover.
LEMMA JsonlErrors ==
  ASSUME NEW line \in Seq(STRING), NEW t \in Seq(STRING), IsPrefix(line, t),
         NEW k \in 1 .. Len(line), JSONL!Reading(line)[k] = "error"
  PROVE  JSONL!Parse(t) = "malformed"
<1> DEFINE n == Len(t)
           m == Len(line)
           read == JSONL!Reading(t)
           part == JSONL!Reading(line)
           I == {i \in 0 .. m : read[i] = part[i]}
           J == {i \in 0 .. n : i >= k => read[i] = "error"}
<1>1. n \in Nat /\ m \in Nat /\ m <= n /\ \A i \in 1 .. m : line[i] = t[i]
  BY PrefixMeans
<1>2. /\ read[0] = "begin" /\ part[0] = "begin"
      /\ \A i \in 1 .. n : read[i - 1] = "error" => read[i] = "error"
      /\ \A i \in 1 .. n : read[i] = JSONL!After(read[i - 1], IF i = 1 THEN "none" ELSE t[i - 1], t[i])
      /\ \A i \in 1 .. m : part[i] = JSONL!After(part[i - 1], IF i = 1 THEN "none" ELSE line[i - 1], line[i])
  BY JsonlReads
<1> HIDE DEF read, part, n, m
<1>3. ASSUME NEW i \in 0 .. m - 1, i \in I PROVE i + 1 \in I
  <2>1. /\ i + 1 \in 1 .. m /\ i + 1 \in 1 .. n /\ i + 1 - 1 = i /\ i + 1 \in 0 .. m
        /\ i + 1 = 1 <=> i = 0
        /\ i # 0 => i \in 1 .. m
    BY <1>1
  <2>2. line[i + 1] = t[i + 1] /\ (i # 0 => line[i] = t[i])
    BY <1>1, <2>1
  <2>3. /\ read[i + 1] = JSONL!After(read[i], IF i = 0 THEN "none" ELSE t[i], t[i + 1])
        /\ part[i + 1] = JSONL!After(part[i], IF i = 0 THEN "none" ELSE line[i], line[i + 1])
    BY <1>2, <2>1
  <2> QED BY <1>3, <2>1, <2>2, <2>3
<1>4. read[k] = "error"
  <2>1. 0 \in I
    BY <1>1, <1>2
  <2> HIDE DEF I
  <2>2. \A i \in 0 .. m : i \in I
    BY <1>1, <1>3, <2>1, Induction
  <2>3. k \in I
    BY <2>2 DEF m
  <2> QED BY <2>3 DEF I, part
<1>5. ASSUME NEW i \in 0 .. n - 1, i \in J PROVE i + 1 \in J
  <2>1. i + 1 \in 1 .. n /\ i + 1 \in 0 .. n /\ i + 1 - 1 = i
    BY <1>1
  <2>2. CASE i >= k
    BY <1>2, <1>5, <2>1, <2>2
  <2>3. CASE ~(i >= k)
    <3>1. i + 1 >= k => i + 1 = k
      BY <1>1, <2>3
    <3> QED BY <1>4, <2>1, <3>1
  <2> QED BY <2>2, <2>3
<1>6. read[n] = "error"
  <2>1. 0 \in J
    BY <1>1
  <2> HIDE DEF J
  <2>2. \A i \in 0 .. n : i \in J
    BY <1>1, <1>5, <2>1, Induction
  <2>3. n \in J /\ n >= k
    BY <1>1, <2>2 DEF m
  <2> QED BY <2>3 DEF J
<1> QED BY <1>6 DEF JSONL!Parse, read, n

JsonlCounts == [valid : Nat, types : [JsonlTypes -> Nat], keys : Nat, errors : Seq(Int)]

\* The lines that are counted by their types.
TypesOf(s) == s.types["number"] + s.types["string"] + s.types["object"]

\* One line: a count by its type, or one more of the errors.
JsonlStep(s, z, line, i, most) ==
  /\ JSONL!Parse(line) # "malformed" =>
       /\ z.valid = s.valid + 1 /\ z.errors = s.errors
       /\ TypesOf(z) = TypesOf(s) + 1
       /\ s.keys <= s.types["object"] => z.keys <= z.types["object"]
  /\ JSONL!Parse(line) = "malformed" =>
       /\ z.valid = s.valid /\ z.types = s.types /\ z.keys = s.keys
       /\ z.errors = IF Len(s.errors) < most THEN Append(s.errors, i) ELSE s.errors

\* One turn of the loop of jsonl.summary.
LEMMA JsonlTurn ==
  ASSUME NEW s \in JsonlCounts, NEW line, NEW i \in Nat, NEW most \in Nat
  PROVE  LET z == JSONL!ScanLine(s, JSONL!Parse(line), i, most) IN
         z \in JsonlCounts /\ JsonlStep(s, z, line, i, most)
<1> DEFINE value == JSONL!Parse(line)
           z == JSONL!ScanLine(s, value, i, most)
<1>1. /\ s.valid \in Nat /\ s.types \in [JsonlTypes -> Nat] /\ s.keys \in Nat
      /\ s.errors \in Seq(Int) /\ Append(s.errors, i) \in Seq(Int)
      /\ s = [valid |-> s.valid, types |-> s.types, keys |-> s.keys, errors |-> s.errors]
  BY DEF JsonlCounts
<1>2. /\ s.types["number"] \in Nat /\ s.types["string"] \in Nat /\ s.types["object"] \in Nat
      /\ s.types = [t \in JsonlTypes |-> s.types[t]]
  BY <1>1 DEF JsonlTypes
<1> DEFINE Goal ==
         /\ z \in JsonlCounts
         /\ value # "malformed" =>
              /\ z.valid = s.valid + 1 /\ z.errors = s.errors
              /\ TypesOf(z) = TypesOf(s) + 1
              /\ s.keys <= s.types["object"] => z.keys <= z.types["object"]
         /\ value = "malformed" =>
              /\ z.valid = s.valid /\ z.types = s.types /\ z.keys = s.keys
              /\ z.errors = IF Len(s.errors) < most THEN Append(s.errors, i) ELSE s.errors
<1>3. ASSUME value # "malformed" PROVE Goal
  <2> DEFINE type == JSONL!json_type(value)
             more == IF value = "object with k" THEN s.keys + 1 ELSE s.keys
             types == [s.types EXCEPT ![type] = @ + 1]
  <2>1. type \in JsonlTypes
    BY <1>3, JsonlVerdicts
  <2>2. value = "object with k" => type = "object"
    BY DEF JSONL!json_type
  <2>3. z = [s EXCEPT !.valid = @ + 1, !.types[type] = @ + 1,
                      !.keys = IF value = "object with k" THEN @ + 1 ELSE @]
    BY <1>3 DEF JSONL!ScanLine
  <2> HIDE DEF type, value, z
  <2>4. z = [valid |-> s.valid + 1, types |-> types, keys |-> more, errors |-> s.errors]
    BY <1>1, <2>3
  <2>5. types \in [JsonlTypes -> Nat]
        /\ types["number"] + types["string"] + types["object"] = TypesOf(s) + 1
        /\ types["object"] = IF type = "object" THEN s.types["object"] + 1 ELSE s.types["object"]
    <3> DEFINE t == s.types
    <3>1. t \in [JsonlTypes -> Nat]
          /\ t["number"] \in Nat /\ t["string"] \in Nat /\ t["object"] \in Nat
      BY <1>1, <1>2
    <3> HIDE DEF t
    <3>2. [t EXCEPT ![type] = @ + 1] \in [JsonlTypes -> Nat]
      BY ONLY <2>1, <3>1
    <3>3. \A k \in JsonlTypes : [t EXCEPT ![type] = @ + 1][k] = IF k = type THEN t[k] + 1 ELSE t[k]
      BY ONLY <3>1
    <3>4. /\ type = "number" \/ type = "string" \/ type = "object"
          /\ "number" \in JsonlTypes /\ "string" \in JsonlTypes /\ "object" \in JsonlTypes
      BY <2>1 DEF JsonlTypes
    <3>5. /\ [t EXCEPT ![type] = @ + 1]["number"] = IF type = "number" THEN t["number"] + 1 ELSE t["number"]
          /\ [t EXCEPT ![type] = @ + 1]["string"] = IF type = "string" THEN t["string"] + 1 ELSE t["string"]
          /\ [t EXCEPT ![type] = @ + 1]["object"] = IF type = "object" THEN t["object"] + 1 ELSE t["object"]
      BY ONLY <3>3, <3>4
    <3> DEFINE types1 == [t EXCEPT ![type] = @ + 1]
    <3>6. types = types1
      BY DEF t
    <3> HIDE DEF types, types1
    <3>7. /\ types["number"] = IF type = "number" THEN t["number"] + 1 ELSE t["number"]
          /\ types["string"] = IF type = "string" THEN t["string"] + 1 ELSE t["string"]
          /\ types["object"] = IF type = "object" THEN t["object"] + 1 ELSE t["object"]
      BY ONLY <3>5, <3>6 DEF types1
    <3>8. types["number"] + types["string"] + types["object"]
            = t["number"] + t["string"] + t["object"] + 1
      BY <3>1, <3>4, <3>7
    <3>9. types \in [JsonlTypes -> Nat]
      BY ONLY <3>2, <3>6 DEF types1
    <3> QED BY <3>7, <3>8, <3>9 DEF t, TypesOf
  <2>6. more \in Nat /\ (s.keys <= s.types["object"] => more <= types["object"])
    <3> HIDE DEF types
    <3>1. s.keys \in Nat /\ s.types["object"] \in Nat
      BY <1>1, <1>2
    <3>2. more = s.keys \/ (more = s.keys + 1 /\ type = "object")
      BY <2>2
    <3> HIDE DEF more
    <3>3. types["object"] = s.types["object"] + 1
          \/ (types["object"] = s.types["object"] /\ type # "object")
      BY <2>5
    <3> QED BY <3>1, <3>2, <3>3
  <2> HIDE DEF types, more
  <2>7. /\ z.valid = s.valid + 1 /\ z.types = types /\ z.keys = more /\ z.errors = s.errors
    BY <2>4
  <2>8. z \in JsonlCounts
    BY <1>1, <2>4, <2>5, <2>6 DEF JsonlCounts
  <2>9. TypesOf(z) = TypesOf(s) + 1
    BY <2>5, <2>7 DEF TypesOf
  <2> QED BY <1>3, <2>5, <2>6, <2>7, <2>8, <2>9
<1>4. ASSUME value = "malformed" PROVE Goal
  <2>1. z = IF Len(s.errors) < most THEN [s EXCEPT !.errors = Append(@, i)] ELSE s
    BY <1>4 DEF JSONL!ScanLine
  <2> HIDE DEF value, z
  <2>2. z = [valid |-> s.valid, types |-> s.types, keys |-> s.keys,
             errors |-> IF Len(s.errors) < most THEN Append(s.errors, i) ELSE s.errors]
    BY <1>1, <2>1
  <2>3. z \in JsonlCounts
    BY <1>1, <2>2 DEF JsonlCounts
  <2> QED BY <1>4, <2>2, <2>3
<1> HIDE DEF Goal
<1>5. Goal
  BY <1>3, <1>4
<1> HIDE DEF value, z
<1> QED BY <1>5 DEF Goal, value, z, JsonlStep

\* The loop of jsonl.summary, line by line.
LEMMA JsonlTurns ==
  ASSUME NEW lines, NEW n \in Nat, n = Len(lines), NEW most \in Nat
  PROVE  LET scan == JSONL!LineScan(lines, most) IN
         /\ scan[0] = [valid |-> 0, types |-> [t \in JsonlTypes |-> 0], keys |-> 0, errors |-> <<>>]
         /\ \A i \in 0 .. n : scan[i] \in JsonlCounts
         /\ \A i \in 1 .. n :
              scan[i] = JSONL!ScanLine(scan[i - 1], JSONL!Parse(lines[i]), i, most)
<1> DEFINE S == JsonlCounts
           s0 == [valid |-> 0, types |-> [t \in JsonlTypes |-> 0], keys |-> 0, errors |-> <<>>]
           Turn(s, i) == JSONL!ScanLine(s, JSONL!Parse(lines[i]), i, most)
           T == [i \in 1 .. n |-> [s \in S |-> Turn(s, i)]]
           scan == JSONL!LineScan(lines, most)
<1>1. s0 \in S
  BY DEF JsonlCounts, JsonlTypes
<1>2. ASSUME NEW i \in 1 .. n, NEW s \in S PROVE Turn(s, i) \in S
  BY JsonlTurn
<1>3. T \in [1 .. n -> [S -> S]]
  <2> HIDE DEF S, Turn
  <2> QED BY <1>2
<1> HIDE DEF S, T, s0, Turn
<1>4. PICK f \in [0 .. n -> S] : IsScan(f, n, s0, T)
  BY <1>1, <1>3, Recursion
<1>5. f = [i \in 0 .. n |-> IF i = 0 THEN s0 ELSE Turn(f[i - 1], i)]
  <2>1. ASSUME NEW i \in 0 .. n
        PROVE  f[i] = IF i = 0 THEN s0 ELSE Turn(f[i - 1], i)
    <3>1. f[i] = IF i = 0 THEN s0 ELSE T[i][f[i - 1]]
      BY <1>4 DEF IsScan
    <3>2. i # 0 => i \in 1 .. n /\ f[i - 1] \in S
      OBVIOUS
    <3> QED BY <3>1, <3>2 DEF T
  <2> QED BY <2>1
<1>6. \E g : g = [i \in 0 .. n |-> IF i = 0 THEN s0 ELSE Turn(g[i - 1], i)]
  BY <1>5
<1>7. scan = [i \in 0 .. n |-> IF i = 0 THEN s0 ELSE Turn(scan[i - 1], i)]
  BY <1>6 DEF JSONL!LineScan, s0, JsonlTypes, Turn
<1> HIDE DEF scan
<1>8. scan[0] = s0
  BY <1>1, <1>7
<1>9. \A i \in 1 .. n : scan[i] = Turn(scan[i - 1], i)
  BY <1>7
<1>10. \A i \in 1 .. n : scan[i - 1] \in S => scan[i] \in S
  BY <1>2, <1>9
<1>11. \A i \in 0 .. n : scan[i] \in S
  BY <1>1, <1>8, <1>10, ScanTypes
<1> QED BY <1>8, <1>9, <1>11 DEF scan, S, s0, Turn

\* The order of a set grows with the set.
LEMMA OrderPrefix ==
  ASSUME NEW n, NEW P, Places(P, n)
  PROVE  /\ InOrder({}) = <<>>
         /\ \A i : InOrder(Upto(P, i)) \in Seq(Int) /\ Len(InOrder(Upto(P, i))) = Cardinality(Upto(P, i))
         /\ \A i \in 1 .. n : InOrder(Upto(P, i)) = IF i \in P THEN Append(InOrder(Upto(P, i - 1)), i)
                                                    ELSE InOrder(Upto(P, i - 1))
<1> DEFINE id == [p \in Int |-> p]
<1>1. ASSUME NEW Q, Q \subseteq Int, IsFiniteSet(Q) PROVE InOrder(Q) = Picked(id, Q)
  <2>1. InOrder(Q) \in [1 .. Cardinality(Q) -> Q]
    BY <1>1, Order
  <2>2. \A k \in 1 .. Cardinality(Q) : id[InOrder(Q)[k]] = InOrder(Q)[k]
    BY <1>1, <2>1
  <2> HIDE DEF id
  <2>3. Picked(id, Q) = [k \in 1 .. Cardinality(Q) |-> InOrder(Q)[k]]
    BY <2>2 DEF Picked
  <2> QED BY <2>1, <2>3
<1>2. InOrder({}) = <<>>
  <2>1. IsFiniteSet({}) /\ {} \subseteq Int
    BY FS_EmptySet
  <2> HIDE DEF id
  <2> QED BY <1>1, <2>1, NothingPicked
<1>3. ASSUME NEW i
      PROVE /\ InOrder(Upto(P, i)) = Picked(id, Upto(P, i))
            /\ InOrder(Upto(P, i)) \in Seq(Int) /\ Len(InOrder(Upto(P, i))) = Cardinality(Upto(P, i))
  <2>1. IsFiniteSet(Upto(P, i)) /\ Upto(P, i) \subseteq Int
    BY PlacesUpto
  <2>2. \A p \in Upto(P, i) : id[p] \in Int
    BY <2>1
  <2> HIDE DEF id
  <2> QED BY <1>1, <2>1, <2>2, PickedTypes
<1>4. ASSUME NEW i \in 1 .. n
      PROVE  InOrder(Upto(P, i)) = IF i \in P THEN Append(InOrder(Upto(P, i - 1)), i)
                                   ELSE InOrder(Upto(P, i - 1))
  <2>1. id[i] = i
    OBVIOUS
  <2> HIDE DEF id
  <2>2. Picked(id, Upto(P, i)) = IF i \in P THEN Append(Picked(id, Upto(P, i - 1)), id[i])
                                 ELSE Picked(id, Upto(P, i - 1))
    BY PickedPrefix
  <2> QED BY <1>3, <2>1, <2>2
<1> QED BY <1>2, <1>3, <1>4

MalformedOf(lines) == {i \in 1 .. Len(lines) : JSONL!Parse(lines[i]) = "malformed"}

\* The turns of jsonl_summary count every line once and list the first errors.
LEMMA JsonlCount ==
  ASSUME NEW lines, NEW n \in Nat, n = Len(lines), NEW most \in Nat
  PROVE  LET counts == JSONL!LineScan(lines, most)[n]
             M == MalformedOf(lines) IN
         /\ TypesOf(counts) = counts.valid
         /\ counts.keys <= counts.types["object"]
         /\ n - counts.valid = Cardinality(M) /\ Cardinality(M) \in Nat
         /\ counts.errors = Firsts(InOrder(M), most)
         /\ InOrder(M) \in Seq(Int) /\ Len(InOrder(M)) = Cardinality(M)
         /\ \A j \in DOMAIN counts.errors : counts.errors[j] \in 1 .. n
<1> DEFINE scan == JSONL!LineScan(lines, most)
           M == MalformedOf(lines)
           To(i) == Upto(M, i)
           Good(i) == LET s == scan[i] IN
             /\ TypesOf(s) = s.valid
             /\ s.keys <= s.types["object"]
             /\ s.valid + Cardinality(To(i)) = i
             /\ s.errors = Firsts(InOrder(To(i)), most)
           I == {i \in 0 .. n : Good(i)}
<1>1. Places(M, n) /\ 0 \in 0 .. n /\ n \in 0 .. n
  BY DEF Places, MalformedOf
<1>2. /\ scan[0] = [valid |-> 0, types |-> [t \in JsonlTypes |-> 0], keys |-> 0, errors |-> <<>>]
      /\ \A i \in 0 .. n : scan[i] \in JsonlCounts
      /\ \A i \in 1 .. n :
           scan[i] = JSONL!ScanLine(scan[i - 1], JSONL!Parse(lines[i]), i, most)
  BY JsonlTurns
<1> HIDE DEF scan, M
<1>3. Good(0)
  <2>1. To(0) = {}
    BY <1>1, PlacesUpto
  <2>2. Cardinality(To(0)) = 0 /\ InOrder(To(0)) = <<>>
    BY <1>1, <2>1, OrderPrefix, FS_EmptySet
  <2>3. /\ scan[0].valid = 0 /\ TypesOf(scan[0]) = 0 /\ scan[0].types["object"] = 0
        /\ scan[0].keys = 0 /\ scan[0].errors = <<>>
    BY <1>2 DEF JsonlTypes, TypesOf
  <2> HIDE DEF To
  <2>4. scan[0].errors = Firsts(InOrder(To(0)), most)
    BY <2>2, <2>3, NoFirsts
  <2> QED BY <2>2, <2>3, <2>4
<1>4. ASSUME NEW k \in 0 .. n - 1, Good(k) PROVE Good(k + 1)
  <2> DEFINE i == k + 1
             line == lines[i]
             s == scan[k]
             z == scan[i]
  <2>1. i \in 1 .. n /\ i - 1 = k /\ k \in 0 .. n /\ i \in 0 .. n /\ i \in Nat /\ k \in Nat
    OBVIOUS
  <2>2. i \in M <=> JSONL!Parse(line) = "malformed"
    BY <2>1 DEF M, MalformedOf
  <2> HIDE DEF i
  <2>3. /\ Cardinality(To(i)) = IF i \in M THEN Cardinality(To(k)) + 1 ELSE Cardinality(To(k))
        /\ InOrder(To(i)) = IF i \in M THEN Append(InOrder(To(k)), i) ELSE InOrder(To(k))
    BY <1>1, <2>1, PickedPrefix, OrderPrefix
  <2>4. Cardinality(To(k)) \in Nat /\ InOrder(To(k)) \in Seq(Int)
    <3>1. Cardinality(To(k)) \in 0 .. n
      BY <1>1, PlacesUpto
    <3> QED BY <1>1, <3>1, OrderPrefix
  <2>5. s \in JsonlCounts /\ z = JSONL!ScanLine(s, JSONL!Parse(line), i, most)
    BY <1>2, <2>1
  <2>6. /\ TypesOf(s) = s.valid /\ s.keys <= s.types["object"]
        /\ s.valid + Cardinality(To(k)) = k
        /\ s.errors = Firsts(InOrder(To(k)), most)
    BY <1>4
  <2> HIDE DEF s, z, line, To
  <2>7. /\ JSONL!Parse(line) # "malformed" =>
              /\ z.valid = s.valid + 1 /\ z.errors = s.errors
              /\ TypesOf(z) = TypesOf(s) + 1
              /\ s.keys <= s.types["object"] => z.keys <= z.types["object"]
        /\ JSONL!Parse(line) = "malformed" =>
              /\ z.valid = s.valid /\ z.types = s.types /\ z.keys = s.keys
              /\ z.errors = IF Len(s.errors) < most THEN Append(s.errors, i) ELSE s.errors
    <3>1. JsonlStep(s, JSONL!ScanLine(s, JSONL!Parse(line), i, most), line, i, most)
      BY <2>1, <2>5, JsonlTurn
    <3> QED BY <2>5, <3>1 DEF JsonlStep
  <2>8. s.valid \in Nat /\ i = k + 1
    BY <2>5 DEF JsonlCounts, i
  <2> DEFINE c == Cardinality(To(k))
             d == Cardinality(To(i))
  <2> DEFINE Goal == /\ TypesOf(z) = z.valid /\ z.keys <= z.types["object"]
                     /\ z.valid + Cardinality(To(i)) = i
                     /\ z.errors = Firsts(InOrder(To(i)), most)
  <2>9. ASSUME i \in M PROVE Goal
    <3>1. Firsts(Append(InOrder(To(k)), i), most)
            = IF Len(s.errors) < most THEN Append(s.errors, i) ELSE s.errors
      <4> DEFINE t == InOrder(To(k))
      <4>1. t \in Seq(Int) /\ i \in Int /\ s.errors = Firsts(t, most)
        BY <2>1, <2>4, <2>6
      <4> HIDE DEF t
      <4>2. Firsts(Append(t, i), most)
              = IF Len(Firsts(t, most)) < most THEN Append(Firsts(t, most), i) ELSE Firsts(t, most)
        BY <4>1, FirstsGrow
      <4> QED BY <4>1, <4>2 DEF t
    <3>2. d = c + 1
      BY <2>3, <2>9
    <3>3. c \in Nat /\ s.valid + c = k
      BY <2>4, <2>6
    <3> HIDE DEF c, d
    <3>4. z.valid + d = i
      BY <2>1, <2>2, <2>7, <2>8, <2>9, <3>2, <3>3
    <3>5. z.errors = Firsts(InOrder(To(i)), most)
      BY <2>2, <2>3, <2>7, <2>9, <3>1
    <3>6. TypesOf(z) = z.valid /\ z.keys <= z.types["object"]
      BY <2>2, <2>6, <2>7, <2>9 DEF TypesOf
    <3> QED
      BY <3>4, <3>5, <3>6 DEF d
  <2>10. ASSUME i \notin M PROVE Goal
    <3>2. d = c
      BY <2>3, <2>10
    <3>3. c \in Nat /\ s.valid + c = k
      BY <2>4, <2>6
    <3> HIDE DEF c, d
    <3>4. z.valid + d = i
      BY <2>1, <2>2, <2>7, <2>8, <2>10, <3>2, <3>3
    <3>5. z.errors = Firsts(InOrder(To(i)), most)
      BY <2>2, <2>3, <2>6, <2>7, <2>10
    <3>6. TypesOf(z) = z.valid /\ z.keys <= z.types["object"]
      BY <2>2, <2>6, <2>7, <2>10
    <3> QED
      BY <3>4, <3>5, <3>6 DEF d
  <2>11. Goal
    BY <2>9, <2>10
  <2> QED BY <2>11 DEF Goal, z, i, To
<1>5. Good(n) /\ scan[n] \in JsonlCounts
  <2>1. 0 \in I
    BY <1>1, <1>3
  <2>2. \A i \in 0 .. n - 1 : i \in I => i + 1 \in I
    <3> HIDE DEF Good
    <3> QED BY <1>4
  <2> HIDE DEF I
  <2>3. \A i \in 0 .. n : i \in I
    BY <2>1, <2>2, Induction
  <2> QED BY <1>1, <1>2, <2>3 DEF I
<1>6. To(n) = M /\ Cardinality(M) \in Nat /\ InOrder(M) \in Seq(Int) /\ Len(InOrder(M)) = Cardinality(M)
  <2>1. Upto(M, n) = M /\ Cardinality(Upto(M, n)) \in 0 .. n
    BY <1>1, PlacesUpto
  <2> QED BY <1>1, <2>1, OrderPrefix
<1> DEFINE counts == scan[n]
<1>7. /\ TypesOf(counts) = counts.valid
      /\ counts.keys <= counts.types["object"]
      /\ counts.valid + Cardinality(M) = n
      /\ counts.errors = Firsts(InOrder(M), most)
      /\ counts.valid \in Nat
  <2> HIDE DEF To
  <2> QED BY <1>5, <1>6 DEF JsonlCounts
<1> HIDE DEF counts
<1>8. n - counts.valid = Cardinality(M)
  BY <1>6, <1>7
<1>9. \A j \in DOMAIN counts.errors : counts.errors[j] \in 1 .. n
  <2>1. IsFiniteSet(M) /\ M \subseteq Int /\ M \subseteq 1 .. n
    BY <1>1, FinitePlaces DEF Places
  <2>2. InOrder(M) \in [1 .. Cardinality(M) -> M]
    BY <2>1, Order
  <2>3. DOMAIN InOrder(M) = 1 .. Len(InOrder(M)) /\ Len(InOrder(M)) \in Nat
    BY <1>6
  <2>4. InOrder(M) \in Seq(M)
    BY <1>6, <2>2, SeqDef
  <2> DEFINE c == IF most <= Len(InOrder(M)) THEN most ELSE Len(InOrder(M))
  <2>5. c \in 0 .. Len(InOrder(M))
    BY <2>3
  <2>6. SubSeq(InOrder(M), 1, c) \in Seq(M)
    <3> HIDE DEF c
    <3> QED BY <2>4, <2>5, PrefixTypes
  <2>7. counts.errors \in Seq(M)
    BY <1>7, <2>6 DEF Firsts
  <2> DEFINE listed == counts.errors
  <2>8. listed \in Seq(M)
    BY <2>7
  <2> HIDE DEF listed
  <2>9. \A j \in DOMAIN listed : listed[j] \in M
    BY <2>8
  <2> QED BY <2>1, <2>9 DEF listed
<1> QED BY <1>6, <1>7, <1>8, <1>9 DEF scan, M, counts

JsonlFile(f) ==
  f \in [kind : FileKinds, bytes : Seq(STRING)] /\ Len(f.bytes) <= MaxFile

\* What the tools scan of a file.
ScanOf(scan, t, S) ==
  /\ scan.error \in (FileKinds \ {"file"}) \cup {""}
  /\ scan.lines \in Seq(Seq(S)) /\ Len(scan.lines) <= scan.max_lines
  /\ scan.error = "" => FirstLines(scan.lines, t, scan.inputTruncated, scan.lineLimited)

\* What jsonl.summary scans out of the file.
LEMMA JsonlScans ==
  ASSUME JsonlFile(file), NEW max_bytes \in Int, NEW max_lines \in Int
  PROVE  ScanOf(JSONL!Scan(max_bytes, max_lines), file.bytes, STRING)
<1> DEFINE t == file.bytes
           S == STRING
           read == ReadBounded(file, max_bytes, LargestBytes)
           limit == clamp(max_lines, 1, LargestRows)
           split == SplitLines(read.text, limit)
           scan == JSONL!Scan(max_bytes, max_lines)
<1>1. t \in Seq(S) /\ file.kind \in FileKinds
  BY DEF JsonlFile
<1>2. LargestBytes \in Nat /\ LargestBytes > 0 /\ LargestRows \in Int /\ 1 <= LargestRows
  BY LimitsAssumption
<1>3. limit \in Nat \ {0}
  <2>1. limit \in 1 .. LargestRows
    BY <1>2, Clamped
  <2> QED BY <2>1
<1>4. scan = [max_lines |-> limit, error |-> read.error, lines |-> split.lines,
              inputTruncated |-> read.truncated, lineLimited |-> split.limited]
  BY JsonlNames DEF JSONL!Scan, JSONL!read_bounded, JSONL!split_lines
<1>5. /\ read.error \in (FileKinds \ {"file"}) \cup {""}
      /\ read.error = "" =>
           \E n \in 0 .. Len(t) : /\ read.text = SubSeq(t, 1, n)
                                  /\ read.truncated <=> n < Len(t)
      /\ read.error # "" => read.text = <<>> /\ ~read.truncated
  BY <1>1, <1>2, BoundedRead
<1>6. \E n \in 0 .. Len(t) : /\ read.text = SubSeq(t, 1, n)
                             /\ read.error = "" => (read.truncated <=> n < Len(t))
  <2>1. SubSeq(t, 1, 0) = <<>> /\ 0 \in 0 .. Len(t)
    <3>1. Len(t) \in Nat
      BY <1>1
    <3> QED BY <3>1, SubSeqEmpty
  <2> HIDE DEF read, t
  <2> QED BY <1>5, <2>1
<1>7. PICK n \in 0 .. Len(t) : /\ read.text = SubSeq(t, 1, n)
                               /\ read.error = "" => (read.truncated <=> n < Len(t))
  BY <1>6
<1> HIDE DEF read, limit, t, S, scan
<1>8. /\ split.lines \in Seq(Seq(S)) /\ Len(split.lines) <= limit
      /\ FirstLines(split.lines, t, n < Len(t), split.limited)
  BY <1>1, <1>3, <1>7, SplitIsFirstLines
<1> HIDE DEF split
<1>9. /\ scan.max_lines = limit /\ scan.error = read.error /\ scan.lines = split.lines
      /\ scan.inputTruncated = read.truncated /\ scan.lineLimited = split.limited
  BY <1>4
<1>10. read.error = "" => FirstLines(split.lines, t, read.truncated, split.limited)
  BY <1>7, <1>8 DEF FirstLines
<1>11. ScanOf(scan, t, S)
  BY <1>5, <1>8, <1>9, <1>10 DEF ScanOf
<1> QED BY <1>11 DEF scan, t, S

JsonlReplies ==
  /\ JSONL!TypeOK /\ JSONL!LinesAreFirstLines
  /\ JSONL!CountsAddUp /\ JSONL!OnlyTheCutLineIsMisjudged
  /\ JSONL!RendersUnlessCut
JsonlInv == program = "jsonl" => JsonlFile(file) /\ JsonlReplies

\* What the properties say of a reply whatever the tool.
LEMMA JsonlScanned ==
  ASSUME JsonlFile(file),
         reply # JSONL!NoReply, reply.tool \in {"jsonl.summary", "jsonl.sample"},
         ScanOf(reply.scan, file.bytes, STRING),
         reply.throws => \E i \in DOMAIN reply.scan.lines : JSONL!Unprintable(reply.scan.lines[i])
  PROVE  /\ JSONL!LinesAreFirstLines /\ JSONL!OnlyTheCutLineIsMisjudged
         /\ JSONL!RendersUnlessCut
         /\ (JSONL!Summary => Len(reply.counts.errors) <= reply.max_errors) => JSONL!TypeOK
<1> DEFINE scan == reply.scan
           all == AllLines(file.bytes)
<1>1. /\ scan.error \in (FileKinds \ {"file"}) \cup {""}
      /\ scan.lines \in Seq(Seq(STRING)) /\ Len(scan.lines) <= scan.max_lines
      /\ scan.error = "" => FirstLines(scan.lines, file.bytes, scan.inputTruncated, scan.lineLimited)
  BY DEF ScanOf
<1>2. JSONL!LinesAreFirstLines
  BY <1>1, JsonlNames DEF JSONL!LinesAreFirstLines, JSONL!Replied
<1>3. ASSUME JSONL!Replied, NEW i \in DOMAIN scan.lines,
             JSONL!Parse(scan.lines[i]) # JSONL!Parse(all[i])
      PROVE  scan.inputTruncated /\ i = Len(scan.lines)
  <2>1. FirstLines(scan.lines, file.bytes, scan.inputTruncated, scan.lineLimited)
    BY <1>1, <1>3 DEF JSONL!Replied
  <2>2. \/ scan.lines[i] = all[i]
        \/ scan.inputTruncated /\ i = Len(scan.lines)
    BY <2>1 DEF FirstLines
  <2> QED BY <1>3, <2>2
<1>4. JSONL!OnlyTheCutLineIsMisjudged
  <2>1. \A t : JSONL!AllLines(t) = AllLines(t)
    BY JsonlNames
  <2> QED BY <1>3, <2>1 DEF JSONL!OnlyTheCutLineIsMisjudged
<1>5. ASSUME JSONL!Summary => Len(reply.counts.errors) <= reply.max_errors PROVE JSONL!TypeOK
  <2>1. JSONL!FileKinds = FileKinds
    BY JsonlNames
  <2> QED BY <1>1, <1>5, <2>1 DEF JSONL!TypeOK, JsonlFile
<1>6. ASSUME JSONL!Replied, reply.throws
      PROVE  \/ \E i \in DOMAIN scan.lines :
                  /\ JSONL!Parse(all[i]) = "malformed"
                  /\ \E p \in DOMAIN all[i] : all[i][p] \in {"lead", "trail"}
             \/ scan.inputTruncated /\ ~JSONL!Utf8(JSONL!Last(scan.lines))
  <2>1. PICK i \in DOMAIN scan.lines : JSONL!Unprintable(scan.lines[i])
    BY <1>6
  <2> DEFINE line == scan.lines[i]
             whole == all[i]
  <2>2. all \in Seq(Seq(STRING)) /\ scan.lines \in Seq(Seq(STRING)) /\ file.bytes \in Seq(STRING)
    BY <1>1, AllLinesAre DEF JsonlFile
  <2>3. FirstLines(scan.lines, file.bytes, scan.inputTruncated, scan.lineLimited)
    BY <1>1, <1>6 DEF JSONL!Replied
  <2>4. Len(scan.lines) <= Len(all) /\ (\/ line = whole
                                        \/ /\ scan.inputTruncated /\ i = Len(scan.lines)
                                           /\ IsPrefix(line, whole))
    BY <2>3 DEF FirstLines
  <2>5. line \in Seq(STRING) /\ whole \in Seq(STRING)
    <3> DEFINE L == Seq(STRING)
    <3> HIDE DEF L
    <3>1. all \in Seq(L) /\ scan.lines \in Seq(L)
      BY <2>2 DEF L
    <3>2. i \in 1 .. Len(scan.lines) /\ i \in 1 .. Len(all)
      BY <2>4, <3>1
    <3>3. line \in L /\ whole \in L
      BY <3>1, <3>2
    <3> QED BY <3>3 DEF L
  <2> HIDE DEF line, whole, all
  <2>6. IsPrefix(line, whole)
    BY <2>4, <2>5, PrefixMeans
  <2>7. JSONL!Parse(line) = "malformed"
    BY <2>1 DEF JSONL!Unprintable, line
  <2>8. PICK n \in DOMAIN line : /\ n = Len(line) \/ JSONL!Reading(line)[n] = "error"
                                 /\ ~JSONL!Utf8(SubSeq(line, 1, n))
    BY <2>1 DEF JSONL!Unprintable, line
  <2>9. n \in 1 .. Len(line) /\ n \in 0 .. Len(line)
    BY <2>5
  <2>10. \E p \in DOMAIN whole : whole[p] \in {"lead", "trail"}
    <3> DEFINE part == SubSeq(line, 1, n)
    <3>1. part \in Seq(STRING) /\ Len(part) = n /\ \A j \in 1 .. n : part[j] = line[j]
      BY <2>5, <2>9, PrefixTypes
    <3> HIDE DEF part
    <3>2. PICK j \in 0 .. Len(part) :
            ~((j > 0 /\ part[j] = "lead") <=> (j < Len(part) /\ part[j + 1] = "trail"))
      BY <2>8 DEF JSONL!Utf8, part
    <3>3. PICK p \in 1 .. n : part[p] \in {"lead", "trail"}
      BY <2>9, <3>1, <3>2
    <3>4. p \in 1 .. Len(line) /\ line[p] = part[p]
      BY <2>9, <3>1
    <3>5. p \in 1 .. Len(whole) /\ whole[p] = line[p]
      BY <2>5, <2>6, <3>4, PrefixMeans
    <3> QED BY <2>5, <3>3, <3>4, <3>5
  <2>11. CASE JSONL!Reading(line)[n] = "error" \/ line = whole
    <3>1. JSONL!Parse(whole) = "malformed"
      BY <2>5, <2>6, <2>7, <2>9, <2>11, JsonlErrors
    <3> QED BY <2>10, <3>1 DEF whole
  <2>12. CASE ~(JSONL!Reading(line)[n] = "error" \/ line = whole)
    <3>1. SubSeq(line, 1, n) = line
      BY <2>5, <2>8, <2>12, SubSeqFull
    <3>2. scan.inputTruncated /\ JSONL!Last(scan.lines) = line
      BY <2>4, <2>12 DEF JSONL!Last, line
    <3> QED BY <2>8, <3>1, <3>2
  <2> QED BY <2>11, <2>12
<1>7. JSONL!RendersUnlessCut
  <2>1. \A t : JSONL!AllLines(t) = AllLines(t)
    BY JsonlNames
  <2> QED BY <1>6, <2>1 DEF JSONL!RendersUnlessCut
<1> QED BY <1>2, <1>4, <1>5, <1>7

\* Without a reply there is nothing to say of it.
LEMMA JsonlIdle == JsonlFile(file) /\ reply = JSONL!NoReply => JsonlReplies
<1>1. JSONL!FileKinds = FileKinds
  BY JsonlNames
<1> QED BY <1>1 DEF JsonlReplies, JsonlFile, JSONL!TypeOK, JSONL!LinesAreFirstLines, JSONL!CountsAddUp,
       JSONL!OnlyTheCutLineIsMisjudged, JSONL!RendersUnlessCut, JSONL!Summary, JSONL!Replied

\* What jsonl.summary replies.
SummaryReply(r) ==
  \E max_bytes \in ByteLimits, max_lines \in RowLimits, max_errors \in ErrorLimits :
       LET scan == JSONL!Scan(max_bytes, max_lines)
           limit == JSONL!clamp(max_errors, 0, LargestErrors)
           counts == JSONL!LineScan(scan.lines, limit)[Len(scan.lines)]
       IN r = [tool |-> "jsonl.summary", scan |-> scan, counts |-> counts,
               invalid |-> Len(scan.lines) - counts.valid, max_errors |-> limit,
               throws |-> \E i \in JSONL!ToSet(counts.errors) : JSONL!Unprintable(scan.lines[i])]

\* jsonl.summary replies what the lines say.
LEMMA JsonlSummarized ==
  ASSUME JsonlFile(file), SummaryReply(reply)
  PROVE  JsonlReplies
<1>1. PICK max_bytes \in ByteLimits, max_lines \in RowLimits, max_errors \in ErrorLimits :
        LET scan == JSONL!Scan(max_bytes, max_lines)
            limit == JSONL!clamp(max_errors, 0, LargestErrors)
            counts == JSONL!LineScan(scan.lines, limit)[Len(scan.lines)]
        IN reply = [tool |-> "jsonl.summary", scan |-> scan, counts |-> counts,
                    invalid |-> Len(scan.lines) - counts.valid, max_errors |-> limit,
                    throws |-> \E i \in JSONL!ToSet(counts.errors) :
                                 JSONL!Unprintable(scan.lines[i])]
  BY DEF SummaryReply
<1> DEFINE scan == JSONL!Scan(max_bytes, max_lines)
           limit == JSONL!clamp(max_errors, 0, LargestErrors)
           n == Len(scan.lines)
           counts == JSONL!LineScan(scan.lines, limit)[n]
           M == MalformedOf(scan.lines)
<1>2. reply = [tool |-> "jsonl.summary", scan |-> scan, counts |-> counts,
               invalid |-> n - counts.valid, max_errors |-> limit,
               throws |-> \E i \in JSONL!ToSet(counts.errors) : JSONL!Unprintable(scan.lines[i])]
  BY <1>1
<1>3. limit \in Nat
  <2>1. max_errors \in Int /\ 0 \in Int /\ LargestErrors \in Int /\ 0 <= LargestErrors
    BY LimitsAssumption
  <2>2. clamp(max_errors, 0, LargestErrors) \in 0 .. LargestErrors
    BY <2>1, Clamped
  <2> QED BY <2>2, JsonlNames
<1>4. ScanOf(scan, file.bytes, STRING)
  <2>1. max_bytes \in Int /\ max_lines \in Int
    BY LimitsAssumption
  <2> QED BY <2>1, JsonlScans
<1> HIDE DEF scan, limit
<1>5. scan.lines \in Seq(Seq(STRING)) /\ n \in Nat /\ DOMAIN scan.lines = 1 .. n
  <2>1. scan.lines \in Seq(Seq(STRING))
    BY <1>4 DEF ScanOf
  <2> QED BY <2>1
<1>6. /\ TypesOf(counts) = counts.valid
      /\ counts.keys <= counts.types["object"]
      /\ n - counts.valid = Cardinality(M) /\ Cardinality(M) \in Nat
      /\ counts.errors = Firsts(InOrder(M), limit)
      /\ InOrder(M) \in Seq(Int) /\ Len(InOrder(M)) = Cardinality(M)
      /\ \A j \in DOMAIN counts.errors : counts.errors[j] \in 1 .. n
  <2> DEFINE lines == scan.lines
  <2> HIDE DEF n, lines
  <2>1. n = Len(lines) /\ n \in Nat
    BY <1>5 DEF n, lines
  <2>2. /\ TypesOf(JSONL!LineScan(lines, limit)[n]) = JSONL!LineScan(lines, limit)[n].valid
        /\ JSONL!LineScan(lines, limit)[n].keys <= JSONL!LineScan(lines, limit)[n].types["object"]
        /\ n - JSONL!LineScan(lines, limit)[n].valid = Cardinality(MalformedOf(lines))
        /\ Cardinality(MalformedOf(lines)) \in Nat
        /\ JSONL!LineScan(lines, limit)[n].errors = Firsts(InOrder(MalformedOf(lines)), limit)
        /\ InOrder(MalformedOf(lines)) \in Seq(Int)
        /\ Len(InOrder(MalformedOf(lines))) = Cardinality(MalformedOf(lines))
        /\ \A j \in DOMAIN JSONL!LineScan(lines, limit)[n].errors :
              JSONL!LineScan(lines, limit)[n].errors[j] \in 1 .. n
    BY <1>3, <2>1, JsonlCount
  <2> QED BY <2>2 DEF lines
<1>7. M = {i \in DOMAIN scan.lines : JSONL!Parse(scan.lines[i]) = "malformed"}
  BY <1>5 DEF MalformedOf
<1> HIDE DEF M, counts
<1>8. /\ reply.tool = "jsonl.summary" /\ reply.scan = scan /\ reply.counts = counts
      /\ reply.invalid = n - counts.valid /\ reply.max_errors = limit
      /\ reply.throws = \E i \in JSONL!ToSet(counts.errors) : JSONL!Unprintable(scan.lines[i])
      /\ reply # JSONL!NoReply
  <2>1. "scan" \in DOMAIN reply /\ "scan" \notin DOMAIN JSONL!NoReply
    BY <1>2 DEF JSONL!NoReply
  <2> HIDE DEF n
  <2> QED BY <1>2, <2>1
<1>9. LET c == Cardinality(M) IN
      /\ counts.errors = SubSeq(InOrder(M), 1, IF limit <= c THEN limit ELSE c)
      /\ Min({limit, c}) = IF limit <= c THEN limit ELSE c
      /\ Len(counts.errors) <= limit
  <2>1. counts.errors = SubSeq(InOrder(M), 1, IF limit <= Cardinality(M) THEN limit ELSE Cardinality(M))
    BY <1>6 DEF Firsts
  <2>2. Len(counts.errors) <= limit
    <3> DEFINE all == InOrder(M)
    <3>1. all \in Seq(Int) /\ counts.errors = Firsts(all, limit) /\ 0 \in Int
      BY <1>6
    <3> HIDE DEF all
    <3> QED BY <1>3, <3>1, FirstsGrow
  <2>3. limit \in Int /\ Cardinality(M) \in Int
    BY <1>3, <1>6
  <2>4. Min({limit, Cardinality(M)}) = IF limit <= Cardinality(M) THEN limit ELSE Cardinality(M)
    BY ONLY <2>3, MinOfTwo
  <2> QED BY <2>1, <2>2, <2>4
<1>10. JSONL!CountsAddUp
  <2>1. JSONL!Min({limit, n - counts.valid}) = Min({limit, Cardinality(M)})
    BY <1>6, JsonlNames
  <2>2. JSONL!Cardinality(M) = Cardinality(M) /\ JSONL!InOrder(M) = InOrder(M)
    BY JsonlNames
  <2>3. /\ counts.types["number"] + counts.types["string"] + counts.types["object"] = counts.valid
        /\ counts.keys <= counts.types["object"]
        /\ n - counts.valid = JSONL!Cardinality(M)
        /\ counts.errors = SubSeq(JSONL!InOrder(M), 1, JSONL!Min({limit, n - counts.valid}))
    BY <1>6, <1>9, <2>1, <2>2 DEF TypesOf
  <2> HIDE DEF n
  <2> QED BY <1>7, <1>8, <2>3 DEF JSONL!CountsAddUp
<1>11. /\ JSONL!LinesAreFirstLines /\ JSONL!OnlyTheCutLineIsMisjudged
       /\ JSONL!RendersUnlessCut
       /\ (JSONL!Summary => Len(reply.counts.errors) <= reply.max_errors) => JSONL!TypeOK
  <2>1. reply.throws => \E i \in DOMAIN reply.scan.lines : JSONL!Unprintable(reply.scan.lines[i])
    <3>1. \A i \in JSONL!ToSet(counts.errors) : i \in DOMAIN scan.lines
      BY <1>5, <1>6 DEF JSONL!ToSet
    <3> QED BY <1>8, <3>1
  <2> QED BY <1>4, <1>8, <2>1, JsonlScanned
<1> QED BY <1>8, <1>9, <1>10, <1>11 DEF JsonlReplies

SampleReply(r) ==
  \E max_bytes \in ByteLimits, lines \in RowLimits :
       LET scan == JSONL!Scan(max_bytes, lines)
       IN r = [tool |-> "jsonl.sample", scan |-> scan,
               rows |-> [i \in DOMAIN scan.lines |->
                           [line |-> i, value |-> JSONL!Parse(scan.lines[i])]],
               throws |-> \E i \in DOMAIN scan.lines : JSONL!Unprintable(scan.lines[i])]

\* jsonl.sample replies what the lines say.
LEMMA JsonlSampled ==
  ASSUME JsonlFile(file), SampleReply(reply)
  PROVE  JsonlReplies
<1>1. PICK max_bytes \in ByteLimits, max_lines \in RowLimits :
        LET scan == JSONL!Scan(max_bytes, max_lines)
        IN reply = [tool |-> "jsonl.sample", scan |-> scan,
                    rows |-> [i \in DOMAIN scan.lines |->
                                [line |-> i, value |-> JSONL!Parse(scan.lines[i])]],
                    throws |-> \E i \in DOMAIN scan.lines : JSONL!Unprintable(scan.lines[i])]
  BY DEF SampleReply
<1> DEFINE scan == JSONL!Scan(max_bytes, max_lines)
<1>2. ScanOf(scan, file.bytes, STRING)
  <2>1. max_bytes \in Int /\ max_lines \in Int
    BY LimitsAssumption
  <2> QED BY <2>1, JsonlScans
<1> HIDE DEF scan
<1>3. /\ reply.tool = "jsonl.sample" /\ reply.scan = scan /\ reply # JSONL!NoReply
      /\ reply.throws = \E i \in DOMAIN scan.lines : JSONL!Unprintable(scan.lines[i])
  <2>1. "scan" \in DOMAIN reply /\ "scan" \notin DOMAIN JSONL!NoReply
    BY <1>1 DEF JSONL!NoReply
  <2>2. /\ reply.tool = "jsonl.sample" /\ reply.scan = scan
        /\ reply.throws = \E i \in DOMAIN scan.lines : JSONL!Unprintable(scan.lines[i])
    BY <1>1 DEF scan
  <2> QED BY <2>1, <2>2
<1>4. ~JSONL!Summary
  BY <1>3 DEF JSONL!Summary
<1>5. JSONL!CountsAddUp
  BY <1>4 DEF JSONL!CountsAddUp
<1>6. /\ JSONL!LinesAreFirstLines /\ JSONL!OnlyTheCutLineIsMisjudged
      /\ JSONL!RendersUnlessCut /\ JSONL!TypeOK
  BY <1>2, <1>3, <1>4, JsonlScanned
<1> QED BY <1>5, <1>6 DEF JsonlReplies

\* The first state of jsonl_server.
LEMMA JsonlInit == JSONL!Init => JsonlFile(file) /\ JsonlReplies
<1> SUFFICES ASSUME JSONL!Init PROVE JsonlFile(file) /\ JsonlReplies
  OBVIOUS
<1>1. file \in [kind : FileKinds, bytes : {<<>>}] /\ reply = JSONL!NoReply
  BY JsonlNames DEF JSONL!Init
<1>2. file.bytes = <<>> /\ Len(file.bytes) = 0 /\ <<>> \in Seq(STRING)
  BY <1>1
<1>3. JsonlFile(file)
  <2>1. MaxFile \in Nat
    BY LimitsAssumption
  <2>2. file \in [kind : FileKinds, bytes : Seq(STRING)]
    BY <1>1, <1>2
  <2> QED BY <1>2, <2>1, <2>2 DEF JsonlFile
<1> QED BY <1>1, <1>3, JsonlIdle

\* Every step of jsonl_server keeps what its replies promise.
LEMMA JsonlNext ==
  ASSUME JsonlFile(file), JSONL!Next
  PROVE  JsonlFile(file)' /\ JsonlReplies'
<1>1. CASE JSONL!jsonl_summary
  <2>1. file' = file
    BY <1>1 DEF JSONL!jsonl_summary
  <2>2. JsonlFile(file)'
    BY <2>1 DEF JsonlFile
  <2>3. \A b, l : JSONL!Scan(b, l)' = JSONL!Scan(b, l)
    BY <2>1 DEF JSONL!Scan, JSONL!read_bounded
  <2>4. SummaryReply(reply')
    BY <1>1 DEF JSONL!jsonl_summary, SummaryReply
  <2>5. SummaryReply(reply)'
    BY <2>3, <2>4 DEF SummaryReply
  <2>6. (JsonlFile(file) /\ SummaryReply(reply))' => JsonlReplies'
    BY JsonlSummarized, PTL
  <2> QED BY <2>2, <2>5, <2>6
<1>2. CASE JSONL!jsonl_sample
  <2>1. file' = file
    BY <1>2 DEF JSONL!jsonl_sample
  <2>2. JsonlFile(file)'
    BY <2>1 DEF JsonlFile
  <2>3. \A b, l : JSONL!Scan(b, l)' = JSONL!Scan(b, l)
    BY <2>1 DEF JSONL!Scan, JSONL!read_bounded
  <2>4. SampleReply(reply')
    BY <1>2 DEF JSONL!jsonl_sample, SampleReply
  <2>5. SampleReply(reply)'
    BY <2>3, <2>4 DEF SampleReply
  <2>6. (JsonlFile(file) /\ SampleReply(reply))' => JsonlReplies'
    BY JsonlSampled, PTL
  <2> QED BY <2>2, <2>5, <2>6
<1>3. CASE JSONL!Return
  <2>1. JsonlFile(file)' /\ (reply = JSONL!NoReply)'
    BY <1>3 DEF JSONL!Return, JsonlFile, JSONL!NoReply
  <2>2. (JsonlFile(file) /\ reply = JSONL!NoReply)' => JsonlReplies'
    BY JsonlIdle, PTL
  <2> QED BY <2>1, <2>2
<1>4. CASE JSONL!Extend
  <2>1. PICK c \in JsonlCharacters : /\ Len(file.bytes) + Len(c) <= MaxFile
                                     /\ file' = [file EXCEPT !.bytes = @ \o c]
    BY <1>4 DEF JSONL!Extend
  <2>2. file.bytes \in Seq(STRING) /\ file.kind \in FileKinds /\ c \in Seq(STRING)
    BY TextAssumption DEF JsonlFile
  <2>3. file.bytes \o c \in Seq(STRING) /\ Len(file.bytes \o c) = Len(file.bytes) + Len(c)
    BY <2>2
  <2>5. file' = [kind |-> file.kind, bytes |-> file.bytes \o c]
    BY <2>1 DEF JsonlFile
  <2>6. JsonlFile(file')
    <3>1. file'.bytes = file.bytes \o c /\ file' \in [kind : FileKinds, bytes : Seq(STRING)]
      BY <2>2, <2>3, <2>5
    <3> QED BY <2>1, <2>3, <3>1 DEF JsonlFile
  <2>7. JsonlFile(file)' /\ (reply = JSONL!NoReply)'
    BY <1>4, <2>6 DEF JSONL!Extend, JSONL!NoReply, JsonlFile
  <2>8. (JsonlFile(file) /\ reply = JSONL!NoReply)' => JsonlReplies'
    BY JsonlIdle, PTL
  <2> QED BY <2>7, <2>8
<1> QED BY <1>1, <1>2, <1>3, <1>4 DEF JSONL!Next

\* Whatever bytes are in the file and whatever the limits, every line is counted
\* once, a limit changes at most the verdict on the line it cuts, and a call fails
\* only for a line without a value or for a cut character (jsonl_server.cpp).
THEOREM JsonlAlways == DataSpec => []JsonlRepliesAreTheFiles
<1>1. DataInit => JsonlInv
  BY JsonlInit DEF DataInit, JsonlInv
<1>2. JsonlInv /\ [DataNext]_dataVars => JsonlInv'
  <2> SUFFICES ASSUME JsonlInv, [DataNext]_dataVars PROVE JsonlInv'
    OBVIOUS
  <2>1. program' = program
    BY DEF DataNext, FileStep, HeaderStep, HashStep, dataVars
  <2>2. CASE program # "jsonl"
    BY <2>1, <2>2 DEF JsonlInv
  <2>3. CASE program = "jsonl" /\ DataNext
    <3>1. JSONL!Next
      BY <2>3 DEF DataNext, FileStep, HeaderStep, HashStep
    <3>2. JsonlFile(file)
      BY <2>3 DEF JsonlInv
    <3> QED BY <3>1, <3>2, JsonlNext DEF JsonlInv
  <2>4. CASE UNCHANGED dataVars
    <3>1. UNCHANGED <<program, file, reply>>
      BY <2>4 DEF dataVars, fileVars
    <3>2. CASE program = "jsonl"
      <4>1. JsonlFile(file)' /\ JsonlReplies'
        BY <3>1, <3>2
        DEF JsonlInv, JsonlFile, JsonlReplies, JSONL!TypeOK, JSONL!LinesAreFirstLines, JSONL!CountsAddUp,
            JSONL!OnlyTheCutLineIsMisjudged, JSONL!RendersUnlessCut, JSONL!Summary, JSONL!Replied
      <4> QED BY <4>1 DEF JsonlInv
    <3>3. CASE program # "jsonl"
      BY <2>1, <3>3 DEF JsonlInv
    <3> QED BY <3>2, <3>3
  <2> QED BY <2>2, <2>3, <2>4
<1>3. JsonlInv => JsonlRepliesAreTheFiles
  BY DEF JsonlInv, JsonlReplies, JsonlRepliesAreTheFiles
<1> QED BY <1>1, <1>2, <1>3, PTL DEF DataSpec, dataVars

-----------------------------------------------------------------------------
(* CsvServer.                                                            *)

\* The helpers CsvServer takes from FileText are those of FileText.
LEMMA CsvNames ==
  /\ \A f, n, l : CSV!ReadBounded(f, n, l) = ReadBounded(f, n, l)
  /\ \A t, m : CSV!SplitLines(t, m) = SplitLines(t, m)
  /\ \A n, l, h : CSV!clamp(n, l, h) = clamp(n, l, h)
  /\ \A s : CSV!Min(s) = Min(s)
  /\ \A s : CSV!Cardinality(s) = Cardinality(s)
  /\ \A P : CSV!InOrder(P) = InOrder(P)
  /\ \A t : CSV!AllLines(t) = AllLines(t)
  /\ \A t, a, c, l : CSV!FirstLines(t, a, c, l) = FirstLines(t, a, c, l)
  /\ \A s, P : CSV!Picked(s, P) = Picked(s, P)
  /\ \A s : CSV!ToSet(s) = ToSet(s)
  /\ \A s : CSV!Max(s) = Max(s)
  /\ CSV!FileKinds = FileKinds
<1>1. /\ \A s : CSV!Cardinality(s) = Cardinality(s)
      /\ \A s : CSV!Min(s) = Min(s)
      /\ \A n, l, h : CSV!clamp(n, l, h) = clamp(n, l, h)
      /\ \A s, t : CSV!IsPrefix(s, t) = IsPrefix(s, t)
      /\ CSV!FileKinds = FileKinds
  BY DEF CSV!Cardinality, Cardinality, CSV!Min, Min, CSV!clamp, clamp, CSV!IsPrefix, IsPrefix,
         CSV!FileKinds, FileKinds
<1>2. \A f, n, l : CSV!ReadBounded(f, n, l) = ReadBounded(f, n, l)
  BY <1>1 DEF CSV!ReadBounded, ReadBounded
<1>3. \A t, m : CSV!SplitLines(t, m) = SplitLines(t, m)
  <2>1. \A s, c, m : CSV!SplitByte(s, c, m) = SplitByte(s, c, m)
    BY DEF CSV!SplitByte, SplitByte
  <2>2. \A t, m : CSV!SplitScan(t, m) = SplitScan(t, m)
    BY <2>1 DEF CSV!SplitScan, SplitScan
  <2> QED BY <2>2 DEF CSV!SplitLines, SplitLines
<1>4. \A P : CSV!InOrder(P) = InOrder(P)
  <2>1. \A P, p : CSV!Rank(P, p) = Rank(P, p)
    BY <1>1 DEF CSV!Rank, Rank
  <2> QED BY <1>1, <2>1 DEF CSV!InOrder, InOrder
<1>5. \A s, P : CSV!Picked(s, P) = Picked(s, P)
  BY <1>1, <1>4 DEF CSV!Picked, Picked
<1>6. \A t : CSV!AllLines(t) = AllLines(t)
  <2>1. \A t : CSV!Content(t) = Content(t)
    BY DEF CSV!Content, Content
  <2>2. \A t, p, q : CSV!SameLine(t, p, q) = SameLine(t, p, q)
    BY DEF CSV!SameLine, SameLine
  <2>3. \A t : CSV!Begins(t) = Begins(t)
    BY <2>1, <2>2 DEF CSV!Begins, Begins
  <2>4. \A t, b : CSV!LineAt(t, b) = LineAt(t, b)
    BY <1>5, <2>1, <2>2 DEF CSV!LineAt, LineAt
  <2> QED BY <1>1, <1>4, <2>3, <2>4 DEF CSV!AllLines, AllLines
<1>7. \A t, a, c, l : CSV!FirstLines(t, a, c, l) = FirstLines(t, a, c, l)
  BY <1>1, <1>6 DEF CSV!FirstLines, FirstLines
<1>8. /\ \A s : CSV!ToSet(s) = ToSet(s)
      /\ \A s : CSV!Max(s) = Max(s)
  BY DEF CSV!ToSet, ToSet, CSV!Max, Max
<1> QED BY <1>1, <1>2, <1>3, <1>4, <1>5, <1>6, <1>7, <1>8

CsvStates == [fields : Seq(Seq(STRING)), field : Seq(STRING), quoted : BOOLEAN, skip : BOOLEAN]

\* What the turn at i does.
Escaped(s, line, i) == s.quoted /\ line[i] = "\"" /\ i < Len(line) /\ line[i + 1] = "\""
Ends(s, line, i, d) == ~s.quoted /\ line[i] = d /\ line[i] # "\""
CsvStep(s, z, line, i, d) ==
  /\ s.skip => z.fields = s.fields /\ z.field = s.field /\ z.quoted = s.quoted /\ ~z.skip
  /\ ~s.skip /\ Escaped(s, line, i) =>
       z.fields = s.fields /\ z.field = Append(s.field, line[i]) /\ z.quoted = s.quoted /\ z.skip
  /\ ~s.skip /\ line[i] = "\"" /\ ~Escaped(s, line, i) =>
       z.fields = s.fields /\ z.field = s.field /\ (z.quoted <=> ~s.quoted) /\ ~z.skip
  /\ ~s.skip /\ Ends(s, line, i, d) =>
       z.fields = Append(s.fields, s.field) /\ z.field = <<>> /\ ~z.quoted /\ ~z.skip
  /\ ~s.skip /\ line[i] # "\"" /\ ~Ends(s, line, i, d) =>
       /\ z.fields = s.fields /\ z.field = Append(s.field, line[i])
       /\ z.quoted = s.quoted /\ ~z.skip

\* One turn of the loop of parse_csv_line.
LEMMA CsvTurn ==
  ASSUME NEW line \in Seq(STRING), NEW i \in 1 .. Len(line), NEW d, NEW s \in CsvStates
  PROVE  LET z == CSV!ParseByte(s, line, i, d) IN
         z \in CsvStates /\ CsvStep(s, z, line, i, d)
<1> DEFINE L == Seq(STRING)
           z == CSV!ParseByte(s, line, i, d)
           ch == line[i]
           Z == [fields : Seq(L), field : L, quoted : BOOLEAN, skip : BOOLEAN]
           turned == [s EXCEPT !.quoted = ~@]
<1>1. ch \in STRING
  OBVIOUS
<1>2. s \in Z
  BY DEF CsvStates
<1>3. Append(s.field, ch) \in L /\ <<>> \in L
  <2>1. s.field \in Seq(STRING)
    BY <1>2
  <2> QED BY <1>1, <2>1
<1>4. z = CASE s.skip -> [s EXCEPT !.skip = FALSE]
       [] ~s.skip /\ Escaped(s, line, i) -> [s EXCEPT !.field = Append(@, ch), !.skip = TRUE]
       [] ~s.skip /\ ch = "\"" /\ ~Escaped(s, line, i) -> turned
       [] ~s.skip /\ Ends(s, line, i, d) -> [s EXCEPT !.fields = Append(@, s.field), !.field = <<>>]
       [] OTHER -> [s EXCEPT !.field = Append(@, ch)]
  BY DEF CSV!ParseByte, Escaped, Ends
<1>5. Escaped(s, line, i) => ch = "\""
  BY DEF Escaped
<1>6. Ends(s, line, i, d) => ch # "\"" /\ ~s.quoted
  BY DEF Ends
<1> HIDE DEF L, z, ch, turned
<1>15. z = IF s.skip THEN [s EXCEPT !.skip = FALSE]
           ELSE IF Escaped(s, line, i) THEN [s EXCEPT !.field = Append(@, ch), !.skip = TRUE]
           ELSE IF ch = "\"" THEN turned
           ELSE IF Ends(s, line, i, d) THEN [s EXCEPT !.fields = Append(@, s.field), !.field = <<>>]
           ELSE [s EXCEPT !.field = Append(@, ch)]
  BY <1>4, <1>5, <1>6, Zenon
<1>7. s.fields \in Seq(L) /\ s.field \in L /\ s.quoted \in BOOLEAN /\ s.skip \in BOOLEAN
      /\ s = [fields |-> s.fields, field |-> s.field, quoted |-> s.quoted, skip |-> s.skip]
  BY <1>2
<1>8. Append(s.fields, s.field) \in Seq(L)
  BY <1>7
<1> DEFINE Goal ==
      /\ z \in Z
      /\ s.skip => z.fields = s.fields /\ z.field = s.field /\ z.quoted = s.quoted /\ ~z.skip
      /\ ~s.skip /\ Escaped(s, line, i) =>
           z.fields = s.fields /\ z.field = Append(s.field, ch) /\ z.quoted = s.quoted /\ z.skip
      /\ ~s.skip /\ ch = "\"" /\ ~Escaped(s, line, i) =>
           z.fields = s.fields /\ z.field = s.field /\ (z.quoted <=> ~s.quoted) /\ ~z.skip
      /\ ~s.skip /\ Ends(s, line, i, d) =>
           z.fields = Append(s.fields, s.field) /\ z.field = <<>> /\ ~z.quoted /\ ~z.skip
      /\ ~s.skip /\ ch # "\"" /\ ~Ends(s, line, i, d) =>
           /\ z.fields = s.fields /\ z.field = Append(s.field, ch)
           /\ z.quoted = s.quoted /\ ~z.skip
<1>9. ASSUME s.skip PROVE Goal
  <2>1. z = [fields |-> s.fields, field |-> s.field, quoted |-> s.quoted, skip |-> FALSE]
    BY <1>4, <1>7, <1>9
  <2> QED BY <1>7, <1>9, <2>1
<1>10. ASSUME ~s.skip, Escaped(s, line, i) PROVE Goal
  <2>1. z = [fields |-> s.fields, field |-> Append(s.field, ch), quoted |-> s.quoted, skip |-> TRUE]
    <3>1. z = [s EXCEPT !.field = Append(@, ch), !.skip = TRUE]
      BY <1>4, <1>5, <1>6, <1>10
    <3> QED BY <1>7, <3>1
  <2> QED BY <1>3, <1>5, <1>6, <1>7, <1>10, <2>1
<1>11. ASSUME ~s.skip, ch = "\"", ~Escaped(s, line, i) PROVE Goal
  <2>1. z = turned
    BY <1>15, <1>11, Zenon
  <2>2. z.fields = s.fields /\ z.field = s.field /\ (z.quoted <=> ~s.quoted) /\ ~z.skip /\ z \in Z
    <3>1. CASE s.quoted
      <4>1. z = [fields |-> s.fields, field |-> s.field, quoted |-> FALSE, skip |-> FALSE]
        BY <1>7, <1>11, <2>1, <3>1 DEF turned
      <4> QED BY <1>7, <3>1, <4>1
    <3>2. CASE ~s.quoted
      <4>1. z = [fields |-> s.fields, field |-> s.field, quoted |-> TRUE, skip |-> FALSE]
        BY <1>7, <1>11, <2>1, <3>2 DEF turned
      <4> QED BY <1>7, <3>2, <4>1
    <3> QED BY <3>1, <3>2
  <2> QED BY <1>6, <1>11, <2>2
<1>12. ASSUME ~s.skip, Ends(s, line, i, d) PROVE Goal
  <2>1. z = [fields |-> Append(s.fields, s.field), field |-> <<>>, quoted |-> s.quoted, skip |-> FALSE]
    BY <1>4, <1>5, <1>6, <1>7, <1>12
  <2> QED BY <1>3, <1>5, <1>6, <1>7, <1>8, <1>12, <2>1
<1>13. ASSUME ~s.skip, ch # "\"", ~Ends(s, line, i, d) PROVE Goal
  <2>1. z = [fields |-> s.fields, field |-> Append(s.field, ch), quoted |-> s.quoted, skip |-> FALSE]
    BY <1>4, <1>5, <1>7, <1>13
  <2> QED BY <1>3, <1>5, <1>7, <1>13, <2>1
<1>14. Goal
  <2> HIDE DEF Goal
  <2> QED BY <1>5, <1>6, <1>7, <1>9, <1>10, <1>11, <1>12, <1>13
<1> QED BY <1>14 DEF CsvStep, CsvStates, L, z, ch

\* The loop of parse_csv_line, byte by byte.
LEMMA CsvTurns ==
  ASSUME NEW line \in Seq(STRING), NEW d
  PROVE  LET scan == CSV!ParseScan(line, d) IN
         /\ scan[0] = [fields |-> <<>>, field |-> <<>>, quoted |-> FALSE, skip |-> FALSE]
         /\ \A i \in 0 .. Len(line) : scan[i] \in CsvStates
         /\ \A i \in 1 .. Len(line) : CsvStep(scan[i - 1], scan[i], line, i, d)
<1> DEFINE n == Len(line)
           S == CsvStates
           s0 == [fields |-> <<>>, field |-> <<>>, quoted |-> FALSE, skip |-> FALSE]
           Turn(s, i) == CSV!ParseByte(s, line, i, d)
           T == [i \in 1 .. n |-> [s \in S |-> Turn(s, i)]]
           scan == CSV!ParseScan(line, d)
<1>1. s0 \in S /\ n \in Nat
  BY DEF CsvStates
<1>2. ASSUME NEW i \in 1 .. n, NEW s \in S PROVE Turn(s, i) \in S /\ CsvStep(s, Turn(s, i), line, i, d)
  BY CsvTurn
<1>3. T \in [1 .. n -> [S -> S]]
  <2> HIDE DEF S, Turn, n
  <2> QED BY <1>2
<1> HIDE DEF S, T, s0, Turn
<1>4. PICK f \in [0 .. n -> S] : IsScan(f, n, s0, T)
  BY <1>1, <1>3, Recursion
<1>5. f = [i \in 0 .. n |-> IF i = 0 THEN s0 ELSE Turn(f[i - 1], i)]
  <2>1. ASSUME NEW i \in 0 .. n
        PROVE  f[i] = IF i = 0 THEN s0 ELSE Turn(f[i - 1], i)
    <3>1. f[i] = IF i = 0 THEN s0 ELSE T[i][f[i - 1]]
      BY <1>4 DEF IsScan
    <3>2. i # 0 => i \in 1 .. n /\ f[i - 1] \in S
      OBVIOUS
    <3> QED BY <3>1, <3>2 DEF T
  <2> QED BY <2>1
<1>6. \E g : g = [i \in 0 .. n |-> IF i = 0 THEN s0 ELSE Turn(g[i - 1], i)]
  BY <1>5
<1>7. scan = [i \in 0 .. n |-> IF i = 0 THEN s0 ELSE Turn(scan[i - 1], i)]
  BY <1>6 DEF CSV!ParseScan, s0, Turn
<1> HIDE DEF scan
<1>8. scan[0] = s0
  BY <1>1, <1>7
<1>9. \A i \in 1 .. n : scan[i] = Turn(scan[i - 1], i)
  BY <1>7
<1>10. \A i \in 1 .. n : scan[i - 1] \in S => scan[i] \in S
  BY <1>2, <1>9
<1>11. \A i \in 0 .. n : scan[i] \in S
  <2> HIDE DEF n
  <2> QED BY <1>1, <1>8, <1>10, ScanTypes
<1>12. \A i \in 1 .. n : CsvStep(scan[i - 1], scan[i], line, i, d)
  <2>1. \A i \in 1 .. n : i - 1 \in 0 .. n
    OBVIOUS
  <2> QED BY <1>2, <1>9, <1>11, <2>1
<1> QED BY <1>8, <1>11, <1>12 DEF scan, S, s0

\* An even number and the next.
LEMMA Parity == \A k \in Nat : /\ k % 2 \in {0, 1}
                               /\ (k + 1) % 2 = 0 <=> k % 2 # 0
OBVIOUS

QuotesOf(line) == {q \in 1 .. Len(line) : line[q] = "\""}

\* An even number of quotes up to i.
EvenAt(line, i) == Cardinality(Upto(QuotesOf(line), i)) % 2 = 0

\* The parity of the quotes up to a position changes with each quote.
LEMMA EvenTurns ==
  ASSUME NEW line \in Seq(STRING)
  PROVE  /\ EvenAt(line, 0)
         /\ \A i \in 1 .. Len(line) : EvenAt(line, i) <=> IF line[i] = "\"" THEN ~EvenAt(line, i - 1)
                                                          ELSE EvenAt(line, i - 1)
<1> DEFINE n == Len(line)
           Q == QuotesOf(line)
<1>1. Places(Q, n)
  <2>1. n \in Nat
    OBVIOUS
  <2> QED BY <2>1 DEF Places, QuotesOf
<1>2. Cardinality(Upto(Q, 0)) = 0
  <2>1. Upto(Q, 0) = {}
    <3> HIDE DEF Q, n
    <3> QED BY <1>1, PlacesUpto
  <2> QED BY <2>1, FS_EmptySet
<1>3. EvenAt(line, 0)
  <2>1. 0 % 2 = 0
    OBVIOUS
  <2> QED BY <1>2, <2>1 DEF EvenAt
<1>4. ASSUME NEW i \in 1 .. n
      PROVE  EvenAt(line, i) <=> IF line[i] = "\"" THEN ~EvenAt(line, i - 1) ELSE EvenAt(line, i - 1)
  <2> DEFINE c == Cardinality(Upto(Q, i - 1))
             e == Cardinality(Upto(Q, i))
  <2>1. i \in Q <=> line[i] = "\""
    BY DEF QuotesOf
  <2>2. e = IF i \in Q THEN c + 1 ELSE c
    <3> HIDE DEF Q, n
    <3> QED BY <1>1, PickedPrefix
  <2>3. c \in Nat
    <3>1. c \in 0 .. n
      <4> HIDE DEF Q, n
      <4> QED BY <1>1, PlacesUpto
    <3> QED BY <3>1
  <2>4. (EvenAt(line, i) <=> e % 2 = 0) /\ (EvenAt(line, i - 1) <=> c % 2 = 0)
    BY DEF EvenAt
  <2> HIDE DEF c, e, Q
  <2> QED BY <2>1, <2>2, <2>3, <2>4, Parity
<1> QED BY <1>3, <1>4

\* The loop is inside quotes where an odd number of them is behind it, but for
\* the first of two in a row.
QuotedAt(line, s, i) ==
  /\ s.skip => s.quoted /\ EvenAt(line, i) /\ i < Len(line) /\ line[i + 1] = "\""
  /\ ~s.skip => (s.quoted <=> ~EvenAt(line, i))

\* The flag of the loop is the parity of the quotes read so far.
LEMMA CsvQuoted ==
  ASSUME NEW line \in Seq(STRING), NEW d
  PROVE  \A i \in 0 .. Len(line) : QuotedAt(line, CSV!ParseScan(line, d)[i], i)
<1> DEFINE scan == CSV!ParseScan(line, d)
           n == Len(line)
           I == {i \in 0 .. n : QuotedAt(line, scan[i], i)}
<1>1. n \in Nat
  OBVIOUS
<1>2. /\ scan[0] = [fields |-> <<>>, field |-> <<>>, quoted |-> FALSE, skip |-> FALSE]
      /\ \A i \in 0 .. n : scan[i] \in CsvStates
      /\ \A i \in 1 .. n : CsvStep(scan[i - 1], scan[i], line, i, d)
  BY CsvTurns
<1> HIDE DEF scan
<1>3. 0 \in I
  <2>1. ~scan[0].skip /\ ~scan[0].quoted
    BY <1>2
  <2>2. EvenAt(line, 0)
    BY EvenTurns
  <2>3. QuotedAt(line, scan[0], 0)
    BY <2>1, <2>2 DEF QuotedAt
  <2> QED BY <1>1, <2>3
<1>4. ASSUME NEW k \in 0 .. n - 1, k \in I PROVE k + 1 \in I
  <2> DEFINE i == k + 1
             s == scan[k]
             z == scan[i]
             E == EvenAt(line, k)
             F == EvenAt(line, i)
  <2>1. i \in 1 .. n /\ i - 1 = k /\ i \in 0 .. n /\ k \in 0 .. n
    OBVIOUS
  <2>2. F <=> IF line[i] = "\"" THEN ~E ELSE E
    <3> HIDE DEF i
    <3> QED BY <2>1, EvenTurns
  <2>3. s.skip \in BOOLEAN /\ s.quoted \in BOOLEAN /\ z.skip \in BOOLEAN /\ z.quoted \in BOOLEAN
    <3>1. s \in CsvStates /\ z \in CsvStates
      BY <1>2, <2>1
    <3> QED BY <3>1 DEF CsvStates
  <2>4. CsvStep(s, z, line, i, d)
    BY <1>2, <2>1
  <2>5. /\ s.skip => s.quoted /\ E /\ line[i] = "\""
        /\ ~s.skip => (s.quoted <=> ~E)
    BY <1>4 DEF QuotedAt
  <2> HIDE DEF s, z, E, F, i
  <2>6. /\ z.skip => z.quoted /\ F /\ i < n /\ line[i + 1] = "\""
        /\ ~z.skip => (z.quoted <=> ~F)
    <3>1. CASE s.skip
      BY <2>2, <2>3, <2>4, <2>5, <3>1 DEF CsvStep
    <3>2. CASE ~s.skip /\ Escaped(s, line, i)
      BY <2>2, <2>3, <2>4, <2>5, <3>2 DEF CsvStep, Escaped
    <3>3. CASE ~s.skip /\ line[i] = "\"" /\ ~Escaped(s, line, i)
      BY <2>2, <2>3, <2>4, <2>5, <3>3 DEF CsvStep
    <3>4. CASE ~s.skip /\ Ends(s, line, i, d)
      BY <2>2, <2>3, <2>4, <2>5, <3>4 DEF CsvStep, Ends
    <3>5. CASE ~s.skip /\ line[i] # "\"" /\ ~Ends(s, line, i, d)
      BY <2>2, <2>3, <2>4, <2>5, <3>5 DEF CsvStep
    <3>6. Escaped(s, line, i) => line[i] = "\""
      BY DEF Escaped
    <3> QED BY <2>3, <3>1, <3>2, <3>3, <3>4, <3>5, <3>6
  <2> QED BY <2>1, <2>6 DEF QuotedAt, z, F, i
<1>5. \A i \in 0 .. n : i \in I
  <2>1. \A i \in 0 .. n - 1 : i \in I => i + 1 \in I
    BY <1>4
  <2> HIDE DEF I, n
  <2> QED BY <1>1, <1>3, <2>1, Induction
<1> QED BY <1>5 DEF scan

\* A field ends where a separator is.
LEMMA CsvSeparators ==
  ASSUME NEW line \in Seq(STRING), NEW d
  PROVE  /\ Places(CSV!Separators(line, d), Len(line))
         /\ \A i \in 1 .. Len(line) :
              i \in CSV!Separators(line, d) <=>
                /\ ~CSV!ParseScan(line, d)[i - 1].skip
                /\ Ends(CSV!ParseScan(line, d)[i - 1], line, i, d)
<1> DEFINE n == Len(line)
<1>1. n \in Nat /\ DOMAIN line = 1 .. n
  OBVIOUS
<1>2. Places(CSV!Separators(line, d), n)
  BY <1>1 DEF Places, CSV!Separators
<1>3. ASSUME NEW i \in 1 .. n
      PROVE  i \in CSV!Separators(line, d) <=> line[i] = d /\ d # "\"" /\ EvenAt(line, i - 1)
  <2>1. {q \in 1 .. i - 1 : line[q] = "\""} = Upto(QuotesOf(line), i - 1)
    <3>1. \A q : q \in 1 .. i - 1 <=> q \in 1 .. n /\ q <= i - 1
      BY <1>1
    <3> HIDE DEF n
    <3> QED BY <3>1 DEF Upto, QuotesOf, n
  <2>2. CSV!Cardinality({q \in 1 .. i - 1 : line[q] = "\""})
          = Cardinality({q \in 1 .. i - 1 : line[q] = "\""})
    BY CsvNames
  <2> QED BY <1>1, <2>1, <2>2 DEF EvenAt, CSV!Separators
<1>4. ASSUME NEW i \in 1 .. n
      PROVE  line[i] = d /\ d # "\"" /\ EvenAt(line, i - 1) <=>
                /\ ~CSV!ParseScan(line, d)[i - 1].skip
                /\ Ends(CSV!ParseScan(line, d)[i - 1], line, i, d)
  <2> DEFINE k == i - 1
             s == CSV!ParseScan(line, d)[k]
  <2>1. k \in 0 .. n /\ k + 1 = i
    BY <1>1
  <2> HIDE DEF k
  <2>2. QuotedAt(line, s, k) /\ s \in CsvStates
    BY <2>1, CsvQuoted, CsvTurns
  <2>3. s.skip \in BOOLEAN /\ s.quoted \in BOOLEAN
    BY <2>2 DEF CsvStates
  <2> HIDE DEF s
  <2>4. line[i] = d /\ d # "\"" /\ EvenAt(line, k) <=> ~s.skip /\ Ends(s, line, i, d)
    BY <2>1, <2>2, <2>3 DEF QuotedAt, Ends
  <2> QED BY <2>4 DEF k, s
<1> QED BY <1>2, <1>3, <1>4

\* Where the field before the k-th separator ends, and the last one.
FieldAt(line, d, b) == CSV!ParseScan(line, d)[b].field

\* The fields are what the loop had before each separator and has at the end.
LEMMA CsvFields ==
  ASSUME NEW line \in Seq(STRING), NEW d
  PROVE  LET P == CSV!Separators(line, d)
             r == CSV!parse_csv_line(line, d) IN
         /\ r \in Seq(Seq(STRING)) /\ Len(r) = Cardinality(P) + 1 /\ Cardinality(P) \in Nat
         /\ \A j \in 1 .. Cardinality(P) : r[j] = FieldAt(line, d, InOrder(P)[j] - 1)
         /\ r[Cardinality(P) + 1] = FieldAt(line, d, Len(line))
<1> DEFINE n == Len(line)
           P == CSV!Separators(line, d)
           scan == CSV!ParseScan(line, d)
           L == Seq(STRING)
           To(i) == Upto(P, i)
           c(i) == Cardinality(To(i))
           Cut(i) == /\ Len(scan[i].fields) = c(i)
                     /\ \A j \in 1 .. c(i) : scan[i].fields[j] = scan[InOrder(P)[j] - 1].field
           I == {i \in 0 .. n : Cut(i)}
<1>1. n \in Nat /\ n \in 0 .. n
  OBVIOUS
<1>2. /\ scan[0] = [fields |-> <<>>, field |-> <<>>, quoted |-> FALSE, skip |-> FALSE]
      /\ \A i \in 0 .. n : scan[i] \in CsvStates
      /\ \A i \in 1 .. n : CsvStep(scan[i - 1], scan[i], line, i, d)
  BY CsvTurns
<1>3. /\ Places(P, n)
      /\ \A i \in 1 .. n : i \in P <=> ~scan[i - 1].skip /\ Ends(scan[i - 1], line, i, d)
  BY CsvSeparators
<1> HIDE DEF scan, P, n, L
<1>4. \A i \in 0 .. n : scan[i].fields \in Seq(L) /\ scan[i].field \in L /\ scan[i].skip \in BOOLEAN
  BY <1>2 DEF CsvStates, L
<1>5. Cut(0)
  <2>1. c(0) = 0
    BY <1>3, PlacesUpto, FS_EmptySet
  <2>2. Len(scan[0].fields) = 0
    BY <1>2
  <2> HIDE DEF c
  <2> QED BY <2>1, <2>2
<1>6. ASSUME NEW i \in 1 .. n, i \in P
      PROVE  c(i) \in Nat /\ c(i) \in 1 .. Cardinality(P) /\ InOrder(P)[c(i)] = i
  <2>1. To(i) = {q \in P : q <= i}
    BY DEF Upto
  <2>2. c(i) = Rank(P, i)
    BY <2>1 DEF Rank
  <2>3. IsFiniteSet(P) /\ P \subseteq Int
    BY <1>3, FinitePlaces
  <2>4. Rank(P, i) \in 1 .. Cardinality(P) /\ InOrder(P)[Rank(P, i)] = i /\ Cardinality(P) \in Nat
    BY <1>6, <2>3, Order, FS_CardinalityType
  <2> HIDE DEF c
  <2> QED BY <2>2, <2>4
<1>7. ASSUME NEW k \in 0 .. n - 1, k \in I PROVE k + 1 \in I
  <2> DEFINE i == k + 1
             s == scan[k]
             z == scan[i]
             e == c(k)
             f == c(i)
  <2>1. i \in 1 .. n /\ i - 1 = k /\ i \in 0 .. n /\ k \in 0 .. n
    BY <1>1
  <2> HIDE DEF i
  <2>2. f = IF i \in P THEN e + 1 ELSE e
    BY <1>3, <2>1, PickedPrefix
  <2>3. e \in Nat
    <3>1. e \in 0 .. n
      BY <1>3, PlacesUpto
    <3> QED BY <1>1, <3>1
  <2>4. /\ s.fields \in Seq(L) /\ s.field \in L /\ s.skip \in BOOLEAN
        /\ i \in P <=> ~s.skip /\ Ends(s, line, i, d)
        /\ CsvStep(s, z, line, i, d)
    BY <1>2, <1>3, <1>4, <2>1
  <2>5. Len(s.fields) = e /\ \A j \in 1 .. e : s.fields[j] = scan[InOrder(P)[j] - 1].field
    BY <1>7
  <2>6. i \in P => f \in Nat /\ InOrder(P)[f] - 1 = k
    <3>1. i \in P => f \in Nat /\ InOrder(P)[f] = i
      BY <1>6, <2>1
    <3> QED BY <2>1, <3>1
  <2>7. ASSUME i \in P
        PROVE  Len(z.fields) = f /\ \A j \in 1 .. f : z.fields[j] = scan[InOrder(P)[j] - 1].field
    <3>1. z.fields = Append(s.fields, s.field)
      BY <2>4, <2>7 DEF CsvStep
    <3>2. InOrder(P)[f] - 1 = k /\ f = e + 1
      BY <2>2, <2>6, <2>7
    <3> HIDE DEF c, e, f
    <3>3. /\ Len(z.fields) = e + 1 /\ z.fields[e + 1] = s.field
          /\ \A j \in 1 .. e : z.fields[j] = s.fields[j]
      BY <2>4, <2>5, <3>1
    <3>4. \A j \in 1 .. f : j \in 1 .. e \/ j = f
      BY <2>3, <3>2
    <3>5. scan[InOrder(P)[f] - 1].field = s.field
      BY <3>2
    <3> HIDE DEF s, z
    <3> QED BY <2>5, <3>2, <3>3, <3>4, <3>5
  <2>8. ASSUME i \notin P
        PROVE  Len(z.fields) = f /\ \A j \in 1 .. f : z.fields[j] = scan[InOrder(P)[j] - 1].field
    <3>1. Escaped(s, line, i) => line[i] = "\""
      BY DEF Escaped
    <3>2. z.fields = s.fields
      <4> HIDE DEF s, z
      <4> QED BY <2>4, <2>8, <3>1 DEF CsvStep
    <3> HIDE DEF c, e, f, s, z
    <3> QED BY <2>2, <2>5, <2>8, <3>2
  <2>9. Len(z.fields) = f /\ \A j \in 1 .. f : z.fields[j] = scan[InOrder(P)[j] - 1].field
    BY <2>7, <2>8
  <2> QED BY <2>1, <2>9 DEF i
<1>8. Cut(n)
  <2>1. \A i \in 0 .. n - 1 : i \in I => i + 1 \in I
    BY <1>7
  <2>2. 0 \in I
    BY <1>1, <1>5
  <2> HIDE DEF I
  <2>3. \A i \in 0 .. n : i \in I
    BY <1>1, <2>1, <2>2, Induction
  <2> QED BY <1>1, <2>3 DEF I
<1>9. c(n) = Cardinality(P) /\ Cardinality(P) \in Nat
  <2>1. To(n) = P /\ Cardinality(To(n)) \in 0 .. n
    BY <1>3, PlacesUpto
  <2> QED BY <1>1, <2>1
<1> DEFINE r == CSV!parse_csv_line(line, d)
           K == Cardinality(P)
<1>10. r = Append(scan[n].fields, scan[n].field)
  BY DEF CSV!parse_csv_line, n, scan
<1> HIDE DEF r, K
<1>11. /\ r \in Seq(L) /\ Len(r) = K + 1 /\ r[K + 1] = scan[n].field
       /\ \A j \in 1 .. K : r[j] = scan[n].fields[j]
  <2>1. scan[n].fields \in Seq(L) /\ scan[n].field \in L
    BY <1>1, <1>4
  <2>2. Len(scan[n].fields) = K
    BY <1>8, <1>9 DEF K
  <2> QED BY <1>10, <2>1, <2>2
<1>12. \A j \in 1 .. K : r[j] = scan[InOrder(P)[j] - 1].field
  BY <1>8, <1>9, <1>11 DEF K
<1> QED BY <1>9, <1>11, <1>12 DEF scan, P, n, L, r, K, FieldAt

\* The ends of the segments: before the first byte, the separators, after the last.
EndsOf(P, n) ==
  LET K == Cardinality(P)
      ends == InOrder({0} \cup P \cup {n + 1})
  IN /\ ends[1] = 0 /\ ends[K + 2] = n + 1
     /\ \A k \in 1 .. K : ends[k + 1] = InOrder(P)[k]
     /\ \A k \in 1 .. K + 2 : ends[k] \in 0 .. n + 1
     /\ \A i, k \in 1 .. K + 2 : i < k => ends[i] < ends[k]
     /\ \A p \in P : \E k \in 1 .. K : ends[k + 1] = p

\* The ends of the segments of a line, in order.
LEMMA CsvEnds ==
  ASSUME NEW n \in Nat, NEW P, Places(P, n)
  PROVE  EndsOf(P, n)
<1> DEFINE K == Cardinality(P)
           E == {0} \cup P \cup {n + 1}
           f == [j \in 1 .. K + 2 |-> IF j = 1 THEN 0 ELSE IF j = K + 2 THEN n + 1
                                      ELSE InOrder(P)[j - 1]]
<1>1. IsFiniteSet(P) /\ P \subseteq Int /\ P \subseteq 1 .. n /\ K \in Nat
  <2>1. IsFiniteSet(P) /\ P \subseteq Int /\ P \subseteq 1 .. n
    BY FinitePlaces DEF Places
  <2> QED BY <2>1, FS_CardinalityType
<1>2. /\ \A j \in 1 .. K : InOrder(P)[j] \in P
      /\ \A j, k \in 1 .. K : j < k => InOrder(P)[j] < InOrder(P)[k]
      /\ \A p \in P : \E j \in 1 .. K : InOrder(P)[j] = p
  BY <1>1, Order
<1> HIDE DEF K
<1>3. IsFiniteSet(E) /\ E \subseteq Int
  <2>1. IsFiniteSet({0}) /\ IsFiniteSet({n + 1})
    BY FS_Singleton
  <2>2. IsFiniteSet({0} \cup P)
    BY <1>1, <2>1, FS_Union
  <2>3. IsFiniteSet({0} \cup P \cup {n + 1})
    BY <2>1, <2>2, FS_Union
  <2> QED BY <1>1, <2>3
<1>4. /\ f[1] = 0 /\ f[K + 2] = n + 1
      /\ \A j \in 1 .. K : f[j + 1] = InOrder(P)[j]
      /\ DOMAIN f = 1 .. K + 2
  BY <1>1
<1>5. \A j \in 1 .. K + 2 : j = 1 \/ j = K + 2 \/ \E k \in 1 .. K : j = k + 1
  <2>1. \A j \in 1 .. K + 2 : j = 1 \/ j = K + 2 \/ (j - 1 \in 1 .. K /\ j = j - 1 + 1)
    BY <1>1
  <2> QED BY <2>1
<1> HIDE DEF f
<1>6. \A j \in 1 .. K + 2 : f[j] \in E /\ f[j] \in 0 .. n + 1
  <2>1. \A k \in 1 .. K : f[k + 1] \in P
    BY <1>2, <1>4
  <2>2. \A p \in E : p \in 0 .. n + 1
    BY <1>1
  <2>3. ASSUME NEW j \in 1 .. K + 2 PROVE f[j] \in E
    <3>1. CASE j = 1
      BY <1>4, <3>1
    <3>2. CASE j = K + 2
      BY <1>4, <3>2
    <3>3. CASE \E k \in 1 .. K : j = k + 1
      BY <2>1, <3>3
    <3> QED BY <1>5, <3>1, <3>2, <3>3
  <2> QED BY <2>2, <2>3
<1>7. ASSUME NEW j \in 1 .. K + 2, NEW k \in 1 .. K + 2, j < k PROVE f[j] < f[k]
  <2>1. \A i \in 1 .. K : f[i + 1] \in 1 .. n
    BY <1>1, <1>2, <1>4
  <2>2. CASE j = 1
    <3>1. k # 1
      BY <1>7, <2>2
    <3> QED BY <1>4, <1>5, <2>1, <2>2, <3>1
  <2>3. CASE k = K + 2 /\ j # 1
    <3>1. j # K + 2
      BY <1>7, <2>3
    <3>2. PICK i \in 1 .. K : j = i + 1
      BY <1>5, <2>3, <3>1
    <3> QED BY <1>4, <2>1, <2>3, <3>2
  <2>4. CASE j # 1 /\ k # K + 2
    <3>1. k # 1 /\ j # K + 2
      BY <1>1, <1>7, <2>4
    <3>2. PICK i \in 1 .. K : j = i + 1
      BY <1>5, <2>4, <3>1
    <3>3. PICK h \in 1 .. K : k = h + 1
      BY <1>5, <2>4, <3>1
    <3>4. i < h
      BY <1>7, <3>2, <3>3
    <3> QED BY <1>2, <1>4, <3>2, <3>3, <3>4
  <2> QED BY <2>2, <2>3, <2>4
<1>8. ASSUME NEW p \in E PROVE \E j \in 1 .. K + 2 : f[j] = p
  <2>1. CASE p = 0
    BY <1>1, <1>4, <2>1
  <2>2. CASE p = n + 1
    BY <1>1, <1>4, <2>2
  <2>3. CASE p \in P
    <3>1. PICK j \in 1 .. K : InOrder(P)[j] = p
      BY <1>2, <2>3
    <3>2. j + 1 \in 1 .. K + 2
      BY <1>1
    <3> QED BY <1>4, <3>1, <3>2
  <2> QED BY <2>1, <2>2, <2>3
<1>9. f \in [1 .. K + 2 -> E] /\ K + 2 \in Nat
  <2>1. f = [j \in 1 .. K + 2 |-> f[j]]
    BY DEF f
  <2> QED BY <1>1, <1>6, <2>1
<1>10. InOrder(E) = f
  <2> HIDE DEF E
  <2> QED BY <1>3, <1>7, <1>8, <1>9, OrderIsUnique
<1> QED BY <1>1, <1>2, <1>4, <1>6, <1>7, <1>10 DEF K, EndsOf

NoQuotes(t) == \A i \in 1 .. Len(t) : t[i] # "\""

\* A text without its quotes, built up element by element.
LEMMA Unquoting ==
  ASSUME NEW S
  PROVE  /\ CSV!Unquoted(<<>>) = <<>>
         /\ \A t \in Seq(S) :
              /\ CSV!Unquoted(t) \in Seq(S)
              /\ CSV!Unquoted(t) = t => NoQuotes(t)
              /\ \A e \in S : CSV!Unquoted(Append(t, e))
                                = IF e = "\"" THEN CSV!Unquoted(t) ELSE Append(CSV!Unquoted(t), e)
<1> DEFINE P(t) == {p \in 1 .. Len(t) : t[p] # "\""}
<1>0. ASSUME NEW t \in Seq(S) PROVE Len(t) \in Nat
  OBVIOUS
<1>1. ASSUME NEW t \in Seq(S) PROVE CSV!Unquoted(t) = Picked(t, P(t))
  <2>1. DOMAIN t = 1 .. Len(t)
    OBVIOUS
  <2>2. CSV!Unquoted(t) = CSV!Picked(t, {p \in DOMAIN t : t[p] # "\""})
    BY DEF CSV!Unquoted
  <2>3. \A Q : CSV!Picked(t, Q) = Picked(t, Q)
    BY CsvNames
  <2> QED BY <2>1, <2>2, <2>3
<1>2. ASSUME NEW t \in Seq(S)
      PROVE  /\ IsFiniteSet(P(t)) /\ P(t) \subseteq Int
             /\ \A p \in P(t) : t[p] \in S
             /\ P(t) \in SUBSET (1 .. Len(t))
  <2>1. Len(t) \in Nat
    BY <1>0
  <2>2. Places(P(t), Len(t))
    BY <2>1 DEF Places
  <2>3. P(t) \in SUBSET (1 .. Len(t))
    OBVIOUS
  <2>6. \A p \in 1 .. Len(t) : t[p] \in S
    BY <2>1
  <2> HIDE DEF P
  <2>4. \A p \in P(t) : t[p] \in S
    BY <2>3, <2>6
  <2>5. IsFiniteSet(P(t)) /\ P(t) \subseteq Int
    BY <2>2, FinitePlaces
  <2> QED BY <2>3, <2>4, <2>5
<1>3. CSV!Unquoted(<<>>) = <<>>
  <2>1. <<>> \in Seq(S) /\ P(<<>>) = {}
    OBVIOUS
  <2> HIDE DEF P
  <2> QED BY <1>1, <2>1, NothingPicked
<1>4. ASSUME NEW t \in Seq(S)
      PROVE  CSV!Unquoted(t) \in Seq(S) /\ Len(CSV!Unquoted(t)) = Cardinality(P(t))
  <2> HIDE DEF P
  <2> QED BY <1>1, <1>2, PickedTypes
<1>5. ASSUME NEW t \in Seq(S), CSV!Unquoted(t) = t PROVE NoQuotes(t)
  <2>1. Cardinality(P(t)) = Len(t)
    BY <1>4, <1>5
  <2>2. P(t) \in SUBSET (1 .. Len(t)) /\ IsFiniteSet(1 .. Len(t)) /\ Cardinality(1 .. Len(t)) = Len(t)
    <3>1. P(t) \in SUBSET (1 .. Len(t))
      BY <1>2
    <3>2. Len(t) \in Int /\ Len(t) \in Nat
      BY <1>0
    <3>3. IsFiniteSet(1 .. Len(t)) /\ Cardinality(1 .. Len(t)) = IF 1 > Len(t) THEN 0 ELSE Len(t) - 1 + 1
      BY <3>2, FS_Interval
    <3> HIDE DEF P
    <3>4. (IF 1 > Len(t) THEN 0 ELSE Len(t) - 1 + 1) = Len(t)
      BY <3>2
    <3> QED BY <3>1, <3>3, <3>4
  <2> DEFINE A == 1 .. Len(t)
             B == P(t)
  <2>3. A = B
    <3>1. B \in SUBSET A /\ IsFiniteSet(A) /\ Cardinality(A) = Cardinality(B)
      BY <2>1, <2>2
    <3> HIDE DEF A, B
    <3> QED BY <3>1, FS_Subset
  <2> QED BY <2>3 DEF NoQuotes
<1>6. ASSUME NEW t \in Seq(S), NEW e \in S
      PROVE  CSV!Unquoted(Append(t, e))
               = IF e = "\"" THEN CSV!Unquoted(t) ELSE Append(CSV!Unquoted(t), e)
  <2> DEFINE u == Append(t, e)
             l == Len(t)
             m == l + 1
  <2>1. /\ u \in Seq(S) /\ Len(u) = m /\ u[m] = e
        /\ \A i \in 1 .. l : u[i] = t[i]
    BY AppendProperties
  <2>0. l \in Nat
    OBVIOUS
  <2> HIDE DEF u, l
  <2>a. m \in Int /\ m \in 1 .. m /\ m \notin 1 .. l /\ \A i \in 1 .. l : i < m /\ i \in 1 .. m
    BY <2>0
  <2>b. \A p \in 1 .. m : p \in 1 .. l \/ p = m
    BY <2>0
  <2> HIDE DEF m
  <2>c. P(t) = {p \in 1 .. l : t[p] # "\""} /\ P(u) = {p \in 1 .. m : u[p] # "\""}
    BY <2>1 DEF l
  <2>2. P(u) = IF e = "\"" THEN P(t) ELSE P(t) \cup {m}
    <3> HIDE DEF P
    <3>5. CASE e = "\""
      BY <2>1, <2>a, <2>b, <2>c, <3>5
    <3>6. CASE e # "\""
      BY <2>1, <2>a, <2>b, <2>c, <3>6
    <3> QED BY <3>5, <3>6
  <2> HIDE DEF P
  <2>3. \A p \in P(t) : u[p] = t[p] /\ p < m
    BY <2>1, <2>a, <2>c
  <2>d. IsFiniteSet(P(t)) /\ P(t) \subseteq Int
    BY <1>2
  <2>4. Picked(u, P(t)) = Picked(t, P(t))
    BY <2>d, <2>3, PickedAgree
  <2>5. Picked(u, P(t) \cup {m}) = Append(Picked(u, P(t)), u[m])
    BY <2>d, <2>a, <2>3, PickedGrows
  <2>6. CSV!Unquoted(u) = Picked(u, P(u)) /\ CSV!Unquoted(t) = Picked(t, P(t))
    BY <1>1, <2>1
  <2>7. CSV!Unquoted(u) = IF e = "\"" THEN CSV!Unquoted(t) ELSE Append(CSV!Unquoted(t), e)
    BY <2>1, <2>2, <2>4, <2>5, <2>6
  <2> QED BY <2>7 DEF u
<1> QED BY <1>3, <1>4, <1>5, <1>6

\* What the loop has of a field that begins after a is what the line has since,
\* up to quotes, and without quotes it is the same.
LEMMA CsvFollows ==
  ASSUME NEW line \in Seq(STRING), NEW d, NEW a \in 0 .. Len(line), NEW b \in a .. Len(line),
         FieldAt(line, d, a) = <<>>, \A p \in CSV!Separators(line, d) : ~(a < p /\ p <= b)
  PROVE  LET segment == SubSeq(line, a + 1, b) IN
         /\ CSV!Unquoted(FieldAt(line, d, b)) = CSV!Unquoted(segment)
         /\ NoQuotes(segment) => FieldAt(line, d, b) = segment
<1> DEFINE n == Len(line)
           scan == CSV!ParseScan(line, d)
           seg(i) == SubSeq(line, a + 1, i)
           Good(i) == /\ CSV!Unquoted(scan[i].field) = CSV!Unquoted(seg(i))
                      /\ NoQuotes(seg(i)) => scan[i].field = seg(i)
           I == {i \in 0 .. n : a <= i /\ i <= b => Good(i)}
<1>1. n \in Nat /\ a \in Nat /\ b \in Nat /\ a <= b /\ b <= n /\ 0 \in 0 .. n /\ b \in 0 .. n
  OBVIOUS
<1>2. /\ \A i \in 0 .. n : scan[i] \in CsvStates
      /\ \A i \in 1 .. n : CsvStep(scan[i - 1], scan[i], line, i, d)
      /\ scan[a].field = <<>>
  BY CsvTurns DEF FieldAt
<1>3. \A i \in 1 .. n : i \in CSV!Separators(line, d) <=> ~scan[i - 1].skip /\ Ends(scan[i - 1], line, i, d)
  BY CsvSeparators
<1>4. \A i \in 0 .. n : QuotedAt(line, scan[i], i)
  BY CsvQuoted
<1> HIDE DEF scan, n
<1>5. Good(a)
  <2>1. seg(a) = <<>>
    BY <1>1, SliceGrows DEF n
  <2> HIDE DEF seg
  <2> QED BY <1>2, <2>1
<1>6. 0 \in I
  <2>1. a <= 0 => a = 0
    BY <1>1
  <2> HIDE DEF Good
  <2> QED BY <1>1, <1>5, <2>1
<1>7. ASSUME NEW k \in 0 .. n - 1, k \in I PROVE k + 1 \in I
  <2> DEFINE i == k + 1
  <2>1. i \in 1 .. n /\ i \in 0 .. n /\ i - 1 = k /\ k \in 0 .. n /\ i \in Nat /\ k \in Nat
    BY <1>1
  <2>2. CASE ~(a <= k /\ i <= b)
    <3>1. a <= i /\ i <= b => i = a
      BY <1>1, <2>1, <2>2
    <3> HIDE DEF Good
    <3> QED BY <1>5, <2>1, <3>1
  <2>3. CASE a <= k /\ i <= b
    <3> DEFINE s == scan[k]
               z == scan[i]
               t == seg(k)
               u == seg(i)
    <3>1. Good(k)
      <4> HIDE DEF Good
      <4>1. k <= b
        BY <1>1, <2>1, <2>3
      <4> QED BY <1>7, <2>3, <4>1
    <3> HIDE DEF i
    <3>2. u = Append(t, line[i]) /\ t \in Seq(STRING) /\ u \in Seq(STRING) /\ line[i] \in STRING
      <4>1. i \in a .. n /\ i > a /\ k \in a .. n /\ i - 1 = k
        BY <1>1, <2>1, <2>3 DEF i
      <4>2. u = Append(SubSeq(line, a + 1, i - 1), line[i]) /\ u \in Seq(STRING)
        BY <1>1, <4>1, SliceGrows DEF n
      <4>3. t \in Seq(STRING)
        BY <1>1, <4>1, SliceGrows DEF n
      <4>4. line[i] \in STRING
        BY <2>1 DEF n
      <4> QED BY <4>1, <4>2, <4>3, <4>4
    <3>3. /\ s.field \in Seq(STRING) /\ s.skip \in BOOLEAN
          /\ CsvStep(s, z, line, i, d)
          /\ s.skip => line[i] = "\""
      <4>1. s \in CsvStates /\ CsvStep(s, z, line, i, d) /\ QuotedAt(line, s, k)
        BY <1>2, <1>4, <2>1
      <4> HIDE DEF s, z
      <4> QED BY <4>1 DEF CsvStates, QuotedAt, i
    <3>4. ~(~s.skip /\ Ends(s, line, i, d))
      <4>1. i \notin CSV!Separators(line, d)
        <5>1. a < i
          BY <1>1, <2>3 DEF i
        <5> QED BY <2>3, <5>1
      <4> QED BY <1>3, <2>1, <4>1
    <3>5. /\ CSV!Unquoted(s.field) = CSV!Unquoted(t)
          /\ NoQuotes(t) => s.field = t
      BY <3>1
    <3>6. /\ NoQuotes(u) => NoQuotes(t) /\ line[i] # "\""
      <4> HIDE DEF t, u
      <4>1. Len(u) = Len(t) + 1 /\ Len(t) \in Nat /\ u[Len(t) + 1] = line[i]
            /\ \A j \in 1 .. Len(t) : u[j] = t[j]
        BY <3>2
      <4>2. \A j \in 1 .. Len(t) : j \in 1 .. Len(u)
        BY <4>1
      <4>3. Len(t) + 1 \in 1 .. Len(u)
        BY <4>1
      <4> QED BY <4>1, <4>2, <4>3 DEF NoQuotes
    <3> HIDE DEF s, z, t, u
    <3>7. \/ line[i] = "\"" /\ (z.field = s.field \/ z.field = Append(s.field, line[i]))
          \/ line[i] # "\"" /\ z.field = Append(s.field, line[i])
      <4>1. Escaped(s, line, i) => line[i] = "\""
        BY DEF Escaped
      <4> QED BY <3>3, <3>4, <4>1 DEF CsvStep
    <3>8. /\ CSV!Unquoted(u) = IF line[i] = "\"" THEN CSV!Unquoted(t) ELSE Append(CSV!Unquoted(t), line[i])
          /\ CSV!Unquoted(Append(s.field, line[i]))
               = IF line[i] = "\"" THEN CSV!Unquoted(s.field) ELSE Append(CSV!Unquoted(s.field), line[i])
      BY <3>2, <3>3, Unquoting
    <3>9. /\ CSV!Unquoted(z.field) = CSV!Unquoted(u)
          /\ NoQuotes(u) => z.field = u
      BY <3>2, <3>5, <3>6, <3>7, <3>8
    <3>10. Good(i)
      BY <3>9 DEF z, u
    <3> QED BY <2>1, <3>10 DEF i
  <2> QED BY <2>2, <2>3
<1>8. Good(b)
  <2>1. \A i \in 0 .. n - 1 : i \in I => i + 1 \in I
    BY <1>7
  <2> HIDE DEF I
  <2>2. \A i \in 0 .. n : i \in I
    BY <1>1, <1>6, <2>1, Induction
  <2>3. b \in I
    BY <1>1, <2>2
  <2> HIDE DEF Good
  <2> QED BY <1>1, <2>3 DEF I
<1> QED BY <1>8 DEF scan, FieldAt

\* A quote doubled, any other character as it is.
Doubling(s, t, c) ==
  /\ Len(t) = Len(s) + (IF c = "\"" THEN 2 ELSE 1)
  /\ t[Len(s) + 1] = c
  /\ c = "\"" => t[Len(s) + 2] = "\""
  /\ \A p \in 1 .. Len(s) : t[p] = s[p]

HasQuote(S) == "\"" \in S

\* One turn of doubling the quotes of a field.
LEMMA DoubleTurn ==
  ASSUME NEW S, HasQuote(S), NEW s \in Seq(S), NEW c \in S
  PROVE  LET t == s \o (IF c = "\"" THEN <<"\"", "\"">> ELSE <<c>>) IN
         t \in Seq(S) /\ Doubling(s, t, c)
<1> DEFINE q == "\""
<1>1. q \in S
  BY Zenon DEF HasQuote
<1> HIDE DEF q
<1>2. /\ <<c>> \in Seq(S) /\ Len(<<c>>) = 1 /\ <<c>>[1] = c
      /\ <<q, q>> \in Seq(S) /\ Len(<<q, q>>) = 2 /\ <<q, q>>[1] = q /\ <<q, q>>[2] = q
  BY <1>1
<1>3. CASE c = q
  <2> DEFINE w == <<q, q>>
             t == s \o w
  <2> HIDE DEF w
  <2>1. w \in Seq(S) /\ Len(w) = 2 /\ w[1] = q /\ w[2] = q
    BY <1>2 DEF w
  <2>0. /\ t \in Seq(S) /\ Len(t) = Len(s) + Len(w)
        /\ \A p \in 1 .. Len(s) + Len(w) : t[p] = IF p <= Len(s) THEN s[p] ELSE w[p - Len(s)]
    BY <2>1, ConcatProperties
  <2>2. /\ t \in Seq(S) /\ Len(t) = Len(s) + 2
        /\ \A p \in 1 .. Len(s) + 2 : t[p] = IF p <= Len(s) THEN s[p] ELSE w[p - Len(s)]
    BY <2>0, <2>1
  <2>3. Len(s) \in Nat
    OBVIOUS
  <2> HIDE DEF t
  <2>4. t[Len(s) + 1] = q /\ t[Len(s) + 2] = q /\ \A p \in 1 .. Len(s) : t[p] = s[p]
    BY <2>1, <2>2, <2>3
  <2>5. t = s \o (IF c = q THEN <<q, q>> ELSE <<c>>)
    BY <1>3 DEF t, w
  <2> QED BY <1>3, <2>2, <2>4, <2>5 DEF q, Doubling
<1>4. CASE c # q
  <2> DEFINE w == <<c>>
             t == s \o w
  <2> HIDE DEF w
  <2>1. w \in Seq(S) /\ Len(w) = 1 /\ w[1] = c
    BY <1>2 DEF w
  <2>0. /\ t \in Seq(S) /\ Len(t) = Len(s) + Len(w)
        /\ \A p \in 1 .. Len(s) + Len(w) : t[p] = IF p <= Len(s) THEN s[p] ELSE w[p - Len(s)]
    BY <2>1, ConcatProperties
  <2>2. /\ t \in Seq(S) /\ Len(t) = Len(s) + 1
        /\ \A p \in 1 .. Len(s) + 1 : t[p] = IF p <= Len(s) THEN s[p] ELSE w[p - Len(s)]
    BY <2>0, <2>1
  <2>3. Len(s) \in Nat
    OBVIOUS
  <2> HIDE DEF t
  <2>4. t[Len(s) + 1] = c /\ \A p \in 1 .. Len(s) : t[p] = s[p]
    BY <2>1, <2>2, <2>3
  <2>5. t = s \o (IF c = q THEN <<q, q>> ELSE <<c>>)
    BY <1>4 DEF t, w
  <2> QED BY <1>4, <2>2, <2>4, <2>5 DEF q, Doubling
<1> QED BY <1>3, <1>4

\* Doubling the quotes of a field, character by character.
LEMMA DoubledTurns ==
  ASSUME NEW S, HasQuote(S), NEW f \in Seq(S)
  PROVE  LET D == CSV!Doubled(f) IN
         /\ D[0] = <<>>
         /\ \A i \in 0 .. Len(f) : D[i] \in Seq(S)
         /\ \A i \in 1 .. Len(f) : Doubling(D[i - 1], D[i], f[i])
<1> DEFINE n == Len(f)
           L == Seq(S)
           Turn(s, i) == s \o (IF f[i] = "\"" THEN <<"\"", "\"">> ELSE <<f[i]>>)
           T == [i \in 1 .. n |-> [s \in L |-> Turn(s, i)]]
           D == CSV!Doubled(f)
<1>1. <<>> \in L /\ n \in Nat
  OBVIOUS
<1>2. ASSUME NEW i \in 1 .. n, NEW s \in L PROVE Turn(s, i) \in L /\ Doubling(s, Turn(s, i), f[i])
  <2>1. f[i] \in S
    OBVIOUS
  <2> QED BY <2>1, DoubleTurn
<1>3. T \in [1 .. n -> [L -> L]]
  <2> HIDE DEF L, Turn, n
  <2> QED BY <1>2
<1> HIDE DEF L, T, Turn
<1>4. PICK g \in [0 .. n -> L] : IsScan(g, n, <<>>, T)
  BY <1>1, <1>3, Recursion
<1>5. g = [i \in 0 .. n |-> IF i = 0 THEN <<>> ELSE Turn(g[i - 1], i)]
  <2>1. ASSUME NEW i \in 0 .. n
        PROVE  g[i] = IF i = 0 THEN <<>> ELSE Turn(g[i - 1], i)
    <3>1. g[i] = IF i = 0 THEN <<>> ELSE T[i][g[i - 1]]
      BY <1>4 DEF IsScan
    <3>2. i # 0 => i \in 1 .. n /\ g[i - 1] \in L
      OBVIOUS
    <3> QED BY <3>1, <3>2 DEF T
  <2> QED BY <2>1
<1>6. \E h : h = [i \in 0 .. n |-> IF i = 0 THEN <<>> ELSE Turn(h[i - 1], i)]
  BY <1>5
<1>7. D = [i \in 0 .. n |-> IF i = 0 THEN <<>> ELSE Turn(D[i - 1], i)]
  BY <1>6 DEF CSV!Doubled, Turn
<1> HIDE DEF D
<1>8. D[0] = <<>>
  BY <1>1, <1>7
<1>9. \A i \in 1 .. n : D[i] = Turn(D[i - 1], i)
  BY <1>7
<1>10. \A i \in 1 .. n : D[i - 1] \in L => D[i] \in L
  BY <1>2, <1>9
<1>11. \A i \in 0 .. n : D[i] \in L
  <2> HIDE DEF n
  <2> QED BY <1>1, <1>8, <1>10, ScanTypes
<1>12. \A i \in 1 .. n : Doubling(D[i - 1], D[i], f[i])
  <2>1. \A i \in 1 .. n : i - 1 \in 0 .. n
    OBVIOUS
  <2> QED BY <1>2, <1>9, <1>11, <2>1
<1> QED BY <1>8, <1>11, <1>12 DEF D, L

\* Where each character of f stands in the whole.
LEMMA DoubledPlaces ==
  ASSUME NEW S, HasQuote(S), NEW f \in Seq(S)
  PROVE  LET D == CSV!Doubled(f)
             w == D[Len(f)] IN
         /\ w \in Seq(S) /\ Len(D[0]) = 0
         /\ \A i \in 0 .. Len(f) : Len(D[i]) \in 0 .. Len(w)
         /\ \A i \in 1 .. Len(f) :
              /\ Len(D[i]) = Len(D[i - 1]) + (IF f[i] = "\"" THEN 2 ELSE 1)
              /\ w[Len(D[i - 1]) + 1] = f[i]
              /\ f[i] = "\"" => w[Len(D[i - 1]) + 2] = "\""
<1> DEFINE n == Len(f)
           D == CSV!Doubled(f)
           h(i) == Len(D[i])
           Keeps(j) == \A k \in 0 .. j : h(k) <= h(j) /\ \A p \in 1 .. h(k) : D[j][p] = D[k][p]
           I == {j \in 0 .. n : Keeps(j)}
<1>0. n \in Nat
  OBVIOUS
<1>1. /\ D[0] = <<>>
      /\ \A i \in 0 .. n : D[i] \in Seq(S)
      /\ \A i \in 1 .. n : Doubling(D[i - 1], D[i], f[i])
  BY DoubledTurns
<1>2. Len(<<>>) = 0
  OBVIOUS
<1> HIDE DEF D, n
<1>3. h(0) = 0 /\ \A i \in 0 .. n : h(i) \in Nat
  BY <1>1, <1>2
<1> DEFINE wide(i) == IF f[i] = "\"" THEN 2 ELSE 1
<1>a. ASSUME NEW i PROVE (wide(i) = 1 \/ wide(i) = 2) /\ (f[i] = "\"" => wide(i) = 2)
  BY Zenon
<1>4. \A i \in 1 .. n : /\ h(i) = h(i - 1) + wide(i)
                        /\ D[i][h(i - 1) + 1] = f[i]
                        /\ f[i] = "\"" => D[i][h(i - 1) + 2] = "\""
                        /\ \A p \in 1 .. h(i - 1) : D[i][p] = D[i - 1][p]
  BY <1>1 DEF Doubling
<1> HIDE DEF h, wide
<1>5. 0 \in I
  <2>1. \A k \in 0 .. 0 : k = 0
    OBVIOUS
  <2>2. 0 \in 0 .. n
    BY <1>0
  <2> QED BY <1>3, <2>1, <2>2
<1>6. ASSUME NEW j \in 0 .. n - 1, j \in I PROVE j + 1 \in I
  <2> DEFINE i == j + 1
  <2>1. i \in 1 .. n /\ i - 1 = j /\ i \in 0 .. n /\ j \in 0 .. n /\ \A k \in 0 .. i : k \in 0 .. j \/ k = i
    BY <1>0
  <2> HIDE DEF i
  <2>2. /\ h(i) = h(j) + wide(i)
        /\ \A p \in 1 .. h(j) : D[i][p] = D[j][p]
    BY <1>4, <2>1
  <2>3. h(i) \in Nat /\ h(j) \in Nat
    BY <1>3, <2>1
  <2>a. wide(i) = 1 \/ wide(i) = 2
    BY <1>a
  <2>4. h(j) <= h(i)
    BY <2>a, <2>2, <2>3
  <2>5. ASSUME NEW k \in 0 .. i PROVE h(k) <= h(i) /\ \A p \in 1 .. h(k) : D[i][p] = D[k][p]
    <3>1. CASE k = i
      BY <2>3, <3>1
    <3>2. CASE k \in 0 .. j
      <4>1. h(k) <= h(j) /\ \A p \in 1 .. h(k) : D[j][p] = D[k][p]
        BY <1>6, <3>2
      <4>2. h(k) \in Nat
        <5>1. k \in 0 .. n
          BY <1>0, <2>1, <3>2
        <5> QED BY <1>3, <5>1
      <4>3. \A p \in 1 .. h(k) : p \in 1 .. h(j)
        BY <2>3, <4>1, <4>2
      <4>4. h(k) <= h(i)
        BY <2>3, <2>4, <4>1, <4>2
      <4>5. \A p \in 1 .. h(k) : D[i][p] = D[k][p]
        BY <2>2, <4>1, <4>3
      <4> QED BY <4>4, <4>5
    <3> QED BY <2>1, <3>1, <3>2
  <2>6. Keeps(i)
    BY <2>5
  <2> QED BY <2>1, <2>6 DEF i
<1>7. Keeps(n)
  <2> HIDE DEF Keeps
  <2>1. \A j \in 0 .. n - 1 : j \in I => j + 1 \in I
    BY <1>6
  <2> HIDE DEF I
  <2>2. \A j \in 0 .. n : j \in I
    BY <1>0, <1>5, <2>1, Induction
  <2>3. n \in I
    BY <1>0, <2>2
  <2> QED BY <2>3 DEF I
<1>8. \A i \in 0 .. n : h(i) \in 0 .. h(n)
  BY <1>0, <1>3, <1>7
<1>9. ASSUME NEW i \in 1 .. n
      PROVE  /\ h(i) = h(i - 1) + wide(i)
             /\ D[n][h(i - 1) + 1] = f[i]
             /\ f[i] = "\"" => D[n][h(i - 1) + 2] = "\""
  <2>1. i \in 0 .. n /\ i - 1 \in 0 .. n
    BY <1>0
  <2>2. \A p \in 1 .. h(i) : D[n][p] = D[i][p]
    BY <1>7, <2>1
  <2>3. h(i - 1) \in Nat
    BY <1>3, <2>1
  <2>4. h(i) = h(i - 1) + wide(i)
    BY <1>4
  <2>a. wide(i) = 1 \/ wide(i) = 2
    BY <1>a
  <2>5. h(i - 1) + 1 \in 1 .. h(i) /\ (wide(i) = 2 => h(i - 1) + 2 \in 1 .. h(i))
    BY <2>a, <2>3, <2>4
  <2> QED BY <1>a, <1>4, <2>2, <2>4, <2>5
<1>10. D[n] \in Seq(S)
  BY <1>0, <1>1
<1> QED BY <1>3, <1>8, <1>9, <1>10 DEF D, n, h, wide

\* Outside quotes, with nothing of the next field read.
Clean(line, d, a) ==
  LET s == CSV!ParseScan(line, d)[a] IN s.field = <<>> /\ ~s.quoted /\ ~s.skip

AQuote(c) == c = "\""

\* The strings, and the quote that is one.
Strings == STRING \cup {"\""}

\* A set of characters with the quote among them.
LEMMA StringsHaveQuotes == HasQuote(Strings) /\ \A t \in Seq(STRING) : t \in Seq(Strings)
<1>1. HasQuote(Strings)
  BY Zenon DEF HasQuote, Strings
<1>2. STRING \subseteq Strings
  BY Zenon DEF Strings
<1>3. ASSUME NEW T, NEW U, T \subseteq U, NEW t \in Seq(T) PROVE t \in Seq(U)
  <2>1. Len(t) \in Nat /\ \A i \in 1 .. Len(t) : t[i] \in U
    BY <1>3
  <2>2. t \in [1 .. Len(t) -> U]
    BY <1>3, <2>1
  <2> QED BY <2>1, <2>2, SeqDef
<1> QED BY <1>1, <1>2, <1>3

\* A quoted field: its quotes doubled between two quotes.
LEMMA QuotedMeans ==
  ASSUME NEW S, HasQuote(S), NEW f \in Seq(S)
  PROVE  LET w == CSV!Doubled(f)[Len(f)]
             t == CSV!Quoted(f) IN
         /\ t \in Seq(S) /\ Len(t) = Len(w) + 2 /\ Len(w) \in Nat
         /\ AQuote(t[1]) /\ AQuote(t[Len(w) + 2])
         /\ \A p \in 1 .. Len(w) : t[p + 1] = w[p]
<1> DEFINE w == CSV!Doubled(f)[Len(f)]
           q == "\""
           u == <<q>>
           m == Len(w)
           t == (u \o w) \o u
<1>1. w \in Seq(S)
  BY DoubledPlaces
<1>2. q \in S
  BY Zenon DEF HasQuote
<1> HIDE DEF w, q
<1>3. u \in Seq(S) /\ Len(u) = 1 /\ u[1] = q
  BY <1>2
<1> HIDE DEF u
<1>4. m \in Nat
  BY <1>1
<1>5. /\ u \o w \in Seq(S) /\ Len(u \o w) = Len(u) + Len(w)
      /\ \A p \in 1 .. Len(u) + Len(w) : (u \o w)[p] = IF p <= Len(u) THEN u[p] ELSE w[p - Len(u)]
  BY <1>1, <1>3, ConcatProperties
<1> DEFINE v == u \o w
<1> HIDE DEF v, m
<1>6. /\ v \in Seq(S) /\ Len(v) = 1 + m
      /\ \A p \in 1 .. 1 + m : v[p] = IF p <= 1 THEN u[p] ELSE w[p - 1]
  BY <1>3, <1>5 DEF v, m
<1>7. /\ v \o u \in Seq(S) /\ Len(v \o u) = Len(v) + Len(u)
      /\ \A p \in 1 .. Len(v) + Len(u) : (v \o u)[p] = IF p <= Len(v) THEN v[p] ELSE u[p - Len(v)]
  BY <1>3, <1>6, ConcatProperties
<1> DEFINE z == v \o u
<1> HIDE DEF z
<1>8. /\ z \in Seq(S) /\ Len(z) = m + 2
      /\ \A p \in 1 .. m + 2 : z[p] = IF p <= 1 + m THEN v[p] ELSE u[p - (1 + m)]
  <2>1. Len(v) + Len(u) = m + 2
    BY <1>3, <1>4, <1>6
  <2> QED BY <1>3, <1>6, <1>7, <2>1 DEF z
<1>9. z[1] = q
  BY <1>3, <1>4, <1>6, <1>8
<1>10. z[m + 2] = q
  <2> DEFINE i == m + 2
  <2>1. i \in 1 .. m + 2 /\ ~(i <= 1 + m) /\ i - (1 + m) = 1
    BY <1>4
  <2> HIDE DEF i
  <2>2. z[i] = u[i - (1 + m)]
    BY <1>8, <2>1
  <2>3. z[m + 2] = u[1]
    BY <2>1, <2>2 DEF i
  <2> QED BY <1>3, <2>3
<1>11. ASSUME NEW p \in 1 .. m PROVE z[p + 1] = w[p]
  <2>1. p + 1 \in 1 .. m + 2 /\ p + 1 \in 1 .. 1 + m /\ p + 1 <= 1 + m /\ ~(p + 1 <= 1) /\ p + 1 - 1 = p
    BY <1>4
  <2> QED BY <1>6, <1>8, <2>1
<1>12. CSV!Quoted(f) = z
  BY DEF CSV!Quoted, z, v, u, q, w
<1> HIDE DEF z
<1> QED BY <1>4, <1>8, <1>9, <1>10, <1>11, <1>12 DEF q, m, w, AQuote

\* A field in quotes comes out as it was before they were put.
LEMMA QuotedRun ==
  ASSUME NEW line \in Seq(STRING), NEW d, NEW a \in 0 .. Len(line), NEW b \in a .. Len(line),
         Clean(line, d, a), NEW f \in Seq(STRING), SubSeq(line, a + 1, b) = CSV!Quoted(f),
         b < Len(line) => ~AQuote(line[b + 1])
  PROVE  FieldAt(line, d, b) = f
<1> DEFINE n == Len(line)
           l == Len(f)
           scan == CSV!ParseScan(line, d)
           D == CSV!Doubled(f)
           w == D[l]
           h(i) == Len(D[i])
           at(i) == a + 1 + h(i)
           Inside(s, k) == s.field = SubSeq(f, 1, k) /\ s.quoted /\ ~s.skip
           Good(k) == Inside(scan[at(k)], k)
           I == {k \in 0 .. l : Good(k)}
<1>1. n \in Nat /\ a \in Nat /\ b \in Nat /\ a <= b /\ b <= n /\ l \in Nat
  OBVIOUS
<1>2. /\ \A i \in 0 .. n : scan[i] \in CsvStates
      /\ \A i \in 1 .. n : CsvStep(scan[i - 1], scan[i], line, i, d)
  BY CsvTurns
<1>3. scan[a].field = <<>> /\ ~scan[a].quoted /\ ~scan[a].skip
  BY DEF Clean
<1>4. /\ h(0) = 0
      /\ \A i \in 0 .. l : h(i) \in 0 .. h(l)
      /\ \A i \in 1 .. l : /\ h(i) = h(i - 1) + (IF AQuote(f[i]) THEN 2 ELSE 1)
                           /\ w[h(i - 1) + 1] = f[i]
                           /\ AQuote(f[i]) => AQuote(w[h(i - 1) + 2])
  <2>1. HasQuote(Strings) /\ f \in Seq(Strings)
    BY StringsHaveQuotes
  <2> QED BY <2>1, DoubledPlaces DEF AQuote
<1>5. /\ h(l) \in Nat /\ Len(SubSeq(line, a + 1, b)) = h(l) + 2
      /\ AQuote(SubSeq(line, a + 1, b)[1]) /\ AQuote(SubSeq(line, a + 1, b)[h(l) + 2])
      /\ \A p \in 1 .. h(l) : SubSeq(line, a + 1, b)[p + 1] = w[p]
  <2>1. HasQuote(Strings) /\ f \in Seq(Strings)
    BY StringsHaveQuotes
  <2> HIDE DEF w
  <2>2. /\ h(l) \in Nat /\ Len(CSV!Quoted(f)) = h(l) + 2
        /\ AQuote(CSV!Quoted(f)[1]) /\ AQuote(CSV!Quoted(f)[h(l) + 2])
        /\ \A p \in 1 .. h(l) : CSV!Quoted(f)[p + 1] = w[p]
    BY <2>1, QuotedMeans DEF w
  <2> QED BY <2>2
<1>6. /\ Len(SubSeq(line, a + 1, b)) = b - a
      /\ \A i \in 1 .. b - a : SubSeq(line, a + 1, b)[i] = line[a + i]
  BY SliceGrows
<1> HIDE DEF n, l, scan, D, h
<1>7. b = a + h(l) + 2 /\ AQuote(line[a + 1]) /\ AQuote(line[b])
      /\ \A p \in 1 .. h(l) : line[a + 1 + p] = w[p]
  <2>1. b - a = h(l) + 2 /\ h(l) \in Nat
    BY <1>5, <1>6
  <2>a. b = a + h(l) + 2
    BY <1>1, <2>1
  <2>b. a + (h(l) + 2) = b
    BY <1>1, <2>1
  <2>c. 1 \in 1 .. b - a
    BY <1>1, <2>1
  <2>d. h(l) + 2 \in 1 .. b - a
    BY <1>1, <2>1
  <2>2. b = a + h(l) + 2 /\ a + (h(l) + 2) = b /\ 1 \in 1 .. b - a /\ h(l) + 2 \in 1 .. b - a
    BY <2>a, <2>b, <2>c, <2>d
  <2>3. \A p \in 1 .. h(l) : p + 1 \in 1 .. b - a /\ a + (p + 1) = a + 1 + p
    BY <1>1, <2>1
  <2>4. AQuote(line[a + 1]) /\ AQuote(line[b])
    <3>1. /\ SubSeq(line, a + 1, b)[1] = line[a + 1]
          /\ SubSeq(line, a + 1, b)[h(l) + 2] = line[a + (h(l) + 2)]
      BY <1>6, <2>c, <2>d
    <3> QED BY ONLY <1>5, <2>b, <3>1
  <2>5. ASSUME NEW p \in 1 .. h(l) PROVE line[a + 1 + p] = w[p]
    <3>1. p + 1 \in 1 .. b - a /\ a + (p + 1) = a + 1 + p
      BY <2>3
    <3>2. SubSeq(line, a + 1, b)[p + 1] = line[a + (p + 1)]
      BY ONLY <1>6, <3>1
    <3> QED BY ONLY <1>5, <3>1, <3>2
  <2> QED BY ONLY <2>a, <2>4, <2>5
<1>a. b = a + h(l) + 2 /\ h(l) \in Nat
  BY <1>5, <1>7
<1>8. SubSeq(f, 1, 0) = <<>> /\ SubSeq(f, 1, l) = f
      /\ \A k \in 1 .. l : SubSeq(f, 1, k) = Append(SubSeq(f, 1, k - 1), f[k])
  <2>1. SubSeq(f, 1, 0) = <<>>
    <3>1. 0 \in 0 .. Len(f)
      BY <1>1 DEF l
    <3>2. SubSeq(f, 1, 0) \in Seq(STRING) /\ Len(SubSeq(f, 1, 0)) = 0
      BY <3>1, PrefixTypes
    <3> QED BY <3>2, EmptySeq
  <2>2. SubSeq(f, 1, l) = f
    <3>1. Len(f) \in 0 .. Len(f)
      BY <1>1 DEF l
    <3>2. SubSeq(f, 1, l) \in Seq(STRING) /\ Len(SubSeq(f, 1, l)) = Len(f)
          /\ \A j \in 1 .. Len(f) : SubSeq(f, 1, l)[j] = f[j]
      BY <3>1, PrefixTypes DEF l
    <3> QED BY <3>2, SeqEqual
  <2>3. \A k \in 1 .. l : SubSeq(f, 1, k) = Append(SubSeq(f, 1, k - 1), f[k])
    BY PrefixGrows DEF l
  <2> QED BY <2>1, <2>2, <2>3
<1>9. Good(0)
  <2> DEFINE i == a + 1
  <2>0. h(0) = 0
    BY <1>4
  <2>1. i \in 1 .. n /\ i - 1 = a /\ at(0) = i
    <3> DEFINE v == h(l)
    <3>1. b = a + v + 2 /\ v \in Nat
      BY <1>a
    <3> HIDE DEF v
    <3>2. i \in 1 .. n /\ i - 1 = a
      BY ONLY <1>1, <3>1 DEF i
    <3>3. at(0) = i
      BY ONLY <1>1, <2>0 DEF at, i
    <3> QED BY <3>2, <3>3
  <2> HIDE DEF i
  <2>2. CsvStep(scan[a], scan[i], line, i, d) /\ AQuote(line[i])
    BY <1>2, <1>7, <2>1 DEF i
  <2>3. ~Escaped(scan[a], line, i)
    BY <1>3 DEF AQuote, Escaped
  <2>4. scan[i].field = <<>> /\ (scan[i].quoted <=> ~scan[a].quoted) /\ ~scan[i].skip
    BY <1>3, <2>2, <2>3 DEF AQuote, CsvStep
  <2> QED BY <1>3, <1>8, <2>1, <2>4
<1>10. ASSUME NEW j \in 0 .. l - 1, j \in I PROVE j + 1 \in I
  <2> DEFINE k == j + 1
             i == at(j) + 1
             s == scan[at(j)]
             z == scan[i]
  <2>1. k \in 1 .. l /\ k - 1 = j /\ k \in 0 .. l /\ j \in 0 .. l
    BY <1>1
  <2>2. Inside(s, j)
    BY <1>10
  <2> HIDE DEF k
  <2>3. /\ h(k) = h(j) + (IF AQuote(f[k]) THEN 2 ELSE 1)
        /\ w[h(j) + 1] = f[k]
        /\ AQuote(f[k]) => AQuote(w[h(j) + 2])
        /\ h(j) \in 0 .. h(l) /\ h(k) \in 0 .. h(l) /\ h(l) \in Nat
    BY <1>4, <1>5, <2>1
  <2>a. h(j) \in 0 .. h(l) /\ h(k) \in 0 .. h(l) /\ h(l) \in Nat
    BY <2>3
  <2>4. SubSeq(f, 1, k) = Append(SubSeq(f, 1, j), f[k])
    BY <1>8, <2>1
  <2> HIDE DEF Inside
  <2>5. CASE ~AQuote(f[k])
    <3>1. h(k) = h(j) + 1
      BY <2>3, <2>5
    <3>2. i \in 1 .. n /\ i - 1 = at(j) /\ at(k) = i /\ h(j) + 1 \in 1 .. h(l) /\ a + 1 + (h(j) + 1) = i
      <4> DEFINE x == h(j)
                 y == h(k)
                 v == h(l)
      <4>0. x \in Nat /\ y \in Nat /\ v \in Nat /\ y <= v /\ y = x + 1 /\ b = a + v + 2
        BY <1>a, <2>a, <3>1
      <4>1. i = a + 1 + x + 1 /\ at(j) = a + 1 + x /\ at(k) = a + 1 + y
        OBVIOUS
      <4> HIDE DEF i, at, x, y, v
      <4>2. i \in 1 .. n
        BY <1>1, <4>0, <4>1
      <4>3. i - 1 = at(j) /\ at(k) = i
        BY <1>1, <4>0, <4>1
      <4>4. x + 1 \in 1 .. v /\ a + 1 + (x + 1) = i
        BY <1>1, <4>0, <4>1
      <4>5. h(j) + 1 \in 1 .. h(l) /\ a + 1 + (h(j) + 1) = i
        BY <4>4 DEF x, v
      <4> QED BY <4>2, <4>3, <4>5
    <3>3. line[i] = f[k]
      BY <1>7, <2>3, <3>2
    <3>4. CsvStep(s, z, line, i, d)
      BY <1>2, <3>2
    <3> HIDE DEF s, z, i
    <3>5. ~Ends(s, line, i, d)
      BY <2>2 DEF Ends, Inside
    <3>6. Inside(z, k)
      BY <2>2, <2>4, <2>5, <3>3, <3>4, <3>5 DEF AQuote, CsvStep, Inside
    <3> QED BY <2>1, <3>2, <3>6 DEF k, z
  <2>6. CASE AQuote(f[k])
    <3> DEFINE i2 == i + 1
               z2 == scan[i2]
    <3>1. h(k) = h(j) + 2
      BY <2>3, <2>6
    <3>2. /\ i \in 1 .. n /\ i - 1 = at(j) /\ i < n /\ i2 \in 1 .. n /\ i2 - 1 = i
          /\ h(j) + 1 \in 1 .. h(l) /\ a + 1 + (h(j) + 1) = i
          /\ at(k) = i2 /\ h(j) + 2 \in 1 .. h(l) /\ a + 1 + (h(j) + 2) = i2
      <4> DEFINE x == h(j)
                 y == h(k)
                 v == h(l)
      <4>0. x \in Nat /\ y \in Nat /\ v \in Nat /\ y <= v /\ y = x + 2 /\ b = a + v + 2
        BY <1>a, <2>a, <3>1
      <4>1. /\ i = a + 1 + x + 1 /\ at(j) = a + 1 + x /\ at(k) = a + 1 + y
            /\ i2 = i + 1
        OBVIOUS
      <4> HIDE DEF i, i2, at, x, y, v
      <4>2. i \in 1 .. n /\ i < n /\ i2 \in 1 .. n
        BY <1>1, <4>0, <4>1
      <4>3. i - 1 = at(j) /\ at(k) = i2 /\ i2 - 1 = i
        BY <1>1, <4>0, <4>1
      <4>4. x + 1 \in 1 .. v /\ a + 1 + (x + 1) = i
        BY <1>1, <4>0, <4>1
      <4>5. x + 2 \in 1 .. v /\ a + 1 + (x + 2) = i2
        BY <1>1, <4>0, <4>1
      <4>6. /\ h(j) + 1 \in 1 .. h(l) /\ a + 1 + (h(j) + 1) = i
            /\ h(j) + 2 \in 1 .. h(l) /\ a + 1 + (h(j) + 2) = i2
        BY <4>4, <4>5 DEF x, v
      <4> QED BY <4>2, <4>3, <4>6
    <3>3. line[i] = f[k] /\ AQuote(line[i + 1])
      BY <1>7, <2>3, <2>6, <3>2
    <3>4. CsvStep(s, z, line, i, d) /\ CsvStep(z, z2, line, i2, d)
      BY <1>2, <3>2
    <3> HIDE DEF s, z, z2, i
    <3>5. s.quoted /\ ~s.skip /\ s.field = SubSeq(f, 1, j)
      BY <2>2 DEF Inside
    <3>6. Escaped(s, line, i)
      BY <2>6, <3>2, <3>3, <3>5 DEF AQuote, Escaped, n
    <3>7. z.field = Append(s.field, line[i]) /\ z.quoted = s.quoted /\ z.skip
      BY <3>4, <3>5, <3>6 DEF AQuote, CsvStep
    <3>8. z2.field = z.field /\ z2.quoted = z.quoted /\ ~z2.skip
      BY <3>4, <3>7 DEF AQuote, CsvStep
    <3>9. Inside(z2, k)
      BY <2>4, <3>3, <3>5, <3>7, <3>8 DEF Inside
    <3> QED BY <2>1, <3>2, <3>9 DEF k, z2
  <2> QED BY <2>5, <2>6
<1>11. Good(l)
  <2> HIDE DEF Good
  <2>0. 0 \in I
    BY <1>1, <1>9
  <2>1. \A j \in 0 .. l - 1 : j \in I => j + 1 \in I
    BY <1>10
  <2> HIDE DEF I
  <2>2. \A j \in 0 .. l : j \in I
    BY <1>1, <2>0, <2>1, Induction
  <2>3. l \in I
    BY <1>1, <2>2
  <2> QED BY <2>3 DEF I
<1>12. FieldAt(line, d, b) = f
  <2> DEFINE s == scan[at(l)]
             z == scan[b]
  <2>1. b \in 1 .. n /\ b - 1 = at(l)
    <3> DEFINE v == h(l)
    <3>1. b = a + v + 2 /\ v \in Nat
      BY <1>a
    <3> HIDE DEF v
    <3>2. b \in 1 .. n /\ b - 1 = a + 1 + v
      BY ONLY <1>1, <3>1
    <3> QED BY ONLY <3>2 DEF at, v
  <2>2. CsvStep(s, z, line, b, d)
    BY <1>2, <2>1
  <2>3. s.field = f /\ s.quoted /\ ~s.skip
    BY <1>8, <1>11
  <2> HIDE DEF s, z
  <2>4. ~Escaped(s, line, b)
    BY <1>1 DEF AQuote, Escaped, n
  <2>5. z.field = s.field
    BY <1>7, <2>2, <2>3, <2>4 DEF AQuote, CsvStep
  <2> QED BY <2>3, <2>5 DEF FieldAt, z, scan
<1> QED BY <1>12

\* The fields FieldsComeBack ranges over are texts.
LEMMA BoundedFields ==
  ASSUME NEW seg \in Seq(STRING), NEW m, NEW f \in CSV!BoundedSeq(CSV!ToSet(seg), m)
  PROVE  f \in Seq(STRING)
<1>1. CSV!ToSet(seg) \subseteq STRING
  BY DEF CSV!ToSet
<1>2. PICK l \in 0 .. m : f \in [1 .. l -> CSV!ToSet(seg)]
  BY DEF CSV!BoundedSeq, CSV!SeqOf
<1>3. l \in Nat
  OBVIOUS
<1>4. f \in [1 .. l -> STRING]
  BY <1>1, <1>2
<1> QED BY <1>3, <1>4, SeqDef

\* Between two separators, or an end of the line and the next separator.
LEMMA CsvBetween ==
  ASSUME NEW line \in Seq(STRING), NEW d, NEW j \in 1 .. Cardinality(CSV!Separators(line, d)) + 1
  PROVE  LET P == CSV!Separators(line, d)
             ends == InOrder({0} \cup P \cup {Len(line) + 1})
             a == ends[j]
             b == ends[j + 1] - 1 IN
         /\ a \in 0 .. Len(line) /\ b \in a .. Len(line)
         /\ Clean(line, d, a)
         /\ \A p \in P : ~(a < p /\ p <= b)
         /\ CSV!parse_csv_line(line, d)[j] = FieldAt(line, d, b)
         /\ b < Len(line) => ~AQuote(line[b + 1])
<1> DEFINE P == CSV!Separators(line, d)
           n == Len(line)
           K == Cardinality(P)
           scan == CSV!ParseScan(line, d)
           row == CSV!parse_csv_line(line, d)
           ends == InOrder({0} \cup P \cup {n + 1})
           a == ends[j]
           b == ends[j + 1] - 1
<1>1. n \in Nat
  OBVIOUS
<1>2. /\ Places(P, n)
      /\ \A i \in 1 .. n : i \in P <=> ~scan[i - 1].skip /\ Ends(scan[i - 1], line, i, d)
  BY CsvSeparators
<1>3. /\ \A i \in 1 .. n : CsvStep(scan[i - 1], scan[i], line, i, d)
      /\ scan[0].field = <<>> /\ ~scan[0].quoted /\ ~scan[0].skip
  BY CsvTurns
<1>4. /\ K \in Nat
      /\ \A k \in 1 .. K : row[k] = FieldAt(line, d, InOrder(P)[k] - 1)
      /\ row[K + 1] = FieldAt(line, d, n)
  BY CsvFields
<1>5. j \in 1 .. K + 1
  OBVIOUS
<1> HIDE DEF P, n, scan, row
<1>6. /\ ends[1] = 0 /\ ends[K + 2] = n + 1
      /\ \A k \in 1 .. K : ends[k + 1] = InOrder(P)[k]
      /\ \A k \in 1 .. K + 2 : ends[k] \in 0 .. n + 1
      /\ \A i, k \in 1 .. K + 2 : i < k => ends[i] < ends[k]
      /\ \A p \in P : \E k \in 1 .. K : ends[k + 1] = p
  <2>1. EndsOf(P, n)
    BY <1>1, <1>2, CsvEnds
  <2> QED BY <2>1 DEF EndsOf
<1> HIDE DEF K, ends
<1>7. InOrder(P) \in [1 .. K -> P] /\ P \subseteq 1 .. n
  <2>1. IsFiniteSet(P) /\ P \subseteq Int
    BY <1>2, FinitePlaces
  <2> QED BY <1>2, <2>1, Order DEF K, Places
<1>8. j \in 1 .. K + 2 /\ j + 1 \in 1 .. K + 2 /\ j < j + 1 /\ (j = K + 1 => j + 1 = K + 2)
      /\ (j # K + 1 => j \in 1 .. K) /\ (j # 1 => j - 1 \in 1 .. K /\ j - 1 + 1 = j)
  BY <1>4, <1>5
<1>9. a \in 0 .. n /\ b \in a .. n
  <2>1. ends[j] \in 0 .. n + 1 /\ ends[j + 1] \in 0 .. n + 1 /\ ends[j] < ends[j + 1]
    BY <1>6, <1>8
  <2> QED BY <1>1, <2>1
<1>10. Clean(line, d, a)
  <2>1. CASE j = 1
    BY <1>3, <1>6, <2>1 DEF Clean, scan
  <2>2. CASE j # 1
    <3>1. a \in P /\ a \in 1 .. n
      <4>1. ends[j - 1 + 1] = InOrder(P)[j - 1]
        BY <1>6, <1>8, <2>2
      <4>2. ends[j] = InOrder(P)[j - 1]
        BY <1>8, <2>2, <4>1
      <4> QED BY <1>7, <1>8, <2>2, <4>2
    <3> HIDE DEF a
    <3>2. CsvStep(scan[a - 1], scan[a], line, a, d) /\ ~scan[a - 1].skip /\ Ends(scan[a - 1], line, a, d)
      BY <1>2, <1>3, <3>1
    <3>3. scan[a].field = <<>> /\ ~scan[a].quoted /\ ~scan[a].skip
      BY <3>2 DEF CsvStep
    <3> QED BY <3>3 DEF Clean, scan
  <2> QED BY <2>1, <2>2
<1>11. ASSUME NEW p \in P, a < p, p <= b PROVE FALSE
  <2>1. PICK k \in 1 .. K : ends[k + 1] = p
    BY <1>6
  <2>2. k + 1 \in 1 .. K + 2 /\ k + 1 \in Int
    BY <1>4
  <2> DEFINE i == k + 1
  <2> HIDE DEF i
  <2>3. i \in 1 .. K + 2 /\ ends[i] = p /\ i \in Int /\ j \in Int
    BY <1>8, <2>1, <2>2 DEF i
  <2>4. p \in Int /\ ends[j] \in Int /\ ends[j + 1] \in Int
    BY <1>6, <1>8, <2>3
  <2>5. ends[j] < p /\ p < ends[j + 1]
    BY <1>11, <2>4
  <2>6. ~(i <= j)
    <3>1. ~(i < j) /\ i # j
      BY <1>6, <1>8, <2>3, <2>4, <2>5
    <3> QED BY <2>3, <3>1
  <2>7. ~(j + 1 <= i)
    <3>1. ~(j + 1 < i) /\ j + 1 # i
      BY <1>6, <1>8, <2>3, <2>4, <2>5
    <3> QED BY <2>3, <3>1
  <2> QED BY <2>3, <2>6, <2>7
<1>12. row[j] = FieldAt(line, d, b)
  <2>1. CASE j = K + 1
    <3>1. ends[j + 1] = n + 1
      BY <1>6, <1>8, <2>1
    <3>2. n + 1 - 1 = n
      BY <1>1
    <3>3. b = n
      BY <1>1, <3>1
    <3> QED BY <1>4, <2>1, <3>3
  <2>2. CASE j # K + 1
    BY <1>4, <1>6, <1>8, <2>2
  <2> QED BY <2>1, <2>2
<1>13. ASSUME b < n PROVE ~AQuote(line[b + 1])
  <2> DEFINE e == ends[j + 1]
  <2>0. b + 1 = e
    BY <1>6, <1>8
  <2>1. e \in P /\ e \in 1 .. n
    <3>1. j # K + 1
      <4>1. ASSUME j = K + 1 PROVE FALSE
        <5>1. ends[j + 1] = n + 1
          BY <1>6, <1>8, <4>1
        <5> QED BY <1>1, <1>13, <5>1
      <4> QED BY <4>1
    <3>2. ends[j + 1] = InOrder(P)[j] /\ j \in 1 .. K
      BY <1>6, <1>8, <3>1
    <3> QED BY <1>7, <3>2
  <2> HIDE DEF e
  <2>2. Ends(scan[e - 1], line, e, d)
    BY <1>2, <2>1
  <2>3. ~AQuote(line[e])
    BY <2>2 DEF Ends, AQuote
  <2> QED BY <2>0, <2>3
<1> QED BY <1>9, <1>10, <1>11, <1>12, <1>13 DEF a, b, P, n, row, ends

\* The fields of a line, against what stands between its separators.
LEMMA CsvRow ==
  ASSUME NEW line \in Seq(STRING), NEW d
  PROVE  LET segments == CSV!Segments(line, d)
             row == CSV!parse_csv_line(line, d) IN
         /\ Len(row) = Len(segments)
         /\ \A j \in DOMAIN segments :
              /\ CSV!Unquoted(row[j]) = CSV!Unquoted(segments[j])
              /\ CSV!Unquoted(segments[j]) = segments[j] => row[j] = segments[j]
              /\ \A m : \A f \in CSV!BoundedSeq(CSV!ToSet(segments[j]), m) :
                   segments[j] = CSV!Quoted(f) => row[j] = f
<1> DEFINE P == CSV!Separators(line, d)
           K == Cardinality(P)
           row == CSV!parse_csv_line(line, d)
           ends == InOrder({0} \cup P \cup {Len(line) + 1})
           segments == CSV!Segments(line, d)
           seg(j) == SubSeq(line, ends[j] + 1, ends[j + 1] - 1)
<1>1. Len(row) = K + 1 /\ K \in Nat
  BY CsvFields
<1>2. segments = [j \in 1 .. K + 1 |-> seg(j)]
  BY CsvNames DEF CSV!Segments
<1>3. Len(segments) = K + 1 /\ DOMAIN segments = 1 .. K + 1
  <2> HIDE DEF segments, seg, K
  <2> QED BY <1>1, <1>2
<1>4. ASSUME NEW j \in 1 .. K + 1
      PROVE  /\ CSV!Unquoted(row[j]) = CSV!Unquoted(seg(j))
             /\ CSV!Unquoted(seg(j)) = seg(j) => row[j] = seg(j)
             /\ \A m : \A f \in CSV!BoundedSeq(CSV!ToSet(seg(j)), m) :
                  seg(j) = CSV!Quoted(f) => row[j] = f
  <2> DEFINE a == ends[j]
             b == ends[j + 1] - 1
  <2>1. /\ a \in 0 .. Len(line) /\ b \in a .. Len(line)
        /\ Clean(line, d, a)
        /\ \A p \in P : ~(a < p /\ p <= b)
        /\ row[j] = FieldAt(line, d, b)
        /\ b < Len(line) => ~AQuote(line[b + 1])
    BY CsvBetween
  <2>2. seg(j) = SubSeq(line, a + 1, b)
    OBVIOUS
  <2> HIDE DEF row, ends, seg, a, b
  <2>3. FieldAt(line, d, a) = <<>>
    BY <2>1 DEF Clean, FieldAt
  <2>4. /\ CSV!Unquoted(FieldAt(line, d, b)) = CSV!Unquoted(seg(j))
        /\ NoQuotes(seg(j)) => FieldAt(line, d, b) = seg(j)
    BY <2>1, <2>2, <2>3, CsvFollows
  <2>5. seg(j) \in Seq(STRING)
    BY <2>1, <2>2, SliceGrows
  <2>6. CSV!Unquoted(seg(j)) = seg(j) => NoQuotes(seg(j))
    BY <2>5, Unquoting
  <2>7. ASSUME NEW m, NEW f \in CSV!BoundedSeq(CSV!ToSet(seg(j)), m), seg(j) = CSV!Quoted(f)
        PROVE  row[j] = f
    <3>1. f \in Seq(STRING)
      BY <2>5, BoundedFields
    <3>2. FieldAt(line, d, b) = f
      BY <2>1, <2>2, <2>7, <3>1, QuotedRun
    <3> QED BY <2>1, <3>2
  <2> QED BY <2>1, <2>4, <2>6, <2>7
<1>5. \A j \in 1 .. K + 1 : segments[j] = seg(j)
  <2> HIDE DEF segments, seg, K
  <2> QED BY <1>2
<1> HIDE DEF segments, seg, row, K
<1>6. \A j \in DOMAIN segments :
        /\ CSV!Unquoted(row[j]) = CSV!Unquoted(segments[j])
        /\ CSV!Unquoted(segments[j]) = segments[j] => row[j] = segments[j]
        /\ \A m : \A f \in CSV!BoundedSeq(CSV!ToSet(segments[j]), m) :
             segments[j] = CSV!Quoted(f) => row[j] = f
  BY <1>3, <1>4, <1>5
<1>7. Len(row) = Len(segments)
  BY <1>1, <1>3
<1> QED BY <1>6, <1>7 DEF segments, row

-----------------------------------------------------------------------------
(* Characters of two bytes.                                                *)

\* A lead byte up to i is at i; a trail byte follows i.
AtLead(t, i) == i > 0 /\ t[i] = "lead"
AtTrail(t, i) == i < Len(t) /\ t[i + 1] = "trail"

\* A text is UTF-8 when every lead byte has its trail byte and no other has one.
LEMMA Utf8Means ==
  \A t : CSV!Utf8(t) <=> \A i \in 0 .. Len(t) : AtLead(t, i) <=> AtTrail(t, i)
BY DEF CSV!Utf8, AtLead, AtTrail

\* The empty text is UTF-8.
LEMMA Utf8Empty == CSV!Utf8(<<>>)
<1>1. \A i \in 0 .. Len(<<>>) : ~(i > 0) /\ ~(i < Len(<<>>))
  OBVIOUS
<1>2. \A i \in 0 .. Len(<<>>) : AtLead(<<>>, i) <=> AtTrail(<<>>, i)
  BY <1>1 DEF AtLead, AtTrail
<1> QED BY <1>2, Utf8Means

\* So far in UTF-8, but that the last byte may be a lead byte.
OpenUtf8(f) ==
  /\ Len(f) > 0 => f[1] # "trail"
  /\ \A i \in 1 .. Len(f) - 1 : f[i] = "lead" <=> f[i + 1] = "trail"
EndsLead(f) == Len(f) > 0 /\ f[Len(f)] = "lead"

\* A quote is a character of its own.
LEMMA QuoteIsNeither == \A c : AQuote(c) => c # "lead" /\ c # "trail"
BY Zenon DEF AQuote

\* The empty text is UTF-8 so far and awaits no trail byte.
LEMMA OpenEmpty == OpenUtf8(<<>>) /\ ~EndsLead(<<>>)
<1>1. Len(<<>>) = 0 /\ ~(0 > 0) /\ 1 .. 0 - 1 = {}
  OBVIOUS
<1> QED BY <1>1 DEF OpenUtf8, EndsLead

\* A text that is UTF-8 so far stays so with the right next byte.
LEMMA OpenGrows ==
  ASSUME NEW S, NEW f \in Seq(S), NEW c \in S, OpenUtf8(f), EndsLead(f) <=> c = "trail"
  PROVE  OpenUtf8(Append(f, c)) /\ (EndsLead(Append(f, c)) <=> c = "lead")
<1> DEFINE g == Append(f, c)
           n == Len(f)
<1>1. n \in Nat /\ Len(g) = n + 1 /\ g[n + 1] = c /\ \A i \in 1 .. n : g[i] = f[i]
  BY AppendProperties
<1>2. EndsLead(f) <=> n > 0 /\ f[n] = "lead"
  BY DEF EndsLead
<1>3. /\ n > 0 => f[1] # "trail"
      /\ \A i \in 1 .. n - 1 : f[i] = "lead" <=> f[i + 1] = "trail"
  BY DEF OpenUtf8
<1> HIDE DEF g, n
<1>4. g[1] # "trail"
  <2>1. CASE n = 0
    <3>1. 0 + 1 = 1
      OBVIOUS
    <3>2. g[1] = c
      BY <1>1, <2>1, <3>1
    <3>3. ~(c = "trail")
      BY <1>2, <2>1
    <3> QED BY <3>2, <3>3
  <2>2. CASE n # 0
    <3>1. 1 \in 1 .. n /\ n > 0
      BY <1>1, <2>2
    <3> QED BY <1>1, <1>3, <3>1
  <2> QED BY <2>1, <2>2
<1>5. ASSUME NEW i \in 1 .. n PROVE g[i] = "lead" <=> g[i + 1] = "trail"
  <2>1. CASE i = n
    <3>1. n > 0
      BY <1>1
    <3>2. g[i] = f[n] /\ g[i + 1] = c
      BY <1>1, <2>1
    <3> QED BY <1>2, <3>1, <3>2
  <2>2. CASE i # n
    <3>1. i \in 1 .. n - 1 /\ i + 1 \in 1 .. n
      BY <1>1, <2>2
    <3>2. g[i] = f[i] /\ g[i + 1] = f[i + 1]
      BY <1>1, <3>1
    <3> QED BY <1>3, <3>1, <3>2
  <2> QED BY <2>1, <2>2
<1>6. Len(g) - 1 = n /\ Len(g) > 0
  BY <1>1
<1>7. OpenUtf8(g)
  BY <1>4, <1>5, <1>6 DEF OpenUtf8
<1>8. EndsLead(g) <=> c = "lead"
  BY <1>1, <1>6 DEF EndsLead
<1> QED BY <1>7, <1>8 DEF g

\* A text that is UTF-8 so far and awaits nothing is UTF-8.
LEMMA OpenMeans ==
  ASSUME NEW S, NEW f \in Seq(S), OpenUtf8(f), ~EndsLead(f)
  PROVE  CSV!Utf8(f)
<1> DEFINE n == Len(f)
<1>0. n \in Nat
  OBVIOUS
<1>1. /\ n > 0 => f[1] # "trail"
      /\ \A i \in 1 .. n - 1 : f[i] = "lead" <=> f[i + 1] = "trail"
      /\ n > 0 => f[n] # "lead"
  BY DEF OpenUtf8, EndsLead
<1>2. ASSUME NEW i \in 0 .. n PROVE AtLead(f, i) <=> AtTrail(f, i)
  <2>1. CASE i = 0
    <3>1. ~AtLead(f, i)
      BY <2>1 DEF AtLead
    <3>2. AtTrail(f, i) <=> 0 < n /\ f[0 + 1] = "trail"
      BY <2>1 DEF AtTrail
    <3>3. 0 + 1 = 1 /\ (0 < n <=> n > 0)
      BY <1>0
    <3> QED BY <1>1, <3>1, <3>2, <3>3
  <2>2. CASE i = n
    <3>1. ~AtTrail(f, i)
      BY <1>0, <2>2 DEF AtTrail
    <3>2. ~AtLead(f, i)
      BY <1>1, <2>2 DEF AtLead
    <3> QED BY <3>1, <3>2
  <2>3. CASE i # 0 /\ i # n
    <3>1. i \in 1 .. n - 1 /\ i > 0 /\ i < n
      BY <1>0, <2>3
    <3> QED BY <1>1, <3>1 DEF AtLead, AtTrail
  <2> QED BY <2>1, <2>2, <2>3
<1> QED BY <1>2, Utf8Means

\* Each field of a line in UTF-8 is in UTF-8, if the delimiter is.
LEMMA CsvFieldUtf8 ==
  ASSUME NEW line \in Seq(STRING), NEW d, CSV!Utf8(line), d # "lead",
         NEW i \in 0 .. Len(line)
  PROVE  LET f == FieldAt(line, d, i) IN
         f \in Seq(STRING) /\ OpenUtf8(f) /\ (EndsLead(f) <=> AtLead(line, i))
<1> DEFINE n == Len(line)
           scan == CSV!ParseScan(line, d)
           Good(k) == OpenUtf8(scan[k].field) /\ (EndsLead(scan[k].field) <=> AtLead(line, k))
           I == {k \in 0 .. n : Good(k)}
<1>1. n \in Nat /\ 0 \in 0 .. n /\ i \in 0 .. n
  OBVIOUS
<1>2. /\ scan[0].field = <<>>
      /\ \A k \in 0 .. n : scan[k] \in CsvStates
      /\ \A k \in 1 .. n : CsvStep(scan[k - 1], scan[k], line, k, d)
  BY CsvTurns
<1>3. \A k \in 0 .. n : QuotedAt(line, scan[k], k)
  BY CsvQuoted
<1>4. \A k \in 0 .. n : AtLead(line, k) <=> AtTrail(line, k)
  BY Utf8Means
<1>5. \A k \in 1 .. n : line[k] \in STRING
  OBVIOUS
<1> HIDE DEF scan, n
<1>6. 0 \in I
  <2>1. ~AtLead(line, 0)
    BY DEF AtLead
  <2> QED BY <1>1, <1>2, <2>1, OpenEmpty
<1>7. ASSUME NEW k \in 0 .. n - 1, k \in I PROVE k + 1 \in I
  <2> DEFINE j == k + 1
             s == scan[k]
             z == scan[j]
             c == line[j]
  <2>1. j \in 1 .. n /\ j \in 0 .. n /\ j - 1 = k /\ k \in 0 .. n /\ k < n /\ j > 0
    BY <1>1
  <2>2. AtLead(line, k) <=> c = "trail"
    BY <1>4, <2>1 DEF AtTrail, n
  <2> HIDE DEF j
  <2>3. AtLead(line, j) <=> c = "lead"
    BY <2>1 DEF AtLead
  <2>4. OpenUtf8(s.field) /\ (EndsLead(s.field) <=> c = "trail")
    BY <1>7, <2>2
  <2>5. s \in CsvStates /\ CsvStep(s, z, line, j, d) /\ QuotedAt(line, s, k) /\ c \in STRING
    BY <1>2, <1>3, <1>5, <2>1
  <2> HIDE DEF s, z
  <2>6. s.skip => AQuote(c)
    BY <2>5 DEF QuotedAt, AQuote, j
  <2>7. s.field \in Seq(STRING)
    BY <2>5 DEF CsvStates
  <2>8. \/ AQuote(c) /\ z.field = s.field
        \/ z.field = Append(s.field, c)
        \/ z.field = <<>> /\ c = d
    BY <2>5, <2>6 DEF CsvStep, AQuote, Ends, Escaped
  <2> HIDE DEF c
  <2> DEFINE Goal == OpenUtf8(z.field) /\ (EndsLead(z.field) <=> c = "lead")
  <2>9. ASSUME AQuote(c), z.field = s.field PROVE Goal
    BY <2>4, <2>9, QuoteIsNeither
  <2>10. ASSUME z.field = Append(s.field, c) PROVE Goal
    BY <2>4, <2>5, <2>7, <2>10, OpenGrows
  <2>11. ASSUME z.field = <<>>, c = d PROVE Goal
    BY <2>11, OpenEmpty
  <2>12. Goal
    BY <2>8, <2>9, <2>10, <2>11
  <2>13. Good(j)
    BY <2>3, <2>12 DEF z
  <2> QED BY <2>1, <2>13 DEF j
<1>8. Good(i)
  <2> HIDE DEF Good
  <2>1. \A k \in 0 .. n - 1 : k \in I => k + 1 \in I
    BY <1>7
  <2> HIDE DEF I
  <2>2. \A k \in 0 .. n : k \in I
    BY <1>1, <1>6, <2>1, Induction
  <2>3. i \in I
    BY <1>1, <2>2
  <2> QED BY <2>3 DEF I
<1>9. scan[i].field \in Seq(STRING)
  BY <1>1, <1>2 DEF CsvStates
<1> QED BY <1>8, <1>9 DEF scan, FieldAt

\* The fields of a UTF-8 line between UTF-8 delimiters are UTF-8: the parser
\* cuts no character in two (parse_csv_line).
LEMMA CsvRowUtf8 ==
  ASSUME NEW line \in Seq(STRING), NEW d, CSV!Utf8(line), CSV!Utf8(<<d>>)
  PROVE  \A j \in 1 .. Len(CSV!parse_csv_line(line, d)) : CSV!Utf8(CSV!parse_csv_line(line, d)[j])
<1> DEFINE P == CSV!Separators(line, d)
           n == Len(line)
           K == Cardinality(P)
           row == CSV!parse_csv_line(line, d)
           scan == CSV!ParseScan(line, d)
<1>1. d # "lead" /\ d # "trail"
  <2>1. Len(<<d>>) = 1 /\ <<d>>[1] = d /\ <<d>>[0 + 1] = d
    OBVIOUS
  <2>2. 0 \in 0 .. 1 /\ 1 \in 0 .. 1 /\ 1 > 0 /\ ~(1 < 1) /\ 0 < 1 /\ ~(0 > 0)
    OBVIOUS
  <2>3. \A i \in 0 .. 1 : AtLead(<<d>>, i) <=> AtTrail(<<d>>, i)
    BY <2>1, Utf8Means
  <2>4. ~AtTrail(<<d>>, 1) /\ ~AtLead(<<d>>, 0)
    BY <2>1, <2>2 DEF AtTrail, AtLead
  <2>5. ~AtLead(<<d>>, 1) /\ ~AtTrail(<<d>>, 0)
    BY <2>2, <2>3, <2>4
  <2> QED BY <2>1, <2>2, <2>5 DEF AtTrail, AtLead
<1>2. /\ Len(row) = K + 1 /\ K \in Nat
      /\ \A j \in 1 .. K : row[j] = FieldAt(line, d, InOrder(P)[j] - 1)
      /\ row[K + 1] = FieldAt(line, d, n)
  BY CsvFields
<1>3. /\ Places(P, n)
      /\ \A i \in 1 .. n : i \in P => line[i] = d
  <2>1. \A i \in 1 .. n : i \in P => Ends(scan[i - 1], line, i, d)
    BY CsvSeparators
  <2> QED BY <2>1, CsvSeparators DEF Ends
<1>4. n \in Nat /\ \A i \in 0 .. n : AtLead(line, i) <=> AtTrail(line, i)
  BY Utf8Means
<1>5. \A i \in 0 .. n : ~AtLead(line, i) => CSV!Utf8(FieldAt(line, d, i))
  <2>1. ASSUME NEW i \in 0 .. n, ~AtLead(line, i) PROVE CSV!Utf8(FieldAt(line, d, i))
    <3>1. FieldAt(line, d, i) \in Seq(STRING) /\ OpenUtf8(FieldAt(line, d, i)) /\ ~EndsLead(FieldAt(line, d, i))
      BY <1>1, <2>1, CsvFieldUtf8
    <3> QED BY <3>1, OpenMeans
  <2> QED BY <2>1
<1> HIDE DEF P, n, K, row
<1>6. ASSUME NEW j \in 1 .. K + 1 PROVE CSV!Utf8(row[j])
  <2>1. CASE j = K + 1
    <3>1. n \in 0 .. n /\ ~AtTrail(line, n)
      BY <1>4 DEF AtTrail, n
    <3> QED BY <1>2, <1>4, <1>5, <2>1, <3>1
  <2>2. CASE j # K + 1
    <3>1. j \in 1 .. K
      BY <1>2, <2>2
    <3> DEFINE p == InOrder(P)[j]
    <3>2. p \in P /\ P \subseteq 1 .. n
      <4>1. IsFiniteSet(P) /\ P \subseteq Int
        BY <1>3, FinitePlaces
      <4>2. InOrder(P) \in [1 .. K -> P]
        BY <4>1, Order DEF K
      <4> QED BY <1>3, <3>1, <4>2 DEF Places
    <3> HIDE DEF p
    <3>3. p - 1 \in 0 .. n /\ p - 1 + 1 = p
      BY <1>4, <3>2
    <3>4. ~AtTrail(line, p - 1)
      BY <1>1, <1>3, <3>2, <3>3 DEF AtTrail
    <3> QED BY <1>2, <1>4, <1>5, <3>1, <3>3, <3>4 DEF p
  <2> QED BY <2>1, <2>2
<1> QED BY <1>2, <1>6 DEF row

CsvFile(f) ==
  f \in [kind : FileKinds, bytes : Seq(STRING)] /\ Len(f.bytes) <= MaxFile

\* What the tools scan of a file.
CsvScanOf(scan, t) ==
  /\ scan.error \in (FileKinds \ {"file"}) \cup {""}
  /\ scan.lines \in Seq(Seq(STRING)) /\ Len(scan.lines) <= scan.max_rows
  /\ scan.rows = [i \in DOMAIN scan.lines |-> CSV!parse_csv_line(scan.lines[i], scan.delimiter)]
  /\ scan.error = "" => FirstLines(scan.lines, t, scan.inputTruncated, scan.rowLimited)

\* What csv.summary and csv.sample scan out of the file.
LEMMA CsvScans ==
  ASSUME CsvFile(file), NEW max_bytes \in Int, NEW max_rows \in Int, NEW delimiter
  PROVE  CsvScanOf(CSV!Scan(max_bytes, max_rows, delimiter), file.bytes)
<1> DEFINE t == file.bytes
           S == STRING
           d == CSV!delimiter_char(delimiter)
           read == ReadBounded(file, max_bytes, LargestBytes)
           limit == clamp(max_rows, 1, LargestRows)
           split == SplitLines(read.text, limit)
           scan == CSV!Scan(max_bytes, max_rows, delimiter)
           rows == [i \in DOMAIN split.lines |-> CSV!parse_csv_line(split.lines[i], d)]
<1>1. t \in Seq(S) /\ file.kind \in FileKinds
  BY DEF CsvFile
<1>2. LargestBytes \in Nat /\ LargestBytes > 0 /\ LargestRows \in Int /\ 1 <= LargestRows
  BY LimitsAssumption
<1>3. limit \in Nat \ {0}
  <2>1. limit \in 1 .. LargestRows
    BY <1>2, Clamped
  <2> QED BY <2>1
<1>4. scan = [max_rows |-> limit, error |-> read.error, lines |-> split.lines,
              delimiter |-> d, rows |-> rows,
              inputTruncated |-> read.truncated, rowLimited |-> split.limited]
  BY CsvNames DEF CSV!Scan, CSV!read_bounded, CSV!split_lines
<1>5. /\ read.error \in (FileKinds \ {"file"}) \cup {""}
      /\ read.error = "" =>
           \E n \in 0 .. Len(t) : /\ read.text = SubSeq(t, 1, n)
                                  /\ read.truncated <=> n < Len(t)
      /\ read.error # "" => read.text = <<>> /\ ~read.truncated
  BY <1>1, <1>2, BoundedRead
<1>6. \E n \in 0 .. Len(t) : /\ read.text = SubSeq(t, 1, n)
                             /\ read.error = "" => (read.truncated <=> n < Len(t))
  <2>1. SubSeq(t, 1, 0) = <<>> /\ 0 \in 0 .. Len(t)
    <3>1. Len(t) \in Nat
      BY <1>1
    <3> QED BY <3>1, SubSeqEmpty
  <2> HIDE DEF read, t
  <2> QED BY <1>5, <2>1
<1>7. PICK n \in 0 .. Len(t) : /\ read.text = SubSeq(t, 1, n)
                               /\ read.error = "" => (read.truncated <=> n < Len(t))
  BY <1>6
<1> HIDE DEF read, limit, t, S, scan
<1>8. /\ split.lines \in Seq(Seq(S)) /\ Len(split.lines) <= limit
      /\ FirstLines(split.lines, t, n < Len(t), split.limited)
  BY <1>1, <1>3, <1>7, SplitIsFirstLines
<1> HIDE DEF split, rows, d
<1>9. /\ scan.max_rows = limit /\ scan.error = read.error /\ scan.lines = split.lines
      /\ scan.inputTruncated = read.truncated /\ scan.rowLimited = split.limited
      /\ scan.delimiter = d /\ scan.rows = rows
  BY <1>4
<1>10. read.error = "" => FirstLines(split.lines, t, read.truncated, split.limited)
  BY <1>7, <1>8 DEF FirstLines
<1>11. scan.rows = [i \in DOMAIN scan.lines |-> CSV!parse_csv_line(scan.lines[i], scan.delimiter)]
  BY <1>9 DEF rows
<1>12. CsvScanOf(scan, t)
  BY <1>5, <1>8, <1>9, <1>10, <1>11 DEF CsvScanOf, S
<1> QED BY <1>12 DEF scan, t

NoError(scan) == scan.error = ""

\* The fields of lines in UTF-8 render, unless the byte limit cut a character of
\* the last one.
LEMMA CsvRenders ==
  ASSUME NEW t \in Seq(STRING), NEW scan, CsvScanOf(scan, t), NoError(scan),
         CSV!Utf8(<<scan.delimiter>>),
         \A k \in DOMAIN scan.lines : CSV!Utf8(AllLines(t)[k]),
         scan.inputTruncated => CSV!Utf8(CSV!Last(scan.lines)),
         NEW i \in DOMAIN scan.rows, NEW j \in 1 .. Len(scan.rows[i])
  PROVE  CSV!Utf8(scan.rows[i][j])
<1> DEFINE lines == scan.lines
           all == AllLines(t)
           cut == scan.inputTruncated
           d == scan.delimiter
<1>1. /\ lines \in Seq(Seq(STRING))
      /\ scan.rows = [k \in DOMAIN lines |-> CSV!parse_csv_line(lines[k], d)]
      /\ FirstLines(lines, t, cut, scan.rowLimited)
  BY DEF CsvScanOf, NoError
<1> HIDE DEF lines, all, cut, d
<1>2. i \in DOMAIN lines /\ scan.rows[i] = CSV!parse_csv_line(lines[i], d)
  BY <1>1
<1>3. i \in 1 .. Len(lines) /\ Len(lines) \in Nat /\ lines[i] \in Seq(STRING)
  <2> DEFINE L == Seq(STRING)
  <2>1. lines \in Seq(L) /\ i \in DOMAIN lines
    BY <1>1, <1>2
  <2> HIDE DEF L
  <2>2. i \in 1 .. Len(lines) /\ Len(lines) \in Nat /\ lines[i] \in L
    BY <2>1
  <2> QED BY <2>2 DEF L
<1>4. Len(lines) <= Len(all) /\ (lines[i] = all[i] \/ (cut /\ i = Len(lines)))
  BY <1>1, <1>2 DEF FirstLines, all
<1>5. CSV!Utf8(lines[i])
  <2>1. CASE lines[i] = all[i]
    <3>1. CSV!Utf8(AllLines(t)[i])
      BY <1>2 DEF lines
    <3> QED BY <2>1, <3>1 DEF all
  <2>2. CASE cut /\ i = Len(lines)
    <3>1. CSV!Utf8(CSV!Last(scan.lines))
      BY <2>2 DEF cut
    <3> QED BY <2>2, <3>1 DEF CSV!Last, lines
  <2> QED BY <1>4, <2>1, <2>2
<1>6. CSV!Utf8(<<d>>)
  BY DEF d
<1> QED BY <1>2, <1>3, <1>5, <1>6, CsvRowUtf8

\* The names of the columns are fields of the first row, or empty.
LEMMA CsvColumns ==
  ASSUME NEW rows, NEW n \in Nat, DOMAIN rows = 1 .. n, NEW c \in DOMAIN CSV!Columns(rows)
  PROVE  LET name == CSV!Columns(rows)[c].name IN
         \/ name = <<>>
         \/ 1 \in DOMAIN rows /\ c \in 1 .. Len(rows[1]) /\ name = rows[1][c]
<1> DEFINE m == CSV!Max({0} \cup {Len(rows[i]) : i \in DOMAIN rows})
           count(k) == CSV!Cardinality({i \in 2 .. Len(rows) : k <= Len(rows[i]) /\ rows[i][k] # <<>>})
           name(k) == IF k <= Len(rows[1]) THEN rows[1][k] ELSE <<>>
<1>1. CSV!Columns(rows) = [k \in 1 .. m |-> [name |-> name(k), nonEmpty |-> count(k)]]
  BY DEF CSV!Columns
<1>2. n # 0
  <2>1. ASSUME n = 0 PROVE FALSE
    <3>1. {0} \cup {Len(rows[i]) : i \in DOMAIN rows} = {0}
      BY <2>1
    <3>2. m = 0
      <4>1. m = CSV!Max({0})
        BY <3>1
      <4>2. CSV!Max({0}) = 0
        BY DEF CSV!Max
      <4> QED BY <4>1, <4>2
    <3> HIDE DEF m, count, name
    <3>3. c \in 1 .. 0
      BY <1>1, <3>2
    <3> QED BY <3>3
  <2> QED BY <2>1
<1> HIDE DEF m, count
<1>3. c \in 1 .. m /\ CSV!Columns(rows)[c].name = name(c)
  BY <1>1
<1>4. c \in Int /\ c >= 1
  BY <1>3
<1>5. 1 \in DOMAIN rows
  BY <1>2
<1>6. c <= Len(rows[1]) => c \in 1 .. Len(rows[1])
  BY <1>4
<1> QED BY <1>3, <1>5, <1>6

CsvReplies ==
  /\ CSV!TypeOK /\ CSV!RowsAreFirstLines
  /\ CSV!FieldsFollowTheQuotes /\ CSV!FieldsComeBack
  /\ CSV!RendersUnlessCut
CsvInv == program = "csv" => CsvFile(file) /\ CsvReplies

\* What both tools render of a scan.
Rendered(strings, scan) ==
  \A text \in strings : \/ text = <<scan.delimiter>> \/ text = <<>>
                        \/ \E i \in DOMAIN scan.rows : \E j \in 1 .. Len(scan.rows[i]) : text = scan.rows[i][j]

\* What the properties say of a reply whatever the tool.
LEMMA CsvScanned ==
  ASSUME CsvFile(file),
         reply # CSV!NoReply, reply.tool \in {"csv.summary", "csv.sample"},
         CsvScanOf(reply.scan, file.bytes),
         NEW strings, Rendered(strings, reply.scan), reply.throws <=> ~CSV!Renders(strings)
  PROVE  CsvReplies
<1> DEFINE scan == reply.scan
           d == scan.delimiter
<1>1. /\ scan.error \in (FileKinds \ {"file"}) \cup {""}
      /\ scan.lines \in Seq(Seq(STRING)) /\ Len(scan.lines) <= scan.max_rows
      /\ scan.rows = [i \in DOMAIN scan.lines |-> CSV!parse_csv_line(scan.lines[i], d)]
      /\ scan.error = "" => FirstLines(scan.lines, file.bytes, scan.inputTruncated, scan.rowLimited)
  BY DEF CsvScanOf
<1>2. DOMAIN scan.rows = DOMAIN scan.lines /\ Len(scan.rows) = Len(scan.lines)
      /\ \A i \in DOMAIN scan.lines : scan.lines[i] \in Seq(STRING)
  <2> DEFINE lines == scan.lines
             L == Seq(STRING)
             rows == scan.rows
             row(i) == CSV!parse_csv_line(lines[i], d)
  <2>1. lines \in Seq(L) /\ rows = [i \in DOMAIN lines |-> row(i)]
    BY <1>1
  <2> HIDE DEF lines, L, rows, row
  <2>2. Len(lines) \in Nat /\ DOMAIN lines = 1 .. Len(lines) /\ \A i \in DOMAIN lines : lines[i] \in L
    BY <2>1
  <2>3. DOMAIN rows = DOMAIN lines
    BY <2>1
  <2>4. Len(rows) = Len(lines)
    BY <2>2, <2>3
  <2> QED BY <2>2, <2>3, <2>4 DEF lines, L, rows
<1>3. CSV!TypeOK
  <2>1. CSV!FileKinds = FileKinds
    BY CsvNames
  <2> QED BY <1>1, <1>2, <2>1 DEF CSV!TypeOK, CsvFile
<1>4. CSV!RowsAreFirstLines
  BY <1>1, CsvNames DEF CSV!RowsAreFirstLines, CSV!Replied
<1>5. ASSUME NEW i \in DOMAIN scan.lines
      PROVE  LET segments == CSV!Segments(scan.lines[i], d) IN
             /\ Len(scan.rows[i]) = Len(segments)
             /\ \A j \in DOMAIN segments :
                  /\ CSV!Unquoted(scan.rows[i][j]) = CSV!Unquoted(segments[j])
                  /\ CSV!Unquoted(segments[j]) = segments[j] => scan.rows[i][j] = segments[j]
                  /\ \A m : \A f \in CSV!BoundedSeq(CSV!ToSet(segments[j]), m) :
                       segments[j] = CSV!Quoted(f) => scan.rows[i][j] = f
  <2>1. scan.rows[i] = CSV!parse_csv_line(scan.lines[i], d) /\ scan.lines[i] \in Seq(STRING)
    BY <1>1, <1>2
  <2> QED BY <2>1, CsvRow
<1>6. CSV!FieldsFollowTheQuotes
  BY <1>5 DEF CSV!FieldsFollowTheQuotes
<1>7. CSV!FieldsComeBack
  BY <1>5 DEF CSV!FieldsComeBack
<1>8. ASSUME CSV!Replied, CSV!Utf8(<<d>>), \A i \in DOMAIN scan.lines : CSV!Utf8(AllLines(file.bytes)[i]),
             scan.inputTruncated => CSV!Utf8(CSV!Last(scan.lines))
      PROVE  ~reply.throws
  <2>1. file.bytes \in Seq(STRING)
    BY DEF CsvFile
  <2>2. NoError(scan)
    BY <1>8 DEF CSV!Replied, NoError
  <2>3. \A i \in DOMAIN scan.rows : \A j \in 1 .. Len(scan.rows[i]) : CSV!Utf8(scan.rows[i][j])
    BY <1>8, <2>1, <2>2, CsvRenders
  <2>4. ASSUME NEW text \in strings PROVE CSV!Utf8(text)
    BY <1>8, <2>3, Utf8Empty DEF Rendered
  <2> QED BY <2>4 DEF CSV!Renders
<1>9. CSV!RendersUnlessCut
  <2>1. \A t : CSV!AllLines(t) = AllLines(t)
    BY CsvNames
  <2> QED BY <1>8, <2>1 DEF CSV!RendersUnlessCut
<1> QED BY <1>3, <1>4, <1>6, <1>7, <1>9 DEF CsvReplies

\* What FieldsComeBack says of a scan.
ComesBack(scan) ==
  \A i \in DOMAIN scan.lines :
    LET segments == CSV!Segments(scan.lines[i], scan.delimiter) IN
    \A j \in DOMAIN segments :
      LET segment == segments[j] IN
      /\ CSV!Unquoted(segment) = segment => scan.rows[i][j] = segment
      /\ Len(segment) >= 2 =>
           \A field \in CSV!BoundedSeq(CSV!ToSet(segment), Len(segment) - 2) :
             segment = CSV!Quoted(field) => scan.rows[i][j] = field

\* FieldsComeBack is about the scan of the reply only.
LEMMA CsvComesBack == CSV!FieldsComeBack <=> (CSV!Replied => ComesBack(reply.scan))
BY DEF CSV!FieldsComeBack, ComesBack

\* Without a reply there is nothing to say of it.
LEMMA CsvIdle == CsvFile(file) /\ reply = CSV!NoReply => CsvReplies
<1>1. CSV!FileKinds = FileKinds
  BY CsvNames
<1> QED BY <1>1 DEF CsvReplies, CsvFile, CSV!TypeOK, CSV!RowsAreFirstLines, CSV!FieldsFollowTheQuotes,
       CSV!FieldsComeBack, CSV!RendersUnlessCut, CSV!Replied

\* What csv.summary replies.
SummaryOf(scan) ==
  LET columns == CSV!Columns(scan.rows)
  IN [tool |-> "csv.summary", scan |-> scan, columns |-> columns,
      throws |-> ~CSV!Renders({<<scan.delimiter>>} \cup
                              {columns[c].name : c \in DOMAIN columns})]
CsvSummary(r) ==
  \E max_bytes \in ByteLimits, max_rows \in RowLimits, delimiter \in Delimiters :
    r = SummaryOf(CSV!Scan(max_bytes, max_rows, delimiter))

\* csv.summary replies what the rows say.
LEMMA CsvSummarized ==
  ASSUME CsvFile(file), CsvSummary(reply)
  PROVE  CsvReplies
<1>1. PICK max_bytes \in ByteLimits, max_rows \in RowLimits, delimiter \in Delimiters :
       LET scan == CSV!Scan(max_bytes, max_rows, delimiter)
           columns == CSV!Columns(scan.rows)
       IN reply = [tool |-> "csv.summary", scan |-> scan, columns |-> columns,
                   throws |-> ~CSV!Renders({<<scan.delimiter>>} \cup
                                           {columns[c].name : c \in DOMAIN columns})]
  BY DEF CsvSummary, SummaryOf
<1> DEFINE scan == CSV!Scan(max_bytes, max_rows, delimiter)
           columns == CSV!Columns(scan.rows)
           strings == {<<scan.delimiter>>} \cup {columns[c].name : c \in DOMAIN columns}
           throws == ~CSV!Renders(strings)
<1>2. CsvScanOf(scan, file.bytes)
  <2>1. max_bytes \in Int /\ max_rows \in Int
    BY LimitsAssumption
  <2> QED BY <2>1, CsvScans
<1>3. reply = [tool |-> "csv.summary", scan |-> scan, columns |-> columns, throws |-> throws]
  BY <1>1
<1> HIDE DEF scan, columns
<1>4. Rendered(strings, scan)
  <2>1. ASSUME NEW c \in DOMAIN columns
        PROVE  \/ columns[c].name = <<>>
               \/ \E i \in DOMAIN scan.rows : \E j \in 1 .. Len(scan.rows[i]) :
                    columns[c].name = scan.rows[i][j]
    <3>1. Len(scan.lines) \in Nat /\ DOMAIN scan.rows = 1 .. Len(scan.lines)
      <4> DEFINE L == Seq(STRING)
                 lines == scan.lines
                 row(i) == CSV!parse_csv_line(lines[i], scan.delimiter)
      <4>1. lines \in Seq(L) /\ scan.rows = [i \in DOMAIN lines |-> row(i)]
        BY <1>2 DEF CsvScanOf
      <4> HIDE DEF L, lines, row
      <4>2. Len(lines) \in Nat /\ DOMAIN lines = 1 .. Len(lines)
        BY <4>1
      <4> QED BY <4>1, <4>2 DEF lines
    <3>2. \/ columns[c].name = <<>>
          \/ 1 \in DOMAIN scan.rows /\ c \in 1 .. Len(scan.rows[1]) /\ columns[c].name = scan.rows[1][c]
      BY <3>1, CsvColumns DEF columns
    <3> QED BY <3>2
  <2> QED BY <2>1 DEF Rendered
<1> HIDE DEF strings, throws
<1>5. /\ reply.tool = "csv.summary" /\ reply.scan = scan /\ reply.throws = throws
      /\ reply # CSV!NoReply
  <2>1. "scan" \in DOMAIN reply /\ "scan" \notin DOMAIN CSV!NoReply
    BY <1>3 DEF CSV!NoReply
  <2> QED BY <1>3, <2>1
<1>6. reply.throws <=> ~CSV!Renders(strings)
  BY <1>5 DEF throws
<1> QED BY <1>2, <1>4, <1>5, <1>6, CsvScanned

\* What csv.sample replies.
SampleOf(scan) ==
  [tool |-> "csv.sample", scan |-> scan,
   throws |-> ~CSV!Renders({<<scan.delimiter>>} \cup
                           UNION {CSV!ToSet(scan.rows[i]) : i \in DOMAIN scan.rows})]
CsvSample(r) ==
  \E max_bytes \in ByteLimits, rows \in RowLimits, delimiter \in Delimiters :
    r = SampleOf(CSV!Scan(max_bytes, rows, delimiter))

\* csv.sample replies what the rows say.
LEMMA CsvSampled ==
  ASSUME CsvFile(file), CsvSample(reply)
  PROVE  CsvReplies
<1>1. PICK max_bytes \in ByteLimits, max_rows \in RowLimits, delimiter \in Delimiters :
       LET scan == CSV!Scan(max_bytes, max_rows, delimiter)
       IN reply = [tool |-> "csv.sample", scan |-> scan,
                   throws |-> ~CSV!Renders({<<scan.delimiter>>} \cup
                                  UNION {CSV!ToSet(scan.rows[i]) : i \in DOMAIN scan.rows})]
  BY DEF CsvSample, SampleOf
<1> DEFINE scan == CSV!Scan(max_bytes, max_rows, delimiter)
           strings == {<<scan.delimiter>>} \cup UNION {CSV!ToSet(scan.rows[i]) : i \in DOMAIN scan.rows}
           throws == ~CSV!Renders(strings)
<1>2. CsvScanOf(scan, file.bytes)
  <2>1. max_bytes \in Int /\ max_rows \in Int
    BY LimitsAssumption
  <2> QED BY <2>1, CsvScans
<1>3. reply = [tool |-> "csv.sample", scan |-> scan, throws |-> throws]
  BY <1>1
<1> HIDE DEF scan
<1>4. Rendered(strings, scan)
  <2>1. ASSUME NEW i \in DOMAIN scan.rows, NEW text \in CSV!ToSet(scan.rows[i])
        PROVE  \E j \in 1 .. Len(scan.rows[i]) : text = scan.rows[i][j]
    <3>1. scan.rows[i] = CSV!parse_csv_line(scan.lines[i], scan.delimiter) /\ scan.lines[i] \in Seq(STRING)
      <4> DEFINE L == Seq(STRING)
                 lines == scan.lines
                 row(k) == CSV!parse_csv_line(lines[k], scan.delimiter)
      <4>1. lines \in Seq(L) /\ scan.rows = [k \in DOMAIN lines |-> row(k)]
        BY <1>2 DEF CsvScanOf
      <4> HIDE DEF L, lines, row
      <4>2. i \in DOMAIN lines /\ lines[i] \in L /\ scan.rows[i] = row(i)
        BY <4>1
      <4> QED BY <4>2 DEF L, lines, row
    <3>2. scan.rows[i] \in Seq(Seq(STRING))
      BY <3>1, CsvFields
    <3>3. DOMAIN scan.rows[i] = 1 .. Len(scan.rows[i])
      BY <3>2
    <3> QED BY <3>3 DEF CSV!ToSet
  <2>2. \A text \in strings : \/ text = <<scan.delimiter>>
                              \/ \E i \in DOMAIN scan.rows : text \in CSV!ToSet(scan.rows[i])
    OBVIOUS
  <2> HIDE DEF strings
  <2> QED BY <2>1, <2>2 DEF Rendered
<1> HIDE DEF strings, throws
<1>5. /\ reply.tool = "csv.sample" /\ reply.scan = scan /\ reply.throws = throws
      /\ reply # CSV!NoReply
  <2>1. "scan" \in DOMAIN reply /\ "scan" \notin DOMAIN CSV!NoReply
    BY <1>3 DEF CSV!NoReply
  <2> QED BY <1>3, <2>1
<1>6. reply.throws <=> ~CSV!Renders(strings)
  BY <1>5 DEF throws
<1> QED BY <1>2, <1>4, <1>5, <1>6, CsvScanned

\* The first state of csv_server.
LEMMA CsvInit == CSV!Init => CsvFile(file) /\ CsvReplies
<1> SUFFICES ASSUME CSV!Init PROVE CsvFile(file) /\ CsvReplies
  OBVIOUS
<1>1. file \in [kind : FileKinds, bytes : {<<>>}] /\ reply = CSV!NoReply
  BY CsvNames DEF CSV!Init
<1>2. file.bytes = <<>> /\ Len(file.bytes) = 0 /\ <<>> \in Seq(STRING)
  BY <1>1
<1>3. CsvFile(file)
  <2>1. MaxFile \in Nat
    BY LimitsAssumption
  <2>2. file \in [kind : FileKinds, bytes : Seq(STRING)]
    BY <1>1, <1>2
  <2> QED BY <1>2, <2>1, <2>2 DEF CsvFile
<1> QED BY <1>1, <1>3, CsvIdle

\* Every step of csv_server keeps what its replies promise.
LEMMA CsvNext ==
  ASSUME CsvFile(file), CSV!Next
  PROVE  CsvFile(file)' /\ CsvReplies'
<1>1. CASE CSV!csv_summary
  <2>1. file' = file
    BY <1>1 DEF CSV!csv_summary
  <2>2. CsvFile(file)'
    BY <2>1 DEF CsvFile
  <2>3. \A b, l, d : CSV!Scan(b, l, d)' = CSV!Scan(b, l, d)
    BY <2>1 DEF CSV!Scan, CSV!read_bounded
  <2>4. CsvSummary(reply')
    BY <1>1 DEF CSV!csv_summary, CsvSummary, SummaryOf
  <2>5. CsvSummary(reply)'
    BY <2>3, <2>4 DEF CsvSummary
  <2>6. (CsvFile(file) /\ CsvSummary(reply))' => CsvReplies'
    BY CsvSummarized, PTL
  <2> QED BY <2>2, <2>5, <2>6
<1>2. CASE CSV!csv_sample
  <2>1. file' = file
    BY <1>2 DEF CSV!csv_sample
  <2>2. CsvFile(file)'
    BY <2>1 DEF CsvFile
  <2>3. \A b, l, d : CSV!Scan(b, l, d)' = CSV!Scan(b, l, d)
    BY <2>1 DEF CSV!Scan, CSV!read_bounded
  <2>4. CsvSample(reply')
    BY <1>2 DEF CSV!csv_sample, CsvSample, SampleOf
  <2>5. CsvSample(reply)'
    BY <2>3, <2>4 DEF CsvSample
  <2>6. (CsvFile(file) /\ CsvSample(reply))' => CsvReplies'
    BY CsvSampled, PTL
  <2> QED BY <2>2, <2>5, <2>6
<1>3. CASE CSV!Return
  <2>1. CsvFile(file)' /\ (reply = CSV!NoReply)'
    BY <1>3 DEF CSV!Return, CsvFile, CSV!NoReply
  <2>2. (CsvFile(file) /\ reply = CSV!NoReply)' => CsvReplies'
    BY CsvIdle, PTL
  <2> QED BY <2>1, <2>2
<1>4. CASE CSV!Extend
  <2>1. PICK character \in CsvCharacters :
          /\ Len(file.bytes) + Len(character) <= MaxFile
          /\ file' = [file EXCEPT !.bytes = @ \o character]
    BY <1>4 DEF CSV!Extend
  <2>2. /\ file.bytes \in Seq(STRING) /\ file.kind \in FileKinds
        /\ character \in Seq(STRING)
    BY TextAssumption DEF CsvFile
  <2> DEFINE t == file.bytes \o character
  <2>3. t \in Seq(STRING) /\ Len(t) = Len(file.bytes) + Len(character)
    BY <2>2, ConcatProperties
  <2>5. file' = [kind |-> file.kind, bytes |-> t]
    BY <2>1 DEF CsvFile
  <2> HIDE DEF t
  <2>6. CsvFile(file')
    <3>1. file'.bytes = t /\ file' \in [kind : FileKinds, bytes : Seq(STRING)]
      BY <2>2, <2>3, <2>5
    <3> QED BY <2>1, <2>3, <3>1 DEF CsvFile
  <2>7. CsvFile(file)' /\ (reply = CSV!NoReply)'
    BY <1>4, <2>6 DEF CSV!Extend, CSV!NoReply, CsvFile
  <2>8. (CsvFile(file) /\ reply = CSV!NoReply)' => CsvReplies'
    BY CsvIdle, PTL
  <2> QED BY <2>7, <2>8
<1> QED BY <1>1, <1>2, <1>3, <1>4 DEF CSV!Next

\* Whatever bytes are in the file, whatever the delimiter and the limits, the rows
\* of csv.summary and csv.sample are the first lines of the file, their fields what
\* the quotes of the line say, and a call fails only for a line that is not UTF-8
\* or for a cut character (csv_server.cpp).
THEOREM CsvAlways == DataSpec => []CsvRepliesAreTheFiles
<1>1. DataInit => CsvInv
  BY CsvInit DEF DataInit, CsvInv
<1>2. CsvInv /\ [DataNext]_dataVars => CsvInv'
  <2> SUFFICES ASSUME CsvInv, [DataNext]_dataVars PROVE CsvInv'
    OBVIOUS
  <2>1. program' = program
    BY DEF DataNext, FileStep, HeaderStep, HashStep, dataVars
  <2>2. CASE program # "csv"
    BY <2>1, <2>2 DEF CsvInv
  <2>3. CASE program = "csv" /\ DataNext
    <3>1. CSV!Next
      BY <2>3 DEF DataNext, FileStep, HeaderStep, HashStep
    <3>2. CsvFile(file)
      BY <2>3 DEF CsvInv
    <3> QED BY <3>1, <3>2, CsvNext DEF CsvInv
  <2>4. CASE UNCHANGED dataVars
    <3>1. UNCHANGED <<program, file, reply>>
      BY <2>4 DEF dataVars, fileVars
    <3>2. CASE program = "csv"
      <4>0. CsvFile(file) /\ CSV!TypeOK /\ CSV!RowsAreFirstLines /\ CSV!FieldsFollowTheQuotes
            /\ CSV!FieldsComeBack /\ CSV!RendersUnlessCut
        BY <3>2 DEF CsvInv, CsvReplies
      <4>1. CsvFile(file)' /\ CSV!TypeOK'
        BY <3>1, <4>0 DEF CsvFile, CSV!TypeOK
      <4>2. CSV!RowsAreFirstLines'
        BY <3>1, <4>0 DEF CSV!RowsAreFirstLines, CSV!Replied
      <4>3. CSV!FieldsFollowTheQuotes'
        BY <3>1, <4>0 DEF CSV!FieldsFollowTheQuotes, CSV!Replied
      <4>4. CSV!FieldsComeBack'
        <5>1. CSV!Replied' => ComesBack(reply.scan)'
          BY <3>1, <4>0, CsvComesBack DEF CSV!Replied, CSV!NoReply
        <5>2. (CSV!FieldsComeBack <=> (CSV!Replied => ComesBack(reply.scan)))'
          BY CsvComesBack, PTL
        <5> QED BY <5>1, <5>2
      <4>5. CSV!RendersUnlessCut'
        BY <3>1, <4>0 DEF CSV!RendersUnlessCut, CSV!Replied
      <4> QED BY <4>1, <4>2, <4>3, <4>4, <4>5 DEF CsvInv, CsvReplies
    <3>3. CASE program # "csv"
      BY <2>1, <3>3 DEF CsvInv
    <3> QED BY <3>2, <3>3
  <2> QED BY <2>2, <2>3, <2>4
<1>3. CsvInv => CsvRepliesAreTheFiles
  BY DEF CsvInv, CsvReplies, CsvRepliesAreTheFiles
<1> QED BY <1>1, <1>2, <1>3, PTL DEF DataSpec, dataVars
==============================================================================
