------------------------ MODULE DocumentServersProof -------------------------
(***************************************************************************)
(* Proofs for the servers of files with one document: a compilation        *)
(* database is counted as a whole, a JSON pointer written by RFC 6901      *)
(* comes back token by token, a decimal is unique, and a pointer leads     *)
(* where it says.                                                          *)
(***************************************************************************)
EXTENDS DataToolsProof

-----------------------------------------------------------------------------
(* CompileCommandsServer.                                                  *)

\* The helpers CompileCommandsServer takes from FileText are those of FileText.
LEMMA CompileNames ==
  /\ \A s : COMPILE!Cardinality(s) = Cardinality(s)
  /\ \A s, P : COMPILE!Picked(s, P) = Picked(s, P)
  /\ \A s, t : COMPILE!IsPrefix(s, t) = IsPrefix(s, t)
  /\ \A s : COMPILE!Min(s) = Min(s)
  /\ \A s : COMPILE!ToSet(s) = ToSet(s)
  /\ \A n, l, h : COMPILE!clamp(n, l, h) = clamp(n, l, h)
  /\ \A f, n, l : COMPILE!ReadBounded(f, n, l) = ReadBounded(f, n, l)
  /\ COMPILE!FileKinds = FileKinds
<1>1. \A s : COMPILE!Cardinality(s) = Cardinality(s)
  BY DEF COMPILE!Cardinality, Cardinality
<1>2. \A s, P : COMPILE!Picked(s, P) = Picked(s, P)
  <2>1. \A P, p : COMPILE!Rank(P, p) = Rank(P, p)
    BY <1>1 DEF COMPILE!Rank, Rank
  <2>2. \A P : COMPILE!InOrder(P) = InOrder(P)
    BY <1>1, <2>1 DEF COMPILE!InOrder, InOrder
  <2> QED BY <1>1, <2>2 DEF COMPILE!Picked, Picked
<1>3. \A s, t : COMPILE!IsPrefix(s, t) = IsPrefix(s, t)
  BY DEF COMPILE!IsPrefix, IsPrefix
<1>4. \A s : COMPILE!Min(s) = Min(s)
  BY DEF COMPILE!Min, Min
<1>5. \A n, l, h : COMPILE!clamp(n, l, h) = clamp(n, l, h)
  BY DEF COMPILE!clamp, clamp
<1>6. \A f, n, l : COMPILE!ReadBounded(f, n, l) = ReadBounded(f, n, l)
  BY <1>4, <1>5 DEF COMPILE!ReadBounded, ReadBounded
<1>7. COMPILE!FileKinds = FileKinds
  BY DEF COMPILE!FileKinds, FileKinds
<1>8. \A s : COMPILE!ToSet(s) = ToSet(s)
  BY DEF COMPILE!ToSet, ToSet
<1> QED BY <1>1, <1>2, <1>3, <1>4, <1>5, <1>6, <1>7, <1>8

\* The entries of a database: a directory is that of an object, and never empty.
LEMMA EntryTypes ==
  /\ \A e \in COMPILE!Entries : /\ e.object \in BOOLEAN
                                /\ e.object => e.directory \in Directories \cup {""}
  /\ "" \notin Directories
  /\ \A e \in COMPILE!Entries : COMPILE!IsObject(e) <=> e.object
<1>1. ASSUME NEW e \in COMPILE!Entries
      PROVE  /\ e.object \in BOOLEAN
             /\ COMPILE!IsObject(e) <=> e.object
             /\ e.object => e.directory \in Directories \cup {""}
  <2>1. CASE e = COMPILE!NotAnObject
    BY <2>1 DEF COMPILE!NotAnObject, COMPILE!IsObject
  <2>2. CASE e \in [file : Sources \cup {""}, directory : Directories \cup {""}, object : {TRUE}]
    BY <2>2 DEF COMPILE!IsObject
  <2> QED BY <2>1, <2>2 DEF COMPILE!Entries
<1> QED BY <1>1, EntriesAssumption

\* The loop of compile_commands.summary, turn by turn.
LEMMA TallyTurns ==
  ASSUME NEW entries \in Seq(COMPILE!Entries), NEW most \in Nat
  PROVE  LET scan == COMPILE!TallyScan(entries, most)
             S == [directories : [Directories -> Nat], sample : Seq(COMPILE!Entries)] IN
         /\ scan \in [0 .. Len(entries) -> S]
         /\ scan[0] = [directories |-> [d \in Directories |-> 0], sample |-> <<>>]
         /\ \A i \in 1 .. Len(entries) :
              scan[i] = COMPILE!Tally(scan[i - 1], entries[i], most)
<1> DEFINE n == Len(entries)
           E == COMPILE!Entries
           S == [directories : [Directories -> Nat], sample : Seq(E)]
           s0 == [directories |-> [d \in Directories |-> 0], sample |-> <<>>]
           T == [i \in 1 .. n |-> [s \in S |-> COMPILE!Tally(s, entries[i], most)]]
<1>1. n \in Nat /\ s0 \in S
  OBVIOUS
<1>2. ASSUME NEW i \in 1 .. n, NEW s \in S PROVE COMPILE!Tally(s, entries[i], most) \in S
  <2>1. entries[i] \in E
    OBVIOUS
  <2>2. s.directories \in [Directories -> Nat] /\ s.sample \in Seq(E)
    OBVIOUS
  <2> DEFINE counts == COMPILE!Counted(s.directories, entries[i])
             sample == IF Len(s.sample) < most THEN Append(s.sample, entries[i]) ELSE s.sample
  <2>3. counts \in [Directories -> Nat]
    BY <2>2 DEF COMPILE!Counted
  <2>4. sample \in Seq(E)
    <3> HIDE DEF E
    <3> QED BY <2>1, <2>2
  <2>5. COMPILE!Tally(s, entries[i], most)
          = IF ~COMPILE!IsObject(entries[i]) THEN s
            ELSE [directories |-> counts, sample |-> sample]
    BY DEF COMPILE!Tally
  <2> HIDE DEF counts, sample, E
  <2> QED BY <2>3, <2>4, <2>5
<1>3. T \in [1 .. n -> [S -> S]]
  BY <1>2
<1> HIDE DEF S, T, s0
<1>4. PICK f \in [0 .. n -> S] : IsScan(f, n, s0, T)
  BY <1>1, <1>3, Recursion
<1>5. ASSUME NEW i \in 1 .. n PROVE f[i] = COMPILE!Tally(f[i - 1], entries[i], most)
  <2>1. i \in 0 .. n /\ i # 0 /\ f[i - 1] \in S
    OBVIOUS
  <2>2. f[i] = T[i][f[i - 1]]
    BY <1>4, <2>1 DEF IsScan
  <2> QED BY <2>1, <2>2 DEF T
<1>6. f[0] = s0
  BY <1>1, <1>4 DEF IsScan
<1>7. f = [i \in 0 .. n |-> IF i = 0 THEN s0 ELSE COMPILE!Tally(f[i - 1], entries[i], most)]
  BY <1>5, <1>6
<1>8. \E g : g = [i \in 0 .. n |-> IF i = 0 THEN s0 ELSE COMPILE!Tally(g[i - 1], entries[i], most)]
  BY <1>7
<1> DEFINE scan == COMPILE!TallyScan(entries, most)
<1>9. scan = [i \in 0 .. n |-> IF i = 0 THEN s0
                               ELSE COMPILE!Tally(scan[i - 1], entries[i], most)]
  BY <1>8 DEF COMPILE!TallyScan, s0
<1> HIDE DEF scan
<1>10. ASSUME NEW i \in 1 .. n PROVE scan[i] = COMPILE!Tally(scan[i - 1], entries[i], most)
  <2>1. i \in 0 .. n /\ i # 0
    BY <1>1
  <2> QED BY ONLY <1>9, <2>1
<1>11. scan[0] = s0 /\ DOMAIN scan = 0 .. n
  BY <1>1, <1>9
<1>12. \A i \in 1 .. n : scan[i - 1] \in S => scan[i] \in S
  BY <1>2, <1>10
<1>13. \A i \in 0 .. n : scan[i] \in S
  <2> HIDE DEF n
  <2> QED BY <1>1, <1>11, <1>12, ScanTypes
<1>14. scan \in [0 .. n -> S]
  BY <1>9, <1>13
<1> QED BY <1>10, <1>11, <1>14 DEF scan, S, s0

ObjectsOf(entries) == {i \in 1 .. Len(entries) : entries[i].object}

\* The turns of compile_commands_summary count and keep what is before them.
LEMMA TallyCounts ==
  ASSUME NEW entries \in Seq(COMPILE!Entries), NEW most \in Nat
  PROVE  LET s == COMPILE!TallyScan(entries, most)[Len(entries)] IN
         /\ \A d \in Directories :
              s.directories[d]
                = Cardinality({i \in ObjectsOf(entries) : entries[i].directory = d})
         /\ s.sample = Firsts(Picked(entries, ObjectsOf(entries)), most)
<1> DEFINE n == Len(entries)
           E == COMPILE!Entries
           scan == COMPILE!TallyScan(entries, most)
           Objects == ObjectsOf(entries)
           Of(d) == {i \in Objects : entries[i].directory = d}
           OfTo(d, i) == Upto(Of(d), i)
           To(i) == Upto(Objects, i)
           Counts(i) == \A d \in Directories : scan[i].directories[d] = Cardinality(OfTo(d, i))
           Keeps(i) == scan[i].sample = Firsts(Picked(entries, To(i)), most)
           I == {i \in 0 .. n : Counts(i) /\ Keeps(i)}
<1>1. n \in Nat /\ Places(Objects, n) /\ \A d : Places(Of(d), n)
  BY DEF Places, ObjectsOf
<1>2. /\ scan[0] = [directories |-> [d \in Directories |-> 0], sample |-> <<>>]
      /\ \A i \in 1 .. n : scan[i] = COMPILE!Tally(scan[i - 1], entries[i], most)
  BY TallyTurns
<1> HIDE DEF scan
<1>3. 0 \in I
  <2>1. To(0) = {} /\ \A d : OfTo(d, 0) = {}
    <3> HIDE DEF n, Of
    <3> QED BY <1>1, PlacesUpto
  <2>3. Counts(0)
    <3>1. scan[0].directories = [d \in Directories |-> 0]
      BY <1>2
    <3> HIDE DEF OfTo
    <3> QED BY <2>1, <3>1, FS_EmptySet
  <2>4. Keeps(0)
    <3>1. scan[0].sample = <<>>
      BY <1>2
    <3> HIDE DEF To
    <3> QED BY <2>1, <3>1, NothingPicked, NoFirsts
  <2> QED BY <1>1, <2>3, <2>4
<1>4. ASSUME NEW k \in 0 .. n - 1, k \in I PROVE k + 1 \in I
  <2> DEFINE i == k + 1
             e == entries[i]
  <2>1. i \in 1 .. n /\ i - 1 = k /\ i \in 0 .. n
    BY <1>1
  <2>2. e \in E /\ (COMPILE!IsObject(e) <=> e.object)
    <3>1. e \in E
      BY <2>1
    <3> QED BY <3>1, EntryTypes
  <2>3. scan[i] = IF e.object
                  THEN [directories |-> COMPILE!Counted(scan[k].directories, e),
                        sample |-> IF Len(scan[k].sample) < most
                                   THEN Append(scan[k].sample, e) ELSE scan[k].sample]
                  ELSE scan[k]
    <3>1. scan[i] = COMPILE!Tally(scan[k], e, most)
      BY <1>2, <2>1
    <3> HIDE DEF e, i
    <3> QED BY <2>2, <3>1 DEF COMPILE!Tally
  <2>4. Counts(k) /\ Keeps(k)
    BY <1>4
  <2>5. i \in Objects <=> e.object
    BY <2>1 DEF ObjectsOf
  <2>6. ASSUME NEW d \in Directories PROVE scan[i].directories[d] = Cardinality(OfTo(d, i))
    <3>1. i \in Of(d) <=> e.object /\ d = e.directory
      BY <2>5
    <3>2. Cardinality(OfTo(d, i)) = IF i \in Of(d) THEN Cardinality(OfTo(d, k)) + 1
                                    ELSE Cardinality(OfTo(d, k))
      <4> HIDE DEF Of, i, n
      <4> QED BY <1>1, <2>1, PickedPrefix
    <3>3. Cardinality(OfTo(d, k)) \in Nat
      <4> HIDE DEF Of, n
      <4> QED BY <1>1, PlacesUpto
    <3>4. scan[k].directories[d] = Cardinality(OfTo(d, k))
      BY <2>4
    <3> HIDE DEF OfTo, Of, e, i
    <3>5. CASE e.object
      <4>1. scan[i].directories[d] = scan[k].directories[d] + IF d = e.directory THEN 1 ELSE 0
        BY <2>3, <3>5 DEF COMPILE!Counted
      <4> QED BY <3>1, <3>2, <3>3, <3>4, <3>5, <4>1
    <3>6. CASE ~e.object
      BY <2>3, <3>1, <3>2, <3>4, <3>6
    <3> QED BY <3>5, <3>6
  <2>7. scan[i].sample = Firsts(Picked(entries, To(i)), most)
    <3>1. To(k) \subseteq Objects /\ IsFiniteSet(To(k)) /\ To(k) \subseteq Int
      <4> HIDE DEF n
      <4> QED BY <1>1, PlacesUpto
    <3>2. Picked(entries, To(k)) \in Seq(E)
      <4> HIDE DEF To
      <4>1. \A p \in To(k) : entries[p] \in E
        BY <3>1 DEF ObjectsOf
      <4> HIDE DEF E
      <4> QED BY <3>1, <4>1, PickedTypes
    <3>3. Picked(entries, To(i)) = IF i \in Objects THEN Append(Picked(entries, To(k)), e)
                                   ELSE Picked(entries, To(k))
      <4> HIDE DEF i, n
      <4> QED BY <1>1, <2>1, PickedPrefix
    <3>4. scan[k].sample = Firsts(Picked(entries, To(k)), most)
      BY <2>4
    <3> HIDE DEF To, e, i, E
    <3>5. CASE e.object
      <4>1. scan[i].sample = IF Len(scan[k].sample) < most
                             THEN Append(scan[k].sample, e) ELSE scan[k].sample
        BY <2>3, <3>5
      <4>2. Picked(entries, To(i)) = Append(Picked(entries, To(k)), e)
        BY <2>5, <3>3, <3>5
      <4> QED BY <2>2, <3>2, <3>4, <4>1, <4>2, FirstsGrow
    <3>6. CASE ~e.object
      BY <2>3, <2>5, <3>3, <3>4, <3>6
    <3> QED BY <2>2, <3>5, <3>6
  <2> QED BY <2>1, <2>6, <2>7
<1>5. \A i \in 0 .. n : i \in I
  <2>1. \A i \in 0 .. n - 1 : i \in I => i + 1 \in I
    BY <1>4
  <2> HIDE DEF I, n
  <2> QED BY <1>1, <1>3, <2>1, Induction
<1>6. Counts(n) /\ Keeps(n)
  <2>1. n \in 0 .. n
    BY <1>1
  <2> QED BY <1>5, <2>1
<1>7. To(n) = Objects /\ \A d : OfTo(d, n) = Of(d)
  <2> HIDE DEF n, Of
  <2> QED BY <1>1, PlacesUpto
<1> HIDE DEF To, OfTo
<1> QED BY <1>6, <1>7 DEF scan

\* The loop of compile_commands.find, turn by turn.
LEMMA CollectTurns ==
  ASSUME NEW entries \in Seq(COMPILE!Entries), NEW wanted, NEW most \in Nat
  PROVE  LET scan == COMPILE!CollectScan(entries, wanted, most)
             S == [matches : Seq(COMPILE!Entries), done : BOOLEAN] IN
         /\ scan[0] = [matches |-> <<>>, done |-> FALSE]
         /\ \A i \in 0 .. Len(entries) : scan[i] \in S
         /\ \A i \in 1 .. Len(entries) :
              scan[i] = COMPILE!Collect(scan[i - 1], entries[i], wanted, most)
<1> DEFINE n == Len(entries)
           E == COMPILE!Entries
           S == [matches : Seq(E), done : BOOLEAN]
           s0 == [matches |-> <<>>, done |-> FALSE]
           T == [i \in 1 .. n |-> [s \in S |-> COMPILE!Collect(s, entries[i], wanted, most)]]
           scan == COMPILE!CollectScan(entries, wanted, most)
<1>1. n \in Nat /\ s0 \in S
  OBVIOUS
<1>2. ASSUME NEW i \in 1 .. n, NEW s \in S
      PROVE  COMPILE!Collect(s, entries[i], wanted, most) \in S
  <2>1. entries[i] \in E /\ s.matches \in Seq(E)
    OBVIOUS
  <2>2. Append(s.matches, entries[i]) \in Seq(E)
    <3> HIDE DEF E
    <3> QED BY <2>1
  <2> QED BY <2>2 DEF COMPILE!Collect
<1>3. T \in [1 .. n -> [S -> S]]
  BY <1>2
<1> HIDE DEF S, T, s0
<1>4. PICK f \in [0 .. n -> S] : IsScan(f, n, s0, T)
  BY <1>1, <1>3, Recursion
<1>5. f = [i \in 0 .. n |-> IF i = 0 THEN s0
                            ELSE COMPILE!Collect(f[i - 1], entries[i], wanted, most)]
  <2>1. ASSUME NEW i \in 0 .. n
        PROVE  f[i] = IF i = 0 THEN s0
                      ELSE COMPILE!Collect(f[i - 1], entries[i], wanted, most)
    <3>1. f[i] = IF i = 0 THEN s0 ELSE T[i][f[i - 1]]
      BY <1>4 DEF IsScan
    <3>2. i # 0 => i \in 1 .. n /\ f[i - 1] \in S
      OBVIOUS
    <3> QED BY <3>1, <3>2 DEF T
  <2> QED BY <2>1
<1>6. \E g : g = [i \in 0 .. n |-> IF i = 0 THEN s0
                                   ELSE COMPILE!Collect(g[i - 1], entries[i], wanted, most)]
  BY <1>5
<1>7. scan = [i \in 0 .. n |-> IF i = 0 THEN s0
                               ELSE COMPILE!Collect(scan[i - 1], entries[i], wanted, most)]
  BY <1>6 DEF COMPILE!CollectScan, s0
<1> HIDE DEF scan
<1>8. scan[0] = s0
  BY <1>1, <1>7
<1>9. ASSUME NEW i \in 1 .. n PROVE scan[i] = COMPILE!Collect(scan[i - 1], entries[i], wanted, most)
  <2>1. i \in 0 .. n /\ i # 0
    BY <1>1
  <2> QED BY ONLY <1>7, <2>1
<1>10. \A i \in 1 .. n : scan[i - 1] \in S => scan[i] \in S
  BY <1>2, <1>9
<1>11. \A i \in 0 .. n : scan[i] \in S
  <2> HIDE DEF n
  <2> QED BY <1>1, <1>8, <1>10, ScanTypes
<1> QED BY <1>8, <1>9, <1>11 DEF scan, S, s0

MatchesOf(entries, wanted) ==
  {i \in 1 .. Len(entries) : COMPILE!Matches(entries[i], wanted)}

\* The turns of compile_commands_find keep the first matches, and stop only at
\* the limit.
LEMMA CollectFinds ==
  ASSUME NEW entries \in Seq(COMPILE!Entries), NEW wanted, NEW most \in Nat, most > 0
  PROVE  LET s == COMPILE!CollectScan(entries, wanted, most)[Len(entries)]
             all == Picked(entries, MatchesOf(entries, wanted)) IN
         /\ s.matches \in Seq(COMPILE!Entries) /\ Len(s.matches) <= most
         /\ IsPrefix(s.matches, all)
         /\ Len(s.matches) < most => s.matches = all
<1> DEFINE n == Len(entries)
           E == COMPILE!Entries
           scan == COMPILE!CollectScan(entries, wanted, most)
           M == MatchesOf(entries, wanted)
           To(i) == Picked(entries, Upto(M, i))
           Good(i) == /\ IsPrefix(scan[i].matches, To(i))
                      /\ ~scan[i].done => /\ scan[i].matches = To(i)
                                          /\ Len(scan[i].matches) < most
                      /\ scan[i].done => Len(scan[i].matches) = most
           I == {i \in 0 .. n : Good(i)}
<1>1. n \in Nat /\ Places(M, n) /\ n \in 0 .. n /\ 0 \in 0 .. n
  BY DEF Places, MatchesOf
<1>2. /\ scan[0] = [matches |-> <<>>, done |-> FALSE]
      /\ \A i \in 0 .. n : scan[i].matches \in Seq(E) /\ scan[i].done \in BOOLEAN
      /\ \A i \in 1 .. n : scan[i] = COMPILE!Collect(scan[i - 1], entries[i], wanted, most)
  <2> HIDE DEF E, scan
  <2> QED BY CollectTurns DEF E, scan
<1>3. ASSUME NEW i \in 0 .. n PROVE To(i) \in Seq(E)
  <2>1. Upto(M, i) \subseteq M /\ IsFiniteSet(Upto(M, i)) /\ Upto(M, i) \subseteq Int
    <3> HIDE DEF n, M
    <3> QED BY <1>1, PlacesUpto
  <2>2. \A p \in Upto(M, i) : entries[p] \in E
    BY <2>1 DEF MatchesOf
  <2> HIDE DEF E, M
  <2> QED BY <2>1, <2>2, PickedTypes
<1> HIDE DEF scan, E
<1>4. Good(0)
  <2>1. Upto(M, 0) = {}
    <3> HIDE DEF n, M
    <3> QED BY <1>1, PlacesUpto
  <2>2. To(0) = <<>>
    BY <2>1, NothingPicked
  <2>3. scan[0].matches = <<>> /\ scan[0].done = FALSE /\ <<>> \in Seq(E)
    BY <1>2
  <2>4. IsPrefix(scan[0].matches, To(0))
    BY <2>2, <2>3 DEF IsPrefix
  <2> HIDE DEF To
  <2> QED BY <2>2, <2>3, <2>4
<1>5. ASSUME NEW k \in 0 .. n - 1, Good(k) PROVE Good(k + 1)
  <2> DEFINE i == k + 1
             e == entries[i]
             s == scan[k]
  <2>1. i \in 1 .. n /\ i - 1 = k /\ k \in 0 .. n /\ i \in 0 .. n
    BY <1>1
  <2>2. e \in E /\ s.matches \in Seq(E) /\ s.done \in BOOLEAN /\ To(k) \in Seq(E)
    BY <1>2, <1>3, <2>1 DEF E
  <2>3. scan[i] = IF s.done \/ ~COMPILE!Matches(e, wanted) THEN s
                  ELSE [matches |-> Append(s.matches, e),
                        done |-> Len(s.matches) + 1 >= most]
    BY <1>2, <2>1 DEF COMPILE!Collect
  <2>4. To(i) = IF COMPILE!Matches(e, wanted) THEN Append(To(k), e) ELSE To(k)
    <3>1. i \in M <=> COMPILE!Matches(e, wanted)
      BY <2>1 DEF MatchesOf
    <3>2. To(i) = IF i \in M THEN Append(To(k), e) ELSE To(k)
      <4> HIDE DEF n, M, i
      <4> QED BY <1>1, <2>1, PickedPrefix
    <3> QED BY <3>1, <3>2
  <2> DEFINE tk == To(k)
             ti == To(i)
  <2>5. /\ IsPrefix(s.matches, tk)
        /\ ~s.done => s.matches = tk /\ Len(s.matches) < most
        /\ s.done => Len(s.matches) = most
    BY <1>5
  <2>6. IsPrefix(s.matches, tk) => IsPrefix(s.matches, Append(tk, e))
    <3> HIDE DEF tk, e, s
    <3> QED BY <2>2, PrefixAppend DEF tk
  <2>7. Append(tk, e) \in Seq(E) /\ Len(Append(tk, e)) = Len(tk) + 1
        /\ IsPrefix(Append(tk, e), Append(tk, e))
    <3>1. tk \in Seq(E)
      BY <2>2
    <3> HIDE DEF tk, e
    <3>2. Append(tk, e) \in Seq(E) /\ Len(Append(tk, e)) = Len(tk) + 1
      BY <2>2, <3>1, AppendProperties
    <3> QED BY <2>2, <3>2, PrefixAppend
  <2>8. ti = IF COMPILE!Matches(e, wanted) THEN Append(tk, e) ELSE tk
    BY <2>4
  <2> HIDE DEF tk, ti, e, s
  <2>9. /\ IsPrefix(scan[i].matches, ti)
        /\ ~scan[i].done => scan[i].matches = ti /\ Len(scan[i].matches) < most
        /\ scan[i].done => Len(scan[i].matches) = most
    <3>1. CASE s.done \/ ~COMPILE!Matches(e, wanted)
      BY <2>2, <2>3, <2>5, <2>6, <2>8, <3>1
    <3>2. CASE ~s.done /\ COMPILE!Matches(e, wanted)
      <4>1. scan[i].matches = Append(tk, e) /\ (scan[i].done <=> Len(tk) + 1 >= most)
        <5>1. scan[i] = [matches |-> Append(s.matches, e), done |-> Len(s.matches) + 1 >= most]
          BY <2>3, <3>2
        <5>2. s.matches = tk
          BY <2>5, <3>2
        <5>3. /\ scan[i].matches = Append(s.matches, e)
              /\ scan[i].done = (Len(s.matches) + 1 >= most)
          BY <5>1
        <5> QED BY <5>2, <5>3
      <4>2. Len(tk) \in Nat /\ Len(tk) < most
        BY <2>2, <2>5, <3>2
      <4> QED BY <2>7, <2>8, <3>2, <4>1, <4>2
    <3> QED BY <2>2, <3>1, <3>2
  <2> QED BY <2>9 DEF ti
<1>6. Good(n)
  <2>1. 0 \in I
    BY <1>1, <1>4
  <2>2. \A i \in 0 .. n - 1 : i \in I => i + 1 \in I
    <3> HIDE DEF Good
    <3> QED BY <1>5
  <2> HIDE DEF I, n
  <2>3. \A i \in 0 .. n : i \in I
    BY <1>1, <2>1, <2>2, Induction
  <2> QED BY <1>1, <2>3 DEF I
<1>7. Upto(M, n) = M
  <2> HIDE DEF n, M
  <2> QED BY <1>1, PlacesUpto
<1> QED BY <1>1, <1>2, <1>6, <1>7 DEF scan, E

\* What the servers know of a database and of their reply.
CompileFile(f) ==
  /\ f.kind \in FileKinds /\ f.database \in COMPILE!Databases
  /\ f.size \in Nat /\ f.end \in Nat /\ COMPILE!DatabaseBytes(f.database) <= f.end

\* The databases of the files.
LEMMA DatabaseTypes ==
  ASSUME NEW database \in COMPILE!Databases
  PROVE  /\ database.entries \in Seq(COMPILE!Entries)
         /\ Len(database.entries) <= MaxEntries
         /\ COMPILE!DatabaseBytes(database) \in Nat
         /\ database # COMPILE!Malformed => database.root \in {"object", "array"}
         /\ database.root = "object" => database.entries = <<>>
<1> DEFINE E == COMPILE!Entries
<1>1. CASE database.root # "array"
  <2>1. database.entries = <<>> /\ (database = COMPILE!Malformed \/ database.root = "object")
    BY <1>1 DEF COMPILE!Databases, COMPILE!Malformed
  <2>2. <<>> \in Seq(E) /\ Len(<<>>) = 0
    OBVIOUS
  <2> QED BY <1>1, <2>1, <2>2, LimitsAssumption DEF COMPILE!DatabaseBytes
<1>2. CASE database.root = "array"
  <2>1. database.entries \in COMPILE!BoundedSeq(E, MaxEntries)
    BY <1>2 DEF COMPILE!Databases, COMPILE!Malformed
  <2>2. PICK m \in 0 .. MaxEntries : database.entries \in [1 .. m -> E]
    <3> HIDE DEF E
    <3> QED BY <2>1 DEF COMPILE!BoundedSeq, COMPILE!SeqOf
  <2>3. database.entries \in Seq(E) /\ Len(database.entries) = m
    <3> HIDE DEF E
    <3>1. m \in Nat
      BY LimitsAssumption
    <3>2. database.entries \in Seq(E)
      BY <2>2, <3>1, SeqDef
    <3> QED BY <2>2, <3>1, <3>2
  <2>4. m \in Nat /\ m <= MaxEntries
    BY LimitsAssumption
  <2> QED BY <1>2, <2>3, <2>4 DEF COMPILE!DatabaseBytes
<1> QED BY <1>1, <1>2

\* A file of so many bytes, of whichever.
LEMMA NumberedBytes ==
  ASSUME NEW n \in Nat
  PROVE  [i \in 1 .. n |-> i] \in Seq(Nat) /\ Len([i \in 1 .. n |-> i]) = n
<1> DEFINE bytes == [i \in 1 .. n |-> i]
<1>1. bytes \in [1 .. n -> Nat]
  OBVIOUS
<1>2. bytes \in Seq(Nat)
  BY <1>1, SeqDef
<1>3. DOMAIN bytes = 1 .. n
  OBVIOUS
<1> HIDE DEF bytes
<1>4. Len(bytes) = n
  BY <1>2, <1>3, LenProperties
<1> QED BY <1>2, <1>4 DEF bytes

\* What is read and is an array is the database.
LEMMA CompileRead ==
  ASSUME CompileFile(file), NEW max_bytes \in ByteLimits
  PROVE  LET read == COMPILE!read_bounded(max_bytes)
             parsed == COMPILE!Parse(read.text) IN
         read.error = "" /\ COMPILE!IsArray(parsed) =>
           /\ file.kind = "file" /\ parsed = file.database /\ file.database.root = "array"
           /\ read.truncated => file.size > COMPILE!DatabaseBytes(file.database)
           /\ file.size > file.end => read.truncated
<1> DEFINE f == [kind |-> file.kind, bytes |-> [i \in 1 .. file.size |-> i]]
           read == COMPILE!read_bounded(max_bytes)
           parsed == COMPILE!Parse(read.text)
<1>1. f.kind \in FileKinds /\ f.kind = file.kind /\ f.bytes = [i \in 1 .. file.size |-> i]
  BY DEF CompileFile
<1>2. f.bytes \in Seq(Nat) /\ Len(f.bytes) = file.size /\ file.size \in Nat
  BY <1>1, NumberedBytes DEF CompileFile
<1>3. read = ReadBounded(f, max_bytes, LargestBytes)
  BY CompileNames DEF COMPILE!read_bounded
<1>4. max_bytes \in Int /\ LargestBytes \in Nat /\ LargestBytes > 0
  BY LimitsAssumption
<1> HIDE DEF f, read
<1>5. SUFFICES ASSUME read.error = "", COMPILE!IsArray(parsed)
               PROVE  /\ file.kind = "file" /\ parsed = file.database
                      /\ file.database.root = "array"
                      /\ read.truncated => file.size > COMPILE!DatabaseBytes(file.database)
                      /\ file.size > file.end => read.truncated
  BY DEF read
<1>6. /\ f.kind = "file"
      /\ \E n \in 0 .. Len(f.bytes) : /\ read.text = SubSeq(f.bytes, 1, n)
                                      /\ read.truncated <=> n < Len(f.bytes)
  <2>1. read.error = ""
    BY <1>5
  <2>2. f.kind \in FileKinds /\ f.bytes \in Seq(Nat)
    BY <1>1, <1>2
  <2> HIDE DEF parsed
  <2> QED BY ONLY <1>3, <1>4, <2>1, <2>2, BoundedRead
<1>7. PICK n \in 0 .. Len(f.bytes) : /\ read.text = SubSeq(f.bytes, 1, n)
                                     /\ read.truncated <=> n < Len(f.bytes)
  BY <1>6
<1>8. Len(read.text) = n
  BY <1>2, <1>7, PrefixTypes
<1>9. parsed # COMPILE!Malformed /\ parsed.root = "array"
  <2>1. COMPILE!Malformed.root = "malformed"
    BY DEF COMPILE!Malformed
  <2> HIDE DEF parsed
  <2> QED BY <1>5, <2>1 DEF COMPILE!IsArray
<1>10. /\ n \in COMPILE!DatabaseBytes(file.database) .. file.end
       /\ parsed = file.database
  BY <1>8, <1>9 DEF COMPILE!Parse
<1>11. COMPILE!DatabaseBytes(file.database) \in Nat
  BY DatabaseTypes DEF CompileFile
<1> HIDE DEF parsed
<1>12. /\ read.truncated => file.size > COMPILE!DatabaseBytes(file.database)
       /\ file.size > file.end => read.truncated
  BY <1>2, <1>7, <1>10, <1>11 DEF CompileFile
<1> QED BY <1>1, <1>6, <1>9, <1>10, <1>12

CompileReplies ==
  /\ COMPILE!TypeOK /\ COMPILE!AnswersAreWhole
  /\ COMPILE!CountsAreNotSampled /\ COMPILE!ShortAnswersAreComplete
CompileInv == program = "compile commands" => CompileFile(file) /\ CompileReplies

\* The file of the type invariant of CompileCommandsServer.
LEMMA CompileFileTypes ==
  CompileFile(file) => /\ file.kind \in COMPILE!FileKinds
                       /\ Len(file.database.entries) <= MaxEntries
                       /\ COMPILE!ToSet(file.database.entries) \subseteq COMPILE!Entries
<1> SUFFICES ASSUME CompileFile(file)
             PROVE  /\ file.kind \in COMPILE!FileKinds
                    /\ Len(file.database.entries) <= MaxEntries
                    /\ COMPILE!ToSet(file.database.entries) \subseteq COMPILE!Entries
  OBVIOUS
<1> DEFINE E == COMPILE!Entries
           entries == file.database.entries
<1>1. entries \in Seq(E) /\ Len(entries) <= MaxEntries
  BY DatabaseTypes DEF CompileFile
<1>2. COMPILE!ToSet(entries) \subseteq E
  <2> HIDE DEF E, entries
  <2> QED BY <1>1 DEF COMPILE!ToSet
<1> QED BY <1>1, <1>2, CompileNames DEF CompileFile

\* Without a reply there is nothing to say of it.
LEMMA CompileIdle == CompileFile(file) /\ reply = COMPILE!NoReply => CompileReplies
BY CompileFileTypes
   DEF CompileReplies, COMPILE!TypeOK, COMPILE!AnswersAreWhole,
       COMPILE!CountsAreNotSampled, COMPILE!ShortAnswersAreComplete, COMPILE!Answered

\* compile_commands.summary counts what is in the file.
LEMMA CompileSummary ==
  ASSUME CompileFile(file), COMPILE!compile_commands_summary
  PROVE  CompileFile(file)' /\ CompileReplies'
<1>1. PICK max_bytes \in ByteLimits, sample \in SampleLimits :
        LET read == COMPILE!read_bounded(max_bytes)
            parsed == COMPILE!Parse(read.text)
            limit == COMPILE!clamp(sample, 0, LargestSample)
            tally == COMPILE!TallyScan(parsed.entries, limit)[Len(parsed.entries)]
        IN reply' =
             IF read.error # "" \/ ~COMPILE!IsArray(parsed)
             THEN COMPILE!error_result("compile_commands.summary")
             ELSE [tool |-> "compile_commands.summary", ok |-> TRUE, limit |-> limit,
                   entries |-> Len(parsed.entries), directories |-> tally.directories,
                   sample |-> tally.sample, inputTruncated |-> read.truncated]
  BY DEF COMPILE!compile_commands_summary
<1> DEFINE read == COMPILE!read_bounded(max_bytes)
           parsed == COMPILE!Parse(read.text)
           limit == COMPILE!clamp(sample, 0, LargestSample)
           tally == COMPILE!TallyScan(parsed.entries, limit)[Len(parsed.entries)]
<1>2. file' = file
  BY DEF COMPILE!compile_commands_summary
<1>3. limit \in Nat /\ limit <= LargestSample
  <2>1. sample \in Int /\ 0 \in Int /\ LargestSample \in Int /\ 0 <= LargestSample
    BY LimitsAssumption
  <2>2. limit = clamp(sample, 0, LargestSample)
    BY CompileNames
  <2>3. limit \in 0 .. LargestSample
    BY <2>1, <2>2, Clamped
  <2> QED BY <2>1, <2>3
<1>4. CompileFile(file)'
  BY <1>2 DEF CompileFile
<1>5. /\ file'.kind \in COMPILE!FileKinds
      /\ Len(file'.database.entries) <= MaxEntries
      /\ COMPILE!ToSet(file'.database.entries) \subseteq COMPILE!Entries
  BY <1>2, CompileFileTypes
<1>6. CASE read.error # "" \/ ~COMPILE!IsArray(parsed)
  <2>1. reply' = [tool |-> "compile_commands.summary", ok |-> FALSE]
    BY <1>1, <1>6 DEF COMPILE!error_result
  <2>2. reply'.tool = "compile_commands.summary" /\ reply'.ok = FALSE
    BY <2>1
  <2> QED BY <1>4, <1>5, <2>2
        DEF CompileReplies, COMPILE!TypeOK, COMPILE!AnswersAreWhole,
            COMPILE!CountsAreNotSampled, COMPILE!ShortAnswersAreComplete, COMPILE!Answered
<1>7. CASE read.error = "" /\ COMPILE!IsArray(parsed)
  <2> DEFINE entries == file.database.entries
             Objects == ObjectsOf(entries)
  <2>1. /\ file.kind = "file" /\ parsed = file.database /\ file.database.root = "array"
        /\ read.truncated => file.size > COMPILE!DatabaseBytes(file.database)
        /\ file.size > file.end => read.truncated
    BY <1>7, CompileRead
  <2> HIDE DEF read
  <2>2. reply' = [tool |-> "compile_commands.summary", ok |-> TRUE, limit |-> limit,
                  entries |-> Len(parsed.entries), directories |-> tally.directories,
                  sample |-> tally.sample, inputTruncated |-> read.truncated]
    BY <1>1, <1>7 DEF read
  <2>3. entries \in Seq(COMPILE!Entries)
    BY DatabaseTypes DEF CompileFile
  <2>4. /\ \A d \in Directories :
             tally.directories[d] = Cardinality({i \in Objects : entries[i].directory = d})
        /\ tally.sample = Firsts(Picked(entries, Objects), limit)
    <3> HIDE DEF limit
    <3>1. tally = COMPILE!TallyScan(entries, limit)[Len(entries)]
      BY <2>1
    <3> HIDE DEF tally
    <3> QED BY <1>3, <2>3, <3>1, TallyCounts
  <2> HIDE DEF tally, parsed, limit
  <2>5. /\ reply'.tool = "compile_commands.summary" /\ reply'.ok = TRUE
        /\ reply'.limit = limit /\ reply'.entries = Len(entries)
        /\ reply'.directories = tally.directories /\ reply'.sample = tally.sample
        /\ reply'.inputTruncated = read.truncated
    BY <2>1, <2>2
  <2>6. COMPILE!Objects' = Objects
    <3>1. COMPILE!Objects' = {i \in DOMAIN entries : COMPILE!IsObject(entries[i])}
      BY <1>2 DEF COMPILE!Objects
    <3>2. DOMAIN entries = 1 .. Len(entries)
          /\ \A i \in 1 .. Len(entries) : entries[i] \in COMPILE!Entries
      <4> DEFINE E == COMPILE!Entries
      <4> HIDE DEF E, entries
      <4> QED BY <2>3, LenProperties, ElementOfSeq DEF E
    <3> HIDE DEF entries
    <3> QED BY <3>1, <3>2, EntryTypes DEF ObjectsOf
  <2>7. Places(Objects, Len(entries))
    <3>1. Len(entries) \in Nat
      BY <2>3
    <3> QED BY <3>1 DEF Places, ObjectsOf
  <2>8. /\ Cardinality(Objects) \in Nat
        /\ Picked(entries, Objects) \in Seq(COMPILE!Entries)
        /\ Len(Picked(entries, Objects)) = Cardinality(Objects)
    <3> DEFINE E == COMPILE!Entries
    <3>1. \A p \in Objects : entries[p] \in E
      <4> HIDE DEF E
      <4> QED BY <2>3 DEF ObjectsOf, E
    <3> HIDE DEF E, entries, Objects
    <3>2. IsFiniteSet(Objects) /\ Objects \subseteq Int /\ Cardinality(Objects) \in Nat
      BY <2>7, FinitePlaces
    <3> QED BY <3>1, <3>2, PickedTypes DEF E
  <2>9. COMPILE!TypeOK'
    <3>1. Len(tally.sample) <= limit
      <4>1. SUFFICES ASSUME NEW E, NEW all \in Seq(E) PROVE Len(Firsts(all, limit)) <= limit
        BY <2>4, <2>8
      <4>2. Len(all) \in Nat
        OBVIOUS
      <4>3. (IF limit <= Len(all) THEN limit ELSE Len(all)) \in 0 .. Len(all)
        BY <1>3, <4>2
      <4>4. Len(Firsts(all, limit)) = IF limit <= Len(all) THEN limit ELSE Len(all)
        BY <4>3, PrefixTypes DEF Firsts
      <4> QED BY <1>3, <4>2, <4>4
    <3> QED BY <1>5, <2>5, <3>1 DEF COMPILE!TypeOK, COMPILE!Answered
  <2>10. COMPILE!AnswersAreWhole'
    BY <1>2, <2>1, <2>5 DEF COMPILE!AnswersAreWhole
  <2>11. COMPILE!CountsAreNotSampled'
    <3>1. COMPILE!Min({limit, COMPILE!Cardinality(Objects)})
            = IF limit <= Cardinality(Objects) THEN limit ELSE Cardinality(Objects)
      BY <1>3, <2>8, MinOfTwo, CompileNames
    <3>2. COMPILE!Chosen(COMPILE!Objects)' = Picked(entries, Objects)
      BY <1>2, <2>6, CompileNames DEF COMPILE!Chosen
    <3>3. reply'.sample = SubSeq(Picked(entries, Objects), 1,
                                 COMPILE!Min({limit, COMPILE!Cardinality(Objects)}))
      BY <2>4, <2>5, <2>8, <3>1 DEF Firsts
    <3>4. \A d \in Directories :
            reply'.directories[d]
              = COMPILE!Cardinality({i \in Objects : file'.database.entries[i].directory = d})
      BY <1>2, <2>4, <2>5, CompileNames
    <3> HIDE DEF Objects
    <3> QED BY <2>5, <2>6, <3>2, <3>3, <3>4 DEF COMPILE!CountsAreNotSampled
  <2>12. COMPILE!ShortAnswersAreComplete'
    BY <2>5 DEF COMPILE!ShortAnswersAreComplete, COMPILE!Answered
  <2> QED BY <1>4, <2>9, <2>10, <2>11, <2>12 DEF CompileReplies
<1> QED BY <1>6, <1>7

\* The limit of compile_commands.find is positive.
LEMMA ResultLimit ==
  \A n \in ResultLimits : LET limit == COMPILE!clamp(n, 1, LargestResult) IN
                          limit \in Nat /\ limit > 0
<1> SUFFICES ASSUME NEW n \in ResultLimits
             PROVE  LET limit == COMPILE!clamp(n, 1, LargestResult) IN limit \in Nat /\ limit > 0
  OBVIOUS
<1>1. n \in Int /\ 1 \in Int /\ LargestResult \in Int /\ 1 <= LargestResult
  BY LimitsAssumption
<1>2. clamp(n, 1, LargestResult) \in 1 .. LargestResult
  BY <1>1, Clamped
<1> QED BY <1>1, <1>2, CompileNames

\* compile_commands.find returns the first matches of the file.
LEMMA CompileFind ==
  ASSUME CompileFile(file), COMPILE!compile_commands_find
  PROVE  CompileFile(file)' /\ CompileReplies'
<1>1. PICK max_bytes \in ByteLimits, max_results \in ResultLimits,
           file_contains \in Sources \cup {""} :
        LET read == COMPILE!read_bounded(max_bytes)
            parsed == COMPILE!Parse(read.text)
            limit == COMPILE!clamp(max_results, 1, LargestResult)
            found == COMPILE!CollectScan(parsed.entries, file_contains, limit)[Len(parsed.entries)]
        IN reply' =
             IF read.error # "" \/ ~COMPILE!IsArray(parsed)
             THEN COMPILE!error_result("compile_commands.find")
             ELSE [tool |-> "compile_commands.find", ok |-> TRUE, limit |-> limit,
                   fileContains |-> file_contains, matches |-> found.matches,
                   inputTruncated |-> read.truncated]
  BY DEF COMPILE!compile_commands_find
<1> DEFINE read == COMPILE!read_bounded(max_bytes)
           parsed == COMPILE!Parse(read.text)
           limit == COMPILE!clamp(max_results, 1, LargestResult)
           found == COMPILE!CollectScan(parsed.entries, file_contains, limit)[Len(parsed.entries)]
<1>2. file' = file
  BY DEF COMPILE!compile_commands_find
<1>3. limit \in Nat /\ limit > 0
  BY ResultLimit
<1>4. CompileFile(file)'
  BY <1>2 DEF CompileFile
<1>5. /\ file'.kind \in COMPILE!FileKinds
      /\ Len(file'.database.entries) <= MaxEntries
      /\ COMPILE!ToSet(file'.database.entries) \subseteq COMPILE!Entries
  BY <1>2, CompileFileTypes
<1>6. CASE read.error # "" \/ ~COMPILE!IsArray(parsed)
  <2>1. reply' = [tool |-> "compile_commands.find", ok |-> FALSE]
    BY <1>1, <1>6 DEF COMPILE!error_result
  <2>2. reply'.tool = "compile_commands.find" /\ reply'.ok = FALSE
    BY <2>1
  <2> QED BY <1>4, <1>5, <2>2
        DEF CompileReplies, COMPILE!TypeOK, COMPILE!AnswersAreWhole,
            COMPILE!CountsAreNotSampled, COMPILE!ShortAnswersAreComplete, COMPILE!Answered
<1>7. CASE read.error = "" /\ COMPILE!IsArray(parsed)
  <2> DEFINE entries == file.database.entries
             M == MatchesOf(entries, file_contains)
  <2>1. /\ file.kind = "file" /\ parsed = file.database /\ file.database.root = "array"
        /\ read.truncated => file.size > COMPILE!DatabaseBytes(file.database)
        /\ file.size > file.end => read.truncated
    BY <1>7, CompileRead
  <2> HIDE DEF read
  <2>2. reply' = [tool |-> "compile_commands.find", ok |-> TRUE, limit |-> limit,
                  fileContains |-> file_contains, matches |-> found.matches,
                  inputTruncated |-> read.truncated]
    BY <1>1, <1>7 DEF read
  <2>3. entries \in Seq(COMPILE!Entries)
    BY DatabaseTypes DEF CompileFile
  <2>4. /\ Len(found.matches) <= limit
        /\ IsPrefix(found.matches, Picked(entries, M))
        /\ Len(found.matches) < limit => found.matches = Picked(entries, M)
    <3> HIDE DEF limit
    <3>1. found = COMPILE!CollectScan(entries, file_contains, limit)[Len(entries)]
      BY <2>1
    <3> HIDE DEF found
    <3> QED BY <1>3, <2>3, <3>1, CollectFinds
  <2> HIDE DEF found, parsed, limit
  <2>5. /\ reply'.tool = "compile_commands.find" /\ reply'.ok = TRUE
        /\ reply'.limit = limit /\ reply'.fileContains = file_contains
        /\ reply'.matches = found.matches /\ reply'.inputTruncated = read.truncated
    BY <2>2
  <2>6. {i \in COMPILE!Objects' :
           COMPILE!Matches(file'.database.entries[i], reply'.fileContains)} = M
    <3>1. COMPILE!Objects' = {i \in DOMAIN entries : COMPILE!IsObject(entries[i])}
      BY <1>2 DEF COMPILE!Objects
    <3>2. DOMAIN entries = 1 .. Len(entries)
      <4> DEFINE E == COMPILE!Entries
      <4> HIDE DEF E, entries
      <4> QED BY <2>3, LenProperties DEF E
    <3>3. \A i : COMPILE!Matches(entries[i], file_contains) => COMPILE!IsObject(entries[i])
      BY DEF COMPILE!Matches
    <3> QED BY <1>2, <2>5, <3>1, <3>2, <3>3 DEF MatchesOf
  <2>7. COMPILE!TypeOK'
    BY <1>5, <2>4, <2>5 DEF COMPILE!TypeOK, COMPILE!Answered
  <2>8. COMPILE!AnswersAreWhole'
    BY <1>2, <2>1, <2>5 DEF COMPILE!AnswersAreWhole
  <2>9. COMPILE!CountsAreNotSampled'
    BY <2>5 DEF COMPILE!CountsAreNotSampled, COMPILE!Answered
  <2>10. COMPILE!ShortAnswersAreComplete'
    <3> DEFINE all == COMPILE!Chosen({i \in COMPILE!Objects :
                        COMPILE!Matches(file.database.entries[i], reply.fileContains)})
    <3>1. all' = Picked(entries, M)
      BY <1>2, <2>6, CompileNames DEF COMPILE!Chosen
    <3>2. /\ COMPILE!IsPrefix(reply'.matches, all')
          /\ Len(reply'.matches) < reply'.limit => reply'.matches = all'
      BY <2>4, <2>5, <3>1, CompileNames
    <3> QED BY <3>2 DEF COMPILE!ShortAnswersAreComplete
  <2> QED BY <1>4, <2>7, <2>8, <2>9, <2>10 DEF CompileReplies
<1> QED BY <1>6, <1>7

\* The first state of compile_commands_server.
LEMMA CompileInit == COMPILE!Init => CompileFile(file) /\ CompileReplies
<1> SUFFICES ASSUME COMPILE!Init PROVE CompileFile(file) /\ CompileReplies
  OBVIOUS
<1>1. PICK kind \in COMPILE!FileKinds, database \in COMPILE!Databases, space, text \in 0 .. MaxSpace :
        file = [kind |-> kind, database |-> database,
                end |-> COMPILE!DatabaseBytes(database) + space,
                size |-> COMPILE!DatabaseBytes(database) + space + text]
  BY DEF COMPILE!Init
<1>2. /\ file.kind = kind /\ file.database = database
      /\ file.end = COMPILE!DatabaseBytes(database) + space
      /\ file.size = COMPILE!DatabaseBytes(database) + space + text
  BY <1>1
<1>3. space \in Nat /\ text \in Nat /\ COMPILE!DatabaseBytes(database) \in Nat
  BY LimitsAssumption, DatabaseTypes
<1>4. CompileFile(file)
  BY <1>2, <1>3, CompileNames DEF CompileFile
<1>5. reply = COMPILE!NoReply
  BY DEF COMPILE!Init
<1> QED BY <1>4, <1>5, CompileIdle

\* Every step of compile_commands_server keeps what its replies promise.
LEMMA CompileNext ==
  ASSUME CompileFile(file), COMPILE!Next
  PROVE  CompileFile(file)' /\ CompileReplies'
<1>1. CASE COMPILE!compile_commands_summary
  BY <1>1, CompileSummary
<1>2. CASE COMPILE!compile_commands_find
  BY <1>2, CompileFind
<1>3. CASE COMPILE!Return
  <2>1. CompileFile(file)' /\ (reply = COMPILE!NoReply)'
    BY <1>3 DEF COMPILE!Return, CompileFile, COMPILE!NoReply
  <2>2. (CompileFile(file) /\ reply = COMPILE!NoReply)' => CompileReplies'
    BY CompileIdle, PTL
  <2> QED BY <2>1, <2>2
<1> QED BY <1>1, <1>2, <1>3 DEF COMPILE!Next

\* Whatever the database and the limits, what is counted is the whole file's and
\* what a limit leaves out comes last (compile_commands_server.cpp).
THEOREM CompileCommandsAlways == DataSpec => []CompileCommandsRepliesAreTheFiles
<1>1. DataInit => CompileInv
  BY CompileInit DEF DataInit, CompileInv
<1>2. CompileInv /\ [DataNext]_dataVars => CompileInv'
  <2> SUFFICES ASSUME CompileInv, [DataNext]_dataVars PROVE CompileInv'
    OBVIOUS
  <2>1. program' = program
    BY DEF DataNext, FileStep, HeaderStep, HashStep, dataVars
  <2>2. CASE program # "compile commands"
    BY <2>1, <2>2 DEF CompileInv
  <2>3. CASE program = "compile commands" /\ DataNext
    <3>1. COMPILE!Next
      BY <2>3 DEF DataNext, FileStep, HeaderStep, HashStep
    <3>2. CompileFile(file)
      BY <2>3 DEF CompileInv
    <3> QED BY <3>1, <3>2, CompileNext DEF CompileInv
  <2>4. CASE UNCHANGED dataVars
    <3>1. UNCHANGED <<program, file, reply>>
      BY <2>4 DEF dataVars, fileVars
    <3>2. CASE program = "compile commands"
      <4>1. CompileFile(file)' /\ CompileReplies'
        BY <3>1, <3>2
        DEF CompileInv, CompileFile, CompileReplies, COMPILE!TypeOK, COMPILE!AnswersAreWhole,
            COMPILE!CountsAreNotSampled, COMPILE!ShortAnswersAreComplete, COMPILE!Answered,
            COMPILE!Objects, COMPILE!Chosen
      <4> QED BY <4>1 DEF CompileInv
    <3>3. CASE program # "compile commands"
      BY <2>1, <3>3 DEF CompileInv
    <3> QED BY <3>2, <3>3
  <2> QED BY <2>2, <2>3, <2>4
<1>3. CompileInv => CompileCommandsRepliesAreTheFiles
  BY DEF CompileInv, CompileReplies, CompileCommandsRepliesAreTheFiles
<1> QED BY <1>1, <1>2, <1>3, PTL DEF DataSpec, dataVars

-----------------------------------------------------------------------------
(* JsonFileServer.                                                         *)

\* The helpers JsonFileServer takes from FileText are those of FileText.
LEMMA JsonNames ==
  /\ \A f, n, l : JSON!ReadBounded(f, n, l) = ReadBounded(f, n, l)
  /\ \A n, l, h : JSON!clamp(n, l, h) = clamp(n, l, h)
  /\ \A s : JSON!Min(s) = Min(s)
  /\ \A s : JSON!Cardinality(s) = Cardinality(s)
  /\ \A P : JSON!InOrder(P) = InOrder(P)
  /\ \A s, t : JSON!IsPrefix(s, t) = IsPrefix(s, t)
  /\ \A s : JSON!Last(s) = s[Len(s)]
  /\ JSON!FileKinds = FileKinds
<1>1. /\ \A s : JSON!Cardinality(s) = Cardinality(s)
      /\ \A s : JSON!Min(s) = Min(s)
      /\ \A n, l, h : JSON!clamp(n, l, h) = clamp(n, l, h)
      /\ \A s, t : JSON!IsPrefix(s, t) = IsPrefix(s, t)
      /\ JSON!FileKinds = FileKinds
  BY DEF JSON!Cardinality, Cardinality, JSON!Min, Min, JSON!clamp, clamp, JSON!IsPrefix,
         IsPrefix, JSON!FileKinds, FileKinds
<1>2. \A f, n, l : JSON!ReadBounded(f, n, l) = ReadBounded(f, n, l)
  BY <1>1 DEF JSON!ReadBounded, ReadBounded
<1>4. \A P : JSON!InOrder(P) = InOrder(P)
  <2>1. \A P, p : JSON!Rank(P, p) = Rank(P, p)
    BY <1>1 DEF JSON!Rank, Rank
  <2> QED BY <1>1, <2>1 DEF JSON!InOrder, InOrder
<1>5. \A s : JSON!Last(s) = s[Len(s)]
  BY DEF JSON!Last
<1> QED BY <1>1, <1>2, <1>4, <1>5

\* The characters of an escape.
HasEscapes(S) == {"~", "/", "0", "1"} \subseteq S
Plain(S) == S \ {"/"}
Special(c) == c = "~" \/ c = "/"
First(c) == IF c = "/" THEN "~" ELSE c
Second(c) == IF c = "~" THEN "0" ELSE "1"

\* What Escaped writes for a character.
LEMMA EscapedIs ==
  ASSUME NEW S, HasEscapes(S), NEW c \in S
  PROVE  /\ JSON!Escaped(c) \in Seq(S)
         /\ Len(JSON!Escaped(c)) = IF Special(c) THEN 2 ELSE 1
         /\ JSON!Escaped(c)[1] = First(c)
         /\ Special(c) => JSON!Escaped(c)[2] = Second(c)
         /\ JSON!Escaped(c) \in Seq(Plain(S))
<1>p. "~" \in Plain(S) /\ "0" \in Plain(S) /\ "1" \in Plain(S)
  BY DEF HasEscapes, Plain
<1>q. c # "/" => c \in Plain(S)
  BY DEF Plain
<1>r. /\ \A a, b \in Plain(S) : <<a, b>> \in Seq(Plain(S))
      /\ \A a \in Plain(S) : <<a>> \in Seq(Plain(S))
  OBVIOUS
<1>0. /\ \A a, b \in S : /\ <<a, b>> \in Seq(S) /\ Len(<<a, b>>) = 2
                         /\ <<a, b>>[1] = a /\ <<a, b>>[2] = b
      /\ <<c>> \in Seq(S) /\ Len(<<c>>) = 1 /\ <<c>>[1] = c
  OBVIOUS
<1>1. CASE c = "~"
  <2>1. JSON!Escaped(c) = <<"~", "0">>
    BY <1>1 DEF JSON!Escaped
  <2>2. "~" \in S /\ "0" \in S
    BY DEF HasEscapes
  <2>3. Special(c) /\ First(c) = "~" /\ Second(c) = "0"
    BY <1>1 DEF Special, First, Second
  <2>4. (IF Special(c) THEN 2 ELSE 1) = 2
    BY <2>3
  <2>5. /\ <<"~", "0">> \in Seq(S) /\ Len(<<"~", "0">>) = 2
        /\ <<"~", "0">>[1] = "~" /\ <<"~", "0">>[2] = "0"
    BY <1>0, <2>2, Zenon
  <2>6. <<"~", "0">> \in Seq(Plain(S))
    BY <1>p, <1>r, Zenon
  <2> QED BY <2>1, <2>3, <2>4, <2>5, <2>6, Zenon
<1>2. CASE c = "/"
  <2>1. JSON!Escaped(c) = <<"~", "1">>
    BY <1>2 DEF JSON!Escaped
  <2>2. "~" \in S /\ "1" \in S
    BY DEF HasEscapes
  <2>3. Special(c) /\ First(c) = "~" /\ Second(c) = "1"
    BY <1>2 DEF Special, First, Second
  <2>4. (IF Special(c) THEN 2 ELSE 1) = 2
    BY <2>3
  <2>5. /\ <<"~", "1">> \in Seq(S) /\ Len(<<"~", "1">>) = 2
        /\ <<"~", "1">>[1] = "~" /\ <<"~", "1">>[2] = "1"
    BY <1>0, <2>2, Zenon
  <2>6. <<"~", "1">> \in Seq(Plain(S))
    BY <1>p, <1>r, Zenon
  <2> QED BY <2>1, <2>3, <2>4, <2>5, <2>6, Zenon
<1>3. CASE ~Special(c)
  <2>1. JSON!Escaped(c) = <<c>> /\ First(c) = c
    BY <1>3 DEF JSON!Escaped, Special, First
  <2>2. <<c>> \in Seq(Plain(S))
    <3>1. c \in Plain(S)
      BY <1>3, <1>q DEF Special
    <3> QED BY <1>r, <3>1, Zenon
  <2> QED BY <1>0, <1>3, <2>1, <2>2, Zenon
<1> QED BY <1>1, <1>2, <1>3 DEF Special

\* Writing a key by RFC 6901, character by character.
LEMMA EscapeTurns ==
  ASSUME NEW S, HasEscapes(S), NEW key \in Seq(S)
  PROVE  LET E == JSON!EscapeScan(key) IN
         /\ E[0] = <<>>
         /\ \A i \in 0 .. Len(key) : E[i] \in Seq(S)
         /\ \A i \in 1 .. Len(key) : E[i] = E[i - 1] \o JSON!Escaped(key[i])
<1> DEFINE n == Len(key)
           L == Seq(S)
           Turn(s, i) == s \o JSON!Escaped(key[i])
           T == [i \in 1 .. n |-> [s \in L |-> Turn(s, i)]]
           E == JSON!EscapeScan(key)
<1>1. <<>> \in L /\ n \in Nat
  OBVIOUS
<1>2. ASSUME NEW i \in 1 .. n, NEW s \in L PROVE Turn(s, i) \in L
  <2>1. key[i] \in S
    OBVIOUS
  <2>2. JSON!Escaped(key[i]) \in Seq(S)
    BY <2>1, EscapedIs
  <2> QED BY <2>2, ConcatProperties
<1>3. T \in [1 .. n -> [L -> L]]
  <2> HIDE DEF L, Turn, n
  <2> QED BY <1>2
<1> HIDE DEF L, T, Turn
<1>4. PICK g \in [0 .. n -> L] : IsScan(g, n, <<>>, T)
  BY <1>1, <1>3, Recursion
<1>5. g = [i \in 0 .. n |-> IF i = 0 THEN <<>> ELSE Turn(g[i - 1], i)]
  <2>1. ASSUME NEW i \in 0 .. n
        PROVE  g[i] = IF i = 0 THEN <<>> ELSE Turn(g[i - 1], i)
    <3>1. g[i] = IF i = 0 THEN <<>> ELSE T[i][g[i - 1]]
      BY <1>4 DEF IsScan
    <3>2. i # 0 => i \in 1 .. n /\ g[i - 1] \in L
      OBVIOUS
    <3> QED BY <3>1, <3>2 DEF T
  <2> QED BY <2>1
<1>6. \E h : h = [i \in 0 .. n |-> IF i = 0 THEN <<>> ELSE Turn(h[i - 1], i)]
  BY <1>5
<1>7. E = [i \in 0 .. n |-> IF i = 0 THEN <<>> ELSE Turn(E[i - 1], i)]
  BY <1>6 DEF JSON!EscapeScan, Turn
<1> HIDE DEF E
<1>8. E[0] = <<>>
  BY <1>1, <1>7
<1>9. \A i \in 1 .. n : E[i] = Turn(E[i - 1], i)
  BY <1>7
<1>10. \A i \in 1 .. n : E[i - 1] \in L => E[i] \in L
  BY <1>2, <1>9
<1>11. \A i \in 0 .. n : E[i] \in L
  <2> HIDE DEF n
  <2> QED BY <1>1, <1>8, <1>10, ScanTypes
<1> QED BY <1>8, <1>9, <1>11 DEF E, L, Turn

\* What a turn of unescape_pointer_token does.
Escapes(t, i) == t[i] = "~" /\ i < Len(t) /\ t[i + 1] \in {"0", "1"}
Meant(ch) == IF ch = "0" THEN "~" ELSE "/"
UnescapeStep(s, z, t, i) ==
  /\ s.skip => z.out = s.out /\ ~z.skip
  /\ ~s.skip /\ Escapes(t, i) => z.out = Append(s.out, Meant(t[i + 1])) /\ z.skip
  /\ ~s.skip /\ ~Escapes(t, i) => z.out = Append(s.out, t[i]) /\ ~z.skip
UnescapeStates(S) == [out : Seq(S), skip : BOOLEAN]

\* One turn of the loop of unescape_pointer_token.
LEMMA UnescapeTurn ==
  ASSUME NEW S, HasEscapes(S), NEW t \in Seq(S), NEW i \in 1 .. Len(t),
         NEW s \in UnescapeStates(S)
  PROVE  LET z == JSON!Unescape(s, t, i) IN
         z \in UnescapeStates(S) /\ UnescapeStep(s, z, t, i)
<1> DEFINE z == JSON!Unescape(s, t, i)
<1>1. s.out \in Seq(S) /\ s.skip \in BOOLEAN /\ s = [out |-> s.out, skip |-> s.skip]
  BY DEF UnescapeStates
<1>2. t[i] \in S /\ Meant(t[i + 1]) \in S
  BY DEF HasEscapes, Meant
<1>3. Append(s.out, t[i]) \in Seq(S) /\ Append(s.out, Meant(t[i + 1])) \in Seq(S)
  BY <1>1, <1>2, AppendProperties
<1>4. CASE s.skip
  <2>1. z = [s EXCEPT !.skip = FALSE]
    BY <1>4, Zenon DEF JSON!Unescape
  <2>2. z = [out |-> s.out, skip |-> FALSE]
    BY <1>1, <2>1
  <2> HIDE DEF z
  <2>3. z \in UnescapeStates(S) /\ UnescapeStep(s, z, t, i)
    BY <1>1, <1>4, <2>2 DEF UnescapeStates, UnescapeStep
  <2> QED BY <2>3 DEF z
<1>5. CASE ~s.skip /\ Escapes(t, i)
  <2>1. z = [out |-> Append(s.out, Meant(t[i + 1])), skip |-> TRUE]
    BY <1>5 DEF JSON!Unescape, Escapes, Meant
  <2> HIDE DEF z
  <2>3. z \in UnescapeStates(S) /\ UnescapeStep(s, z, t, i)
    BY <1>3, <1>5, <2>1 DEF UnescapeStates, UnescapeStep
  <2> QED BY <2>3 DEF z
<1>6. CASE ~s.skip /\ ~Escapes(t, i)
  <2>1. z = [s EXCEPT !.out = Append(@, t[i])]
    BY <1>6 DEF JSON!Unescape, Escapes
  <2>2. z = [out |-> Append(s.out, t[i]), skip |-> FALSE]
    BY <1>1, <1>6, <2>1
  <2> HIDE DEF z
  <2>3. z \in UnescapeStates(S) /\ UnescapeStep(s, z, t, i)
    BY <1>3, <1>6, <2>2 DEF UnescapeStates, UnescapeStep
  <2> QED BY <2>3 DEF z
<1> QED BY <1>4, <1>5, <1>6

\* The loop of unescape_pointer_token, character by character.
LEMMA UnescapeTurns ==
  ASSUME NEW S, HasEscapes(S), NEW t \in Seq(S)
  PROVE  LET U == JSON!UnescapeScan(t) IN
         /\ U[0].out = <<>> /\ ~U[0].skip
         /\ \A i \in 0 .. Len(t) : U[i] \in UnescapeStates(S)
         /\ \A i \in 1 .. Len(t) : UnescapeStep(U[i - 1], U[i], t, i)
<1> DEFINE n == Len(t)
           L == UnescapeStates(S)
           s0 == [out |-> <<>>, skip |-> FALSE]
           Turn(s, i) == JSON!Unescape(s, t, i)
           T == [i \in 1 .. n |-> [s \in L |-> Turn(s, i)]]
           U == JSON!UnescapeScan(t)
<1>1. s0 \in L /\ n \in Nat /\ s0.out = <<>> /\ ~s0.skip
  BY DEF UnescapeStates
<1>2. ASSUME NEW i \in 1 .. n, NEW s \in L PROVE Turn(s, i) \in L /\ UnescapeStep(s, Turn(s, i), t, i)
  BY UnescapeTurn
<1>3. T \in [1 .. n -> [L -> L]]
  <2> HIDE DEF L, Turn, n
  <2> QED BY <1>2
<1> HIDE DEF L, T, Turn, s0
<1>4. PICK g \in [0 .. n -> L] : IsScan(g, n, s0, T)
  BY <1>1, <1>3, Recursion
<1>5. g = [i \in 0 .. n |-> IF i = 0 THEN s0 ELSE Turn(g[i - 1], i)]
  <2>1. ASSUME NEW i \in 0 .. n
        PROVE  g[i] = IF i = 0 THEN s0 ELSE Turn(g[i - 1], i)
    <3>1. g[i] = IF i = 0 THEN s0 ELSE T[i][g[i - 1]]
      BY <1>4 DEF IsScan
    <3>2. i # 0 => i \in 1 .. n /\ g[i - 1] \in L
      OBVIOUS
    <3> QED BY <3>1, <3>2 DEF T
  <2> QED BY <2>1
<1>6. \E h : h = [i \in 0 .. n |-> IF i = 0 THEN s0 ELSE Turn(h[i - 1], i)]
  BY <1>5
<1>7. U = [i \in 0 .. n |-> IF i = 0 THEN s0 ELSE Turn(U[i - 1], i)]
  BY <1>6 DEF JSON!UnescapeScan, Turn, s0
<1> HIDE DEF U
<1>8. U[0] = s0
  BY <1>1, <1>7
<1>9. \A i \in 1 .. n : U[i] = Turn(U[i - 1], i)
  BY <1>7
<1>10. \A i \in 1 .. n : U[i - 1] \in L => U[i] \in L
  BY <1>2, <1>9
<1>11. \A i \in 0 .. n : U[i] \in L
  <2> HIDE DEF n
  <2> QED BY <1>1, <1>8, <1>10, ScanTypes
<1>12. \A i \in 1 .. n : UnescapeStep(U[i - 1], U[i], t, i)
  <2>1. \A i \in 1 .. n : i - 1 \in 0 .. n
    OBVIOUS
  <2> QED BY <1>2, <1>9, <1>11, <2>1
<1> QED BY <1>1, <1>8, <1>11, <1>12 DEF U, L

\* A text put together from parts: where each part stands in it.
PutTogether(D, n, x, S) ==
  D[0] = <<>> /\ \A i \in 1 .. n : x[i] \in Seq(S) /\ D[i] = D[i - 1] \o x[i]
Stand(D, n, x) ==
  \A i \in 1 .. n :
    /\ Len(x[i]) \in Nat /\ Len(D[i]) = Len(D[i - 1]) + Len(x[i])
    /\ \A p \in 1 .. Len(x[i]) : D[n][Len(D[i - 1]) + p] = x[i][p]

\* Where the parts of a text put together out of parts stand in it.
LEMMA PartsStand ==
  ASSUME NEW S, NEW n \in Nat, NEW D, NEW x, PutTogether(D, n, x, S)
  PROVE  /\ Len(D[0]) = 0 /\ \A i \in 0 .. n : D[i] \in Seq(S)
         /\ \A i \in 0 .. n : Len(D[i]) \in 0 .. Len(D[n])
         /\ Stand(D, n, x)
<1> DEFINE h(i) == Len(D[i])
           wide(i) == Len(x[i])
           Keeps(j) == \A k \in 0 .. j : h(k) <= h(j) /\ \A p \in 1 .. h(k) : D[j][p] = D[k][p]
           I == {j \in 0 .. n : Keeps(j)}
           L == Seq(S)
<1>1. D[0] = <<>> /\ \A i \in 1 .. n : x[i] \in Seq(S) /\ D[i] = D[i - 1] \o x[i]
  BY DEF PutTogether
<1>2. Len(<<>>) = 0 /\ <<>> \in Seq(S)
  OBVIOUS
<1>t. \A i \in 0 .. n : D[i] \in L
  <2>1. \A i \in 1 .. n : D[i - 1] \in L => D[i] \in L
    BY <1>1, ConcatProperties
  <2> HIDE DEF L
  <2> QED BY <1>1, <1>2, <2>1, ScanTypes DEF L
<1>3. h(0) = 0 /\ \A i \in 0 .. n : h(i) \in Nat
  BY <1>1, <1>2, <1>t
<1>4. ASSUME NEW i \in 1 .. n
      PROVE  /\ wide(i) \in Nat /\ h(i) = h(i - 1) + wide(i)
             /\ \A p \in 1 .. wide(i) : D[i][h(i - 1) + p] = x[i][p]
             /\ \A p \in 1 .. h(i - 1) : D[i][p] = D[i - 1][p]
  <2> DEFINE s == D[i - 1]
             u == x[i]
             t == D[i]
  <2>0. i - 1 \in 0 .. n
    OBVIOUS
  <2>1. s \in Seq(S) /\ u \in Seq(S) /\ t = s \o u
    BY <1>1, <1>t, <2>0
  <2> HIDE DEF s, u, t
  <2>2. /\ Len(t) = Len(s) + Len(u)
        /\ \A q \in 1 .. Len(s) + Len(u) : t[q] = IF q <= Len(s) THEN s[q] ELSE u[q - Len(s)]
    BY <2>1, ConcatProperties
  <2>3. Len(s) \in Nat /\ Len(u) \in Nat
    BY <2>1
  <2>4. \A p \in 1 .. Len(u) : t[Len(s) + p] = u[p]
    <3> SUFFICES ASSUME NEW p \in 1 .. Len(u) PROVE t[Len(s) + p] = u[p]
      OBVIOUS
    <3> DEFINE q == Len(s) + p
    <3>1. q \in 1 .. Len(s) + Len(u) /\ ~(q <= Len(s)) /\ q - Len(s) = p
      BY <2>3
    <3> HIDE DEF q
    <3>2. t[q] = u[p]
      BY <2>2, <3>1
    <3> QED BY <3>2 DEF q
  <2>5. \A p \in 1 .. Len(s) : t[p] = s[p]
    BY <2>2, <2>3
  <2> QED BY <2>2, <2>3, <2>4, <2>5 DEF s, u, t
<1> HIDE DEF h, wide
<1>5. 0 \in I
  <2>1. \A k \in 0 .. 0 : k = 0
    OBVIOUS
  <2>2. 0 \in 0 .. n
    OBVIOUS
  <2> QED BY <1>3, <2>1, <2>2
<1>6. ASSUME NEW j \in 0 .. n - 1, j \in I PROVE j + 1 \in I
  <2> DEFINE i == j + 1
  <2>1. i \in 1 .. n /\ i - 1 = j /\ i \in 0 .. n /\ j \in 0 .. n /\ \A k \in 0 .. i : k \in 0 .. j \/ k = i
    OBVIOUS
  <2> HIDE DEF i
  <2>2. /\ wide(i) \in Nat /\ h(i) = h(j) + wide(i)
        /\ \A p \in 1 .. h(j) : D[i][p] = D[j][p]
    BY <1>4, <2>1
  <2>3. h(i) \in Nat /\ h(j) \in Nat
    BY <1>3, <2>1
  <2>4. h(j) <= h(i)
    BY <2>2, <2>3
  <2>5. ASSUME NEW k \in 0 .. i PROVE h(k) <= h(i) /\ \A p \in 1 .. h(k) : D[i][p] = D[k][p]
    <3>1. CASE k = i
      BY <2>3, <3>1
    <3>2. CASE k \in 0 .. j
      <4>1. h(k) <= h(j) /\ \A p \in 1 .. h(k) : D[j][p] = D[k][p]
        BY <1>6, <3>2
      <4>2. h(k) \in Nat
        <5>1. k \in 0 .. n
          BY <2>1, <3>2
        <5> QED BY <1>3, <5>1
      <4>3. \A p \in 1 .. h(k) : p \in 1 .. h(j)
        BY <2>3, <4>1, <4>2
      <4>4. h(k) <= h(i)
        BY <2>3, <2>4, <4>1, <4>2
      <4>5. \A p \in 1 .. h(k) : D[i][p] = D[k][p]
        BY <2>2, <4>1, <4>3
      <4> QED BY <4>4, <4>5
    <3> QED BY <2>1, <3>1, <3>2
  <2>6. Keeps(i)
    BY <2>5
  <2> QED BY <2>1, <2>6 DEF i
<1>7. Keeps(n)
  <2> HIDE DEF Keeps
  <2>1. \A j \in 0 .. n - 1 : j \in I => j + 1 \in I
    BY <1>6
  <2> HIDE DEF I
  <2>2. \A j \in 0 .. n : j \in I
    BY <1>5, <2>1, Induction
  <2>3. n \in I
    BY <2>2
  <2> QED BY <2>3 DEF I
<1>8. \A i \in 0 .. n : h(i) \in 0 .. h(n)
  BY <1>3, <1>7
<1>9. ASSUME NEW i \in 1 .. n
      PROVE  /\ wide(i) \in Nat /\ h(i) = h(i - 1) + wide(i)
             /\ \A p \in 1 .. wide(i) : D[n][h(i - 1) + p] = x[i][p]
  <2>1. i \in 0 .. n /\ i - 1 \in 0 .. n
    OBVIOUS
  <2>2. \A p \in 1 .. h(i) : D[n][p] = D[i][p]
    BY <1>7, <2>1
  <2>3. h(i - 1) \in Nat
    BY <1>3, <2>1
  <2>4. wide(i) \in Nat /\ h(i) = h(i - 1) + wide(i)
    BY <1>4
  <2>5. \A p \in 1 .. wide(i) : h(i - 1) + p \in 1 .. h(i)
    BY <2>3, <2>4
  <2> QED BY <1>4, <2>2, <2>4, <2>5
<1>10. Stand(D, n, x)
  BY <1>9 DEF h, wide, Stand
<1> QED BY <1>3, <1>t, <1>8, <1>10 DEF h

\* Where the characters of a key stand in the written key.
LEMMA EscapedPlaces ==
  ASSUME NEW S, HasEscapes(S), NEW key \in Seq(S)
  PROVE  LET E == JSON!EscapeScan(key)
             w == E[Len(key)] IN
         /\ w \in Seq(Plain(S)) /\ w \in Seq(S) /\ Len(E[0]) = 0
         /\ \A i \in 0 .. Len(key) : Len(E[i]) \in 0 .. Len(w)
         /\ \A i \in 1 .. Len(key) :
              /\ Len(E[i]) = Len(E[i - 1]) + (IF Special(key[i]) THEN 2 ELSE 1)
              /\ w[Len(E[i - 1]) + 1] = First(key[i])
              /\ Special(key[i]) => w[Len(E[i - 1]) + 2] = Second(key[i])
<1> DEFINE E == JSON!EscapeScan(key)
           n == Len(key)
           x == [i \in 1 .. n |-> JSON!Escaped(key[i])]
<1>1. n \in Nat /\ \A i \in 1 .. n : key[i] \in S
  OBVIOUS
<1>2. E[0] = <<>> /\ \A i \in 1 .. n : E[i] = E[i - 1] \o JSON!Escaped(key[i])
  BY EscapeTurns
<1> HIDE DEF E, n
<1>3. \A i \in 1 .. n : /\ x[i] \in Seq(S) /\ x[i] \in Seq(Plain(S))
                        /\ Len(x[i]) = IF Special(key[i]) THEN 2 ELSE 1
                        /\ x[i][1] = First(key[i])
                        /\ Special(key[i]) => x[i][2] = Second(key[i])
  BY <1>1, EscapedIs
<1>4. \A i \in 1 .. n : E[i] = E[i - 1] \o x[i]
  BY <1>2
<1> HIDE DEF x
<1>5. PutTogether(E, n, x, S) /\ PutTogether(E, n, x, Plain(S))
  BY <1>2, <1>3, <1>4 DEF PutTogether
<1>6. E[n] \in Seq(Plain(S)) /\ E[n] \in Seq(S)
  <2>1. n \in 0 .. n
    BY <1>1
  <2> QED BY <1>1, <1>5, <2>1, PartsStand
<1>7. Len(E[0]) = 0 /\ \A i \in 0 .. n : Len(E[i]) \in 0 .. Len(E[n])
  BY <1>1, <1>5, PartsStand
<1>9. \A i \in 1 .. n :
        /\ Len(x[i]) \in Nat /\ Len(E[i]) = Len(E[i - 1]) + Len(x[i])
        /\ \A p \in 1 .. Len(x[i]) : E[n][Len(E[i - 1]) + p] = x[i][p]
  <2>1. Stand(E, n, x)
    BY <1>1, <1>5, PartsStand
  <2> QED BY <2>1 DEF Stand
<1>8. ASSUME NEW i \in 1 .. n
      PROVE  /\ Len(E[i]) = Len(E[i - 1]) + (IF Special(key[i]) THEN 2 ELSE 1)
             /\ E[n][Len(E[i - 1]) + 1] = First(key[i])
             /\ Special(key[i]) => E[n][Len(E[i - 1]) + 2] = Second(key[i])
  <2>1. /\ Len(x[i]) \in Nat /\ Len(E[i]) = Len(E[i - 1]) + Len(x[i])
        /\ \A p \in 1 .. Len(x[i]) : E[n][Len(E[i - 1]) + p] = x[i][p]
    BY <1>9
  <2>2. /\ Len(x[i]) = IF Special(key[i]) THEN 2 ELSE 1
        /\ x[i][1] = First(key[i]) /\ (Special(key[i]) => x[i][2] = Second(key[i]))
    BY <1>3
  <2>3. 1 \in 1 .. Len(x[i]) /\ (Special(key[i]) => 2 \in 1 .. Len(x[i]))
    BY <2>2
  <2>4. E[n][Len(E[i - 1]) + 1] = x[i][1]
    BY <2>1, <2>3
  <2>5. Special(key[i]) => E[n][Len(E[i - 1]) + 2] = x[i][2]
    BY <2>1, <2>3
  <2> QED BY <2>1, <2>2, <2>4, <2>5
<1> QED BY <1>6, <1>7, <1>8 DEF E, n

\* unescape_pointer_token undoes the escapes of RFC 6901.
LEMMA EscapeComesBack ==
  ASSUME NEW S, HasEscapes(S), NEW key \in Seq(S)
  PROVE  /\ JSON!Escape(key) \in Seq(Plain(S)) /\ JSON!Escape(key) \in Seq(S)
         /\ JSON!unescape_pointer_token(JSON!Escape(key)) = key
<1> DEFINE E == JSON!EscapeScan(key)
           n == Len(key)
           w == E[n]
           U == JSON!UnescapeScan(w)
           h(i) == Len(E[i])
           Done(i) == ~U[h(i)].skip /\ U[h(i)].out = SubSeq(key, 1, i)
           I == {i \in 0 .. n : Done(i)}
<1>1. n \in Nat /\ \A i \in 1 .. n : key[i] \in S
  OBVIOUS
<1>2. /\ w \in Seq(Plain(S)) /\ w \in Seq(S) /\ h(0) = 0
      /\ \A i \in 0 .. n : h(i) \in 0 .. Len(w)
      /\ \A i \in 1 .. n : /\ h(i) = h(i - 1) + (IF Special(key[i]) THEN 2 ELSE 1)
                           /\ w[h(i - 1) + 1] = First(key[i])
                           /\ Special(key[i]) => w[h(i - 1) + 2] = Second(key[i])
  BY EscapedPlaces
<1>3. JSON!Escape(key) = w
  BY DEF JSON!Escape
<1> HIDE DEF E, w
<1>4. /\ U[0].out = <<>> /\ ~U[0].skip
      /\ \A i \in 1 .. Len(w) : UnescapeStep(U[i - 1], U[i], w, i)
  BY <1>2, UnescapeTurns
<1>5. JSON!unescape_pointer_token(w) = U[Len(w)].out
  BY DEF JSON!unescape_pointer_token
<1> HIDE DEF U, h
<1>6. 0 \in I
  <2>1. SubSeq(key, 1, 0) = <<>>
    BY SubSeqEmpty
  <2>2. h(0) = 0
    BY <1>2
  <2>3. ~U[h(0)].skip /\ U[h(0)].out = <<>>
    BY <1>4, <2>2
  <2>4. 0 \in 0 .. n
    BY <1>1
  <2> QED BY <2>1, <2>3, <2>4
<1>10. ASSUME NEW b \in Nat, b + 1 \in 1 .. Len(w) PROVE UnescapeStep(U[b], U[b + 1], w, b + 1)
  <2> DEFINE k == b + 1
  <2>1. k \in 1 .. Len(w) /\ k - 1 = b
    BY <1>10
  <2> HIDE DEF k
  <2>2. UnescapeStep(U[k - 1], U[k], w, k)
    BY <1>4, <2>1
  <2>3. UnescapeStep(U[b], U[k], w, k)
    BY <2>1, <2>2
  <2> QED BY <2>3 DEF k
<1>7. ASSUME NEW j \in 0 .. n - 1, j \in I PROVE j + 1 \in I
  <2> DEFINE i == j + 1
             a == h(j)
             c == key[i]
  <2>1. i \in 1 .. n /\ i - 1 = j /\ i \in 0 .. n /\ j \in 0 .. n
    BY <1>1
  <2> HIDE DEF i
  <2>2. /\ a \in Nat /\ h(i) \in 0 .. Len(w) /\ c \in S
        /\ h(i) = a + (IF Special(c) THEN 2 ELSE 1)
        /\ w[a + 1] = First(c) /\ (Special(c) => w[a + 2] = Second(c))
    BY <1>1, <1>2, <2>1
  <2>3. SubSeq(key, 1, i) = Append(SubSeq(key, 1, j), c)
    BY <2>1, PrefixGrows
  <2>4. ~U[a].skip /\ U[a].out = SubSeq(key, 1, j)
    BY <1>7
  <2>5. Len(w) \in Nat
    BY <1>2
  <2> HIDE DEF a, c
  <2>6. CASE ~Special(c)
    <3>1. h(i) = a + 1 /\ a + 1 \in 1 .. Len(w) /\ a + 1 - 1 = a
      BY <2>2, <2>5, <2>6
    <3>2. w[a + 1] = c /\ ~Escapes(w, a + 1)
      <4>1. First(c) = c /\ c # "~"
        BY <2>6 DEF Special, First
      <4> QED BY <2>2, <4>1 DEF Escapes
    <3>3. UnescapeStep(U[a], U[a + 1], w, a + 1)
      BY <1>10, <2>2, <3>1
    <3>4. ~U[a + 1].skip /\ U[a + 1].out = Append(U[a].out, w[a + 1])
      BY <2>4, <3>2, <3>3 DEF UnescapeStep
    <3>5. Done(i)
      BY <2>3, <2>4, <3>1, <3>2, <3>4
    <3> QED BY <2>1, <3>5 DEF i
  <2>7. CASE Special(c)
    <3>1. /\ h(i) = a + 2 /\ a + 1 \in 1 .. Len(w) /\ a + 2 \in 1 .. Len(w)
          /\ a + 1 - 1 = a /\ a + 2 - 1 = a + 1 /\ a + 1 < Len(w) /\ a + 1 + 1 = a + 2
      BY <2>2, <2>5, <2>7
    <3>2. First(c) = "~" /\ Second(c) \in {"0", "1"} /\ Meant(Second(c)) = c
      BY <2>7 DEF Special, First, Second, Meant
    <3>3. w[a + 1] = "~" /\ w[a + 2] = Second(c)
      BY <2>2, <2>7, <3>2
    <3>4. Escapes(w, a + 1) /\ Meant(w[a + 1 + 1]) = c
      BY <3>1, <3>2, <3>3, Zenon DEF Escapes
    <3>5. UnescapeStep(U[a], U[a + 1], w, a + 1)
      BY <1>10, <2>2, <3>1
    <3>6. U[a + 1].skip /\ U[a + 1].out = Append(U[a].out, c)
      BY <2>4, <3>4, <3>5, Zenon DEF UnescapeStep
    <3>a. a + 1 \in Nat /\ a + 1 + 1 \in 1 .. Len(w)
      BY <2>2, <3>1
    <3>7. UnescapeStep(U[a + 1], U[a + 2], w, a + 2)
      BY <1>10, <3>1, <3>a
    <3>8. ~U[a + 2].skip /\ U[a + 2].out = U[a + 1].out
      BY <3>6, <3>7 DEF UnescapeStep
    <3>9. Done(i)
      BY <2>3, <2>4, <3>1, <3>6, <3>8
    <3> QED BY <2>1, <3>9 DEF i
  <2> QED BY <2>6, <2>7
<1>8. Done(n)
  <2> HIDE DEF Done
  <2>1. \A j \in 0 .. n - 1 : j \in I => j + 1 \in I
    BY <1>7
  <2> HIDE DEF I
  <2>2. \A j \in 0 .. n : j \in I
    BY <1>1, <1>6, <2>1, Induction
  <2>3. n \in I
    BY <1>1, <2>2
  <2> QED BY <2>3 DEF I
<1>9. SubSeq(key, 1, n) = key
  BY SubSeqFull
<1>11. h(n) = Len(w)
  BY DEF h, w
<1> QED BY <1>2, <1>3, <1>5, <1>8, <1>9, <1>11

\* A key with one more character is written with one more character or two.
LEMMA EscapeGrows ==
  ASSUME NEW S, HasEscapes(S), NEW key \in Seq(S), NEW c \in S
  PROVE  /\ JSON!Escape(<<>>) = <<>>
         /\ JSON!Escape(Append(key, c)) = JSON!Escape(key) \o JSON!Escaped(c)
<1>1. JSON!Escape(<<>>) = <<>>
  <2> DEFINE E == JSON!EscapeScan(<<>>)
  <2>1. <<>> \in Seq(S) /\ Len(<<>>) = 0
    OBVIOUS
  <2>2. E[0] = <<>>
    BY <2>1, EscapeTurns
  <2>3. JSON!Escape(<<>>) = E[Len(<<>>)]
    BY DEF JSON!Escape
  <2> QED BY <2>1, <2>2, <2>3
<1> DEFINE long == Append(key, c)
           n == Len(key)
           D == JSON!EscapeScan(long)
           E == JSON!EscapeScan(key)
           I == {i \in 0 .. n : D[i] = E[i]}
<1>2. /\ long \in Seq(S) /\ Len(long) = n + 1 /\ n \in Nat /\ long[n + 1] = c
      /\ \A i \in 1 .. n : long[i] = key[i]
  BY AppendProperties
<1> HIDE DEF long
<1>3. D[0] = <<>> /\ \A i \in 1 .. Len(long) : D[i] = D[i - 1] \o JSON!Escaped(long[i])
  BY <1>2, EscapeTurns
<1>4. E[0] = <<>> /\ \A i \in 1 .. n : E[i] = E[i - 1] \o JSON!Escaped(key[i])
  BY EscapeTurns
<1>5. JSON!Escape(key) = E[n] /\ JSON!Escape(long) = D[n + 1]
  BY <1>2 DEF JSON!Escape
<1> HIDE DEF D, E, n
<1>6. ASSUME NEW j \in 0 .. n - 1, j \in I PROVE j + 1 \in I
  <2> DEFINE i == j + 1
  <2>1. i \in 1 .. n /\ i \in 1 .. Len(long) /\ i - 1 = j /\ i \in 0 .. n
    BY <1>2
  <2> HIDE DEF i
  <2>2. D[i] = D[i - 1] \o JSON!Escaped(long[i]) /\ E[i] = E[i - 1] \o JSON!Escaped(key[i])
    BY <1>3, <1>4, <2>1
  <2>3. D[i] = E[i]
    BY <1>2, <1>6, <2>1, <2>2
  <2> QED BY <2>1, <2>3 DEF i
<1>7. D[n] = E[n]
  <2>1. 0 \in I
    BY <1>2, <1>3, <1>4
  <2>2. \A j \in 0 .. n - 1 : j \in I => j + 1 \in I
    BY <1>6
  <2> HIDE DEF I
  <2>3. \A j \in 0 .. n : j \in I
    BY <1>2, <2>1, <2>2, Induction
  <2>4. n \in I
    BY <1>2, <2>3
  <2> QED BY <2>4 DEF I
<1>8. D[n + 1] = D[n] \o JSON!Escaped(c)
  <2> DEFINE k == n + 1
  <2>1. k \in 1 .. Len(long) /\ k - 1 = n /\ long[k] = c
    BY <1>2
  <2> HIDE DEF k
  <2>2. D[k] = D[k - 1] \o JSON!Escaped(long[k])
    BY <1>3, <2>1
  <2>3. D[k] = D[n] \o JSON!Escaped(c)
    BY <2>1, <2>2
  <2> QED BY <2>3 DEF k
<1> QED BY <1>1, <1>5, <1>7, <1>8 DEF long

\* One or two elements at the end of a sequence.
LEMMA ConcatIsAppend ==
  ASSUME NEW S, NEW s \in Seq(S), NEW a \in S, NEW b \in S
  PROVE  s \o <<a>> = Append(s, a) /\ s \o <<a, b>> = Append(Append(s, a), b)
<1>0. <<a>> \in Seq(S) /\ <<b>> \in Seq(S) /\ Append(s, a) \in Seq(S)
  BY AppendProperties
<1>1. <<a>> \o <<b>> = <<a, b>>
  <2> DEFINE x == <<a>>
             y == <<b>>
             z == <<a, b>>
  <2>1. /\ x \in Seq(S) /\ Len(x) = 1 /\ x[1] = a /\ y \in Seq(S) /\ Len(y) = 1 /\ y[1] = b
        /\ z \in Seq(S) /\ Len(z) = 2 /\ z[1] = a /\ z[2] = b
    OBVIOUS
  <2> HIDE DEF x, y, z
  <2>2. /\ x \o y \in Seq(S) /\ Len(x \o y) = Len(x) + Len(y)
        /\ \A i \in 1 .. Len(x) + Len(y) : (x \o y)[i] = IF i <= Len(x) THEN x[i] ELSE y[i - Len(x)]
    BY <2>1, ConcatProperties
  <2>3. Len(x \o y) = Len(z) /\ \A i \in 1 .. Len(x \o y) : (x \o y)[i] = z[i]
    BY <2>1, <2>2
  <2>4. x \o y = z
    BY <2>1, <2>2, <2>3, SeqEqual
  <2> QED BY <2>4 DEF x, y, z
<1>2. Append(s, a) = s \o <<a>> /\ Append(Append(s, a), b) = Append(s, a) \o <<b>>
  BY <1>0, AppendIsConcat
<1>3. (s \o <<a>>) \o <<b>> = s \o (<<a>> \o <<b>>)
  BY <1>0, ConcatAssociative
<1> QED BY <1>1, <1>2, <1>3

\* A token in which every "~" escapes something.
WellEscaped(t) == \A i \in 1 .. Len(t) : t[i] # "/" /\ (t[i] = "~" => Escapes(t, i))

\* A token whose every "~" escapes is what is written for what it means.
LEMMA WellEscapedComesBack ==
  ASSUME NEW S, HasEscapes(S), NEW t \in Seq(S), WellEscaped(t)
  PROVE  JSON!Escape(JSON!unescape_pointer_token(t)) = t
<1> DEFINE U == JSON!UnescapeScan(t)
           n == Len(t)
           Done(i) == /\ ~U[i].skip => JSON!Escape(U[i].out) = SubSeq(t, 1, i)
                      /\ U[i].skip => i < n /\ JSON!Escape(U[i].out) = SubSeq(t, 1, i + 1)
           I == {i \in 0 .. n : Done(i)}
<1>1. n \in Nat /\ \A i \in 1 .. n : t[i] \in S
  OBVIOUS
<1>2. U[0].out = <<>> /\ ~U[0].skip /\ \A i \in 0 .. n : U[i].out \in Seq(S)
  BY UnescapeTurns DEF UnescapeStates
<1>3. \A i \in 1 .. n : UnescapeStep(U[i - 1], U[i], t, i)
  BY UnescapeTurns
<1>4. JSON!unescape_pointer_token(t) = U[n].out
  BY DEF JSON!unescape_pointer_token
<1> HIDE DEF U
<1>5. 0 \in I
  <2>1. SubSeq(t, 1, 0) = <<>> /\ JSON!Escape(<<>>) = <<>>
    <3>1. <<>> \in Seq(S) /\ "~" \in S
      BY DEF HasEscapes
    <3> QED BY <3>1, SubSeqEmpty, EscapeGrows
  <2> QED BY <1>1, <1>2, <2>1
<1>6. ASSUME NEW j \in 0 .. n - 1, j \in I PROVE j + 1 \in I
  <2> DEFINE i == j + 1
             o == U[j].out
             s == SubSeq(t, 1, j)
  <2>1. i \in 1 .. n /\ i - 1 = j /\ i \in 0 .. n /\ j \in 0 .. n /\ j + 1 = i
    BY <1>1
  <2> HIDE DEF i
  <2>2. UnescapeStep(U[j], U[i], t, i) /\ Done(j)
    BY <1>3, <1>6, <2>1
  <2>3. SubSeq(t, 1, i) = Append(s, t[i]) /\ s \in Seq(S)
    BY <2>1, PrefixGrows, PrefixTypes
  <2>4. t[i] \in S /\ t[i] # "/" /\ (t[i] = "~" => Escapes(t, i)) /\ o \in Seq(S)
    BY <1>1, <1>2, <2>1 DEF WellEscaped
  <2>5. CASE U[j].skip
    <3>1. ~U[i].skip /\ U[i].out = o
      BY <2>2, <2>5 DEF UnescapeStep
    <3>2. JSON!Escape(o) = SubSeq(t, 1, i)
      BY <2>1, <2>2, <2>5
    <3> QED BY <2>1, <3>1, <3>2 DEF i
  <2>6. CASE ~U[j].skip /\ ~Escapes(t, i)
    <3>1. ~U[i].skip /\ U[i].out = Append(o, t[i])
      BY <2>2, <2>6 DEF UnescapeStep
    <3>2. JSON!Escaped(t[i]) = <<t[i]>>
      BY <2>4, <2>6 DEF JSON!Escaped
    <3>3. JSON!Escape(U[i].out) = s \o <<t[i]>>
      <4>1. JSON!Escape(Append(o, t[i])) = JSON!Escape(o) \o JSON!Escaped(t[i])
        BY <2>4, EscapeGrows
      <4> QED BY <2>2, <2>6, <3>1, <3>2, <4>1
    <3>4. JSON!Escape(U[i].out) = SubSeq(t, 1, i)
      BY <2>3, <2>4, <3>3, ConcatIsAppend
    <3> QED BY <2>1, <3>1, <3>4 DEF i
  <2>7. CASE ~U[j].skip /\ Escapes(t, i)
    <3> DEFINE d == t[i + 1]
               c == Meant(d)
               k == i + 1
    <3>1. U[i].skip /\ U[i].out = Append(o, c)
      BY <2>2, <2>7 DEF UnescapeStep
    <3>2. t[i] = "~" /\ i < n /\ d \in {"0", "1"} /\ c \in S
      BY <2>7 DEF Escapes, HasEscapes, Meant
    <3>3. JSON!Escaped(c) = <<t[i], d>>
      BY <3>2 DEF JSON!Escaped, Meant
    <3>4. k \in 1 .. n /\ k - 1 = i /\ d = t[k]
      BY <1>1, <2>1, <3>2
    <3>5. d \in S
      BY <1>1, <3>4
    <3> HIDE DEF d, c, k
    <3>6. JSON!Escape(U[i].out) = s \o <<t[i], d>>
      <4>1. JSON!Escape(Append(o, c)) = JSON!Escape(o) \o JSON!Escaped(c)
        BY <2>4, <3>2, EscapeGrows
      <4> QED BY <2>2, <2>7, <3>1, <3>3, <4>1
    <3>7. SubSeq(t, 1, k) = Append(SubSeq(t, 1, i), d)
      BY <3>4, PrefixGrows
    <3>8. s \o <<t[i], d>> = Append(Append(s, t[i]), d)
      BY <2>3, <2>4, <3>5, ConcatIsAppend
    <3>9. JSON!Escape(U[i].out) = SubSeq(t, 1, i + 1)
      BY <2>3, <3>6, <3>7, <3>8 DEF k
    <3> QED BY <2>1, <3>1, <3>2, <3>9 DEF i
  <2> QED BY <2>5, <2>6, <2>7
<1>7. Done(n)
  <2> HIDE DEF Done
  <2>1. \A j \in 0 .. n - 1 : j \in I => j + 1 \in I
    BY <1>6
  <2> HIDE DEF I
  <2>2. \A j \in 0 .. n : j \in I
    BY <1>1, <1>5, <2>1, Induction
  <2>3. n \in I
    BY <1>1, <2>2
  <2> QED BY <2>3 DEF I
<1>8. SubSeq(t, 1, n) = t /\ ~(n < n)
  BY <1>1, SubSeqFull
<1> QED BY <1>4, <1>7, <1>8

Slash(ch) == ch = "/"

\* Where the tokens of a pointer end, and the text itself.
EndsOfTokens(s) == InOrder(JSON!Slashes(s) \cup {Len(s) + 1})
Ended(s, m, e) ==
  /\ m \in Nat /\ e[m + 1] = Len(s) + 1
  /\ \A j \in 1 .. m :
       /\ e[j] \in 1 .. Len(s) /\ Slash(s[e[j]])
       /\ e[j + 1] \in 1 .. Len(s) + 1 /\ e[j] < e[j + 1]
       /\ \A p \in 1 .. Len(s) : e[j] < p /\ p < e[j + 1] => ~Slash(s[p])
  /\ \A j \in 1 .. m + 1 : e[j] \in 1 .. Len(s) + 1

\* The slashes of a pointer in order, and that none stands between two of them.
LEMMA TokenEnds ==
  ASSUME NEW S, NEW s \in Seq(S)
  PROVE  /\ Ended(s, Cardinality(JSON!Slashes(s)), EndsOfTokens(s))
         /\ (s # <<>> /\ Slash(s[1])) =>
              Cardinality(JSON!Slashes(s)) >= 1 /\ EndsOfTokens(s)[1] = 1
<1> DEFINE P == JSON!Slashes(s)
           n == Len(s)
           m == Cardinality(P)
           Q == P \cup {n + 1}
           e == InOrder(Q)
<1>1. n \in Nat /\ P \subseteq 1 .. n /\ \A i \in 1 .. n : i \in P <=> Slash(s[i])
  BY DEF JSON!Slashes, Slash
<1>2. Places(P, n)
  BY <1>1 DEF Places
<1>3. IsFiniteSet(P) /\ P \subseteq Int /\ m \in 0 .. n
  BY <1>2, FinitePlaces
<1>e. e = EndsOfTokens(s)
  BY DEF EndsOfTokens
<1> HIDE DEF P, n
<1>4. n + 1 \in Int /\ \A p \in P : p < n + 1
  BY <1>1
<1>5. /\ Cardinality(Q) = m + 1
      /\ e = [k \in 1 .. m + 1 |-> IF k <= m THEN InOrder(P)[k] ELSE n + 1]
  BY <1>3, <1>4, OrderGrows
<1>6. IsFiniteSet(Q) /\ Q \subseteq Int
  BY <1>3, <1>4, FS_AddElement
<1>7. InOrder(P) \in [1 .. m -> P]
  BY <1>3, Order
<1>8. /\ \A q \in Q : Rank(Q, q) \in 1 .. Cardinality(Q) /\ e[Rank(Q, q)] = q
      /\ \A j, k \in 1 .. Cardinality(Q) : j < k <=> e[j] < e[k]
  BY <1>6, Order
<1> HIDE DEF m, Q, e
<1>9. e[m + 1] = n + 1 /\ \A j \in 1 .. m : e[j] \in P /\ e[j] \in 1 .. n
  <2>1. m + 1 \in 1 .. m + 1 /\ ~(m + 1 <= m) /\ \A j \in 1 .. m : j \in 1 .. m + 1 /\ j <= m
    BY <1>3
  <2>2. e[m + 1] = n + 1
    BY <1>5, <2>1
  <2>3. \A j \in 1 .. m : e[j] = InOrder(P)[j]
    BY <1>5, <2>1
  <2> QED BY <1>1, <1>7, <2>2, <2>3
<1>10. ASSUME NEW j \in 1 .. m
       PROVE  /\ e[j] < e[j + 1] /\ e[j + 1] \in 1 .. n + 1
              /\ \A p \in 1 .. n : e[j] < p /\ p < e[j + 1] => ~Slash(s[p])
  <2> DEFINE k == j + 1
  <2>1. j \in 1 .. m + 1 /\ k \in 1 .. m + 1 /\ j < k /\ (k \in 1 .. m \/ k = m + 1)
        /\ \A r \in Int : ~(j < r /\ r < k)
    BY <1>3
  <2> HIDE DEF k
  <2>2. e[j] < e[k]
    BY <1>5, <1>8, <2>1
  <2>3. e[k] \in 1 .. n + 1
    BY <1>1, <1>9, <2>1
  <2>4. ASSUME NEW p \in 1 .. n, e[j] < p, p < e[k], Slash(s[p]) PROVE FALSE
    <3>1. p \in Q
      BY <1>1, <2>4 DEF Q
    <3> DEFINE r == Rank(Q, p)
    <3>2. r \in 1 .. m + 1 /\ e[r] = p
      BY <1>5, <1>8, <3>1
    <3> HIDE DEF r
    <3>3. j < r /\ r < k
      BY <1>5, <1>8, <2>1, <2>4, <3>2
    <3> QED BY <2>1, <3>2, <3>3
  <2> QED BY <2>2, <2>3, <2>4 DEF k
<1>11. ASSUME s # <<>>, Slash(s[1]) PROVE m >= 1 /\ e[1] = 1
  <2>1. n >= 1
    BY <1>11 DEF n
  <2>2. 1 \in 1 .. n
    BY <1>1, <2>1
  <2>3. 1 \in P /\ 1 \in Q
    BY <1>1, <1>11, <2>2 DEF Q
  <2> DEFINE r == Rank(Q, 1)
  <2>4. r \in 1 .. m + 1 /\ e[r] = 1
    BY <1>5, <1>8, <2>3
  <2> HIDE DEF r
  <2>5. r # m + 1
    BY <1>9, <2>1, <2>4, <1>1
  <2>6. r \in 1 .. m /\ m >= 1 /\ 1 \in 1 .. m + 1 /\ 1 \in 1 .. m
    BY <1>3, <2>4, <2>5
  <2>7. e[1] \in 1 .. n
    BY <1>9, <2>6
  <2>8. ~(1 < r)
    <3>1. ~(e[1] < e[r])
      BY <2>4, <2>7
    <3> QED BY <1>5, <1>8, <2>4, <2>6, <3>1
  <2> QED BY <2>4, <2>6, <2>8
<1>12. Ended(s, m, e)
  <2>1. \A j \in 1 .. m : Slash(s[e[j]])
    BY <1>1, <1>9
  <2>2. \A j \in 1 .. m + 1 : e[j] \in 1 .. n + 1
    BY <1>1, <1>3, <1>9
  <2> QED BY <1>3, <1>9, <1>10, <2>1, <2>2 DEF Ended, n
<1> QED BY <1>e, <1>11, <1>12 DEF P, m

\* The tokens of a pointer are what stands between its slashes.
LEMMA TokensAre ==
  ASSUME NEW S, NEW s \in Seq(S), NEW m, m = Cardinality(JSON!Slashes(s))
  PROVE  LET e == EndsOfTokens(s)
             T == JSON!Tokens(s) IN
         /\ T \in Seq(Seq(S)) /\ Len(T) = m /\ DOMAIN T = 1 .. m
         /\ \A j \in 1 .. m : T[j] = SubSeq(s, e[j] + 1, e[j + 1] - 1)
<1> DEFINE e == EndsOfTokens(s)
           T == JSON!Tokens(s)
           L == Seq(S)
<1>1. T = [j \in 1 .. m |-> SubSeq(s, e[j] + 1, e[j + 1] - 1)]
  BY JsonNames DEF JSON!Tokens, EndsOfTokens
<1>2. Ended(s, m, e)
  BY TokenEnds
<1> HIDE DEF e, T
<1>3. ASSUME NEW j \in 1 .. m PROVE SubSeq(s, e[j] + 1, e[j + 1] - 1) \in L
  <2> DEFINE a == e[j]
             b == e[j + 1] - 1
  <2>1. Len(s) \in Nat /\ e[j] \in 1 .. Len(s) /\ e[j + 1] \in 1 .. Len(s) + 1 /\ e[j] < e[j + 1]
    BY <1>2 DEF Ended
  <2>2. a \in 0 .. Len(s) /\ b \in a .. Len(s)
    BY <2>1
  <2> HIDE DEF a, b
  <2>3. SubSeq(s, a + 1, b) \in L
    BY <2>2, SliceGrows
  <2> QED BY <2>3 DEF a, b
<1> HIDE DEF L
<1>4. m \in Nat
  BY <1>2 DEF Ended
<1>5. T \in [1 .. m -> L] /\ DOMAIN T = 1 .. m
  BY <1>1, <1>3
<1>6. T \in Seq(L)
  BY <1>4, <1>5, SeqDef
<1>7. Len(T) = m
  BY <1>4, <1>5, <1>6, LenProperties
<1> QED BY <1>1, <1>5, <1>6, <1>7 DEF e, T, L

HasSlash(S) == "/" \in S
APart == <<"/">>
AsPart(t) == APart \o t

\* A token behind its slash.
LEMMA PartIs ==
  ASSUME NEW S, HasSlash(S), NEW t \in Seq(S)
  PROVE  /\ AsPart(t) \in Seq(S) /\ Len(AsPart(t)) = Len(t) + 1
         /\ Slash(AsPart(t)[1]) /\ \A p \in 1 .. Len(t) : AsPart(t)[p + 1] = t[p]
<1>1. APart \in Seq(S) /\ Len(APart) = 1 /\ Slash(APart[1])
  <2>1. \A c \in S : <<c>> \in Seq(S) /\ Len(<<c>>) = 1 /\ <<c>>[1] = c
    OBVIOUS
  <2> QED BY <2>1, Zenon DEF APart, Slash, HasSlash
<1> DEFINE w == AsPart(t)
<1>2. /\ w \in Seq(S) /\ Len(w) = Len(APart) + Len(t)
      /\ \A i \in 1 .. Len(APart) + Len(t) : w[i] = IF i <= Len(APart) THEN APart[i] ELSE t[i - Len(APart)]
  BY <1>1, ConcatProperties DEF AsPart
<1>3. Len(t) \in Nat
  OBVIOUS
<1> HIDE DEF w
<1>4. Len(w) = Len(t) + 1 /\ w[1] = APart[1]
  BY <1>1, <1>2, <1>3
<1>5. ASSUME NEW p \in 1 .. Len(t) PROVE w[p + 1] = t[p]
  <2> DEFINE i == p + 1
  <2>1. i \in 1 .. Len(APart) + Len(t) /\ ~(i <= Len(APart)) /\ i - Len(APart) = p
    BY <1>1, <1>3
  <2> HIDE DEF i
  <2>2. w[i] = t[p]
    BY <1>2, <2>1
  <2> QED BY <2>2 DEF i
<1> QED BY <1>1, <1>2, <1>4, <1>5 DEF w

\* A slash and then a token behind what is written already.
LEMMA PartFollows ==
  ASSUME NEW S, HasSlash(S), NEW s \in Seq(S), NEW t \in Seq(S)
  PROVE  (s \o APart) \o t = s \o AsPart(t) /\ s \o AsPart(t) \in Seq(S)
<1>1. APart \in Seq(S)
  <2>1. \A c \in S : <<c>> \in Seq(S)
    OBVIOUS
  <2> QED BY <2>1, Zenon DEF APart, HasSlash
<1>2. AsPart(t) \in Seq(S)
  BY PartIs
<1>3. s \o AsPart(t) \in Seq(S)
  BY ONLY <1>2, ConcatProperties
<1>4. (s \o APart) \o t = s \o (APart \o t)
  BY ONLY <1>1, ConcatAssociative
<1> QED BY <1>3, <1>4 DEF AsPart

\* The pointer to a path, part by part.
LEMMA PointerTurns ==
  ASSUME NEW S, HasEscapes(S), NEW path \in Seq(Seq(S))
  PROVE  LET W == JSON!PointerScan(path) IN
         PutTogether(W, Len(path), [i \in 1 .. Len(path) |-> AsPart(JSON!Escape(path[i]))], S)
<1> DEFINE n == Len(path)
           L == Seq(S)
           x == [i \in 1 .. n |-> AsPart(JSON!Escape(path[i]))]
           Turn(s, i) == s \o APart \o JSON!Escape(path[i])
           T == [i \in 1 .. n |-> [s \in L |-> Turn(s, i)]]
           W == JSON!PointerScan(path)
<1>1. <<>> \in L /\ n \in Nat
  OBVIOUS
<1>s. HasSlash(S)
  BY DEF HasSlash, HasEscapes
<1>2. ASSUME NEW i \in 1 .. n
      PROVE  x[i] \in L /\ \A s \in L : Turn(s, i) = s \o x[i] /\ Turn(s, i) \in L
  <2>1. path[i] \in Seq(S)
    OBVIOUS
  <2>2. JSON!Escape(path[i]) \in Seq(S)
    BY <2>1, EscapeComesBack
  <2>3. x[i] = AsPart(JSON!Escape(path[i]))
    OBVIOUS
  <2>4. x[i] \in Seq(S)
    BY <1>s, <2>2, <2>3, PartIs
  <2> HIDE DEF x
  <2>5. ASSUME NEW s \in Seq(S) PROVE Turn(s, i) = s \o x[i] /\ s \o x[i] \in Seq(S)
    <3>1. /\ (s \o APart) \o JSON!Escape(path[i]) = s \o AsPart(JSON!Escape(path[i]))
          /\ s \o AsPart(JSON!Escape(path[i])) \in Seq(S)
      BY <1>s, <2>2, PartFollows, Zenon
    <3> QED BY <2>3, <3>1
  <2> QED BY <2>4, <2>5
<1>3. T \in [1 .. n -> [L -> L]]
  <2> HIDE DEF L, Turn, n
  <2> QED BY <1>2
<1> HIDE DEF L, T, Turn, x, n
<1>4. PICK g \in [0 .. n -> L] : IsScan(g, n, <<>>, T)
  BY <1>1, <1>3, Recursion
<1>5. g = [i \in 0 .. n |-> IF i = 0 THEN <<>> ELSE Turn(g[i - 1], i)]
  <2>1. ASSUME NEW i \in 0 .. n
        PROVE  g[i] = IF i = 0 THEN <<>> ELSE Turn(g[i - 1], i)
    <3>1. g[i] = IF i = 0 THEN <<>> ELSE T[i][g[i - 1]]
      BY <1>4 DEF IsScan
    <3>2. i # 0 => i \in 1 .. n /\ g[i - 1] \in L
      BY <1>1, <1>4
    <3> QED BY <3>1, <3>2 DEF T
  <2> QED BY <2>1
<1>6. \E h : h = [i \in 0 .. n |-> IF i = 0 THEN <<>> ELSE Turn(h[i - 1], i)]
  BY <1>5
<1>7. W = [i \in 0 .. n |-> IF i = 0 THEN <<>> ELSE Turn(W[i - 1], i)]
  BY <1>6 DEF JSON!PointerScan, Turn, APart, n
<1> HIDE DEF W
<1>8. W[0] = <<>>
  BY <1>1, <1>7
<1>9. \A i \in 1 .. n : W[i] = Turn(W[i - 1], i)
  BY <1>1, <1>7
<1>10. \A i \in 1 .. n : W[i - 1] \in L => W[i] \in L
  BY <1>2, <1>9
<1>11. \A i \in 0 .. n : W[i] \in L
  <2> HIDE DEF n
  <2> QED BY <1>1, <1>8, <1>10, ScanTypes
<1>12. \A i \in 1 .. n : x[i] \in L /\ W[i] = W[i - 1] \o x[i]
  <2>1. \A i \in 1 .. n : W[i - 1] \in L
    BY <1>1, <1>11
  <2> QED BY <1>2, <1>9, <2>1
<1>13. PutTogether(W, n, x, S)
  BY <1>8, <1>12 DEF PutTogether, L
<1> QED BY <1>13 DEF W, x, n

\* A sequence that increases at each step increases.
LEMMA Increasing ==
  ASSUME NEW n \in Nat, NEW f, \A k \in 1 .. n : f[k] \in Int,
         \A k \in 1 .. n - 1 : f[k] < f[k + 1]
  PROVE  \A j, k \in 1 .. n : j < k => f[j] < f[k]
<1> DEFINE Below(k) == \A j \in 1 .. n : j < k /\ k <= n => f[j] < f[k]
           I == {k \in 0 .. n : Below(k)}
<1>1. 0 \in I
  OBVIOUS
<1>2. ASSUME NEW j \in 0 .. n - 1, j \in I PROVE j + 1 \in I
  <2> DEFINE k == j + 1
  <2>1. k \in 1 .. n /\ k \in 0 .. n /\ j \in Nat /\ k - 1 = j
    OBVIOUS
  <2>2. \A i \in 1 .. n : i < k => i = j \/ i < j
    OBVIOUS
  <2>3. j = 0 \/ f[j] < f[k]
    <3>1. j = 0 \/ j \in 1 .. n - 1
      BY <2>1
    <3> QED BY <3>1
  <2> HIDE DEF k
  <2>4. ASSUME NEW i \in 1 .. n, i < k PROVE f[i] < f[k]
    <3>1. f[i] \in Int /\ f[k] \in Int
      BY <2>1
    <3>2. i = j \/ i < j
      BY <2>2, <2>4
    <3>3. CASE i = j
      BY <2>3, <3>3
    <3>4. CASE i < j
      <4>1. j \in 1 .. n /\ j <= n
        BY <2>1, <3>4
      <4>2. f[i] < f[j] /\ f[j] \in Int
        BY <1>2, <3>4, <4>1
      <4>3. f[j] < f[k]
        BY <2>3, <4>1
      <4> QED BY <3>1, <4>2, <4>3
    <3> QED BY <3>2, <3>3, <3>4
  <2>5. Below(k)
    BY <2>4
  <2> QED BY <2>1, <2>5 DEF k
<1>3. \A k \in 0 .. n : k \in I
  <2>1. \A j \in 0 .. n - 1 : j \in I => j + 1 \in I
    BY <1>2
  <2> HIDE DEF I
  <2> QED BY <1>1, <2>1, Induction
<1>4. \A k \in 1 .. n : Below(k)
  BY <1>3
<1> QED BY <1>4

\* The tokens of the pointer to a path are its keys, escaped.
LEMMA PointerSplits ==
  ASSUME NEW S, HasEscapes(S), NEW path \in Seq(Seq(S)), path # <<>>
  PROVE  LET s == JSON!PointerTo(path) IN
         /\ s \in Seq(S) /\ s # <<>> /\ Slash(s[1])
         /\ Len(JSON!Tokens(s)) = Len(path)
         /\ \A j \in 1 .. Len(path) : JSON!Tokens(s)[j] = JSON!Escape(path[j])
<1> DEFINE W == JSON!PointerScan(path)
           n == Len(path)
           t(j) == JSON!Escape(path[j])
           x == [i \in 1 .. n |-> AsPart(JSON!Escape(path[i]))]
           s == JSON!PointerTo(path)
           h(i) == Len(W[i])
           P == JSON!Slashes(s)
           f == [k \in 1 .. n |-> h(k - 1) + 1]
           e == EndsOfTokens(s)
<1>1. n \in Nat /\ n >= 1 /\ s = W[n]
  BY DEF JSON!PointerTo
<1>2. \A i \in 1 .. n : t(i) \in Seq(Plain(S)) /\ t(i) \in Seq(S) /\ Len(t(i)) \in Nat
  BY EscapeComesBack
<1>3. PutTogether(W, n, x, S)
  BY PointerTurns
<1>4. \A i \in 1 .. n : /\ Len(x[i]) = Len(t(i)) + 1 /\ Slash(x[i][1])
                        /\ \A p \in 1 .. Len(t(i)) : x[i][p + 1] = t(i)[p]
  <2>1. HasSlash(S)
    BY DEF HasSlash, HasEscapes
  <2>2. \A i \in 1 .. n : x[i] = AsPart(t(i)) /\ t(i) \in Seq(S)
    BY <1>2
  <2> HIDE DEF x, t, n
  <2> QED BY <2>1, <2>2, PartIs
<1> HIDE DEF W, n, t, x, s
<1>5. /\ h(0) = 0 /\ s \in Seq(S)
      /\ \A i \in 0 .. n : h(i) \in 0 .. Len(s)
      /\ Stand(W, n, x) /\ h(n) = Len(s)
  <2>1. n \in 0 .. n
    BY <1>1
  <2> QED BY <1>1, <1>3, <2>1, PartsStand
<1> HIDE DEF h
<1>6. ASSUME NEW i \in 1 .. n
      PROVE  /\ h(i) = h(i - 1) + 1 + Len(t(i)) /\ Slash(s[h(i - 1) + 1])
             /\ \A p \in 1 .. Len(t(i)) : s[h(i - 1) + 1 + p] = t(i)[p]
             /\ h(i - 1) \in Nat /\ h(i) \in Nat /\ Len(t(i)) \in Nat
  <2> DEFINE a == h(i - 1)
             k == Len(t(i))
  <2>1. /\ h(i) = a + Len(x[i])
        /\ \A p \in 1 .. Len(x[i]) : s[a + p] = x[i][p]
    BY <1>1, <1>5 DEF Stand, h
  <2>2. i - 1 \in 0 .. n /\ i \in 0 .. n
    BY <1>1
  <2>3. a \in Nat /\ h(i) \in Nat
    BY <1>5, <2>2
  <2>4. k \in Nat /\ Len(x[i]) = k + 1
    BY <1>2, <1>4
  <2>5. h(i) = a + 1 + k
    BY <2>1, <2>3, <2>4
  <2> HIDE DEF a
  <2>6. s[a + 1] = x[i][1]
    BY <2>1, <2>4
  <2>7. ASSUME NEW p \in 1 .. k PROVE s[a + 1 + p] = t(i)[p]
    <3> DEFINE q == p + 1
    <3>1. q \in 1 .. Len(x[i]) /\ a + 1 + p = a + q
      BY <2>3, <2>4
    <3>2. x[i][q] = t(i)[p]
      BY <1>4
    <3> HIDE DEF q
    <3>3. s[a + q] = x[i][q]
      BY <2>1, <3>1
    <3> QED BY <3>1, <3>2, <3>3
  <2> QED BY <1>4, <2>3, <2>4, <2>5, <2>6, <2>7 DEF a
<1>7. P \subseteq 1 .. Len(s) /\ \A p \in 1 .. Len(s) : p \in P <=> Slash(s[p])
  BY <1>5 DEF JSON!Slashes, Slash
<1> HIDE DEF P
<1>8. \A k \in 1 .. n : f[k] = h(k - 1) + 1 /\ f[k] \in P /\ f[k] \in Int
  <2> SUFFICES ASSUME NEW k \in 1 .. n PROVE f[k] = h(k - 1) + 1 /\ f[k] \in P /\ f[k] \in Int
    OBVIOUS
  <2>1. /\ h(k) = h(k - 1) + 1 + Len(t(k)) /\ Slash(s[h(k - 1) + 1])
        /\ h(k - 1) \in Nat /\ h(k) \in Nat /\ Len(t(k)) \in Nat
    BY <1>6
  <2>2. h(k) <= Len(s) /\ Len(s) \in Nat
    BY <1>1, <1>5
  <2>3. h(k - 1) + 1 \in 1 .. Len(s)
    BY <2>1, <2>2
  <2> QED BY <1>7, <2>1, <2>3
<1>9. \A j, k \in 1 .. n : j < k => f[j] < f[k]
  <2>1. ASSUME NEW k \in 1 .. n - 1 PROVE f[k] < f[k + 1]
    <3>1. k \in 1 .. n /\ k + 1 \in 1 .. n /\ k + 1 - 1 = k
      BY <1>1
    <3>2. f[k] = h(k - 1) + 1 /\ f[k + 1] = h(k) + 1
      BY <1>8, <3>1
    <3>3. /\ h(k) = h(k - 1) + 1 + Len(t(k))
          /\ h(k - 1) \in Nat /\ h(k) \in Nat /\ Len(t(k)) \in Nat
      BY <1>6, <3>1
    <3> QED BY <3>2, <3>3
  <2> HIDE DEF f
  <2> QED BY <1>1, <1>8, <2>1, Increasing
<1>10. ASSUME NEW p \in P PROVE \E k \in 1 .. n : f[k] = p
  <2> DEFINE R == {i \in 0 .. n : p <= h(i)}
  <2>1. p \in 1 .. Len(s) /\ Slash(s[p]) /\ Len(s) \in Nat
    BY <1>5, <1>7
  <2>2. n \in R
    BY <1>1, <1>5, <2>1
  <2>3. R \subseteq Nat /\ R # {}
    BY <1>1, <2>2
  <2> HIDE DEF R
  <2>4. PICK i \in R : \A j \in R : i <= j
    BY <2>3, Least
  <2>5. i \in 1 .. n /\ i - 1 \in 0 .. n /\ ~(i <= i - 1) /\ p <= h(i)
    <3>1. i \in 0 .. n /\ p <= h(i)
      BY <2>4 DEF R
    <3>2. i # 0
      BY <1>5, <2>1, <3>1
    <3> QED BY <1>1, <3>1, <3>2
  <2>6. ~(p <= h(i - 1))
    BY <2>4, <2>5 DEF R
  <2> DEFINE a == h(i - 1)
             q == p - a - 1
  <2>7. /\ h(i) = a + 1 + Len(t(i)) /\ a \in Nat /\ h(i) \in Nat /\ Len(t(i)) \in Nat
        /\ \A r \in 1 .. Len(t(i)) : s[a + 1 + r] = t(i)[r]
    BY <1>6, <2>5
  <2>8. f[i] = a + 1
    BY <1>8, <2>5
  <2>c. ~(p <= a)
    BY <2>6
  <2> HIDE DEF a
  <2>d. h(i) = a + 1 + Len(t(i)) /\ a \in Nat /\ Len(t(i)) \in Nat /\ p \in Int /\ p <= h(i)
    BY <2>1, <2>5, <2>7
  <2>9. q \in 0 .. Len(t(i)) /\ p = a + 1 + q
    BY <2>c, <2>d
  <2>10. q = 0
    <3> SUFFICES ASSUME q # 0 PROVE FALSE
      OBVIOUS
    <3>1. q \in 1 .. Len(t(i))
      BY <2>7, <2>9
    <3>2. s[p] = t(i)[q]
      BY <2>7, <2>9, <3>1
    <3>3. t(i)[q] \in Plain(S)
      <4> DEFINE D == Plain(S)
                 u == t(i)
      <4>1. u \in Seq(D)
        BY <1>2, <2>5
      <4> HIDE DEF D, u
      <4>2. u[q] \in D
        BY <3>1, <4>1 DEF u
      <4> QED BY <4>2 DEF D, u
    <3> QED BY <2>1, <3>2, <3>3 DEF Plain, Slash
  <2> QED BY <2>5, <2>7, <2>8, <2>9, <2>10
<1>11. P \subseteq Int /\ IsFiniteSet(P)
  <2>1. Places(P, Len(s))
    BY <1>5, <1>7 DEF Places
  <2> QED BY <2>1, FinitePlaces
<1>12. Cardinality(P) = n /\ InOrder(P) = f
  <2>1. f \in [1 .. n -> P]
    BY <1>8
  <2> HIDE DEF f
  <2> QED BY <1>1, <1>9, <1>10, <1>11, <2>1, OrderIsUnique
<1>13. ASSUME NEW k \in 1 .. n + 1 PROVE e[k] = h(k - 1) + 1
  <2>1. Len(s) + 1 \in Int /\ \A p \in P : p < Len(s) + 1
    BY <1>5, <1>7
  <2> DEFINE N == Len(s) + 1
  <2>a. e = InOrder(P \cup {N})
    BY DEF EndsOfTokens, P
  <2>b. N \in Int /\ \A p \in P : p < N
    BY <2>1
  <2> HIDE DEF f, e, N
  <2>c. InOrder(P \cup {N})
          = [j \in 1 .. Cardinality(P) + 1 |->
               IF j <= Cardinality(P) THEN InOrder(P)[j] ELSE N]
    BY <1>11, <2>b, OrderGrows
  <2>2. e = [j \in 1 .. n + 1 |-> IF j <= n THEN f[j] ELSE Len(s) + 1]
    BY <1>12, <2>a, <2>c DEF N
  <2>3. e[k] = IF k <= n THEN f[k] ELSE Len(s) + 1
    BY <2>2
  <2>4. CASE k <= n
    <3>1. k \in 1 .. n
      BY <1>1, <2>4
    <3> QED BY <1>8, <2>3, <2>4, <3>1
  <2>5. CASE ~(k <= n)
    <3>1. k - 1 = n
      BY <1>1, <2>5
    <3> QED BY <1>5, <2>3, <2>5, <3>1
  <2> QED BY <2>4, <2>5
<1> HIDE DEF e
<1>14. Len(JSON!Tokens(s)) = n /\ \A j \in 1 .. n : JSON!Tokens(s)[j] = SubSeq(s, e[j] + 1, e[j + 1] - 1)
  BY <1>5, <1>12, TokensAre DEF e, P
<1>15. ASSUME NEW j \in 1 .. n PROVE JSON!Tokens(s)[j] = t(j)
  <2> DEFINE a == h(j - 1) + 1
             b == h(j)
             k == Len(t(j))
             u == SubSeq(s, a + 1, b)
             v == t(j)
  <2>1. /\ h(j) = h(j - 1) + 1 + k
        /\ \A p \in 1 .. k : s[h(j - 1) + 1 + p] = v[p]
        /\ h(j - 1) \in Nat /\ h(j) \in Nat /\ k \in Nat
    BY <1>6
  <2>2. h(j) <= Len(s) /\ Len(s) \in Nat
    BY <1>1, <1>5
  <2>3. e[j] + 1 = a + 1 /\ e[j + 1] - 1 = b
    <3> DEFINE i == j + 1
    <3>1. j \in 1 .. n + 1 /\ i \in 1 .. n + 1 /\ i - 1 = j
      BY <1>1
    <3> HIDE DEF i
    <3>2. e[j] = h(j - 1) + 1 /\ e[i] = h(j) + 1
      BY <1>13, <3>1
    <3> QED BY <2>1, <3>2 DEF i
  <2>4. a \in 0 .. Len(s) /\ b \in a .. Len(s) /\ b - a = k /\ \A p \in 1 .. k : s[a + p] = v[p]
    BY <2>1, <2>2
  <2>5. v \in Seq(S) /\ k = Len(v)
    BY <1>2
  <2> HIDE DEF a, b, v, k
  <2>6. u \in Seq(S) /\ Len(u) = b - a /\ \A p \in 1 .. b - a : u[p] = s[a + p]
    BY <1>5, <2>4, SliceGrows
  <2> HIDE DEF u
  <2>7. Len(u) = Len(v) /\ \A p \in 1 .. Len(u) : u[p] = v[p]
    BY <2>4, <2>5, <2>6
  <2>8. u = v
    BY <2>5, <2>6, <2>7, SeqEqual
  <2>9. JSON!Tokens(s)[j] = u
    BY <1>14, <2>3 DEF u
  <2> QED BY <2>8, <2>9 DEF v
<1>16. s # <<>> /\ Slash(s[1])
  <2>1. 1 \in 1 .. n /\ 1 - 1 = 0
    BY <1>1
  <2>2. f[1] = 1 /\ f[1] \in P
    BY <1>5, <1>8, <2>1
  <2>3. 1 \in 1 .. Len(s) /\ Slash(s[1])
    BY <1>7, <2>2
  <2> QED BY <1>5, <2>3
<1> QED BY <1>5, <1>14, <1>15, <1>16 DEF n, t, s

\* Keys that escape to the tokens of a pointer make it up again.
LEMMA TokensJoin ==
  ASSUME NEW S, HasEscapes(S), NEW s \in Seq(S), s # <<>>, Slash(s[1]),
         NEW path \in Seq(Seq(S)), Len(path) = Len(JSON!Tokens(s)),
         \A j \in 1 .. Len(path) : JSON!Escape(path[j]) = JSON!Tokens(s)[j]
  PROVE  JSON!PointerTo(path) = s
<1> DEFINE W == JSON!PointerScan(path)
           n == Len(path)
           e == EndsOfTokens(s)
           x == [i \in 1 .. n |-> AsPart(JSON!Escape(path[i]))]
           t(j) == JSON!Tokens(s)[j]
           I == {i \in 0 .. n : W[i] = SubSeq(s, 1, e[i + 1] - 1)}
<1>1. n \in Nat /\ JSON!PointerTo(path) = W[n]
  BY DEF JSON!PointerTo
<1>2. PutTogether(W, n, x, S)
  BY PointerTurns
<1>s. HasSlash(S)
  BY DEF HasSlash, HasEscapes
<1>3. n = Cardinality(JSON!Slashes(s)) /\ \A j \in 1 .. n : t(j) = SubSeq(s, e[j] + 1, e[j + 1] - 1)
  BY TokensAre
<1>4. Ended(s, n, e) /\ n >= 1 /\ e[1] = 1
  BY <1>3, TokenEnds
<1>5. \A i \in 1 .. n : x[i] = AsPart(t(i))
  OBVIOUS
<1> HIDE DEF W, n, e, x, t
<1>6. ASSUME NEW i \in 1 .. n
      PROVE  W[i] = W[i - 1] \o SubSeq(s, e[i], e[i + 1] - 1)
  <2> DEFINE a == e[i] - 1
             c == e[i]
             b == e[i + 1] - 1
             u == t(i)
             v == SubSeq(s, a + 1, b)
             w == AsPart(u)
  <2>1. /\ c \in 1 .. Len(s) /\ Slash(s[c]) /\ e[i + 1] \in 1 .. Len(s) + 1 /\ c < e[i + 1]
        /\ Len(s) \in Nat
    BY <1>4 DEF Ended
  <2>2. /\ a \in 0 .. Len(s) /\ b \in a .. Len(s) /\ c \in 0 .. Len(s) /\ b \in c .. Len(s)
        /\ a + 1 = c /\ b - a = b - c + 1 /\ a \in Int /\ b \in Int /\ c \in Int
    <3>1. /\ e[i] \in 1 .. Len(s) /\ e[i + 1] \in 1 .. Len(s) + 1 /\ e[i] < e[i + 1]
          /\ Len(s) \in Nat
      BY <2>1
    <3> DEFINE f == e[i]
               g == e[i + 1]
               l == Len(s)
    <3>2. f \in 1 .. l /\ g \in 1 .. l + 1 /\ f < g /\ l \in Nat
      BY <3>1
    <3> HIDE DEF f, g, l
    <3>3. /\ f - 1 \in 0 .. l /\ g - 1 \in f - 1 .. l /\ f \in 0 .. l /\ g - 1 \in f .. l
          /\ f - 1 + 1 = f /\ g - 1 - (f - 1) = g - 1 - f + 1 /\ f - 1 \in Int /\ g - 1 \in Int
          /\ f \in Int
      BY <3>2
    <3> QED BY <3>3 DEF f, g, l
  <2>3. u = SubSeq(s, c + 1, b)
    BY <1>3
  <2> HIDE DEF a, b, c, u
  <2>4. u \in Seq(S) /\ Len(u) = b - c /\ \A p \in 1 .. b - c : u[p] = s[c + p]
    BY <2>2, <2>3, SliceGrows
  <2>5. v \in Seq(S) /\ Len(v) = b - a /\ \A p \in 1 .. b - a : v[p] = s[a + p]
    BY <2>2, SliceGrows
  <2>6. /\ w \in Seq(S) /\ Len(w) = Len(u) + 1 /\ Slash(w[1])
        /\ \A p \in 1 .. Len(u) : w[p + 1] = u[p]
    BY <1>s, <2>4, PartIs
  <2> HIDE DEF v, w
  <2>7. Len(w) = Len(v)
    BY <2>2, <2>4, <2>5, <2>6
  <2>8. ASSUME NEW q \in 1 .. Len(w) PROVE w[q] = v[q]
    <3>1. q \in 1 .. b - a /\ q \in Int
      BY <2>5, <2>7
    <3>2. v[q] = s[a + q]
      BY <2>5, <3>1
    <3>3. CASE q = 1
      <4>1. v[1] = s[c]
        BY <2>2, <3>2, <3>3
      <4> QED BY <2>1, <2>6, <3>3, <4>1, Zenon DEF Slash
    <3>4. CASE q # 1
      <4> DEFINE p == q - 1
      <4>1. p \in 1 .. b - c /\ p + 1 = q /\ a + q = c + p
        BY <2>2, <3>1, <3>4
      <4> HIDE DEF p
      <4>2. w[p + 1] = u[p] /\ u[p] = s[c + p]
        BY <2>4, <2>6, <4>1
      <4> QED BY <3>2, <4>1, <4>2
    <3> QED BY <3>3, <3>4
  <2>9. w = v
    BY <2>5, <2>6, <2>7, <2>8, SeqEqual
  <2>10. W[i] = W[i - 1] \o w
    BY <1>2, <1>5 DEF PutTogether, w, u
  <2> QED BY <2>2, <2>9, <2>10 DEF v, a, b, c
<1>7. 0 \in I
  <2>1. SubSeq(s, 1, 0) = <<>> /\ W[0] = <<>>
    BY <1>2, SubSeqEmpty DEF PutTogether
  <2>2. e[0 + 1] - 1 = 0 /\ 0 \in 0 .. n
    BY <1>1, <1>4
  <2>3. W[0] = SubSeq(s, 1, e[0 + 1] - 1)
    BY <2>1, <2>2
  <2> QED BY <2>2, <2>3
<1>8. ASSUME NEW j \in 0 .. n - 1, j \in I PROVE j + 1 \in I
  <2> DEFINE i == j + 1
             k == e[i] - 1
             m == e[i + 1] - 1
  <2>1. i \in 1 .. n /\ i \in 0 .. n /\ i - 1 = j
    BY <1>1
  <2>2. W[j] = SubSeq(s, 1, k)
    BY <1>8
  <2> HIDE DEF i
  <2>3. W[i] = SubSeq(s, 1, k) \o SubSeq(s, e[i], m)
    BY <1>6, <2>1, <2>2
  <2>4. /\ e[i] \in 1 .. Len(s) /\ e[i + 1] \in 1 .. Len(s) + 1 /\ e[i] < e[i + 1] /\ Len(s) \in Nat
    BY <1>4, <2>1 DEF Ended
  <2>5. k \in 0 .. Len(s) /\ m \in k .. Len(s) /\ k + 1 = e[i]
    BY <2>4
  <2> HIDE DEF k, m
  <2>6. 1 \in 1 .. Len(s) + 1 /\ k \in 1 - 1 .. Len(s)
    BY <2>4, <2>5
  <2>7. SubSeq(s, 1, k) \o SubSeq(s, k + 1, m) = SubSeq(s, 1, m)
    BY <2>5, <2>6, ConcatAdjacentSubSeq
  <2>8. W[i] = SubSeq(s, 1, e[i + 1] - 1)
    BY <2>3, <2>5, <2>7 DEF m
  <2> QED BY <2>1, <2>8 DEF i
<1>9. W[n] = SubSeq(s, 1, e[n + 1] - 1)
  <2>1. \A j \in 0 .. n - 1 : j \in I => j + 1 \in I
    BY <1>8
  <2> HIDE DEF I
  <2>2. \A j \in 0 .. n : j \in I
    BY <1>1, <1>7, <2>1, Induction
  <2>3. n \in I
    BY <1>1, <2>2
  <2> QED BY <2>3 DEF I
<1>10. e[n + 1] - 1 = Len(s) /\ SubSeq(s, 1, Len(s)) = s
  <2>1. e[n + 1] = Len(s) + 1 /\ Len(s) \in Nat
    BY <1>4 DEF Ended
  <2> QED BY <2>1, SubSeqFull
<1> QED BY <1>1, <1>9, <1>10

IsDigit(c) == c \in DOMAIN JSON!Digit
Val(c) == JSON!Digit[c]
Zero(c) == c = "0"
Figures == <<"0", "1", "2", "3", "4", "5", "6", "7", "8", "9">>

\* A digit and its value determine each other.
LEMMA DigitIs ==
  \A c : IsDigit(c) => /\ Val(c) \in 0 .. 9 /\ Figures[Val(c) + 1] = c
                       /\ (Val(c) = 0 => Zero(c)) /\ c # "~" /\ c # "/"
<1> SUFFICES ASSUME NEW c, IsDigit(c)
             PROVE  /\ Val(c) \in 0 .. 9 /\ Figures[Val(c) + 1] = c
                    /\ (Val(c) = 0 => Zero(c)) /\ c # "~" /\ c # "/"
  OBVIOUS
<1> DEFINE v == CASE c = "0" -> 0 [] c = "1" -> 1 [] c = "2" -> 2 [] c = "3" -> 3
              [] c = "4" -> 4 [] c = "5" -> 5 [] c = "6" -> 6 [] c = "7" -> 7
              [] c = "8" -> 8 [] OTHER -> 9
<1>1. c \in {"0", "1", "2", "3", "4", "5", "6", "7", "8", "9"} /\ Val(c) = v
  BY DEF IsDigit, Val, JSON!Digit
<1>2. CASE c = "0"
  <2>1. v = 0
    BY <1>2
  <2> QED BY <1>1, <1>2, <2>1 DEF Figures, Zero
<1>3. CASE c = "1"
  <2>1. v = 1
    BY <1>3
  <2> QED BY <1>1, <1>3, <2>1 DEF Figures, Zero
<1>4. CASE c = "2"
  <2>1. v = 2
    BY <1>4
  <2> QED BY <1>1, <1>4, <2>1 DEF Figures, Zero
<1>5. CASE c = "3"
  <2>1. v = 3
    BY <1>5
  <2> QED BY <1>1, <1>5, <2>1 DEF Figures, Zero
<1>6. CASE c = "4"
  <2>1. v = 4
    BY <1>6
  <2> QED BY <1>1, <1>6, <2>1 DEF Figures, Zero
<1>7. CASE c = "5"
  <2>1. v = 5
    BY <1>7
  <2> QED BY <1>1, <1>7, <2>1 DEF Figures, Zero
<1>8. CASE c = "6"
  <2>1. v = 6
    BY <1>8
  <2> QED BY <1>1, <1>8, <2>1 DEF Figures, Zero
<1>9. CASE c = "7"
  <2>1. v = 7
    BY <1>9
  <2> QED BY <1>1, <1>9, <2>1 DEF Figures, Zero
<1>10. CASE c = "8"
  <2>1. v = 8
    BY <1>10
  <2> QED BY <1>1, <1>10, <2>1 DEF Figures, Zero
<1>11. CASE c = "9"
  <2>1. v = 9
    BY <1>11
  <2> QED BY <1>1, <1>11, <2>1 DEF Figures, Zero
<1> QED BY <1>1, <1>2, <1>3, <1>4, <1>5, <1>6, <1>7, <1>8, <1>9, <1>10, <1>11, Zenon

\* Texts of figures.
Numeral(t) == \A i \in 1 .. Len(t) : IsDigit(t[i])

\* Reading a decimal number, digit by digit.
LEMMA IndexTurns ==
  ASSUME NEW S, NEW t \in Seq(S), Numeral(t)
  PROVE  LET X == JSON!IndexScan(t) IN
         /\ X[0] = 0 /\ JSON!Index(t) = X[Len(t)]
         /\ \A i \in 0 .. Len(t) : X[i] \in Nat
         /\ \A i \in 1 .. Len(t) : X[i] = 10 * X[i - 1] + Val(t[i])
<1> DEFINE n == Len(t)
           Turn(s, i) == 10 * s + JSON!Digit[t[i]]
           T == [i \in 1 .. n |-> [s \in Nat |-> Turn(s, i)]]
           X == JSON!IndexScan(t)
<1>1. 0 \in Nat /\ n \in Nat
  OBVIOUS
<1>2. ASSUME NEW i \in 1 .. n, NEW s \in Nat PROVE Turn(s, i) \in Nat /\ Turn(s, i) = 10 * s + Val(t[i])
  <2>1. Val(t[i]) \in 0 .. 9 /\ Val(t[i]) = JSON!Digit[t[i]]
    BY DigitIs DEF Numeral, Val
  <2> QED BY <2>1
<1>3. T \in [1 .. n -> [Nat -> Nat]]
  <2> HIDE DEF Turn, n
  <2> QED BY <1>2
<1>i. JSON!Index(t) = X[n]
  BY DEF JSON!Index
<1> HIDE DEF T, Turn, n
<1>4. PICK g \in [0 .. n -> Nat] : IsScan(g, n, 0, T)
  BY <1>1, <1>3, Recursion
<1>5. g = [i \in 0 .. n |-> IF i = 0 THEN 0 ELSE Turn(g[i - 1], i)]
  <2>1. ASSUME NEW i \in 0 .. n
        PROVE  g[i] = IF i = 0 THEN 0 ELSE Turn(g[i - 1], i)
    <3>1. g[i] = IF i = 0 THEN 0 ELSE T[i][g[i - 1]]
      BY <1>4 DEF IsScan
    <3>2. i # 0 => i \in 1 .. n /\ g[i - 1] \in Nat
      BY <1>1, <1>4
    <3> QED BY <3>1, <3>2 DEF T
  <2> QED BY <2>1
<1>6. \E h : h = [i \in 0 .. n |-> IF i = 0 THEN 0 ELSE Turn(h[i - 1], i)]
  BY <1>5
<1>7. X = [i \in 0 .. n |-> IF i = 0 THEN 0 ELSE Turn(X[i - 1], i)]
  BY <1>6 DEF JSON!IndexScan, Turn, n
<1> HIDE DEF X
<1>8. X[0] = 0
  BY <1>1, <1>7
<1>9. \A i \in 1 .. n : X[i] = Turn(X[i - 1], i)
  BY <1>1, <1>7
<1>10. \A i \in 1 .. n : X[i - 1] \in Nat => X[i] \in Nat
  BY <1>2, <1>9
<1>11. \A i \in 0 .. n : X[i] \in Nat
  BY <1>1, <1>8, <1>10, ScanTypes
<1>12. \A i \in 1 .. n : X[i] = 10 * X[i - 1] + Val(t[i])
  <2>1. \A i \in 1 .. n : X[i - 1] \in Nat
    BY <1>1, <1>11
  <2> QED BY <1>2, <1>9, <2>1
<1> QED BY <1>i, <1>8, <1>11, <1>12 DEF X, n

\* Without a zero in front, a number is written in one way.
Decimal(t) == t # <<>> /\ Numeral(t) /\ (Len(t) > 1 => ~Zero(t[1]))

\* Two decimals of the same value without zeros in front: from the last digit
\* backwards they agree, and none is longer.
LEMMA DecimalIsLonger ==
  ASSUME NEW S, NEW a \in Seq(S), NEW b \in Seq(S), Decimal(a), Decimal(b),
         JSON!Index(a) = JSON!Index(b), Len(a) <= Len(b)
  PROVE  a = b
<1> DEFINE A == JSON!IndexScan(a)
           B == JSON!IndexScan(b)
           n == Len(a)
           m == Len(b)
           D == m - n
           Same(j) == A[j] = B[j + D] /\ \A i \in 1 .. n : i > j => a[i] = b[i + D]
           I == {k \in 0 .. n : Same(n - k)}
<1>1. /\ A[0] = 0 /\ JSON!Index(a) = A[n] /\ \A i \in 0 .. n : A[i] \in Nat
      /\ \A i \in 1 .. n : A[i] = 10 * A[i - 1] + Val(a[i])
  BY IndexTurns DEF Decimal
<1>2. /\ B[0] = 0 /\ JSON!Index(b) = B[m] /\ \A i \in 0 .. m : B[i] \in Nat
      /\ \A i \in 1 .. m : B[i] = 10 * B[i - 1] + Val(b[i])
  BY IndexTurns DEF Decimal
<1>3. n \in Nat /\ m \in Nat /\ n >= 1 /\ D \in Nat /\ n + D = m
  BY DEF Decimal
<1>4. /\ \A i \in 1 .. n : IsDigit(a[i]) /\ Val(a[i]) \in 0 .. 9
      /\ \A i \in 1 .. m : IsDigit(b[i]) /\ Val(b[i]) \in 0 .. 9
  BY DigitIs DEF Decimal, Numeral
<1>5. m > 1 => ~Zero(b[1])
  BY DEF Decimal
<1> HIDE DEF A, B, n, m, D
<1>6. 0 \in I
  <2>1. A[n] = B[n + D]
    BY <1>1, <1>2, <1>3
  <2>2. n - 0 = n /\ 0 \in 0 .. n
    BY <1>3
  <2>3. Same(n)
    BY <1>3, <2>1
  <2> QED BY <2>2, <2>3
<1>7. ASSUME NEW k \in 0 .. n - 1, k \in I PROVE k + 1 \in I
  <2> DEFINE j == n - k
             l == j - 1
             h == j + D
  <2>1. /\ j \in 1 .. n /\ l \in 0 .. n /\ n - (k + 1) = l /\ j = l + 1 /\ h \in 1 .. m
        /\ h - 1 = l + D /\ h - 1 \in 0 .. m /\ k + 1 \in 0 .. n /\ j - 1 = l
    BY <1>3
  <2>2. Same(j)
    BY <1>7
  <2> HIDE DEF j, l
  <2>3. A[j] = B[h]
    BY <2>2
  <2> HIDE DEF h
  <2>4. A[j] = 10 * A[l] + Val(a[j]) /\ A[l] \in Nat /\ Val(a[j]) \in 0 .. 9
    BY <1>1, <1>4, <2>1
  <2>5. B[h] = 10 * B[h - 1] + Val(b[h]) /\ B[h - 1] \in Nat /\ Val(b[h]) \in 0 .. 9
    BY <1>2, <1>4, <2>1
  <2>6. A[l] = B[h - 1] /\ Val(a[j]) = Val(b[h])
    <3> DEFINE x == A[l]
               y == B[h - 1]
               u == Val(a[j])
               v == Val(b[h])
    <3>1. x \in Nat /\ y \in Nat /\ u \in 0 .. 9 /\ v \in 0 .. 9 /\ 10 * x + u = 10 * y + v
      BY <2>3, <2>4, <2>5
    <3> HIDE DEF x, y, u, v
    <3>2. x = y /\ u = v
      BY <3>1
    <3> QED BY <3>2 DEF x, y, u, v
  <2>7. a[j] = b[h]
    <3>1. Figures[Val(a[j]) + 1] = a[j] /\ Figures[Val(b[h]) + 1] = b[h]
      BY <1>4, <2>1, DigitIs
    <3> QED BY <2>6, <3>1
  <2>8. ASSUME NEW i \in 1 .. n, i > l PROVE a[i] = b[i + D]
    <3>1. i = j \/ i > j
      BY <2>1, <2>8
    <3>2. CASE i = j
      BY <2>7, <3>2 DEF h
    <3>3. CASE i > j
      BY <2>2, <3>3
    <3> QED BY <3>1, <3>2, <3>3
  <2>9. Same(l)
    BY <2>1, <2>6, <2>8
  <2> QED BY <2>1, <2>9
<1>8. Same(0)
  <2>1. \A k \in 0 .. n - 1 : k \in I => k + 1 \in I
    BY <1>7
  <2> HIDE DEF Same
  <2> DEFINE J == I
  <2>2. n \in J
    <3> HIDE DEF I
    <3>1. \A k \in 0 .. n : k \in I
      BY <1>3, <1>6, <2>1, Induction
    <3> QED BY <1>3, <3>1
  <2>3. n - n = 0
    BY <1>3
  <2> QED BY <2>2, <2>3
<1>9. D = 0
  <2> SUFFICES ASSUME D # 0 PROVE FALSE
    OBVIOUS
  <2>1. D \in 1 .. m /\ m > 1 /\ 1 \in 1 .. m
    BY <1>3
  <2>2. Val(b[1]) >= 1
    <3>1. Val(b[1]) # 0
      BY <1>4, <1>5, <2>1, DigitIs
    <3> QED BY <1>4, <2>1, <3>1
  <2> DEFINE Z == {i \in 0 .. m : i = 0 \/ B[i] >= 1}
  <2>3. ASSUME NEW i \in 0 .. m - 1, i \in Z PROVE i + 1 \in Z
    <3> DEFINE h == i + 1
    <3>1. h \in 1 .. m /\ h - 1 = i /\ h \in 0 .. m /\ i \in 0 .. m
      BY <1>3
    <3> HIDE DEF h
    <3>2. B[h] = 10 * B[i] + Val(b[h]) /\ B[i] \in Nat /\ Val(b[h]) \in 0 .. 9
      BY <1>2, <1>4, <3>1
    <3>3. i = 0 => h = 1
      BY <3>1
    <3>4. i = 0 => B[h] >= 1
      BY <2>2, <3>2, <3>3
    <3>5. i # 0 => B[h] >= 1
      BY <2>3, <3>2
    <3> QED BY <3>1, <3>4, <3>5 DEF h
  <2>4. \A i \in 0 .. m : i \in Z
    <3>1. 0 \in Z /\ \A i \in 0 .. m - 1 : i \in Z => i + 1 \in Z
      BY <1>3, <2>3
    <3> HIDE DEF Z
    <3> QED BY <1>3, <3>1, Induction
  <2>5. B[D] >= 1
    BY <2>1, <2>4
  <2>6. B[D] = 0
    <3>1. 0 + D = D
      BY <1>3
    <3> QED BY <1>1, <1>8, <3>1
  <2> QED BY <2>5, <2>6
<1>10. Len(a) = Len(b) /\ \A i \in 1 .. Len(a) : a[i] = b[i]
  <2>1. n = m /\ \A i \in 1 .. n : i + D = i /\ i > 0
    BY <1>3, <1>9
  <2>2. \A i \in 1 .. n : a[i] = b[i]
    BY <1>8, <2>1
  <2> QED BY <2>1, <2>2 DEF n, m
<1> QED BY <1>10, SeqEqual

\* A value has one decimal without zeros in front.
LEMMA DecimalIsUnique ==
  ASSUME NEW S, NEW a \in Seq(S), NEW b \in Seq(S), Decimal(a), Decimal(b),
         JSON!Index(a) = JSON!Index(b)
  PROVE  a = b
<1>1. Len(a) <= Len(b) \/ Len(b) <= Len(a)
  OBVIOUS
<1>2. CASE Len(a) <= Len(b)
  BY <1>2, DecimalIsLonger
<1>3. CASE Len(b) <= Len(a)
  <2>1. b = a
    BY <1>3, DecimalIsLonger
  <2> QED BY <2>1
<1> QED BY <1>1, <1>2, <1>3

\* What keys and pointers are written in.
Symbols == STRING \cup {"~", "/", "0", "1"}
Key == Seq(Symbols)

\* A set of characters with those of the escapes among them.
LEMMA SymbolsAre ==
  /\ HasEscapes(Symbols)
  /\ \A t \in Seq(STRING) : t \in Key
  /\ \A p \in Seq(Seq(STRING)) : p \in Seq(Key)
<1>1. HasEscapes(Symbols)
  BY Zenon DEF HasEscapes, Symbols
<1>m. ASSUME NEW A, NEW B, A \subseteq B, NEW t \in Seq(A) PROVE t \in Seq(B)
  <2>1. t \in [1 .. Len(t) -> A] /\ Len(t) \in Nat
    OBVIOUS
  <2>2. t \in [1 .. Len(t) -> B]
    BY <1>m, <2>1
  <2> QED BY <2>1, <2>2, SeqDef
<1>2. STRING \subseteq Symbols
  BY Zenon DEF Symbols
<1>3. Seq(STRING) \subseteq Key
  <2> DEFINE A == STRING
             B == Symbols
  <2>1. A \subseteq B
    BY <1>2
  <2> HIDE DEF A, B
  <2>2. Seq(A) \subseteq Seq(B)
    BY <1>m, <2>1
  <2> QED BY <2>2 DEF A, B, Key
<1>4. Seq(Seq(STRING)) \subseteq Seq(Key)
  <2> DEFINE A == Seq(STRING)
             B == Key
  <2>1. A \subseteq B
    BY <1>3
  <2> HIDE DEF A, B
  <2>2. Seq(A) \subseteq Seq(B)
    BY <1>m, <2>1
  <2> QED BY <2>2 DEF A, B
<1> QED BY <1>1, <1>3, <1>4

\* The parent of a place in a document and its last key.
Parent(p) == SubSeq(p, 1, Len(p) - 1)
Final(p) == p[Len(p)]

\* The parent of a place and its last key.
LEMMA ParentIs ==
  ASSUME NEW A, NEW e \in Seq(A), e # <<>>
  PROVE  /\ Parent(e) \in Seq(A) /\ Len(Parent(e)) = Len(e) - 1 /\ Final(e) \in A
         /\ e = Append(Parent(e), Final(e))
         /\ \A i \in 1 .. Len(e) - 1 : Parent(e)[i] = e[i]
<1>1. Len(e) \in Nat /\ Len(e) >= 1
  OBVIOUS
<1>2. Len(e) \in 1 .. Len(e) /\ Len(e) - 1 \in 0 .. Len(e)
  BY <1>1
<1>3. SubSeq(e, 1, Len(e)) = Append(SubSeq(e, 1, Len(e) - 1), e[Len(e)])
  BY <1>2, PrefixGrows
<1>4. SubSeq(e, 1, Len(e)) = e
  BY SubSeqFull
<1>5. e[Len(e)] \in A
  BY <1>2
<1> DEFINE l == Len(e) - 1
<1>6. l \in 0 .. Len(e)
  BY <1>2
<1> HIDE DEF l
<1>7. /\ SubSeq(e, 1, l) \in Seq(A) /\ Len(SubSeq(e, 1, l)) = l
      /\ \A j \in 1 .. l : SubSeq(e, 1, l)[j] = e[j]
  BY <1>6, PrefixTypes
<1> QED BY <1>3, <1>4, <1>5, <1>7 DEF l, Parent, Final

\* A place with one key more.
LEMMA ChildIs ==
  ASSUME NEW A, NEW p \in Seq(A), NEW k \in A
  PROVE  /\ Append(p, k) \in Seq(A) /\ Len(Append(p, k)) = Len(p) + 1
         /\ IsPrefix(p, Append(p, k)) /\ Final(Append(p, k)) = k
         /\ Append(p, k) # <<>> /\ Parent(Append(p, k)) = p
         /\ \A i \in 1 .. Len(p) : Append(p, k)[i] = p[i]
<1> DEFINE e == Append(p, k)
<1>1. /\ e \in Seq(A) /\ e # <<>> /\ Len(e) = Len(p) + 1 /\ e[Len(p) + 1] = k
      /\ \A i \in 1 .. Len(p) : e[i] = p[i]
  BY AppendProperties
<1>2. IsPrefix(p, e)
  BY PrefixAppend
<1> HIDE DEF e
<1>3. Final(e) = k
  BY <1>1 DEF Final
<1>4. /\ Parent(e) \in Seq(A) /\ Len(Parent(e)) = Len(e) - 1
      /\ \A i \in 1 .. Len(e) - 1 : Parent(e)[i] = e[i]
  BY ParentIs, <1>1
<1>5. Len(p) \in Nat
  OBVIOUS
<1>6. Len(Parent(e)) = Len(p) /\ \A i \in 1 .. Len(Parent(e)) : Parent(e)[i] = p[i]
  BY <1>1, <1>4, <1>5
<1>7. Parent(e) = p
  BY <1>4, <1>6, SeqEqual
<1> QED BY <1>1, <1>2, <1>3, <1>7 DEF e

\* A place that extends another by one key.
LEMMA ChildOf ==
  ASSUME NEW A, NEW p \in Seq(A), NEW e \in Seq(A), Len(e) = Len(p) + 1, IsPrefix(p, e)
  PROVE  e # <<>> /\ Parent(e) = p /\ e = Append(p, Final(e)) /\ Final(e) \in A
<1>1. Len(p) \in Nat /\ Len(p) <= Len(e) /\ \A i \in 1 .. Len(p) : p[i] = e[i]
  BY PrefixMeans
<1>2. e # <<>>
  BY <1>1
<1>3. /\ Parent(e) \in Seq(A) /\ Len(Parent(e)) = Len(e) - 1 /\ Final(e) \in A
      /\ e = Append(Parent(e), Final(e))
      /\ \A i \in 1 .. Len(e) - 1 : Parent(e)[i] = e[i]
  BY ParentIs, <1>2
<1>4. Len(Parent(e)) = Len(p) /\ \A i \in 1 .. Len(Parent(e)) : Parent(e)[i] = p[i]
  BY <1>1, <1>3
<1>5. Parent(e) = p
  BY <1>3, <1>4, SeqEqual
<1> QED BY <1>2, <1>3, <1>5

\* The documents the tools work on: those of the files, and a number cut short.
Arrayed(doc, p) ==
  LET elements == JSON!Children(doc, p) IN
  /\ Cardinality(elements) <= LargestIndex + 1
  /\ \A e \in elements : Decimal(Final(e)) /\ JSON!Index(Final(e)) < Cardinality(elements)
  /\ \A i \in 0 .. Cardinality(elements) - 1 : \E e \in elements : JSON!Index(Final(e)) = i
WellFormed(doc) ==
  /\ IsFiniteSet(DOMAIN doc) /\ <<>> \in DOMAIN doc /\ DOMAIN doc \subseteq Seq(Key)
  /\ \A p \in DOMAIN doc : p # <<>> => /\ Parent(p) \in DOMAIN doc
                                       /\ doc[Parent(p)] \in {"object", "array"}
  /\ \A p \in DOMAIN doc : doc[p] = "array" => Arrayed(doc, p)

\* The children of a value are the places with one key more.
LEMMA ChildrenAre ==
  ASSUME NEW doc, WellFormed(doc), NEW path \in DOMAIN doc
  PROVE  /\ IsFiniteSet(JSON!Children(doc, path)) /\ JSON!Children(doc, path) \subseteq DOMAIN doc
         /\ Cardinality(JSON!Children(doc, path)) \in Nat
         /\ \A e \in JSON!Children(doc, path) : e = Append(path, Final(e)) /\ Final(e) \in Key
         /\ \A k \in Key : Append(path, k) \in DOMAIN doc =>
              Append(path, k) \in JSON!Children(doc, path) /\ Final(Append(path, k)) = k
<1> DEFINE C == JSON!Children(doc, path)
<1>1. C = {p \in DOMAIN doc : Len(p) = Len(path) + 1 /\ IsPrefix(path, p)}
  BY JsonNames DEF JSON!Children
<1>2. IsFiniteSet(DOMAIN doc) /\ DOMAIN doc \subseteq Seq(Key) /\ path \in Seq(Key)
  BY DEF WellFormed
<1> HIDE DEF C
<1>3. C \subseteq DOMAIN doc
  BY <1>1
<1>4. IsFiniteSet(C) /\ Cardinality(C) \in Nat
  BY <1>2, <1>3, FS_Subset, FS_CardinalityType
<1>5. ASSUME NEW e \in C PROVE e = Append(path, Final(e)) /\ Final(e) \in Key
  <2>1. e \in Seq(Key) /\ Len(e) = Len(path) + 1 /\ IsPrefix(path, e)
    BY <1>1, <1>2
  <2> DEFINE A == Key
  <2>2. path \in Seq(A) /\ e \in Seq(A)
    BY <1>2, <2>1
  <2> HIDE DEF A
  <2>3. e = Append(path, Final(e)) /\ Final(e) \in A
    BY <2>1, <2>2, ChildOf
  <2> QED BY <2>3 DEF A
<1>6. ASSUME NEW k \in Key, Append(path, k) \in DOMAIN doc
      PROVE  Append(path, k) \in C /\ Final(Append(path, k)) = k
  <2> DEFINE A == Key
  <2>2. path \in Seq(A) /\ k \in A
    BY <1>2
  <2> HIDE DEF A
  <2>3. /\ Len(Append(path, k)) = Len(path) + 1 /\ IsPrefix(path, Append(path, k))
        /\ Final(Append(path, k)) = k
    BY <2>2, ChildIs
  <2> QED BY <1>1, <1>6, <2>3
<1> QED BY <1>3, <1>4, <1>5, <1>6 DEF C

\* A key and a token that names it: itself, or another way to write an index.
Named(k, piece) ==
  \/ k = piece
  \/ Decimal(k) /\ JSON!non_negative_integer(piece) /\ JSON!Index(k) = JSON!Index(piece)

Results(doc) == [found : BOOLEAN, path : DOMAIN doc]
Leads(doc, path, piece, r) ==
  /\ r \in Results(doc)
  /\ ~r.found => r.path = <<>>
  /\ r.found => \E k \in Key : r.path = Append(path, k) /\ Named(k, piece)

\* non_negative_integer accepts figures only, and its value is a number.
LEMMA NumeralMeans ==
  ASSUME NEW S, NEW t \in Seq(S)
  PROVE  /\ JSON!non_negative_integer(t) <=> t # <<>> /\ Numeral(t)
         /\ Numeral(t) => JSON!Index(t) \in Nat
         /\ Decimal(t) => JSON!non_negative_integer(t)
<1>1. DOMAIN t = 1 .. Len(t) /\ Len(t) \in Nat
  OBVIOUS
<1>2. JSON!non_negative_integer(t) <=> t # <<>> /\ Numeral(t)
  BY <1>1 DEF JSON!non_negative_integer, Numeral, IsDigit
<1>3. ASSUME Numeral(t) PROVE JSON!Index(t) \in Nat
  <2> DEFINE X == JSON!IndexScan(t)
  <2>1. JSON!Index(t) = X[Len(t)] /\ \A i \in 0 .. Len(t) : X[i] \in Nat
    BY <1>3, IndexTurns
  <2> HIDE DEF X
  <2> QED BY <1>1, <2>1
<1> QED BY <1>2, <1>3 DEF Decimal

\* An index smaller than the number of elements names one element.
LEMMA ElementIs ==
  ASSUME NEW doc, WellFormed(doc), NEW path \in DOMAIN doc, doc[path] = "array",
         NEW index \in Nat, index < Cardinality(JSON!Children(doc, path))
  PROVE  LET e == JSON!Element(doc, path, index) IN
         /\ e \in JSON!Children(doc, path) /\ JSON!Index(Final(e)) = index
         /\ Decimal(Final(e))
         /\ \A k \in Key : Append(path, k) \in DOMAIN doc /\ JSON!Index(k) = index =>
              e = Append(path, k)
<1> DEFINE e == JSON!Element(doc, path, index)
           C == JSON!Children(doc, path)
<1>1. Arrayed(doc, path)
  BY DEF WellFormed
<1>2. /\ \A x \in C : Decimal(Final(x)) /\ x = Append(path, Final(x)) /\ Final(x) \in Key
      /\ \A k \in Key : Append(path, k) \in DOMAIN doc => Append(path, k) \in C /\ Final(Append(path, k)) = k
  BY <1>1, ChildrenAre DEF Arrayed
<1>3. \E x \in C : JSON!Index(Final(x)) = index
  <2> DEFINE c == Cardinality(C)
  <2>1. c \in Nat /\ index < c
    BY ChildrenAre
  <2> HIDE DEF c
  <2>2. index \in 0 .. c - 1
    BY <2>1
  <2> QED BY <1>1, <2>2 DEF Arrayed, c
<1>4. e = CHOOSE x \in C : JSON!Index(Final(x)) = index
  BY JsonNames DEF JSON!Element, Final
<1> HIDE DEF e, C
<1>5. e \in C /\ JSON!Index(Final(e)) = index
  BY <1>3, <1>4
<1>6. ASSUME NEW k \in Key, Append(path, k) \in DOMAIN doc, JSON!Index(k) = index
      PROVE  e = Append(path, k)
  <2>1. Append(path, k) \in C /\ Final(Append(path, k)) = k
    BY <1>2, <1>6
  <2>2. Decimal(k)
    BY <1>2, <2>1
  <2>3. Decimal(Final(e)) /\ Final(e) \in Key /\ e = Append(path, Final(e))
    BY <1>2, <1>5
  <2>4. Final(e) = k
    BY <1>5, <1>6, <2>2, <2>3, DecimalIsUnique DEF Key
  <2> QED BY <2>3, <2>4
<1> QED BY <1>2, <1>5, <1>6 DEF e, C

\* One turn of resolve_pointer leads to a child that the token names or nowhere.
LEMMA StepLeads ==
  ASSUME NEW doc, WellFormed(doc), NEW path \in DOMAIN doc, NEW piece \in Key
  PROVE  Leads(doc, path, piece, JSON!Step(doc, path, piece))
<1> DEFINE r == JSON!Step(doc, path, piece)
<1>0. <<>> \in DOMAIN doc
  BY DEF WellFormed
<1>1. ASSUME r = JSON!None PROVE Leads(doc, path, piece, r)
  <2>1. r = [found |-> FALSE, path |-> <<>>]
    BY <1>1 DEF JSON!None
  <2> HIDE DEF r
  <2> QED BY <1>0, <2>1 DEF Leads, Results
<1>2. ASSUME NEW k \in Key, Append(path, k) \in DOMAIN doc, Named(k, piece),
             r = JSON!At(Append(path, k))
      PROVE  Leads(doc, path, piece, r)
  <2> DEFINE q == Append(path, k)
  <2>1. r = [found |-> TRUE, path |-> q] /\ q \in DOMAIN doc
    BY <1>2 DEF JSON!At
  <2> HIDE DEF r
  <2>2. r.path = Append(path, k)
    BY <2>1
  <2> HIDE DEF q
  <2>3. r \in Results(doc) /\ r.found
    BY <2>1 DEF Results
  <2> QED BY <1>2, <2>2, <2>3 DEF Leads
<1>3. CASE doc[path] = "object"
  <2>1. r = IF Append(path, piece) \in DOMAIN doc THEN JSON!At(Append(path, piece)) ELSE JSON!None
    BY <1>3 DEF JSON!Step
  <2>2. Named(piece, piece)
    BY DEF Named
  <2> QED BY <1>1, <1>2, <2>1, <2>2
<1>4. CASE doc[path] = "array"
  <2> DEFINE C == JSON!Children(doc, path)
             e == JSON!Element(doc, path, JSON!Index(piece))
             fits == /\ JSON!non_negative_integer(piece)
                     /\ JSON!Index(piece) <= LargestIndex
                     /\ JSON!Index(piece) < Cardinality(C)
  <2>1. r = IF fits THEN JSON!At(e) ELSE JSON!None
    BY <1>4, JsonNames DEF JSON!Step
  <2>2. ASSUME fits PROVE Leads(doc, path, piece, r)
    <3>1. JSON!Index(piece) \in Nat
      BY <2>2, NumeralMeans DEF Key
    <3>2. e \in C /\ JSON!Index(Final(e)) = JSON!Index(piece) /\ Decimal(Final(e))
      BY <1>4, <2>2, <3>1, ElementIs
    <3>3. e = Append(path, Final(e)) /\ Final(e) \in Key /\ e \in DOMAIN doc
      BY <3>2, ChildrenAre
    <3>4. Named(Final(e), piece)
      BY <2>2, <3>2 DEF Named
    <3>5. r = JSON!At(Append(path, Final(e)))
      BY <2>1, <2>2, <3>3
    <3> HIDE DEF r, e
    <3> QED BY <1>2, <3>3, <3>4, <3>5
  <2> HIDE DEF fits
  <2> QED BY <1>1, <2>1, <2>2
<1>5. CASE doc[path] # "object" /\ doc[path] # "array"
  <2>1. r = JSON!None
    BY <1>5 DEF JSON!Step
  <2> QED BY <1>1, <2>1
<1> QED BY <1>3, <1>4, <1>5

\* One turn of resolve_pointer with the key of a child leads to it.
LEMMA StepReaches ==
  ASSUME NEW doc, WellFormed(doc), NEW path \in DOMAIN doc, NEW k \in Key,
         Append(path, k) \in DOMAIN doc
  PROVE  JSON!Step(doc, path, k) = JSON!At(Append(path, k))
<1> DEFINE q == Append(path, k)
           C == JSON!Children(doc, path)
<1>1. q \in C /\ Final(q) = k /\ Cardinality(C) \in Nat
  BY ChildrenAre
<1>2. doc[path] \in {"object", "array"}
  <2>1. path \in Seq(Key)
    BY DEF WellFormed
  <2> DEFINE A == Key
  <2>2. path \in Seq(A) /\ k \in A
    BY <2>1
  <2> HIDE DEF A
  <2>3. q # <<>> /\ Parent(q) = path
    BY <2>2, ChildIs
  <2> HIDE DEF q
  <2>4. q \in DOMAIN doc
    BY DEF q
  <2> QED BY <2>3, <2>4 DEF WellFormed
<1>3. CASE doc[path] = "object"
  BY <1>3 DEF JSON!Step
<1>4. CASE doc[path] = "array"
  <2>1. Arrayed(doc, path)
    BY <1>4 DEF WellFormed
  <2>2. /\ Decimal(k) /\ JSON!Index(k) < Cardinality(C)
        /\ Cardinality(C) <= LargestIndex + 1 /\ LargestIndex \in Nat
    BY <1>1, <2>1, LimitsAssumption DEF Arrayed
  <2>3. JSON!non_negative_integer(k) /\ JSON!Index(k) \in Nat
    BY <2>2, NumeralMeans DEF Key, Decimal
  <2> HIDE DEF C
  <2>4. JSON!Index(k) <= LargestIndex
    BY <1>1, <2>2, <2>3
  <2>5. JSON!Element(doc, path, JSON!Index(k)) = q
    BY <1>4, <2>2, <2>3, ElementIs DEF C
  <2> HIDE DEF q
  <2>6. /\ JSON!non_negative_integer(k) /\ JSON!Index(k) <= LargestIndex
        /\ JSON!Index(k) < JSON!Cardinality(JSON!Children(doc, path))
    BY <2>2, <2>3, <2>4, JsonNames DEF C
  <2>7. JSON!Step(doc, path, k) = JSON!At(JSON!Element(doc, path, JSON!Index(k)))
    BY <1>4, <2>6 DEF JSON!Step
  <2> QED BY <2>5, <2>7 DEF q
<1> QED BY <1>2, <1>3, <1>4

\* An unescaped token is a key.
LEMMA UnescapedKey ==
  ASSUME NEW t \in Key
  PROVE  JSON!unescape_pointer_token(t) \in Key
<1> DEFINE U == JSON!UnescapeScan(t)
           A == Symbols
<1>1. HasEscapes(A) /\ t \in Seq(A)
  BY SymbolsAre DEF Key
<1> HIDE DEF A
<1>2. \A i \in 0 .. Len(t) : U[i] \in UnescapeStates(A)
  BY <1>1, UnescapeTurns
<1>3. JSON!unescape_pointer_token(t) = U[Len(t)].out
  BY DEF JSON!unescape_pointer_token
<1> HIDE DEF U
<1>4. U[Len(t)].out \in Seq(A)
  <2>1. Len(t) \in 0 .. Len(t)
    BY <1>1
  <2> QED BY <1>2, <2>1 DEF UnescapeStates
<1> QED BY <1>3, <1>4 DEF A, Key

ResolveStep(doc, r, piece) ==
  IF r.found THEN JSON!Step(doc, r.path, JSON!unescape_pointer_token(piece)) ELSE JSON!None

\* The results of resolve_pointer: a value or none.
LEMMA ResultsAre ==
  ASSUME NEW doc, WellFormed(doc)
  PROVE  /\ JSON!None \in Results(doc) /\ ~JSON!None.found /\ JSON!None.path = <<>>
         /\ \A p \in DOMAIN doc : JSON!At(p) \in Results(doc) /\ JSON!At(p).found /\ JSON!At(p).path = p
         /\ JSON!At(<<>>) \in Results(doc)
<1>1. <<>> \in DOMAIN doc
  BY DEF WellFormed
<1> QED BY <1>1 DEF Results, JSON!None, JSON!At

\* The loop of resolve_pointer, token by token.
LEMMA ResolveTurns ==
  ASSUME NEW doc, WellFormed(doc), NEW tokens \in Seq(Key)
  PROVE  LET R == JSON!Resolve(doc, tokens) IN
         /\ R[0] = JSON!At(<<>>)
         /\ \A j \in 0 .. Len(tokens) : R[j] \in Results(doc)
         /\ \A j \in 1 .. Len(tokens) : R[j] = ResolveStep(doc, R[j - 1], tokens[j])
<1> DEFINE n == Len(tokens)
           L == Results(doc)
           s0 == JSON!At(<<>>)
           Turn(r, j) == ResolveStep(doc, r, tokens[j])
           T == [i \in 1 .. n |-> [r \in L |-> Turn(r, i)]]
           R == JSON!Resolve(doc, tokens)
<1>1. s0 \in L /\ n \in Nat
  BY ResultsAre
<1>2. ASSUME NEW i \in 1 .. n, NEW r \in L PROVE Turn(r, i) \in L
  <2>1. tokens[i] \in Key /\ r.path \in DOMAIN doc
    BY DEF Results
  <2>2. JSON!unescape_pointer_token(tokens[i]) \in Key
    BY <2>1, UnescapedKey
  <2>3. JSON!Step(doc, r.path, JSON!unescape_pointer_token(tokens[i])) \in L
    BY <2>1, <2>2, StepLeads DEF Leads
  <2>4. JSON!None \in L
    BY ResultsAre
  <2> HIDE DEF L
  <2> QED BY <2>3, <2>4 DEF ResolveStep
<1>3. T \in [1 .. n -> [L -> L]]
  <2> HIDE DEF L, Turn, n
  <2> QED BY <1>2
<1> HIDE DEF L, T, Turn, s0, n
<1>4. PICK g \in [0 .. n -> L] : IsScan(g, n, s0, T)
  BY <1>1, <1>3, Recursion
<1>5. g = [i \in 0 .. n |-> IF i = 0 THEN s0 ELSE Turn(g[i - 1], i)]
  <2>1. ASSUME NEW i \in 0 .. n
        PROVE  g[i] = IF i = 0 THEN s0 ELSE Turn(g[i - 1], i)
    <3>1. g[i] = IF i = 0 THEN s0 ELSE T[i][g[i - 1]]
      BY <1>4 DEF IsScan
    <3>2. i # 0 => i \in 1 .. n /\ g[i - 1] \in L
      BY <1>1, <1>4
    <3> QED BY <3>1, <3>2 DEF T
  <2> QED BY <2>1
<1>6. \E h : h = [i \in 0 .. n |-> IF i = 0 THEN s0 ELSE Turn(h[i - 1], i)]
  BY <1>5
<1>7. R = [i \in 0 .. n |-> IF i = 0 THEN s0 ELSE Turn(R[i - 1], i)]
  BY <1>6 DEF JSON!Resolve, Turn, s0, n, ResolveStep
<1> HIDE DEF R
<1>8. R[0] = s0
  BY <1>1, <1>7
<1>9. \A i \in 1 .. n : R[i] = Turn(R[i - 1], i)
  BY <1>1, <1>7
<1>10. \A i \in 1 .. n : R[i - 1] \in L => R[i] \in L
  BY <1>2, <1>9
<1>11. \A i \in 0 .. n : R[i] \in L
  BY <1>1, <1>8, <1>10, ScanTypes
<1> QED BY <1>8, <1>9, <1>11 DEF R, L, Turn, s0, n

\* A path that tokens name, one by one.
NamedBy(path, tokens, n) ==
  /\ Len(path) = n
  /\ \A i \in 1 .. n : Named(path[i], JSON!unescape_pointer_token(tokens[i]))

\* Where resolve_pointer leads is named by the tokens, key by key.
LEMMA ResolveNames ==
  ASSUME NEW doc, WellFormed(doc), NEW tokens \in Seq(Key)
  PROVE  LET r == JSON!Resolve(doc, tokens)[Len(tokens)] IN
         /\ r \in Results(doc) /\ (~r.found => r.path = <<>>)
         /\ r.found => NamedBy(r.path, tokens, Len(tokens))
<1> DEFINE n == Len(tokens)
           R == JSON!Resolve(doc, tokens)
           key(i) == JSON!unescape_pointer_token(tokens[i])
           Good(j) == /\ ~R[j].found => R[j].path = <<>>
                      /\ R[j].found => NamedBy(R[j].path, tokens, j)
           I == {j \in 0 .. n : Good(j)}
<1>1. n \in Nat /\ \A i \in 1 .. n : tokens[i] \in Key /\ key(i) \in Key
  BY UnescapedKey
<1>2. /\ R[0] = JSON!At(<<>>) /\ \A j \in 0 .. n : R[j] \in Results(doc)
      /\ \A j \in 1 .. n : R[j] = ResolveStep(doc, R[j - 1], tokens[j])
  BY ResolveTurns
<1>3. DOMAIN doc \subseteq Seq(Key)
  BY DEF WellFormed
<1> HIDE DEF R, n, key
<1>4. 0 \in I
  <2>1. R[0].found /\ R[0].path = <<>>
    BY <1>2 DEF JSON!At
  <2>2. NamedBy(<<>>, tokens, 0)
    BY DEF NamedBy
  <2> QED BY <1>1, <2>1, <2>2
<1>5. ASSUME NEW k \in 0 .. n - 1, k \in I PROVE k + 1 \in I
  <2> DEFINE j == k + 1
             p == R[k].path
             r == R[j]
  <2>1. j \in 1 .. n /\ j \in 0 .. n /\ j - 1 = k /\ k \in 0 .. n /\ k \in Nat
    BY <1>1
  <2>2. Good(k)
    BY <1>5
  <2> HIDE DEF j
  <2>3. r = ResolveStep(doc, R[k], tokens[j])
    BY <1>2, <2>1
  <2>4. CASE ~R[k].found
    <3>1. r = JSON!None
      BY <2>3, <2>4 DEF ResolveStep
    <3>2. ~r.found /\ r.path = <<>>
      BY <3>1, ResultsAre
    <3> QED BY <2>1, <3>2 DEF j
  <2>5. CASE R[k].found
    <3>1. p \in DOMAIN doc /\ p \in Seq(Key) /\ key(j) \in Key
      BY <1>1, <1>2, <1>3, <2>1 DEF Results
    <3>2. NamedBy(p, tokens, k)
      BY <2>2, <2>5
    <3>3. r = JSON!Step(doc, p, key(j))
      BY <2>3, <2>5 DEF ResolveStep, key
    <3> HIDE DEF r, p
    <3>4. Leads(doc, p, key(j), r)
      BY <3>1, <3>3, StepLeads
    <3>5. ASSUME r.found PROVE NamedBy(r.path, tokens, j)
      <4>1. PICK q \in Key : r.path = Append(p, q) /\ Named(q, key(j))
        BY <3>4, <3>5 DEF Leads
      <4> DEFINE A == Key
      <4>2. p \in Seq(A) /\ q \in A
        BY <3>1
      <4> HIDE DEF A
      <4> DEFINE u == Append(p, q)
      <4>3. Len(u) = Len(p) + 1 /\ (\A i \in 1 .. Len(p) : u[i] = p[i]) /\ u[Len(p) + 1] = q
        BY <4>2, AppendProperties
      <4>4. Len(p) = k /\ \A i \in 1 .. k : Named(p[i], key(i))
        BY <3>2 DEF NamedBy, key
      <4> HIDE DEF u
      <4>5. Len(u) = j /\ \A i \in 1 .. k : u[i] = p[i]
        BY <2>1, <4>3, <4>4
      <4>6. u[j] = q
        BY <2>1, <4>3, <4>4 DEF j
      <4>7. \A i \in 1 .. j : i \in 1 .. k \/ i = j
        BY <2>1
      <4>8. \A i \in 1 .. j : Named(u[i], key(i))
        BY <4>1, <4>4, <4>5, <4>6, <4>7
      <4>9. NamedBy(u, tokens, j)
        BY <4>5, <4>8 DEF NamedBy, key
      <4> QED BY <4>1, <4>9 DEF u
    <3>6. ~r.found => r.path = <<>>
      BY <3>4 DEF Leads
    <3>7. Good(j)
      BY <3>5, <3>6 DEF r
    <3> QED BY <2>1, <3>7 DEF j
  <2> QED BY <2>4, <2>5
<1>6. Good(n)
  <2> HIDE DEF Good
  <2>1. \A j \in 0 .. n - 1 : j \in I => j + 1 \in I
    BY <1>5
  <2> HIDE DEF I
  <2>2. \A j \in 0 .. n : j \in I
    BY <1>1, <1>4, <2>1, Induction
  <2>3. n \in I
    BY <1>1, <2>2
  <2> QED BY <2>3 DEF I
<1>7. R[n] \in Results(doc)
  BY <1>1, <1>2
<1> QED BY <1>6, <1>7 DEF R, n

\* The tokens that mean the keys of a value lead to it.
LEMMA ResolveReaches ==
  ASSUME NEW doc, WellFormed(doc), NEW tokens \in Seq(Key), NEW path \in DOMAIN doc,
         Len(path) = Len(tokens),
         \A j \in 1 .. Len(path) : JSON!unescape_pointer_token(tokens[j]) = path[j]
  PROVE  JSON!Resolve(doc, tokens)[Len(tokens)] = JSON!At(path)
<1> DEFINE n == Len(tokens)
           R == JSON!Resolve(doc, tokens)
           A == Key
           to(j) == SubSeq(path, 1, j)
           I == {k \in 0 .. n : to(n - k) \in DOMAIN doc}
           J == {j \in 0 .. n : R[j] = JSON!At(to(j))}
<1>1. n \in Nat /\ path \in Seq(A) /\ Len(path) = n
  BY DEF WellFormed
<1>2. /\ R[0] = JSON!At(<<>>)
      /\ \A j \in 1 .. n : R[j] = ResolveStep(doc, R[j - 1], tokens[j])
  BY ResolveTurns
<1>3. \A j \in 1 .. n : path[j] \in A /\ JSON!unescape_pointer_token(tokens[j]) = path[j]
  BY <1>1
<1> HIDE DEF R, n, A
<1>4. to(n) = path /\ to(0) = <<>>
  BY <1>1, SubSeqFull, SubSeqEmpty
<1>5. ASSUME NEW j \in 1 .. n
      PROVE  /\ to(j) = Append(to(j - 1), path[j]) /\ to(j) \in Seq(A) /\ to(j - 1) \in Seq(A)
             /\ Parent(to(j)) = to(j - 1) /\ to(j) # <<>>
  <2> DEFINE i == j - 1
  <2>1. j \in 1 .. Len(path) /\ i \in 0 .. Len(path) /\ j \in 0 .. Len(path)
    BY <1>1
  <2>2. to(j) = Append(to(j - 1), path[j])
    BY <1>1, <2>1, PrefixGrows
  <2>3. to(j) \in Seq(A)
    BY <1>1, <2>1, PrefixTypes
  <2> HIDE DEF i
  <2>4. to(i) \in Seq(A)
    BY <1>1, <2>1, PrefixTypes
  <2>5. path[j] \in A
    BY <1>3
  <2> DEFINE p == to(i)
             k == path[j]
  <2> HIDE DEF p, k
  <2>6. Parent(Append(p, k)) = p /\ Append(p, k) # <<>>
    BY <2>4, <2>5, ChildIs DEF p, k
  <2> QED BY <2>2, <2>3, <2>4, <2>6 DEF p, k, i
<1> HIDE DEF to
<1>6. \A j \in 0 .. n : to(j) \in DOMAIN doc
  <2>1. 0 \in I
    <3>1. n - 0 = n /\ 0 \in 0 .. n
      BY <1>1
    <3> QED BY <1>4, <3>1
  <2>2. ASSUME NEW k \in 0 .. n - 1, k \in I PROVE k + 1 \in I
    <3> DEFINE j == n - k
    <3>1. j \in 1 .. n /\ n - (k + 1) = j - 1 /\ k + 1 \in 0 .. n
      BY <1>1
    <3>2. to(j) \in DOMAIN doc
      BY <2>2
    <3> HIDE DEF j
    <3>3. Parent(to(j)) \in DOMAIN doc
      BY <1>5, <3>1, <3>2 DEF WellFormed
    <3>4. to(j - 1) \in DOMAIN doc
      BY <1>5, <3>1, <3>3
    <3> QED BY <3>1, <3>4
  <2>3. \A k \in 0 .. n : k \in I
    <3> HIDE DEF I
    <3> QED BY <1>1, <2>1, <2>2, Induction
  <2>4. ASSUME NEW j \in 0 .. n PROVE to(j) \in DOMAIN doc
    <3> DEFINE k == n - j
    <3>1. k \in 0 .. n /\ n - k = j
      BY <1>1
    <3> HIDE DEF k
    <3>2. to(n - k) \in DOMAIN doc
      BY <2>3, <3>1
    <3> QED BY <3>1, <3>2
  <2> QED BY <2>4
<1>7. 0 \in J
  BY <1>1, <1>2, <1>4
<1>8. ASSUME NEW i \in 0 .. n - 1, i \in J PROVE i + 1 \in J
  <2> DEFINE j == i + 1
             p == to(i)
             k == path[j]
  <2>1. j \in 1 .. n /\ j - 1 = i /\ i \in 0 .. n /\ j \in 0 .. n
    BY <1>1
  <2> HIDE DEF j
  <2>2. R[j] = ResolveStep(doc, R[i], tokens[j]) /\ R[i] = JSON!At(p)
    BY <1>2, <1>8, <2>1
  <2>3. p \in DOMAIN doc /\ to(j) \in DOMAIN doc /\ to(j) = Append(p, k) /\ k \in Key
    BY <1>3, <1>5, <1>6, <2>1 DEF A
  <2>4. R[i].found /\ R[i].path = p
    BY <2>2, <2>3, ResultsAre
  <2>5. R[j] = JSON!Step(doc, p, k)
    BY <1>3, <2>1, <2>2, <2>4 DEF ResolveStep
  <2> HIDE DEF p, k
  <2>6. JSON!Step(doc, p, k) = JSON!At(Append(p, k))
    BY <2>3, StepReaches
  <2>7. R[j] = JSON!At(to(j))
    BY <2>3, <2>5, <2>6
  <2> QED BY <2>1, <2>7 DEF j
<1>9. n \in J
  <2>1. \A i \in 0 .. n - 1 : i \in J => i + 1 \in J
    BY <1>8
  <2> HIDE DEF J
  <2>2. \A i \in 0 .. n : i \in J
    BY <1>1, <1>7, <2>1, Induction
  <2> QED BY <1>1, <2>2
<1> QED BY <1>4, <1>9 DEF R, n

\* A key without "~" and "/" is written as it is.
LEMMA PlainEscape ==
  ASSUME NEW S, HasEscapes(S), NEW key \in Seq(S), \A i \in 1 .. Len(key) : ~Special(key[i])
  PROVE  JSON!Escape(key) = key
<1> DEFINE E == JSON!EscapeScan(key)
           n == Len(key)
           I == {i \in 0 .. n : E[i] = SubSeq(key, 1, i)}
<1>1. n \in Nat /\ \A i \in 1 .. n : key[i] \in S /\ ~Special(key[i])
  OBVIOUS
<1>2. /\ E[0] = <<>> /\ \A i \in 0 .. n : E[i] \in Seq(S)
      /\ \A i \in 1 .. n : E[i] = E[i - 1] \o JSON!Escaped(key[i])
  BY EscapeTurns
<1>3. JSON!Escape(key) = E[n]
  BY DEF JSON!Escape
<1> HIDE DEF E, n
<1>4. 0 \in I
  <2>1. SubSeq(key, 1, 0) = <<>>
    BY SubSeqEmpty
  <2> QED BY <1>1, <1>2, <2>1
<1>5. ASSUME NEW k \in 0 .. n - 1, k \in I PROVE k + 1 \in I
  <2> DEFINE i == k + 1
  <2>1. i \in 1 .. n /\ i \in 0 .. n /\ i - 1 = k /\ k \in 0 .. n
    BY <1>1
  <2> HIDE DEF i
  <2> DEFINE c == key[i]
             p == SubSeq(key, 1, k)
  <2>2. c \in S /\ ~Special(c) /\ E[k] = p /\ E[k] \in Seq(S)
    BY <1>1, <1>2, <1>5, <2>1
  <2>3. E[i] = E[k] \o JSON!Escaped(c)
    BY <1>2, <2>1
  <2>4. SubSeq(key, 1, i) = Append(p, c)
    BY <2>1, PrefixGrows DEF n
  <2> HIDE DEF c, p
  <2>5. JSON!Escaped(c) = <<c>>
    BY <2>2, Zenon DEF Special, JSON!Escaped
  <2>6. p \o <<c>> = Append(p, c)
    BY <2>2, ConcatIsAppend
  <2> QED BY <2>1, <2>2, <2>3, <2>4, <2>5, <2>6 DEF i
<1>6. E[n] = SubSeq(key, 1, n)
  <2>1. \A k \in 0 .. n - 1 : k \in I => k + 1 \in I
    BY <1>5
  <2> HIDE DEF I
  <2>2. \A k \in 0 .. n : k \in I
    BY <1>1, <1>4, <2>1, Induction
  <2>3. n \in I
    BY <1>1, <2>2
  <2> QED BY <2>3 DEF I
<1> QED BY <1>3, <1>6, SubSeqFull DEF n

\* A "~" of a pointer that escapes nothing.
Stray(s) == \E i \in 1 .. Len(s) : s[i] = "~" /\ ~Escapes(s, i)

\* No token has a "/", and without a stray "~" each of them is clean.
LEMMA TokensAreClean ==
  ASSUME NEW S, NEW s \in Seq(S), ~Stray(s), NEW j \in 1 .. Len(JSON!Tokens(s))
  PROVE  WellEscaped(JSON!Tokens(s)[j])
<1> DEFINE m == Cardinality(JSON!Slashes(s))
           e == EndsOfTokens(s)
           t == JSON!Tokens(s)[j]
           a == e[j]
           b == e[j + 1]
<1>1. Len(JSON!Tokens(s)) = m /\ \A k \in 1 .. m : JSON!Tokens(s)[k] = SubSeq(s, e[k] + 1, e[k + 1] - 1)
  BY TokensAre
<1>2. Ended(s, m, e)
  BY TokenEnds
<1> HIDE DEF m, e
<1>3. j \in 1 .. m
  BY <1>1
<1>4. t = SubSeq(s, a + 1, b - 1)
  BY <1>1, <1>3
<1>5. /\ a \in 1 .. Len(s) /\ b \in 1 .. Len(s) + 1 /\ a < b
      /\ \A p \in 1 .. Len(s) : a < p /\ p < b => ~Slash(s[p])
  BY <1>2, <1>3 DEF Ended
<1>6. b \in 1 .. Len(s) => Slash(s[b])
  <2>1. j = m \/ j + 1 \in 1 .. m
    BY <1>2, <1>3 DEF Ended
  <2>2. e[m + 1] = Len(s) + 1 /\ \A k \in 1 .. m : Slash(s[e[k]])
    BY <1>2 DEF Ended
  <2>3. CASE j = m
    BY <2>2, <2>3
  <2>4. CASE j + 1 \in 1 .. m
    BY <2>2, <2>4
  <2> QED BY <2>1, <2>3, <2>4
<1> HIDE DEF a, b, t
<1>7. Len(s) \in Nat /\ \A i \in 1 .. Len(s) : s[i] \in S
  OBVIOUS
<1>8. \A i \in 1 .. Len(s) : s[i] = "~" => i < Len(s) /\ s[i + 1] \in {"0", "1"}
  BY DEF Stray, Escapes
<1>9. /\ Len(t) = b - a - 1 /\ \A i \in 1 .. b - a - 1 : t[i] = s[a + i]
  <2> DEFINE x == a + 1
             y == b - 1
  <2>1. x \in Int /\ y \in Int /\ \A i \in x .. y : s[i] \in S
    BY <1>5, <1>7
  <2>2. (IF x <= y THEN y - x + 1 ELSE 0) = b - a - 1
    BY <1>5, <1>7
  <2>3. \A i \in 1 .. b - a - 1 : i \in 1 .. y - x + 1 /\ x + i - 1 = a + i
    BY <1>5, <1>7
  <2>s. t = SubSeq(s, x, y)
    BY <1>4
  <2> HIDE DEF x, y
  <2>4. /\ Len(SubSeq(s, x, y)) = IF x <= y THEN y - x + 1 ELSE 0
        /\ \A i \in 1 .. y - x + 1 : SubSeq(s, x, y)[i] = s[x + i - 1]
    BY <2>1, SubSeqProperties
  <2>5. Len(t) = b - a - 1
    BY <2>2, <2>4, <2>s
  <2>6. ASSUME NEW i \in 1 .. b - a - 1 PROVE t[i] = s[a + i]
    <3>1. i \in 1 .. y - x + 1 /\ x + i - 1 = a + i
      BY <2>3
    <3>2. SubSeq(s, x, y)[i] = s[x + i - 1]
      BY <2>4, <3>1
    <3> QED BY <2>s, <3>1, <3>2
  <2> QED BY <2>5, <2>6
<1>10. ASSUME NEW i \in 1 .. Len(t) PROVE t[i] # "/" /\ (t[i] = "~" => Escapes(t, i))
  <2> DEFINE p == a + i
  <2>1. p \in 1 .. Len(s) /\ a < p /\ p < b /\ t[i] = s[p] /\ p + 1 = a + (i + 1)
    BY <1>5, <1>7, <1>9
  <2> HIDE DEF p
  <2>2. t[i] # "/"
    BY <1>5, <2>1 DEF Slash
  <2>3. ASSUME t[i] = "~" PROVE Escapes(t, i)
    <3>1. p < Len(s) /\ s[p + 1] \in {"0", "1"}
      BY <1>8, <2>1, <2>3
    <3>2. p + 1 \in 1 .. Len(s)
      BY <1>7, <2>1, <3>1
    <3>3. ~Slash(s[p + 1])
      BY <3>1 DEF Slash
    <3>4. p + 1 # b
      BY <1>6, <3>2, <3>3
    <3>5. i + 1 \in 1 .. b - a - 1 /\ i < Len(t)
      BY <1>5, <1>7, <1>9, <2>1, <3>2, <3>4
    <3>6. t[i + 1] = s[p + 1]
      BY <1>9, <2>1, <3>5
    <3> QED BY <2>3, <3>1, <3>5, <3>6 DEF Escapes
  <2> QED BY <2>2, <2>3
<1> QED BY <1>10 DEF WellEscaped, t

\* A key and a clean token that names it: without a zero in front of an index
\* the token is the key as it is written.
LEMMA NamedIsWritten ==
  ASSUME NEW t \in Key, NEW k \in Key, WellEscaped(t), Len(t) > 1 => ~Zero(t[1]),
         Named(k, JSON!unescape_pointer_token(t))
  PROVE  JSON!Escape(k) = t
<1> DEFINE A == Symbols
           u == JSON!unescape_pointer_token(t)
<1>1. HasEscapes(A) /\ t \in Seq(A) /\ k \in Seq(A)
  BY SymbolsAre DEF Key
<1>2. u \in Seq(A)
  BY UnescapedKey DEF Key
<1> HIDE DEF A
<1>3. JSON!Escape(u) = t
  BY <1>1, WellEscapedComesBack
<1>4. Named(k, u)
  OBVIOUS
<1> HIDE DEF u
<1>5. CASE k = u
  BY <1>3, <1>5
<1>6. CASE Decimal(k) /\ JSON!non_negative_integer(u) /\ JSON!Index(k) = JSON!Index(u)
  <2>1. u # <<>> /\ Numeral(u)
    BY <1>2, <1>6, NumeralMeans
  <2>2. \A i \in 1 .. Len(u) : ~Special(u[i])
    BY <2>1, DigitIs, Zenon DEF Numeral, Special
  <2>3. JSON!Escape(u) = u
    BY <1>1, <1>2, <2>2, PlainEscape
  <2>4. u = t
    BY <1>3, <2>3
  <2>5. Decimal(u)
    BY <2>1, <2>4 DEF Decimal
  <2>6. k = u
    BY <1>1, <1>2, <1>6, <2>5, DecimalIsUnique
  <2> QED BY <1>3, <2>6
<1> QED BY <1>4, <1>5, <1>6 DEF Named

\* A zero in front of an index.
Padded(tokens) == \E j \in 1 .. Len(tokens) : Len(tokens[j]) > 1 /\ Zero(tokens[j][1])

\* resolve_pointer: the pointer to a value leads to it, and a pointer that leads
\* to a value is the pointer to it but for stray "~" and zeros in front.
LEMMA PointerResolves ==
  ASSUME NEW doc, WellFormed(doc), NEW s \in Key
  PROVE  LET r == JSON!resolve_pointer(doc, s) IN
         /\ r \in Results(doc) /\ (~r.found => r.path = <<>>)
         /\ \A path \in DOMAIN doc : s = JSON!PointerTo(path) => r = JSON!At(path)
         /\ r.found => Stray(s) \/ Padded(JSON!Tokens(s)) \/ s = JSON!PointerTo(r.path)
<1> DEFINE A == Symbols
           K == Key
           T == JSON!Tokens(s)
           r == JSON!resolve_pointer(doc, s)
<1>1. HasEscapes(A) /\ s \in Seq(A) /\ K = Seq(A)
  BY SymbolsAre DEF Key
<1>2. DOMAIN doc \subseteq Seq(K) /\ <<>> \in DOMAIN doc
  BY DEF WellFormed
<1>3. T \in Seq(K)
  <2> HIDE DEF A, K, T
  <2>1. T \in Seq(Seq(A))
    BY <1>1, TokensAre DEF T
  <2> QED BY <1>1, <2>1
<1>4. ASSUME NEW path \in DOMAIN doc, path # <<>>
      PROVE  LET z == JSON!PointerTo(path) IN
             /\ z # <<>> /\ Slash(z[1]) /\ Len(JSON!Tokens(z)) = Len(path)
             /\ \A j \in 1 .. Len(path) : JSON!Tokens(z)[j] = JSON!Escape(path[j])
  <2>1. path \in Seq(Seq(A))
    BY <1>1, <1>2
  <2> HIDE DEF A
  <2> QED BY <1>1, <1>4, <2>1, PointerSplits
<1>5. JSON!PointerTo(<<>>) = <<>>
  <2> DEFINE W == JSON!PointerScan(<<>>)
             x == [i \in 1 .. Len(<<>>) |-> AsPart(JSON!Escape(<<>>[i]))]
  <2>1. JSON!PointerTo(<<>>) = W[0]
    BY DEF JSON!PointerTo
  <2>2. <<>> \in Seq(Seq(A))
    OBVIOUS
  <2> HIDE DEF A
  <2>3. PutTogether(W, Len(<<>>), x, A)
    BY <1>1, <2>2, PointerTurns
  <2> HIDE DEF W, x
  <2> QED BY <2>1, <2>3 DEF PutTogether
<1>6. CASE s = <<>>
  <2>1. r = JSON!At(<<>>)
    BY <1>6 DEF JSON!resolve_pointer
  <2>2. r \in Results(doc) /\ r.found /\ r.path = <<>>
    BY <2>1, <1>2, ResultsAre
  <2> HIDE DEF r
  <2>3. \A path \in DOMAIN doc : s = JSON!PointerTo(path) => path = <<>>
    BY <1>4, <1>6
  <2>4. \A path \in DOMAIN doc : s = JSON!PointerTo(path) => r = JSON!At(path)
    BY <2>1, <2>3
  <2> QED BY <1>5, <1>6, <2>2, <2>4 DEF r
<1>7. CASE s # <<>> /\ ~Slash(s[1])
  <2>0. Head(s) = s[1]
    BY <1>7, HeadTailProperties
  <2>1. r = JSON!None
    BY <1>7, <2>0 DEF JSON!resolve_pointer, Slash
  <2>2. r \in Results(doc) /\ ~r.found /\ r.path = <<>>
    BY <2>1, ResultsAre
  <2> HIDE DEF r
  <2>3. \A path \in DOMAIN doc : s # JSON!PointerTo(path)
    BY <1>4, <1>5, <1>7
  <2> QED BY <2>2, <2>3 DEF r
<1>8. CASE s # <<>> /\ Slash(s[1])
  <2>0. Head(s) = s[1]
    BY <1>8, HeadTailProperties
  <2>1. r = JSON!Resolve(doc, T)[Len(T)]
    BY <1>8, <2>0 DEF JSON!resolve_pointer, Slash
  <2> HIDE DEF r
  <2>2. /\ r \in Results(doc) /\ (~r.found => r.path = <<>>)
        /\ r.found => NamedBy(r.path, T, Len(T))
    BY <1>3, <2>1, ResolveNames
  <2>3. ASSUME NEW path \in DOMAIN doc, s = JSON!PointerTo(path) PROVE r = JSON!At(path)
    <3>1. path # <<>>
      BY <1>5, <1>8, <2>3
    <3>2. Len(T) = Len(path) /\ \A j \in 1 .. Len(path) : T[j] = JSON!Escape(path[j])
      BY <1>4, <2>3, <3>1
    <3>3. \A j \in 1 .. Len(path) : path[j] \in Seq(A)
      BY <1>1, <1>2
    <3> HIDE DEF T, A
    <3>4. \A j \in 1 .. Len(path) : JSON!unescape_pointer_token(T[j]) = path[j]
      BY <1>1, <3>2, <3>3, EscapeComesBack
    <3> QED BY <1>3, <2>1, <3>2, <3>4, ResolveReaches
  <2>4. ASSUME r.found, ~Stray(s), ~Padded(T) PROVE s = JSON!PointerTo(r.path)
    <3> DEFINE path == r.path
    <3>1. path \in Seq(K)
      BY <1>2, <2>2 DEF Results
    <3>2. Len(path) = Len(T) /\ \A j \in 1 .. Len(T) : Named(path[j], JSON!unescape_pointer_token(T[j]))
      BY <2>2, <2>4 DEF NamedBy
    <3> HIDE DEF path
    <3>3. \A j \in 1 .. Len(T) : WellEscaped(T[j])
      BY <1>1, <2>4, TokensAreClean
    <3>4. \A j \in 1 .. Len(T) : Len(T[j]) > 1 => ~Zero(T[j][1])
      BY <2>4 DEF Padded
    <3>5. \A j \in 1 .. Len(T) : T[j] \in K /\ path[j] \in K
      BY <1>3, <3>1, <3>2
    <3> HIDE DEF T
    <3>6. \A j \in 1 .. Len(path) : JSON!Escape(path[j]) = T[j]
      BY <3>2, <3>3, <3>4, <3>5, NamedIsWritten
    <3>7. path \in Seq(Seq(A))
      BY <1>1, <3>1
    <3> HIDE DEF A, K
    <3> QED BY <1>1, <1>8, <3>2, <3>6, <3>7, TokensJoin DEF T, path
  <2> QED BY <2>2, <2>3, <2>4 DEF r
<1> QED BY <1>6, <1>7, <1>8

\* The documents of the files are well formed.
LEMMA DocumentIsWellFormed ==
  ASSUME NEW doc \in JsonDocuments
  PROVE  /\ WellFormed(doc) /\ JSON!DocumentBytes(doc) = 2 * Cardinality(DOMAIN doc)
         /\ Cardinality(DOMAIN doc) \in Nat
         /\ \A p \in DOMAIN doc : doc[p] \in {"object", "array", "string", "number", "boolean", "null"}
<1>1. IsDocument(doc)
  BY DocumentAssumption
<1>2. /\ IsFiniteSet(DOMAIN doc) /\ <<>> \in DOMAIN doc /\ DOMAIN doc \subseteq Seq(Seq(STRING))
      /\ \A p \in DOMAIN doc : doc[p] \in {"object", "array", "string", "number", "boolean", "null"}
      /\ \A p \in DOMAIN doc : p # <<>> => /\ Parent(p) \in DOMAIN doc
                                           /\ doc[Parent(p)] \in {"object", "array"}
  BY <1>1 DEF IsDocument, Parent
<1>3. DOMAIN doc \subseteq Seq(Key)
  BY <1>2, SymbolsAre
<1>4. ASSUME NEW p \in DOMAIN doc, doc[p] = "array" PROVE Arrayed(doc, p)
  <2> DEFINE C == JSON!Children(doc, p)
  <2>1. /\ Cardinality(C) <= LargestIndex + 1
        /\ \A e \in C : /\ JSON!non_negative_integer(Final(e))
                        /\ Len(Final(e)) > 1 => Head(Final(e)) # "0"
                        /\ JSON!Index(Final(e)) < Cardinality(C)
        /\ \A i \in 0 .. Cardinality(C) - 1 : \E e \in C : JSON!Index(Final(e)) = i
    BY <1>1, <1>4 DEF IsDocument, Final
  <2>2. \A e \in C : e \in Seq(Key) /\ Len(e) = Len(p) + 1
    BY <1>3, JsonNames DEF JSON!Children
  <2>3. p \in Seq(Key)
    BY <1>3
  <2> HIDE DEF C
  <2>4. ASSUME NEW e \in C PROVE Decimal(Final(e))
    <3> DEFINE K == Key
               t == Final(e)
    <3>1. e \in Seq(K) /\ Len(e) = Len(p) + 1 /\ Len(p) \in Nat
      BY <2>2, <2>3
    <3>2. e # <<>>
      BY <3>1
    <3> HIDE DEF K
    <3>3. t \in K
      BY <3>1, <3>2, ParentIs
    <3> HIDE DEF t
    <3>4. JSON!non_negative_integer(t) /\ (Len(t) > 1 => Head(t) # "0")
      BY <2>1 DEF t
    <3>5. t \in Seq(Symbols)
      BY <3>3 DEF K, Key
    <3>6. t # <<>> /\ Numeral(t)
      BY <3>4, <3>5, NumeralMeans
    <3>7. Head(t) = t[1]
      BY <3>5, <3>6, HeadTailProperties
    <3> QED BY <3>4, <3>6, <3>7 DEF Decimal, Zero, t
  <2> QED BY <2>1, <2>4 DEF Arrayed, C
<1>5. Cardinality(DOMAIN doc) \in Nat /\ JSON!DocumentBytes(doc) = 2 * Cardinality(DOMAIN doc)
  BY <1>2, FS_CardinalityType, JsonNames DEF JSON!DocumentBytes
<1> QED BY <1>2, <1>3, <1>4, <1>5 DEF WellFormed

\* So is the rest of a number that was cut, and neither is malformed.
LEMMA OtherNumberIsWellFormed ==
  /\ WellFormed(JSON!OtherNumber) /\ JSON!OtherNumber # JSON!Malformed
  /\ \A doc \in JsonDocuments : doc # JSON!Malformed
<1>1. /\ DOMAIN JSON!OtherNumber = {<<>>} /\ JSON!OtherNumber[<<>>] = "other number"
      /\ JSON!Malformed[<<>>] = "malformed"
  BY DEF JSON!OtherNumber, JSON!Malformed
<1>2. IsFiniteSet({<<>>})
  BY FS_Singleton
<1>3. <<>> \in Seq(Key)
  OBVIOUS
<1>4. WellFormed(JSON!OtherNumber)
  BY <1>1, <1>2, <1>3 DEF WellFormed
<1>5. \A doc \in JsonDocuments : doc[<<>>] # "malformed"
  BY DocumentIsWellFormed DEF WellFormed
<1> QED BY <1>1, <1>4, <1>5

\* The file of a run.
JsonFile(f) ==
  /\ f.kind \in FileKinds /\ f.doc \in JsonDocuments
  /\ f.size \in Nat /\ f.end \in Nat
  /\ f.end >= JSON!DocumentBytes(f.doc) /\ f.size >= f.end

\* What is read and is a document is the file's, or a part of its number.
LEMMA JsonRead ==
  ASSUME JsonFile(file), NEW max_bytes \in JsonByteLimits
  PROVE  LET read == JSON!read_bounded(max_bytes)
             parsed == JSON!Parse(read.text) IN
         (read.error = "" /\ parsed # JSON!Malformed) =>
            /\ WellFormed(parsed)
            /\ \/ parsed = file.doc
               \/ parsed = JSON!OtherNumber /\ read.truncated /\ file.doc[<<>>] = "number"
            /\ file.size > file.end => read.truncated
<1> DEFINE f == [kind |-> file.kind, bytes |-> [i \in 1 .. file.size |-> i]]
           read == JSON!read_bounded(max_bytes)
           parsed == JSON!Parse(read.text)
<1>1. f.kind \in FileKinds /\ f.kind = file.kind /\ f.bytes = [i \in 1 .. file.size |-> i]
  BY DEF JsonFile
<1>2. f.bytes \in Seq(Nat) /\ Len(f.bytes) = file.size /\ file.size \in Nat
  BY <1>1, NumberedBytes DEF JsonFile
<1>3. read = ReadBounded(f, max_bytes, JsonLargestBytes)
  BY JsonNames DEF JSON!read_bounded
<1>4. max_bytes \in Int /\ JsonLargestBytes \in Nat /\ JsonLargestBytes > 0
  BY LimitsAssumption
<1> HIDE DEF f, read
<1>5. SUFFICES ASSUME read.error = "", parsed # JSON!Malformed
               PROVE  /\ WellFormed(parsed)
                      /\ \/ parsed = file.doc
                         \/ parsed = JSON!OtherNumber /\ read.truncated /\ file.doc[<<>>] = "number"
                      /\ file.size > file.end => read.truncated
  BY DEF read
<1>6. /\ f.kind = "file"
      /\ \E n \in 0 .. Len(f.bytes) : /\ read.text = SubSeq(f.bytes, 1, n)
                                      /\ read.truncated <=> n < Len(f.bytes)
  <2>1. read.error = ""
    BY <1>5
  <2>2. f.kind \in FileKinds /\ f.bytes \in Seq(Nat)
    BY <1>1, <1>2
  <2> HIDE DEF parsed
  <2> QED BY ONLY <1>3, <1>4, <2>1, <2>2, BoundedRead
<1>7. PICK n \in 0 .. Len(f.bytes) : /\ read.text = SubSeq(f.bytes, 1, n)
                                     /\ read.truncated <=> n < Len(f.bytes)
  BY <1>6
<1>8. Len(read.text) = n
  BY <1>2, <1>7, PrefixTypes
<1>9. /\ n <= file.end
      /\ \/ parsed = file.doc
         \/ /\ n < JSON!DocumentBytes(file.doc)
            /\ parsed = JSON!OtherNumber /\ file.doc[<<>>] = "number"
  <2> DEFINE d == JSON!DocumentBytes(file.doc)
  <2>1. d \in Nat /\ file.end \in Nat
    BY DocumentIsWellFormed DEF JsonFile
  <2>2. parsed = IF Len(read.text) > file.end THEN JSON!Malformed
                 ELSE IF Len(read.text) >= d THEN file.doc
                 ELSE IF file.doc[<<>>] = "number" THEN JSON!OtherNumber ELSE JSON!Malformed
    BY DEF JSON!Parse
  <2> HIDE DEF d, parsed
  <2>3. (n >= d \/ n < d) /\ (n > file.end \/ n <= file.end)
    BY <2>1
  <2> QED BY <1>5, <1>8, <2>2, <2>3 DEF d
<1>10. n < JSON!DocumentBytes(file.doc) => read.truncated
  <2> DEFINE d == JSON!DocumentBytes(file.doc)
  <2>1. d \in Nat /\ file.size \in Nat /\ file.end \in Nat /\ file.end >= d /\ file.size >= file.end
    BY DocumentIsWellFormed DEF JsonFile
  <2> HIDE DEF d
  <2>2. n < d => read.truncated
    BY <1>2, <1>7, <2>1
  <2> QED BY <2>2 DEF d
<1> HIDE DEF parsed
<1>11. WellFormed(parsed)
  BY <1>9, DocumentIsWellFormed, OtherNumberIsWellFormed DEF JsonFile
<1>12. file.size > file.end => read.truncated
  BY <1>2, <1>7, <1>9 DEF JsonFile
<1> QED BY <1>9, <1>10, <1>11, <1>12

JsonReplies ==
  /\ JSON!TypeOK /\ JSON!EveryValueIsReached
  /\ JSON!OnlyTheNamedValue /\ JSON!SummaryIsTheFiles
JsonInv == program = "json file" => JsonFile(file) /\ JsonReplies

\* Without a document in the reply there is nothing to say of it.
LEMMA JsonRefused ==
  ASSUME JsonFile(file),
         reply = JSON!NoReply \/ reply = JSON!error_result("json.summary")
           \/ reply = JSON!error_result("json.pointer")
  PROVE  JsonReplies
<1>1. "of" \notin DOMAIN reply
  BY DEF JSON!NoReply, JSON!error_result
<1>2. \A tool : ~JSON!Answered(tool)
  BY <1>1 DEF JSON!Answered
<1>3. reply # JSON!NoReply => reply.tool \in {"json.summary", "json.pointer"}
  BY DEF JSON!error_result
<1>4. JSON!TypeOK
  BY <1>2, <1>3, JsonNames DEF JSON!TypeOK, JsonFile
<1> QED BY <1>2, <1>4
        DEF JsonReplies, JSON!EveryValueIsReached, JSON!OnlyTheNamedValue, JSON!SummaryIsTheFiles

\* What json.summary replies of a document.
JsonSummaryOf(read, parsed, max_children) ==
  IF read.error # "" \/ parsed = JSON!Malformed THEN JSON!error_result("json.summary")
  ELSE [tool |-> "json.summary", ok |-> TRUE, of |-> parsed,
        type |-> JSON!json_type(parsed[<<>>]),
        nodes |-> JSON!count_nodes(parsed, <<>>),
        children |-> JSON!Min({JSON!Cardinality(JSON!Children(parsed, <<>>)),
                               JSON!clamp(max_children, 1, LargestChildren)}),
        inputTruncated |-> read.truncated]
JsonSummary(r) ==
  \E max_bytes \in JsonByteLimits, max_children \in ChildLimits :
    r = JsonSummaryOf(JSON!read_bounded(max_bytes), JSON!Parse(JSON!read_bounded(max_bytes).text),
                      max_children)

\* json.summary replies what the document says.
LEMMA JsonSummarized ==
  ASSUME JsonFile(file), JsonSummary(reply)
  PROVE  JsonReplies
<1>1. PICK max_bytes \in JsonByteLimits, max_children \in ChildLimits :
        reply = JsonSummaryOf(JSON!read_bounded(max_bytes),
                              JSON!Parse(JSON!read_bounded(max_bytes).text), max_children)
  BY DEF JsonSummary
<1> DEFINE read == JSON!read_bounded(max_bytes)
           parsed == JSON!Parse(read.text)
           size == Cardinality(JSON!Children(parsed, <<>>))
           limit == clamp(max_children, 1, LargestChildren)
           children == Min({size, limit})
           nodes == JSON!count_nodes(parsed, <<>>)
           type == JSON!json_type(parsed[<<>>])
<1>2. read.error = "" /\ parsed # JSON!Malformed =>
        /\ WellFormed(parsed)
        /\ \/ parsed = file.doc
           \/ parsed = JSON!OtherNumber /\ read.truncated /\ file.doc[<<>>] = "number"
        /\ file.size > file.end => read.truncated
  BY JsonRead
<1>3. CASE read.error # "" \/ parsed = JSON!Malformed
  <2>1. reply = JSON!error_result("json.summary")
    BY <1>1, <1>3 DEF JsonSummaryOf
  <2> QED BY <2>1, JsonRefused
<1>4. CASE read.error = "" /\ parsed # JSON!Malformed
  <2>1. reply = [tool |-> "json.summary", ok |-> TRUE, of |-> parsed, type |-> type, nodes |-> nodes,
                 children |-> children, inputTruncated |-> read.truncated]
    BY <1>1, <1>4, JsonNames DEF JsonSummaryOf
  <2> HIDE DEF read, parsed
  <2>2. WellFormed(parsed) /\ <<>> \in DOMAIN parsed
    BY <1>2, <1>4 DEF WellFormed
  <2>3. size \in Nat
    BY <2>2, ChildrenAre
  <2>4. limit \in Nat /\ limit <= LargestChildren
    <3>1. max_children \in Int /\ 1 \in Int /\ LargestChildren \in Int /\ 1 <= LargestChildren
      BY LimitsAssumption
    <3> QED BY <3>1 DEF clamp
  <2> HIDE DEF size, limit
  <2>5. children \in 0 .. LargestChildren
    <3>0. LargestChildren \in Nat
      BY LimitsAssumption
    <3>1. children = IF size <= limit THEN size ELSE limit
      BY <2>3, <2>4, MinOfTwo
    <3> HIDE DEF children
    <3> QED BY <2>3, <2>4, <3>0, <3>1
  <2>6. nodes = Cardinality(DOMAIN parsed)
    <3>1. DOMAIN parsed \subseteq Seq(Key)
      BY <2>2 DEF WellFormed
    <3>2. ASSUME NEW p \in DOMAIN parsed PROVE JSON!IsPrefix(<<>>, p)
      <4> DEFINE K == Key
             e == <<>>
      <4>1. p \in Seq(K) /\ e \in Seq(K) /\ Len(e) = 0 /\ Len(p) \in Nat
        BY <3>1
      <4> HIDE DEF K, e
      <4>2. Len(e) <= Len(p) /\ \A i \in 1 .. Len(e) : e[i] = p[i]
        BY <4>1
      <4>3. IsPrefix(e, p)
        BY <4>1, <4>2, PrefixMeans
      <4> QED BY <4>3, JsonNames DEF e
    <3>3. JSON!Subtree(parsed, <<>>) = DOMAIN parsed
      BY <3>2 DEF JSON!Subtree
    <3> QED BY <3>3, JsonNames DEF JSON!count_nodes
  <2>7. parsed = file.doc => type = file.doc[<<>>]
    <3>1. file.doc[<<>>] # "other number"
      BY DocumentIsWellFormed DEF JsonFile, WellFormed
    <3> QED BY <3>1 DEF JSON!json_type
  <2> HIDE DEF children, nodes, type
  <2>8. /\ reply.tool = "json.summary" /\ reply.of = parsed /\ reply.type = type /\ reply.nodes = nodes
        /\ reply.children = children /\ reply.inputTruncated = read.truncated
    BY <2>1
  <2>9. ~JSON!Answered("json.pointer")
    BY <2>8 DEF JSON!Answered
  <2>10. JSON!TypeOK
    BY <2>5, <2>8, <2>9, JsonNames DEF JSON!TypeOK, JsonFile
  <2>11. JSON!SummaryIsTheFiles
    <3>1. JSON!Cardinality(DOMAIN file.doc) = Cardinality(DOMAIN file.doc)
      BY JsonNames
    <3> QED BY <1>2, <1>4, <2>6, <2>7, <2>8, <3>1 DEF JSON!SummaryIsTheFiles
  <2> QED BY <2>9, <2>10, <2>11 DEF JsonReplies, JSON!EveryValueIsReached, JSON!OnlyTheNamedValue
<1> QED BY <1>3, <1>4

\* What json.pointer replies of a document.
JsonPointerOf(read, parsed, pointer, output) ==
  IF read.error # "" \/ parsed = JSON!Malformed THEN JSON!error_result("json.pointer")
  ELSE LET value == JSON!resolve_pointer(parsed, pointer) IN
       [tool |-> "json.pointer", ok |-> value.found, of |-> parsed,
        pointer |-> pointer, path |-> value.path,
        type |-> JSON!json_type(parsed[value.path]),
        outputTruncated |-> JSON!bounded_dump(JSON!count_nodes(parsed, value.path), output)]
JsonPointer(r) ==
  \E max_bytes, output \in JsonByteLimits, pointer \in JsonPointers :
    r = JsonPointerOf(JSON!read_bounded(max_bytes), JSON!Parse(JSON!read_bounded(max_bytes).text),
                      pointer, output)

\* json.pointer replies what the document says.
LEMMA JsonPointed ==
  ASSUME JsonFile(file), JsonPointer(reply)
  PROVE  JsonReplies
<1>1. PICK max_bytes, output \in JsonByteLimits, pointer \in JsonPointers :
        reply = JsonPointerOf(JSON!read_bounded(max_bytes),
                              JSON!Parse(JSON!read_bounded(max_bytes).text), pointer, output)
  BY DEF JsonPointer
<1> DEFINE read == JSON!read_bounded(max_bytes)
           parsed == JSON!Parse(read.text)
           value == JSON!resolve_pointer(parsed, pointer)
           tokens == JSON!Tokens(pointer)
           type == JSON!json_type(parsed[value.path])
           cut == JSON!bounded_dump(JSON!count_nodes(parsed, value.path), output)
<1>2. read.error = "" /\ parsed # JSON!Malformed => WellFormed(parsed)
  BY JsonRead
<1>3. CASE read.error # "" \/ parsed = JSON!Malformed
  <2>1. reply = JSON!error_result("json.pointer")
    BY <1>1, <1>3 DEF JsonPointerOf
  <2> QED BY <2>1, JsonRefused
<1>4. CASE read.error = "" /\ parsed # JSON!Malformed
  <2>1. reply = [tool |-> "json.pointer", ok |-> value.found, of |-> parsed, pointer |-> pointer,
                 path |-> value.path, type |-> type, outputTruncated |-> cut]
    BY <1>1, <1>4 DEF JsonPointerOf
  <2>2. WellFormed(parsed)
    BY <1>2, <1>4
  <2> HIDE DEF read, parsed, type, cut
  <2>3. pointer \in Key
    BY DocumentAssumption, SymbolsAre
  <2>4. /\ value \in Results(parsed)
        /\ \A path \in DOMAIN parsed : pointer = JSON!PointerTo(path) => value = JSON!At(path)
        /\ value.found => Stray(pointer) \/ Padded(tokens) \/ pointer = JSON!PointerTo(value.path)
    BY <2>2, <2>3, PointerResolves
  <2>5. tokens \in Seq(Key)
    <3> DEFINE A == Symbols
    <3>1. pointer \in Seq(A)
      BY <2>3 DEF Key
    <3> HIDE DEF A
    <3>2. tokens \in Seq(Seq(A))
      BY <3>1, TokensAre
    <3> QED BY <3>2 DEF A, Key
  <2> HIDE DEF value, tokens
  <2>6. /\ reply.tool = "json.pointer" /\ reply.ok = value.found /\ reply.of = parsed
        /\ reply.pointer = pointer /\ reply.path = value.path
    BY <2>1
  <2>7. value.path \in DOMAIN parsed
    BY <2>4 DEF Results
  <2>8. ~JSON!Answered("json.summary")
    BY <2>6 DEF JSON!Answered
  <2>9. JSON!TypeOK
    BY <2>6, <2>7, <2>8, JsonNames DEF JSON!TypeOK, JsonFile
  <2>10. JSON!EveryValueIsReached
    <3>1. \A path \in DOMAIN parsed : pointer = JSON!PointerTo(path) => value.found /\ value.path = path
      BY <2>2, <2>4, ResultsAre
    <3> QED BY <2>6, <3>1 DEF JSON!EveryValueIsReached
  <2>11. JSON!OnlyTheNamedValue
    <3>1. Stray(pointer) => \E i \in DOMAIN pointer :
                              /\ pointer[i] = "~"
                              /\ i = Len(pointer) \/ pointer[i + 1] \notin {"0", "1"}
      <4>1. DOMAIN pointer = 1 .. Len(pointer) /\ Len(pointer) \in Nat
        BY <2>3 DEF Key
      <4> QED BY <4>1 DEF Stray, Escapes
    <3>2. Padded(tokens) => \E j \in DOMAIN tokens : Len(tokens[j]) > 1 /\ Head(tokens[j]) = "0"
      <4>1. DOMAIN tokens = 1 .. Len(tokens) /\ \A j \in 1 .. Len(tokens) : tokens[j] \in Key
        BY <2>5
      <4>2. ASSUME NEW t \in Key, Len(t) > 1, Zero(t[1]) PROVE Head(t) = "0"
        <5>1. t \in Seq(Symbols) /\ t # <<>>
          BY <4>2 DEF Key
        <5>2. Head(t) = t[1]
          BY <5>1, HeadTailProperties
        <5> QED BY <4>2, <5>2 DEF Zero
      <4> QED BY <4>1, <4>2 DEF Padded
    <3> QED BY <2>4, <2>6, <3>1, <3>2 DEF JSON!OnlyTheNamedValue, tokens
  <2> QED BY <2>8, <2>9, <2>10, <2>11 DEF JsonReplies, JSON!SummaryIsTheFiles
<1> QED BY <1>3, <1>4

\* The first state of json_file_server.
LEMMA JsonInit == JSON!Init => JsonFile(file) /\ JsonReplies
<1> SUFFICES ASSUME JSON!Init PROVE JsonFile(file) /\ JsonReplies
  OBVIOUS
<1>1. PICK doc \in JsonDocuments, kind \in FileKinds, space, text \in 0 .. MaxSpace :
        file = [kind |-> kind, doc |-> doc, end |-> JSON!DocumentBytes(doc) + space,
                size |-> JSON!DocumentBytes(doc) + space + text]
  BY JsonNames DEF JSON!Init
<1>2. JSON!DocumentBytes(doc) \in Nat /\ space \in Nat /\ text \in Nat
  <2>1. JSON!DocumentBytes(doc) \in Nat
    BY DocumentIsWellFormed
  <2>2. MaxSpace \in Nat
    BY LimitsAssumption
  <2> QED BY <2>1, <2>2
<1>3. JsonFile(file)
  BY <1>1, <1>2 DEF JsonFile
<1>4. reply = JSON!NoReply
  BY DEF JSON!Init
<1> QED BY <1>3, <1>4, JsonRefused

\* Every step of json_file_server keeps what its replies promise.
LEMMA JsonNext ==
  ASSUME JsonFile(file), JSON!Next
  PROVE  JsonFile(file)' /\ JsonReplies'
<1>1. file' = file
  BY DEF JSON!Next, JSON!json_summary, JSON!json_pointer, JSON!Return
<1>2. JsonFile(file)'
  BY <1>1 DEF JsonFile
<1>3. /\ \A b : JSON!read_bounded(b)' = JSON!read_bounded(b)
      /\ \A t : JSON!Parse(t)' = JSON!Parse(t)
  BY <1>1 DEF JSON!read_bounded, JSON!Parse
<1>4. CASE JSON!json_summary
  <2>1. JsonSummary(reply')
    BY <1>4 DEF JSON!json_summary, JsonSummary, JsonSummaryOf
  <2>2. JsonSummary(reply)'
    BY <1>3, <2>1 DEF JsonSummary
  <2>3. (JsonFile(file) /\ JsonSummary(reply))' => JsonReplies'
    BY JsonSummarized, PTL
  <2> QED BY <1>2, <2>2, <2>3
<1>5. CASE JSON!json_pointer
  <2>1. JsonPointer(reply')
    BY <1>5 DEF JSON!json_pointer, JsonPointer, JsonPointerOf
  <2>2. JsonPointer(reply)'
    BY <1>3, <2>1 DEF JsonPointer
  <2>3. (JsonFile(file) /\ JsonPointer(reply))' => JsonReplies'
    BY JsonPointed, PTL
  <2> QED BY <1>2, <2>2, <2>3
<1>6. CASE JSON!Return
  <2>1. (reply = JSON!NoReply)'
    BY <1>6 DEF JSON!Return, JSON!NoReply
  <2>2. (JsonFile(file)
         /\ (reply = JSON!NoReply \/ reply = JSON!error_result("json.summary")
               \/ reply = JSON!error_result("json.pointer")))' => JsonReplies'
    BY JsonRefused, PTL
  <2> QED BY <1>2, <2>1, <2>2
<1> QED BY <1>4, <1>5, <1>6 DEF JSON!Next

\* Whatever the document and the pointer, json.pointer reaches every value and
\* only the one that is named, and json.summary is of the whole document
\* (json_file_server.cpp).
THEOREM JsonAlways == DataSpec => []JsonRepliesAreTheFiles
<1>1. DataInit => JsonInv
  BY JsonInit DEF DataInit, JsonInv
<1>2. JsonInv /\ [DataNext]_dataVars => JsonInv'
  <2> SUFFICES ASSUME JsonInv, [DataNext]_dataVars PROVE JsonInv'
    OBVIOUS
  <2>1. program' = program
    BY DEF DataNext, FileStep, HeaderStep, HashStep, dataVars
  <2>2. CASE program # "json file"
    BY <2>1, <2>2 DEF JsonInv
  <2>3. CASE program = "json file" /\ DataNext
    <3>1. JSON!Next
      BY <2>3 DEF DataNext, FileStep, HeaderStep, HashStep
    <3>2. JsonFile(file)
      BY <2>3 DEF JsonInv
    <3> QED BY <3>1, <3>2, JsonNext DEF JsonInv
  <2>4. CASE program = "json file" /\ UNCHANGED dataVars
    <3>1. UNCHANGED <<program, file, reply>>
      BY <2>4 DEF dataVars, fileVars
    <3>2. /\ JsonFile(file) /\ JSON!TypeOK /\ JSON!EveryValueIsReached
          /\ JSON!OnlyTheNamedValue /\ JSON!SummaryIsTheFiles
      BY <2>4 DEF JsonInv, JsonReplies
    <3>3. JsonFile(file)' /\ \A tool : JSON!Answered(tool)' <=> JSON!Answered(tool)
      BY <3>1, <3>2 DEF JsonFile, JSON!Answered, JSON!NoReply
    <3>4. JSON!TypeOK'
      BY <3>1, <3>2, <3>3 DEF JSON!TypeOK, JSON!NoReply
    <3>5. JSON!EveryValueIsReached'
      BY <3>1, <3>2, <3>3 DEF JSON!EveryValueIsReached
    <3>6. JSON!OnlyTheNamedValue'
      BY <3>1, <3>2, <3>3 DEF JSON!OnlyTheNamedValue
    <3>7. JSON!SummaryIsTheFiles'
      BY <3>1, <3>2, <3>3 DEF JSON!SummaryIsTheFiles
    <3> QED BY <3>3, <3>4, <3>5, <3>6, <3>7 DEF JsonInv, JsonReplies
  <2> QED BY <2>2, <2>3, <2>4
<1>3. JsonInv => JsonRepliesAreTheFiles
  BY DEF JsonInv, JsonReplies, JsonRepliesAreTheFiles
<1> QED BY <1>1, <1>2, <1>3, PTL DEF DataSpec, dataVars
==============================================================================
