------------------------------ MODULE FileText ------------------------------
(***************************************************************************)
(* What the file servers under examples/servers share: a bounded read of a *)
(* file and its lines.  Each server has its own copy of the two functions; *)
(* they differ in the largest bound only.  A file is a record: what the    *)
(* path names and its bytes, members of a small set; "lead" and "trail"    *)
(* are the two bytes of a character outside ASCII.                         *)
(***************************************************************************)
EXTENDS Integers, Sequences, SequencesExt, FiniteSetsExt

\* Mutant of clamp: nothing bounds it from above.
clamp_below(n, low, high) == IF n < low THEN low ELSE n

clamp(n, low, high) == IF n < low THEN low ELSE IF n > high THEN high ELSE n

FileKinds == {"missing", "not a file", "unreadable", "file"}

\* Mutant of ReadBounded: the flag is never set.
ReadBounded_noFlag(file, max_bytes, largest) ==
  LET read == Min({clamp(max_bytes, 1, largest), Len(file.bytes)}) IN
  [error |-> IF file.kind = "file" THEN "" ELSE file.kind,
   text |-> SubSeq(file.bytes, 1, read), truncated |-> FALSE]

\* The text up to the limit; truncated by a look at the next byte.
ReadBounded(file, max_bytes, largest) ==
  LET limit == clamp(max_bytes, 1, largest)
      read == Min({limit, Len(file.bytes)})
  IN IF file.kind # "file"
     THEN [error |-> file.kind, text |-> <<>>, truncated |-> FALSE]
     ELSE [error |-> "", text |-> SubSeq(file.bytes, 1, read),
           truncated |-> Len(file.bytes) > read]

\* Mutant of SplitByte: the limit is noticed a line too late.
SplitByte_late(s, ch, max_lines) ==
  IF s.limited \/ ch = "\r" \/ (ch = "\n" /\ s.line = <<>>) THEN s
  ELSE IF ch = "\n"
  THEN [lines |-> Append(s.lines, s.line), line |-> <<>>,
        limited |-> Len(s.lines) >= max_lines]
  ELSE [s EXCEPT !.line = Append(@, ch)]

\* One turn of the loop of split_lines.  Empty lines and carriage returns are
\* dropped; the return at the limit is the flag.
SplitByte(s, ch, max_lines) ==
  IF s.limited \/ ch = "\r" \/ (ch = "\n" /\ s.line = <<>>) THEN s
  ELSE IF ch = "\n"
  THEN [lines |-> Append(s.lines, s.line), line |-> <<>>,
        limited |-> Len(s.lines) + 1 >= max_lines]
  ELSE [s EXCEPT !.line = Append(@, ch)]

\* The loop after each byte.
SplitScan(text, max_lines) ==
  LET scan[i \in 0 .. Len(text)] ==
        IF i = 0 THEN [lines |-> <<>>, line |-> <<>>, limited |-> FALSE]
        ELSE SplitByte(scan[i - 1], text[i], max_lines)
  IN scan

SplitLines(text, max_lines) ==
  LET s == SplitScan(text, max_lines)[Len(text)]
  IN [lines |-> IF s.line # <<>> /\ Len(s.lines) < max_lines
                THEN Append(s.lines, s.line) ELSE s.lines,
      limited |-> s.limited]

\* Every lead byte is followed by a trail byte, and no other byte is.
Utf8(text) ==
  \A i \in 0 .. Len(text) :
    (i > 0 /\ text[i] = "lead") <=> (i < Len(text) /\ text[i + 1] = "trail")

-----------------------------------------------------------------------------
(* Reference definitions.                                                  *)

\* A finite set of numbers in its order, and what a sequence has at the places
\* of a set.
Rank(places, p) == Cardinality({q \in places : q <= p})
InOrder(places) ==
  [k \in 1 .. Cardinality(places) |-> CHOOSE p \in places : Rank(places, p) = k]
Picked(seq, places) ==
  [k \in 1 .. Cardinality(places) |-> seq[InOrder(places)[k]]]

\* The lines of a text: what stands between two ends of line, without carriage
\* returns, unless it is empty.  A line begins at its first byte.
Content(text) == {p \in DOMAIN text : text[p] \notin {"\n", "\r"}}
SameLine(text, p, q) == \A e \in p .. q : text[e] # "\n"
Begins(text) ==
  {p \in Content(text) : \A q \in Content(text) : q < p => ~SameLine(text, q, p)}
LineAt(text, b) ==
  Picked(text, {p \in Content(text) : b <= p /\ SameLine(text, b, p)})
AllLines(text) ==
  [j \in 1 .. Cardinality(Begins(text)) |-> LineAt(text, InOrder(Begins(text))[j])]

\* What may be said of lines scanned out of a text: they are its first lines, a
\* cut of the input costs at most the end of the last of them, and nothing is
\* left out without a flag.
FirstLines(lines, text, cut, limited) ==
  LET all == AllLines(text) IN
  /\ Len(lines) <= Len(all)
  /\ \A i \in DOMAIN lines :
       \/ lines[i] = all[i]
       \/ cut /\ i = Len(lines) /\ IsPrefix(lines[i], all[i])
  /\ ~cut /\ ~limited => Len(lines) = Len(all)
=============================================================================
