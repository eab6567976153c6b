----------------------------- MODULE CsvServer -----------------------------
(***************************************************************************)
(* examples/servers/csv_server.cpp: csv.summary and csv.sample of a file   *)
(* that another program may extend between two calls.  A call reads a      *)
(* bounded part of the file, splits it into lines and the lines into       *)
(* fields.  The reply is rendered as JSON, which fails on text that is not *)
(* UTF-8.                                                                  *)
(***************************************************************************)
EXTENDS FileText

CONSTANTS Characters,   \* the characters of a file, each a sequence of bytes
          MaxFile,      \* bound on the bytes of a file
          ByteLimits,   \* the values of max_bytes
          RowLimits,    \* the values of max_rows and rows
          Delimiters,   \* the values of delimiter, each a sequence of bytes
          LargestBytes, \* the largest byte limit (16 * 1024 * 1024)
          LargestRows   \* the largest row limit (100000 and 1000)

VARIABLES file,  \* the file
          reply  \* the call being handled, its row limit and its reply
vars == <<file, reply>>

read_bounded(max_bytes) == ReadBounded(file, max_bytes, LargestBytes)
split_lines(text, max_rows) == SplitLines(text, max_rows)

delimiter_char(delimiter) == IF delimiter = <<>> THEN "," ELSE Head(delimiter)

\* Mutants of ParseByte: a delimiter counts inside quotes; a doubled quote
\* leaves no mark.
ParseByte_unquoted(s, line, i, delimiter) ==
  CASE line[i] = "\""    -> [s EXCEPT !.quoted = ~@]
    [] line[i] = delimiter /\ delimiter # "\"" ->
         [s EXCEPT !.fields = Append(@, s.field), !.field = <<>>]
    [] OTHER -> [s EXCEPT !.field = Append(@, line[i])]
ParseByte_noMark(s, line, i, delimiter) ==
  CASE line[i] = "\""    -> [s EXCEPT !.quoted = ~@]
    [] line[i] = delimiter /\ delimiter # "\"" /\ ~s.quoted ->
         [s EXCEPT !.fields = Append(@, s.field), !.field = <<>>]
    [] OTHER -> [s EXCEPT !.field = Append(@, line[i])]

\* One turn of the loop of parse_csv_line; skip stands for the second ++i.
ParseByte(s, line, i, delimiter) ==
  LET ch == line[i]
      escaped == s.quoted /\ ch = "\"" /\ i < Len(line) /\ line[i + 1] = "\""
      ends == ~s.quoted /\ ch = delimiter /\ ch # "\""
  IN CASE s.skip            -> [s EXCEPT !.skip = FALSE]
       [] ~s.skip /\ escaped -> [s EXCEPT !.field = Append(@, ch), !.skip = TRUE]
       [] ~s.skip /\ ch = "\"" /\ ~escaped -> [s EXCEPT !.quoted = ~@]
       [] ~s.skip /\ ends    -> [s EXCEPT !.fields = Append(@, s.field),
                                          !.field = <<>>]
       [] OTHER              -> [s EXCEPT !.field = Append(@, ch)]

\* The loop after each byte.
ParseScan(line, delimiter) ==
  LET scan[i \in 0 .. Len(line)] ==
        IF i = 0 THEN [fields |-> <<>>, field |-> <<>>, quoted |-> FALSE, skip |-> FALSE]
        ELSE ParseByte(scan[i - 1], line, i, delimiter)
  IN scan

parse_csv_line(line, delimiter) ==
  LET s == ParseScan(line, delimiter)[Len(line)]
  IN Append(s.fields, s.field)

NoReply == [tool |-> "none"]

\* What the two tools have in common: the lines, their fields, the flags.
Scan(max_bytes, max_rows, delimiter) ==
  LET read == read_bounded(max_bytes)
      limit == clamp(max_rows, 1, LargestRows)
      split == split_lines(read.text, limit)
  IN [max_rows |-> limit, error |-> read.error, lines |-> split.lines,
      delimiter |-> delimiter_char(delimiter),
      rows |-> [i \in DOMAIN split.lines |->
                  parse_csv_line(split.lines[i], delimiter_char(delimiter))],
      inputTruncated |-> read.truncated, rowLimited |-> split.limited]

\* The columns of a summary: <<>> stands for the name column_N.
Columns(rows) ==
  LET max_columns == Max({0} \cup {Len(rows[i]) : i \in DOMAIN rows})
      non_empty(c) == Cardinality({i \in 2 .. Len(rows) :
                        c <= Len(rows[i]) /\ rows[i][c] # <<>>})
  IN [c \in 1 .. max_columns |->
        [name |-> IF c <= Len(rows[1]) THEN rows[1][c] ELSE <<>>,
         nonEmpty |-> non_empty(c)]]

\* structured.dump throws unless every string in it is UTF-8.
Renders(strings) == \A text \in strings : Utf8(text)

csv_summary ==
  /\ reply = NoReply
  /\ \E max_bytes \in ByteLimits, max_rows \in RowLimits, delimiter \in Delimiters :
       LET scan == Scan(max_bytes, max_rows, delimiter)
           columns == Columns(scan.rows)
       IN reply' = [tool |-> "csv.summary", scan |-> scan, columns |-> columns,
                    throws |-> ~Renders({<<scan.delimiter>>} \cup
                                        {columns[c].name : c \in DOMAIN columns})]
  /\ UNCHANGED file

csv_sample ==
  /\ reply = NoReply
  /\ \E max_bytes \in ByteLimits, rows \in RowLimits, delimiter \in Delimiters :
       LET scan == Scan(max_bytes, rows, delimiter)
       IN reply' = [tool |-> "csv.sample", scan |-> scan,
                    throws |-> ~Renders({<<scan.delimiter>>} \cup
                                  UNION {ToSet(scan.rows[i]) : i \in DOMAIN scan.rows})]
  /\ UNCHANGED file

\* No state outlives a call.
Return ==
  /\ reply # NoReply
  /\ reply' = NoReply
  /\ UNCHANGED file

\* Another program extends the file.
Extend ==
  /\ reply = NoReply /\ file.kind = "file"
  /\ \E character \in Characters :
       /\ Len(file.bytes) + Len(character) <= MaxFile
       /\ file' = [file EXCEPT !.bytes = @ \o character]
  /\ UNCHANGED reply

Init ==
  /\ file \in [kind : FileKinds, bytes : {<<>>}]
  /\ reply = NoReply

Next == csv_summary \/ csv_sample \/ Return \/ Extend
Spec == Init /\ [][Next]_vars

-----------------------------------------------------------------------------
(* What csv.summary and csv.sample promise.                                *)
Replied == reply # NoReply /\ reply.scan.error = ""

TypeOK ==
  /\ file.kind \in FileKinds /\ Len(file.bytes) <= MaxFile
  /\ reply # NoReply =>
       /\ reply.tool \in {"csv.summary", "csv.sample"}
       /\ reply.scan.error \in (FileKinds \ {"file"}) \cup {""}
       /\ Len(reply.scan.rows) = Len(reply.scan.lines)
       /\ Len(reply.scan.lines) <= reply.scan.max_rows

\* The rows are those of the first lines of the file; the byte limit costs at
\* most the end of the last one, and neither limit takes anything away without
\* its flag (read_bounded, split_lines).
RowsAreFirstLines ==
  Replied => FirstLines(reply.scan.lines, file.bytes, reply.scan.inputTruncated,
                        reply.scan.rowLimited)

\* The separators of a line: the delimiters with an even number of quotes
\* before them.
Separators(line, delimiter) ==
  {p \in DOMAIN line :
     /\ line[p] = delimiter /\ delimiter # "\""
     /\ Cardinality({q \in 1 .. p - 1 : line[q] = "\""}) % 2 = 0}

\* What stands between the separators.
Segments(line, delimiter) ==
  LET separators == Separators(line, delimiter)
      ends == InOrder({0} \cup separators \cup {Len(line) + 1})
  IN [j \in 1 .. Cardinality(separators) + 1 |->
        SubSeq(line, ends[j] + 1, ends[j + 1] - 1)]

Unquoted(text) == Picked(text, {p \in DOMAIN text : text[p] # "\""})

\* Whatever the line, also one cut by the byte limit: its fields are what stands
\* between its separators, up to the quotes (parse_csv_line).
FieldsFollowTheQuotes ==
  Replied =>
    \A i \in DOMAIN reply.scan.lines :
      LET segments == Segments(reply.scan.lines[i], reply.scan.delimiter) IN
      /\ Len(reply.scan.rows[i]) = Len(segments)
      /\ \A j \in DOMAIN segments : Unquoted(reply.scan.rows[i][j]) = Unquoted(segments[j])

\* A field in quotes: each quote in it is doubled.
Doubled(field) ==
  LET written[k \in 0 .. Len(field)] ==
        IF k = 0 THEN <<>>
        ELSE written[k - 1] \o (IF field[k] = "\"" THEN <<"\"", "\"">> ELSE <<field[k]>>)
  IN written
Quoted(field) == <<"\"">> \o Doubled(field)[Len(field)] \o <<"\"">>

\* A field of a scanned line written in quotes, and one written without any,
\* comes back as it was (parse_csv_line).  A field with a line break is not one
\* of these: split_lines has cut it, or dropped its carriage return.
FieldsComeBack ==
  Replied =>
    \A i \in DOMAIN reply.scan.lines :
      LET segments == Segments(reply.scan.lines[i], reply.scan.delimiter) IN
      \A j \in DOMAIN segments :
        LET segment == segments[j] IN
        /\ Unquoted(segment) = segment => reply.scan.rows[i][j] = segment
        /\ Len(segment) >= 2 =>
             \A field \in BoundedSeq(ToSet(segment), Len(segment) - 2) :
               segment = Quoted(field) => reply.scan.rows[i][j] = field

\* A call fails only if a line of the file it scans is not UTF-8, because the
\* byte limit cut a character, or because the delimiter is half of one
\* (delimiter_char, structured.dump).
RendersUnlessCut ==
  Replied /\ reply.throws =>
    \/ ~Utf8(<<reply.scan.delimiter>>)
    \/ \E i \in DOMAIN reply.scan.lines : ~Utf8(AllLines(file.bytes)[i])
    \/ reply.scan.inputTruncated /\ ~Utf8(Last(reply.scan.lines))
=============================================================================
