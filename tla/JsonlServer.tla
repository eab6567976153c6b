---------------------------- MODULE JsonlServer ----------------------------
(***************************************************************************)
(* examples/servers/jsonl_server.cpp: jsonl.summary and jsonl.sample of a  *)
(* file of one JSON value per line, which another program may extend       *)
(* between two calls.  The values are numbers, strings and objects with    *)
(* one member or none: the byte "k" stands for the member "k":1.  The      *)
(* reply is rendered as JSON, which fails on text that is not UTF-8.       *)
(***************************************************************************)
EXTENDS FileText

CONSTANTS Characters,   \* the characters of a file, each a sequence of bytes
          MaxFile,      \* bound on the bytes of a file
          ByteLimits,   \* the values of max_bytes
          LineLimits,   \* the values of max_lines and lines
          ErrorLimits,  \* the values of max_errors
          LargestBytes, \* the largest byte limit (64 * 1024 * 1024)
          LargestLines, \* the largest line limit (100000 and 1000)
          LargestErrors \* the largest number of errors (100)

VARIABLES file,  \* the file
          reply  \* the call being handled and its reply
vars == <<file, reply>>

read_bounded(max_bytes) == ReadBounded(file, max_bytes, LargestBytes)
split_lines(text, max_lines) == SplitLines(text, max_lines)

\* How far the parser is after a byte: "error" if no value begins like this.  A
\* string that no value has at its place ("in excess") is read to its end first.
After(state, previous, ch) ==
  IF (previous = "lead") # (ch = "trail") THEN "error" ELSE
  CASE state \in {"begin", "integer"} /\ ch = "1" -> "integer"
    [] state = "begin" /\ ch = "\""              -> "in string"
    [] state = "begin" /\ ch = "{"               -> "in object"
    [] state = "in object" /\ ch = "}"           -> "object"
    [] state = "in object" /\ ch = "k"           -> "member"
    [] state = "in object" /\ ch = "\""          -> "in key"
    [] state = "member" /\ ch = "}"              -> "object with k"
    [] state = "in string" /\ ch = "\""          -> "string"
    [] state = "in key" /\ ch = "\""             -> "key"
    [] state \in {"integer", "string", "object", "member", "object with k", "key"}
         /\ ch = "\""                            -> "in excess"
    [] state \in {"in string", "in key", "in excess"}
         /\ ch \notin {"\"", "k"}                -> state
    [] OTHER                                     -> "error"

Reading(line) ==
  LET read[i \in 0 .. Len(line)] ==
        IF i = 0 THEN "begin"
        ELSE After(read[i - 1], IF i = 1 THEN "none" ELSE line[i - 1], line[i])
  IN read

\* Json::parse: what kind of value a line is, "malformed" if it throws.
Parse(line) ==
  LET end == Reading(line)[Len(line)] IN
  IF end \in {"integer", "string", "object", "object with k"} THEN end ELSE "malformed"

\* The text of the exception quotes what was read, up to the byte that is an
\* error: structured.dump throws if that is not UTF-8.
Unprintable(line) ==
  /\ Parse(line) = "malformed"
  /\ \E n \in DOMAIN line :
       /\ \A m \in 1 .. n - 1 : Reading(line)[m] # "error"
       /\ n = Len(line) \/ Reading(line)[n] = "error"
       /\ ~Utf8(SubSeq(line, 1, n))

json_type(value) ==
  CASE value = "integer"                        -> "number"
    [] value = "string"                         -> "string"
    [] value \in {"object", "object with k"}    -> "object"
    [] OTHER                                    -> "unknown"

\* Mutant of ScanLine: the number of errors is not bounded.
ScanLine_allErrors(s, value, i, max_errors) ==
  IF value = "malformed" THEN [s EXCEPT !.errors = Append(@, i)]
  ELSE [s EXCEPT !.valid = @ + 1, !.types[json_type(value)] = @ + 1,
                 !.keys = IF value = "object with k" THEN @ + 1 ELSE @]

\* Mutant of ScanLine: the bound on the errors ends the scan.
ScanLine_stops(s, value, i, max_errors) ==
  IF Len(s.errors) >= max_errors THEN s
  ELSE IF value = "malformed" THEN [s EXCEPT !.errors = Append(@, i)]
  ELSE [s EXCEPT !.valid = @ + 1, !.types[json_type(value)] = @ + 1,
                 !.keys = IF value = "object with k" THEN @ + 1 ELSE @]

\* One turn of the loop of jsonl_summary: counts, or one of the first errors.
ScanLine(s, value, i, max_errors) ==
  IF value # "malformed"
  THEN [s EXCEPT !.valid = @ + 1, !.types[json_type(value)] = @ + 1,
                 !.keys = IF value = "object with k" THEN @ + 1 ELSE @]
  ELSE IF Len(s.errors) < max_errors THEN [s EXCEPT !.errors = Append(@, i)]
  ELSE s

\* The loop after each line.
LineScan(lines, max_errors) ==
  LET scan[i \in 0 .. Len(lines)] ==
        IF i = 0 THEN [valid |-> 0, types |-> [t \in {"number", "string", "object"} |-> 0],
                       keys |-> 0, errors |-> <<>>]
        ELSE ScanLine(scan[i - 1], Parse(lines[i]), i, max_errors)
  IN scan

NoReply == [tool |-> "none"]

\* What the two tools have in common.
Scan(max_bytes, max_lines) ==
  LET read == read_bounded(max_bytes)
      limit == clamp(max_lines, 1, LargestLines)
      split == split_lines(read.text, limit)
  IN [max_lines |-> limit, error |-> read.error,
      lines |-> split.lines, inputTruncated |-> read.truncated,
      lineLimited |-> split.limited]

jsonl_summary ==
  /\ reply = NoReply
  /\ \E max_bytes \in ByteLimits, max_lines \in LineLimits, max_errors \in ErrorLimits :
       LET scan == Scan(max_bytes, max_lines)
           limit == clamp(max_errors, 0, LargestErrors)
           counts == LineScan(scan.lines, limit)[Len(scan.lines)]
       IN reply' = [tool |-> "jsonl.summary", scan |-> scan, counts |-> counts,
                    invalid |-> Len(scan.lines) - counts.valid, max_errors |-> limit,
                    throws |-> \E i \in ToSet(counts.errors) :
                                 Unprintable(scan.lines[i])]
  /\ UNCHANGED file

jsonl_sample ==
  /\ reply = NoReply
  /\ \E max_bytes \in ByteLimits, lines \in LineLimits :
       LET scan == Scan(max_bytes, lines)
       IN reply' = [tool |-> "jsonl.sample", scan |-> scan,
                    rows |-> [i \in DOMAIN scan.lines |->
                                [line |-> i, value |-> Parse(scan.lines[i])]],
                    throws |-> \E i \in DOMAIN scan.lines :
                                 Unprintable(scan.lines[i])]
  /\ UNCHANGED file

\* No state outlives a call.
Return ==
  /\ reply # NoReply
  /\ reply' = NoReply
  /\ UNCHANGED file

\* Another program extends the file.
Extend ==
  /\ reply = NoReply /\ file.kind = "file"
  /\ \E character \in Characters :
       /\ Len(file.bytes) + Len(character) <= MaxFile
       /\ file' = [file EXCEPT !.bytes = @ \o character]
  /\ UNCHANGED reply

Init ==
  /\ file \in [kind : FileKinds, bytes : {<<>>}]
  /\ reply = NoReply

Next == jsonl_summary \/ jsonl_sample \/ Return \/ Extend
Spec == Init /\ [][Next]_vars

-----------------------------------------------------------------------------
(* What jsonl.summary and jsonl.sample promise.                            *)
Replied == reply # NoReply /\ reply.scan.error = ""
Summary == Replied /\ reply.tool = "jsonl.summary"

TypeOK ==
  /\ file.kind \in FileKinds /\ Len(file.bytes) <= MaxFile
  /\ reply # NoReply =>
       /\ reply.tool \in {"jsonl.summary", "jsonl.sample"}
       /\ reply.scan.error \in (FileKinds \ {"file"}) \cup {""}
       /\ Len(reply.scan.lines) <= reply.scan.max_lines
  /\ Summary => Len(reply.counts.errors) <= reply.max_errors

\* The lines are the first of the file, and what is left out is flagged
\* (read_bounded, split_lines).
LinesAreFirstLines ==
  Replied => FirstLines(reply.scan.lines, file.bytes, reply.scan.inputTruncated,
                        reply.scan.lineLimited)

\* Every scanned line is counted once, by its type or as an error, and the
\* errors listed are the first ones, however many there are (jsonl_summary).
CountsAddUp ==
  Summary =>
    LET malformed ==
          {i \in DOMAIN reply.scan.lines : Parse(reply.scan.lines[i]) = "malformed"} IN
    /\ reply.counts.types["number"] + reply.counts.types["string"]
         + reply.counts.types["object"] = reply.counts.valid
    /\ reply.counts.keys <= reply.counts.types["object"]
    /\ reply.invalid = Cardinality(malformed)
    /\ reply.counts.errors = SubSeq(InOrder(malformed), 1,
                             Min({reply.max_errors, reply.invalid}))

\* A limited read misjudges at most the line it cuts: the verdicts on all
\* others, and on all lines of an input that is not truncated, are those of the
\* whole file (read_bounded before split_lines before Json::parse).
OnlyTheCutLineIsMisjudged ==
  Replied =>
    LET all == AllLines(file.bytes)
        wrong ==
          {i \in DOMAIN reply.scan.lines : Parse(reply.scan.lines[i]) # Parse(all[i])}
    IN wrong \subseteq IF reply.scan.inputTruncated THEN {Len(reply.scan.lines)} ELSE {}

\* A call fails only if a line of the file that holds no value has a character
\* outside ASCII, or because the byte limit cut one: values never make it fail,
\* whatever is in their strings (structured.dump, outside the try).
RendersUnlessCut ==
  Replied /\ reply.throws =>
    \/ \E i \in DOMAIN reply.scan.lines :
         LET line == AllLines(file.bytes)[i] IN
         Parse(line) = "malformed" /\ \E p \in DOMAIN line : line[p] \in {"lead", "trail"}
    \/ reply.scan.inputTruncated /\ ~Utf8(Last(reply.scan.lines))
=============================================================================
