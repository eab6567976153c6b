--------------------------- MODULE JsonFileServer ---------------------------
(***************************************************************************)
(* examples/servers/json_file_server.cpp: json.summary and json.pointer of *)
(* a file with one JSON document.  A document is a function from the paths *)
(* of its values to their types.  A path is a sequence of keys, a key a    *)
(* sequence of characters; the key of an array element is its index in     *)
(* decimal.  A document takes two bytes for each of its values, and may be *)
(* followed by white space and other text, with which the file is none.    *)
(***************************************************************************)
EXTENDS FileText

CONSTANTS Documents,    \* the documents
          MaxSpace,     \* bound on the white space and on the text behind them
          Pointers,     \* the pointers clients send, sequences of characters
          ByteLimits,   \* the values of max_bytes and max_output_bytes
          ChildLimits,  \* the values of max_children
          LargestBytes, \* the largest input limit (8 * 1024 * 1024)
          LargestOutput,   \* the largest output limit (1024 * 1024)
          LargestChildren, \* the largest number of children listed (500)
          LargestIndex  \* the largest index stoull can return

VARIABLES file,   \* what the path names, its document, where the document and
                  \* its white space end, and the size
          reply   \* the call being handled and its reply
vars == <<file, reply>>

read_bounded(max_bytes) ==
  ReadBounded([kind |-> file.kind, bytes |-> [i \in 1 .. file.size |-> i]],
              max_bytes, LargestBytes)

Children(doc, path) ==
  {p \in DOMAIN doc : Len(p) = Len(path) + 1 /\ IsPrefix(path, p)}
Subtree(doc, path) == {p \in DOMAIN doc : IsPrefix(path, p)}
count_nodes(doc, path) == Cardinality(Subtree(doc, path))

Malformed == [path \in {<<>>} |-> "malformed"]
OtherNumber == [path \in {<<>>} |-> "other number"]
DocumentBytes(doc) == 2 * Cardinality(DOMAIN doc)

\* Mutant of Parse: text behind the document is not looked at.
Parse_first(text) ==
  IF Len(text) >= DocumentBytes(file.doc) THEN file.doc
  ELSE IF file.doc[<<>>] = "number" THEN OtherNumber
  ELSE Malformed

\* Json::parse of the text read: the white space may be missing, other text may
\* not be there; of a number at the root the first digit is a number too,
\* anything else cut is malformed.
Parse(text) ==
  IF Len(text) > file.end THEN Malformed
  ELSE IF Len(text) >= DocumentBytes(file.doc) THEN file.doc
  ELSE IF file.doc[<<>>] = "number" THEN OtherNumber
  ELSE Malformed

json_type(value) == IF value = "other number" THEN "number" ELSE value

\* Mutant of unescape_pointer_token: "~0" is replaced first, then "~1".
unescape_pointer_token_twice(token) ==
  LET replace(text, digit, ch) ==
        FoldLeftDomain(LAMBDA s, i :
            IF s.skip THEN [s EXCEPT !.skip = FALSE]
            ELSE IF i < Len(text) /\ text[i] = "~" /\ text[i + 1] = digit
            THEN [out |-> Append(s.out, ch), skip |-> TRUE]
            ELSE [s EXCEPT !.out = Append(@, text[i])],
          [out |-> <<>>, skip |-> FALSE], text).out
  IN replace(replace(token, "0", "~"), "1", "/")

\* One turn of the loop of unescape_pointer_token: "~0" is "~" and "~1" is "/",
\* read from the left; another "~" is itself.
Unescape(s, token, i) ==
  CASE s.skip -> [s EXCEPT !.skip = FALSE]
    [] ~s.skip /\ token[i] = "~" /\ i < Len(token) /\ token[i + 1] \in {"0", "1"} ->
         [out |-> Append(s.out, IF token[i + 1] = "0" THEN "~" ELSE "/"), skip |-> TRUE]
    [] OTHER -> [s EXCEPT !.out = Append(@, token[i])]

UnescapeScan(token) ==
  LET scan[i \in 0 .. Len(token)] ==
        IF i = 0 THEN [out |-> <<>>, skip |-> FALSE] ELSE Unescape(scan[i - 1], token, i)
  IN scan
unescape_pointer_token(token) == UnescapeScan(token)[Len(token)].out

Digit == [d \in {"0", "1", "2", "3", "4", "5", "6", "7", "8", "9"} |->
            CASE d = "0" -> 0 [] d = "1" -> 1 [] d = "2" -> 2 [] d = "3" -> 3
              [] d = "4" -> 4 [] d = "5" -> 5 [] d = "6" -> 6 [] d = "7" -> 7
              [] d = "8" -> 8 [] OTHER -> 9]
non_negative_integer(text) ==
  text # <<>> /\ \A i \in DOMAIN text : text[i] \in DOMAIN Digit

\* std::stoull after each digit.
IndexScan(text) ==
  LET scan[i \in 0 .. Len(text)] ==
        IF i = 0 THEN 0 ELSE 10 * scan[i - 1] + Digit[text[i]]
  IN scan
Index(text) == IndexScan(text)[Len(text)]

\* The element of an array at an index.
Element(doc, path, index) ==
  CHOOSE p \in Children(doc, path) : Index(Last(p)) = index

None == [found |-> FALSE, path |-> <<>>]
At(path) == [found |-> TRUE, path |-> path]

\* Mutant of Step: a value without children is its own child.
Step_stays(doc, path, token) ==
  IF Append(path, token) \in DOMAIN doc THEN At(Append(path, token))
  ELSE IF doc[path] \in {"object", "array"} THEN None ELSE At(path)

\* One turn of the loop of resolve_pointer from the value at a path.
Step(doc, path, token) ==
  CASE doc[path] = "object" ->
         IF Append(path, token) \in DOMAIN doc THEN At(Append(path, token)) ELSE None
    [] doc[path] = "array" ->
         IF /\ non_negative_integer(token)
            /\ Index(token) <= LargestIndex
            /\ Index(token) < Cardinality(Children(doc, path))
         THEN At(Element(doc, path, Index(token))) ELSE None
    [] OTHER -> None

\* The raw tokens of a pointer that starts with "/".
Slashes(pointer) == {i \in DOMAIN pointer : pointer[i] = "/"}
Tokens(pointer) ==
  LET ends == InOrder(Slashes(pointer) \cup {Len(pointer) + 1})
  IN [j \in 1 .. Cardinality(Slashes(pointer)) |->
        SubSeq(pointer, ends[j] + 1, ends[j + 1] - 1)]

\* Where the first tokens of a pointer lead.
Resolve(doc, tokens) ==
  LET scan[j \in 0 .. Len(tokens)] ==
        IF j = 0 THEN At(<<>>)
        ELSE IF scan[j - 1].found
             THEN Step(doc, scan[j - 1].path, unescape_pointer_token(tokens[j]))
             ELSE None
  IN scan

\* Where a pointer leads.  An index that stoull cannot represent throws, which
\* the handler turns into an error as well.
resolve_pointer(doc, pointer) ==
  IF pointer = <<>> THEN At(<<>>)
  ELSE IF Head(pointer) # "/" THEN None
  ELSE Resolve(doc, Tokens(pointer))[Len(Tokens(pointer))]

\* Whether the rendered text of a value of a size is cut.
bounded_dump(size, output) == size > clamp(output, 1, LargestOutput)

NoReply == [tool |-> "none"]
error_result(tool) == [tool |-> tool, ok |-> FALSE]

json_summary ==
  /\ reply = NoReply
  /\ \E max_bytes \in ByteLimits, max_children \in ChildLimits :
       LET read == read_bounded(max_bytes)
           parsed == Parse(read.text)
           size == Cardinality(Children(parsed, <<>>))
       IN reply' =
            IF read.error # "" \/ parsed = Malformed THEN error_result("json.summary")
            ELSE [tool |-> "json.summary", ok |-> TRUE, of |-> parsed,
                  type |-> json_type(parsed[<<>>]),
                  nodes |-> count_nodes(parsed, <<>>),
                  children |-> Min({size, clamp(max_children, 1, LargestChildren)}),
                  inputTruncated |-> read.truncated]
  /\ UNCHANGED file

json_pointer ==
  /\ reply = NoReply
  /\ \E max_bytes \in ByteLimits, output \in ByteLimits, pointer \in Pointers :
       LET read == read_bounded(max_bytes)
           parsed == Parse(read.text)
           value == resolve_pointer(parsed, pointer)
           size == count_nodes(parsed, value.path)
       IN reply' =
            IF read.error # "" \/ parsed = Malformed
            THEN error_result("json.pointer")
            ELSE [tool |-> "json.pointer", ok |-> value.found, of |-> parsed,
                  pointer |-> pointer, path |-> value.path,
                  type |-> json_type(parsed[value.path]),
                  outputTruncated |-> bounded_dump(size, output)]
  /\ UNCHANGED file

\* No state outlives a call.
Return ==
  /\ reply # NoReply
  /\ reply' = NoReply
  /\ UNCHANGED file

Init ==
  /\ \E doc \in Documents, kind \in FileKinds, space, text \in 0 .. MaxSpace :
       file = [kind |-> kind, doc |-> doc, end |-> DocumentBytes(doc) + space,
               size |-> DocumentBytes(doc) + space + text]
  /\ reply = NoReply

Next == json_summary \/ json_pointer \/ Return
Spec == Init /\ [][Next]_vars

-----------------------------------------------------------------------------
(* What json.summary and json.pointer promise.                             *)
Answered(tool) == reply # NoReply /\ reply.tool = tool /\ "of" \in DOMAIN reply

\* The pointer to a path, by RFC 6901.
Escaped(ch) ==
  CASE ch = "~" -> <<"~", "0">> [] ch = "/" -> <<"~", "1">> [] OTHER -> <<ch>>
EscapeScan(key) ==
  LET written[k \in 0 .. Len(key)] ==
        IF k = 0 THEN <<>> ELSE written[k - 1] \o Escaped(key[k])
  IN written
Escape(key) == EscapeScan(key)[Len(key)]
PointerScan(path) ==
  LET written[k \in 0 .. Len(path)] ==
        IF k = 0 THEN <<>> ELSE written[k - 1] \o <<"/">> \o Escape(path[k])
  IN written
PointerTo(path) == PointerScan(path)[Len(path)]

TypeOK ==
  /\ file.kind \in FileKinds /\ file.doc \in Documents
  /\ reply # NoReply => reply.tool \in {"json.summary", "json.pointer"}
  /\ Answered("json.summary") => reply.children \in 0 .. LargestChildren
  /\ Answered("json.pointer") => reply.path \in DOMAIN reply.of

\* Every value of the document has a pointer that leads to it, whatever the
\* characters of its keys (resolve_pointer, unescape_pointer_token).
EveryValueIsReached ==
  Answered("json.pointer") =>
    \A path \in DOMAIN reply.of :
      reply.pointer = PointerTo(path) => reply.ok /\ reply.path = path

\* A pointer leads nowhere but to the value it names; only a "~" that escapes
\* nothing and the leading zeros of an index may be written in other ways.
OnlyTheNamedValue ==
  (Answered("json.pointer") /\ reply.ok) =>
    LET tokens == Tokens(reply.pointer)
        stray == \E i \in DOMAIN reply.pointer :
                   /\ reply.pointer[i] = "~"
                   /\ i = Len(reply.pointer) \/ reply.pointer[i + 1] \notin {"0", "1"}
        zeros == \E j \in DOMAIN tokens : Len(tokens[j]) > 1 /\ Head(tokens[j]) = "0"
    IN stray \/ zeros \/ reply.pointer = PointerTo(reply.path)

\* The summary is the whole document's; a number cut by the input limit is the
\* one case where it is another's, and then it says so, as it does if the limit
\* hid text behind the document (json_summary).
SummaryIsTheFiles ==
  Answered("json.summary") =>
    /\ \/ /\ reply.nodes = Cardinality(DOMAIN file.doc)
          /\ reply.type = file.doc[<<>>]
          /\ reply.of = file.doc
       \/ reply.inputTruncated /\ file.doc[<<>>] = "number"
    /\ file.size > file.end => reply.inputTruncated
=============================================================================
