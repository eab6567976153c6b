---------------------------- MODULE ParamHeader ----------------------------
(***************************************************************************)
(* The Mcp-Param-Token header of the tool test_header_echo                 *)
(* (validation/conformance/conformance_everything_server.cpp): the header  *)
(* repeats the token of the arguments, literally or, wrapped in            *)
(* =?base64?...?=, in Base64.                                              *)
(*                                                                         *)
(* A character of a payload is its place in the alphabet, Padding, or      *)
(* Foreign; a text is a sequence of bytes.                                 *)
(***************************************************************************)
EXTENDS Integers, Sequences, SequencesExt

CONSTANTS Sextets,    \* the characters of the alphabet that payloads use
          MaxPayload, \* bound on the length of a payload
          Literals    \* the values that are sent as they are

Padding == 64
Foreign == 65
Characters == Sextets \cup {Padding, Foreign}

VARIABLES payload,  \* the payload of the header that is being written
          headers,  \* the headers of the request
          token,    \* arguments.token
          reply     \* "none", "echo", "missing" or "mismatch"
vars == <<payload, headers, token, reply>>

Literal(text) == [wrapped |-> FALSE, is |-> text]
Wrapped(characters) == [wrapped |-> TRUE, is |-> characters]
Header(named, value) == [named |-> named, value |-> value]
OtherHeaders == [named : BOOLEAN, value : {Literal(text) : text \in Literals}]

Refused == [ok |-> FALSE, text |-> <<>>]
Decoded(text) == [ok |-> TRUE, text |-> text]

\* Mutant of IsBlock: a padding that is followed by characters.
IsBlock_anyOrder(c, isLast) ==
  /\ Foreign \notin {c[j] : j \in 1 .. 4}
  /\ \A j \in 1 .. 4 : c[j] = Padding => isLast
  /\ c[2] # Padding \/ c[3] # Padding \/ c[4] # Padding

\* The characters of a block: padding only at the end of the last block, and
\* twice at most.
IsBlock(c, isLast) ==
  /\ \A j \in 1 .. 4 : c[j] # Foreign /\ (c[j] = Padding => isLast)
  /\ \A j \in 1 .. 3 : c[j] = Padding => c[j + 1] = Padding
  /\ c[2] # Padding

Value(c) == IF c = Padding THEN 0 ELSE c

Number(c) ==
  ((Value(c[1]) * 64 + Value(c[2])) * 64 + Value(c[3])) * 64 + Value(c[4])

\* Mutant of Bytes: a byte is not masked.
Bytes_unmasked(c) ==
  SubSeq(<<Number(c) \div 65536, Number(c) \div 256, Number(c) % 256>>,
         1, IF c[3] = Padding THEN 1 ELSE IF c[4] = Padding THEN 2 ELSE 3)

\* Four characters of six bits are three bytes, those of the padding less.
Bytes(c) ==
  SubSeq(<<Number(c) \div 65536, (Number(c) \div 256) % 256, Number(c) % 256>>,
         1, IF c[3] = Padding THEN 1 ELSE IF c[4] = Padding THEN 2 ELSE 3)

\* The b-th block of four characters.
Part(input, b) == SubSeq(input, 4 * b - 3, 4 * b)

\* The loop after each block.
DecodeScan(input) ==
  LET scan[b \in 0 .. Len(input) \div 4] ==
        IF b = 0 THEN <<>> ELSE scan[b - 1] \o Bytes(Part(input, b))
  IN scan

strict_base64_decode(input) ==
  LET blocks == Len(input) \div 4
  IN IF input # <<>> /\ Len(input) % 4 = 0
        /\ \A b \in 1 .. blocks : IsBlock(Part(input, b), b = blocks)
     THEN Decoded(DecodeScan(input)[blocks])
     ELSE Refused

decode_mcp_param_value(value) ==
  IF value.wrapped THEN strict_base64_decode(value.is) ELSE Decoded(value.is)

\* Mutant of find_header: the last header of the name.
find_header_last == SelectLastInSeq(headers, LAMBDA h : h.named)

\* The first header of the name in any case, or 0.
find_header == SelectInSeq(headers, LAMBDA h : h.named)

\* A client writes a payload character by character ...
Write ==
  /\ reply = "none" /\ headers = <<>> /\ Len(payload) < MaxPayload
  /\ \E c \in Characters : payload' = Append(payload, c)
  /\ UNCHANGED <<headers, token, reply>>

\* ... and sends it in the first or in the second header, or not at all; the
\* other is another header, or of the same name.
Send ==
  /\ reply = "none" /\ headers = <<>>
  /\ \E others \in {<<>>} \cup {<<other>> : other \in OtherHeaders} :
       headers' \in {<<Header(TRUE, Wrapped(payload))>> \o others,
                     others \o <<Header(TRUE, Wrapped(payload))>>, others}
  /\ token' \in Literals \cup
               {decode_mcp_param_value(headers'[i].value).text : i \in DOMAIN headers'}
  /\ headers' # <<>> \/ token' = <<>>
  /\ reply' = "sent"
  /\ UNCHANGED payload

test_header_echo ==
  /\ reply = "sent"
  /\ reply' = IF find_header = 0 THEN "missing"
              ELSE LET decoded == decode_mcp_param_value(headers[find_header].value)
                   IN IF decoded.ok /\ decoded.text = token THEN "echo" ELSE "mismatch"
  /\ UNCHANGED <<payload, headers, token>>

Init == payload = <<>> /\ headers = <<>> /\ token = <<>> /\ reply = "none"
Next == Write \/ Send \/ test_header_echo
Spec == Init /\ [][Next]_vars
=============================================================================
