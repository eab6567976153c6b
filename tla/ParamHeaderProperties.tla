----------------------- MODULE ParamHeaderProperties -----------------------
(* What the decoding of a header promises, against the encoding of         *)
(* RFC 4648, section 4, which works on bits.                               *)
EXTENDS ParamHeader, FiniteSets

Powers == <<1, 2, 4, 8, 16, 32, 64, 128>>
Bit(number, i) == (number \div Powers[i + 1]) % 2

\* The bits of a text, and the character that six of them are; what is missing
\* at the end is zero.
BitOf(text, k) ==
  IF k >= 8 * Len(text) THEN 0 ELSE Bit(text[k \div 8 + 1], 7 - (k % 8))
CharacterOf(text, i) ==
  LET bit(k) == BitOf(text, 6 * (i - 1) + k) IN
  IF 6 * (i - 1) >= 8 * Len(text) THEN Padding
  ELSE 32 * bit(0) + 16 * bit(1) + 8 * bit(2) + 4 * bit(3) + 2 * bit(4) + bit(5)
Encoding(text) ==
  [i \in 1 .. 4 * ((Len(text) + 2) \div 3) |-> CharacterOf(text, i)]

\* A payload of the grammar: whole blocks that end in up to two paddings.
IsBase64(c) ==
  /\ c # <<>> /\ Len(c) % 4 = 0
  /\ \E paddings \in 0 .. 2 : \A i \in DOMAIN c :
       IF i > Len(c) - paddings THEN c[i] = Padding ELSE c[i] \in 0 .. 63

\* The bits of the last character that no byte is made of are zero.
Paddings(c) == Cardinality({i \in DOMAIN c : c[i] = Padding})
Canonical(c) == [c EXCEPT ![Len(c) - Paddings(c)] = @ - (@ % <<1, 4, 16>>[Paddings(c) + 1])]

\* The types; what a decoder returns are bytes.
TypeOK ==
  /\ payload \in Seq(Characters) /\ Len(payload) <= MaxPayload
  /\ \A i \in DOMAIN headers : headers[i].named \in BOOLEAN
  /\ \A i \in DOMAIN token : token[i] \in 0 .. 255
  /\ reply \in {"none", "sent", "echo", "missing", "mismatch"}

\* The payloads of the grammar (alphabet, length and padding) are decoded, no
\* other is, and encoding the result gives back the payload with zeros for the
\* bits that no byte is made of (strict_base64_decode).  The decoder ignores
\* these bits: it accepts more than the encodings of RFC 4648, where they are zero.
DecodesExactly ==
  LET decoded == strict_base64_decode(payload) IN
  /\ decoded.ok <=> IsBase64(payload)
  /\ decoded.ok => Encoding(decoded.text) = Canonical(payload)

\* A client that wraps the encoding of its token is echoed whatever headers of
\* other names it sends before and whatever follows; one that wraps another
\* token, or none, is not (test_header_echo, find_header). The empty token has
\* no encoding the server accepts.
EchoesTheToken ==
  \A i \in DOMAIN headers :
    headers[i] = Header(TRUE, Wrapped(payload)) /\ (\A j \in 1 .. i - 1 : ~headers[j].named) =>
      /\ payload = Encoding(token) /\ token # <<>> => reply \in {"sent", "echo"}
      /\ reply = "echo" => Encoding(token) = Canonical(payload)
=============================================================================
