-------------------------- MODULE Sha256Properties --------------------------
(* What is hashed is the message padded as FIPS 180-4 says (5.1.1).        *)
EXTENDS Sha256

Bytes == ({"data"} \X Nat) \cup ({"pad"} \X (0 .. 255))
Whole(n) == \E blocks \in 0 .. n : n = blocks * Block
LengthBytes == Block - LengthAt

\* The types, and where the places of the buffer end: no byte is written behind
\* the buffer, which is never full when update and finish begin.
TypeOK ==
  /\ pc \in {"update", "fill", "pad", "length", "done"}
  /\ length \in Nat /\ bit_length \in Nat /\ bits \in Nat /\ left \in Nat
  /\ buffer \in Seq(Bytes) /\ hashed \in Seq(Bytes)
  /\ Len(buffer) <= Block
  /\ pc = "update" => Len(buffer) < Block
  /\ pc = "pad" => Len(buffer) <= LengthAt
  /\ pc = "length" => Len(buffer) + left = Block /\ left <= LengthBytes

\* Byte k of a message of n bytes that is padded to a total.
PaddedByte(k, n, total) ==
  CASE k <= n    -> Data(k)
    [] k = n + 1 -> Pad(128)
    [] k > n + 1 /\ k <= total - LengthBytes -> Pad(0)
    [] OTHER     -> Pad(Byte(8 * n, total - k))

\* Whole blocks with as few zeros as there can be.
IsPadded(message, n) ==
  /\ Whole(Len(message))
  /\ Len(message) - (n + 1 + LengthBytes) \in 0 .. Block - 1
  /\ \A k \in 1 .. Len(message) : message[k] = PaddedByte(k, n, Len(message))

\* The digest is that of the padded message, for every length: those at which
\* the 0x80 or the length just fits or just does not fit the block included.
HashesThePaddedMessage == pc = "done" => IsPadded(hashed, length)

\* What was hashed or buffered is the beginning of the data, and from finish on
\* of the padded message, whose total is known by then.
Put(k) == IF k <= Len(hashed) THEN hashed[k] ELSE buffer[k - Len(hashed)]
Position == Len(hashed) + Len(buffer)
Total == CASE pc = "fill" -> Len(hashed) + 2 * Block
           [] pc = "done" -> Len(hashed)
           [] OTHER       -> Len(hashed) + Block

BuffersTheData ==
  pc = "update" =>
    /\ Position = length /\ bit_length = 8 * Len(hashed)
    /\ \A k \in 1 .. Position : Put(k) = Data(k)
PadsTheMessage ==
  pc # "update" =>
    /\ bits = 8 * length
    /\ Total - (length + 1 + LengthBytes) \in 0 .. Block - 1
    /\ pc \in {"fill", "pad"} => length < Position
    /\ pc = "fill" => length + LengthBytes >= Len(hashed) + Block
    /\ pc # "done" => \A k \in 1 .. Position : Put(k) = PaddedByte(k, length, Total)
    /\ pc = "done" => \A k \in 1 .. Len(hashed) :
                        hashed[k] = PaddedByte(k, length, Len(hashed))
IInv == TypeOK /\ Whole(Len(hashed)) /\ BuffersTheData /\ PadsTheMessage
=============================================================================
