------------------------------- MODULE Sha256 -------------------------------
(***************************************************************************)
(* The buffering and the padding of the class Sha256 of                    *)
(* validation/conformance/conformance_everything_server.cpp, which digests *)
(* the files of the skill.  Bytes are put into a buffer one by one; a full *)
(* buffer goes through transform, which is abstracted: the state is what   *)
(* it was made of, the bytes transformed so far.                           *)
(***************************************************************************)
EXTENDS Integers, Sequences

CONSTANTS Block,    \* the size of the buffer (64)
          LengthAt, \* where the length begins in the last block (56)
          MaxLength \* bound on the bytes hashed

ASSUME Sha256Assumption ==
  /\ Block \in Nat /\ LengthAt \in Nat /\ MaxLength \in Nat
  /\ 0 < LengthAt /\ LengthAt < Block

VARIABLES pc,         \* "update", "fill", "pad", "length" or "done"
          length,     \* the bytes update was given
          buffer,     \* buffer_, up to buffer_len_
          bit_length, \* bit_length_
          bits,       \* the length finish appends
          left,       \* i of the loop that appends it, plus one
          hashed      \* the bytes transformed: state_
vars == <<pc, length, buffer, bit_length, bits, left, hashed>>

\* Byte i of a number of 64 bits, of which the model's need 31.
Powers == <<1, 256, 65536, 16777216>>
Byte(number, i) == IF i > 3 THEN 0 ELSE (number \div Powers[i + 1]) % 256

\* The bytes of the buffer: of the data by their places, of the padding.
Data(i) == <<"data", i>>
Pad(value) == <<"pad", value>>

\* Mutant of UpdateByte: the length is counted in blocks only.
UpdateByte_uncounted ==
  /\ pc = "update" /\ length < MaxLength
  /\ length' = length + 1
  /\ LET filled == Append(buffer, Data(length + 1)) IN
       IF Len(filled) = Block
       THEN /\ hashed' = hashed \o filled /\ buffer' = <<>>
            /\ bit_length' = bit_length + 1
       ELSE buffer' = filled /\ UNCHANGED <<hashed, bit_length>>
  /\ UNCHANGED <<pc, bits, left>>

\* One turn of the loop of update.
UpdateByte ==
  /\ pc = "update" /\ length < MaxLength
  /\ length' = length + 1
  /\ LET filled == Append(buffer, Data(length + 1)) IN
       IF Len(filled) = Block
       THEN /\ hashed' = hashed \o filled /\ buffer' = <<>>
            /\ bit_length' = bit_length + 8 * Block
       ELSE buffer' = filled /\ UNCHANGED <<hashed, bit_length>>
  /\ UNCHANGED <<pc, bits, left>>

\* Mutant of Finish: the 0x80 itself is not counted.
Finish_early ==
  /\ pc = "update"
  /\ bits' = bit_length + 8 * Len(buffer)
  /\ buffer' = Append(buffer, Pad(128))
  /\ pc' = IF Len(buffer) > LengthAt THEN "fill" ELSE "pad"
  /\ UNCHANGED <<length, bit_length, left, hashed>>

\* finish: 0x80, and another block if the length does not fit behind it.
Finish ==
  /\ pc = "update"
  /\ bits' = bit_length + 8 * Len(buffer)
  /\ buffer' = Append(buffer, Pad(128))
  /\ pc' = IF Len(buffer') > LengthAt THEN "fill" ELSE "pad"
  /\ UNCHANGED <<length, bit_length, left, hashed>>

\* Zeros up to the end of the block, which is transformed.
Fill ==
  /\ pc = "fill"
  /\ IF Len(buffer) < Block
     THEN buffer' = Append(buffer, Pad(0)) /\ UNCHANGED <<pc, hashed>>
     ELSE hashed' = hashed \o buffer /\ buffer' = <<>> /\ pc' = "pad"
  /\ UNCHANGED <<length, bit_length, bits, left>>

\* Mutant of PadZeros: the loop of the length starts one byte too low.
PadZeros_short ==
  /\ pc = "pad"
  /\ IF Len(buffer) < LengthAt
     THEN buffer' = Append(buffer, Pad(0)) /\ UNCHANGED <<pc, left>>
     ELSE pc' = "length" /\ left' = Block - LengthAt - 1 /\ UNCHANGED buffer
  /\ UNCHANGED <<length, bit_length, bits, hashed>>

\* Zeros up to the place of the length.
PadZeros ==
  /\ pc = "pad"
  /\ IF Len(buffer) < LengthAt
     THEN buffer' = Append(buffer, Pad(0)) /\ UNCHANGED <<pc, left>>
     ELSE pc' = "length" /\ left' = Block - LengthAt /\ UNCHANGED buffer
  /\ UNCHANGED <<length, bit_length, bits, hashed>>

\* The length, its highest byte first; the last block is transformed.
PutLength ==
  /\ pc = "length"
  /\ IF left > 0
     THEN /\ buffer' = Append(buffer, Pad(Byte(bits, left - 1)))
          /\ left' = left - 1 /\ UNCHANGED <<pc, hashed>>
     ELSE /\ hashed' = hashed \o buffer
          /\ pc' = "done" /\ UNCHANGED <<buffer, left>>
  /\ UNCHANGED <<length, bit_length, bits>>

Init ==
  /\ pc = "update" /\ length = 0 /\ buffer = <<>> /\ bit_length = 0
  /\ bits = 0 /\ left = 0 /\ hashed = <<>>

Next == UpdateByte \/ Finish \/ Fill \/ PadZeros \/ PutLength
Spec == Init /\ [][Next]_vars
=============================================================================
