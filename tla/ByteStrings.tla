---------------------------- MODULE ByteStrings -----------------------------
(***************************************************************************)
(* Python's byte strings, as the codec (src/src/rhfeed/codec.py) cuts and  *)
(* reads them: offsets count from 0, a slice past the end is shorter.      *)
(***************************************************************************)
EXTENDS Integers, Sequences

Byte == 0..255

\* b[from:to]
Slice(b, from, to) == SubSeq(b, from + 1, IF to < Len(b) THEN to ELSE Len(b))

\* int.from_bytes(b, "big")
BigEndian(b) ==
    LET read[k \in 0..Len(b)] == IF k = 0 THEN 0 ELSE 256 * read[k - 1] + b[k]
    IN  read[Len(b)]

\* How many numbers k bytes can hold.
Power[k \in Nat] == IF k = 0 THEN 1 ELSE 256 * Power[k - 1]
=============================================================================
