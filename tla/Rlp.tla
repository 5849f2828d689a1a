-------------------------------- MODULE Rlp ---------------------------------
(***************************************************************************)
(* RLP as the codec (src/src/rhfeed/codec.py) writes an item and reads the *)
(* prefix of one.                                                          *)
(***************************************************************************)
EXTENDS ByteStrings

\* int.to_bytes with as few bytes as the number needs.
NumberBytes[n \in Nat] == IF n = 0 THEN <<>> ELSE Append(NumberBytes[n \div 256], n % 256)

RlpHeader(length, offset) ==
    IF length < 56 THEN <<offset + length>>
    ELSE <<offset + 55 + Len(NumberBytes[length])>> \o NumberBytes[length]

RlpList(content) == RlpHeader(Len(content), 192) \o content

RlpBytes(b) == IF Len(b) = 1 /\ b[1] < 128 THEN b ELSE RlpHeader(Len(b), 128) \o b

RlpUint(n) == RlpBytes(NumberBytes[n])

-----------------------------------------------------------------------------
(* Reading                                                                 *)

Triple(start, from, to) == [start |-> start, from |-> from, to |-> to]

\* Mutant of ItemAt: the boundary between short and long strings is off by one.
ItemAt_OffByOne(b, at) ==
    LET c           == b[at + 1]
        short(base) == Triple(at, at + 1, at + 1 + (c - base))
        long(base)  == LET from == at + 1 + (c - base)
                       IN  Triple(at, from, from + BigEndian(Slice(b, at + 1, from)))
    IN  CASE c < 128        -> Triple(at, at, at + 1)
          [] c \in 128..184 -> short(128)
          [] c \in 185..191 -> long(183)
          [] c \in 192..247 -> short(192)
          [] c > 247        -> long(247)

\* The item whose first byte is at offset `at`: where it starts, and its payload.
ItemAt(b, at) ==
    LET c           == b[at + 1]
        short(base) == Triple(at, at + 1, at + 1 + (c - base))
        long(base)  == LET from == at + 1 + (c - base)
                       IN  Triple(at, from, from + BigEndian(Slice(b, at + 1, from)))
    IN  CASE c < 128        -> Triple(at, at, at + 1)
          [] c \in 128..183 -> short(128)
          [] c \in 184..191 -> long(183)
          [] c \in 192..247 -> short(192)
          [] c > 247        -> long(247)
=============================================================================
