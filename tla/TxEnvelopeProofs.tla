-------------------------- MODULE TxEnvelopeProofs --------------------------
(***************************************************************************)
(* A scan tiles its list, always advances, and reads the list in the only  *)
(* way RLP has to read it, for every byte string.  Reading an envelope is  *)
(* a scan of its body, so what is proved of the scan holds of it; an       *)
(* envelope that is accepted is one item whole; and the payload put        *)
(* together out of its slices is the one its sender signed.  The last and  *)
(* the short lists are stated where a run checks them, in MCTxEnvelope.    *)
(***************************************************************************)
EXTENDS MCTxEnvelope, ByteStringsProofs, TLAPS

-----------------------------------------------------------------------------
(* The scan                                                                *)

\* An item whose prefix counts the bytes of its length from `base`.
Long(b, at, base) ==
    LET from == at + 1 + (b[at + 1] - base)
    IN  Triple(at, from, from + BigEndian(Slice(b, at + 1, from)))

\* What an item found at offset `at` looks like.
Shape(item, at) ==
    /\ item \in ItemType
    /\ item.start = at
    /\ at <= item.from
    /\ item.from <= item.to
    /\ at < item.to

\* An item starts where it is looked for, has a byte at least, and its payload does not
\* start before its prefix: whatever the buffer, as long as lengths are numbers.
LEMMA ItemShapeOf ==
    ASSUME NEW b, NEW at \in Nat, b[at + 1] \in 0..255,
           \A from \in Nat : BigEndian(Slice(b, at + 1, from)) \in Nat
    PROVE  Shape(ItemAt(b, at), at)
<1>1. PICK c \in 0..255 : b[at + 1] = c
  OBVIOUS
<1>2. /\ c < 128 => ItemAt(b, at) = Triple(at, at, at + 1)
      /\ c \in 128..183 => ItemAt(b, at) = Triple(at, at + 1, at + 1 + (c - 128))
      /\ c \in 184..191 => ItemAt(b, at) = Long(b, at, 183)
      /\ c \in 192..247 => ItemAt(b, at) = Triple(at, at + 1, at + 1 + (c - 192))
      /\ c > 247 => ItemAt(b, at) = Long(b, at, 247)
  BY <1>1 DEF ItemAt, Long
<1>3. ASSUME NEW from \in Nat, NEW to \in Nat, at <= from, from <= to, at < to
      PROVE  Shape(Triple(at, from, to), at)
  BY <1>3 DEF Shape, Triple, ItemType
<1>4. ASSUME NEW base \in {183, 247}, base < c
      PROVE  Shape(Long(b, at, base), at)
  <2> DEFINE from == at + 1 + (c - base)
  <2>1. Long(b, at, base) = Triple(at, from, from + BigEndian(Slice(b, at + 1, from)))
    BY <1>1 DEF Long
  <2>2. from \in Nat /\ at < from
    BY <1>4
  <2> HIDE DEF from
  <2>3. BigEndian(Slice(b, at + 1, from)) \in Nat
    BY <2>2
  <2> QED BY <1>3, <2>1, <2>2, <2>3
<1>5. CASE c < 128
  BY <1>2, <1>3, <1>5
<1>6. CASE c \in 128..183
  BY <1>2, <1>3, <1>6
<1>7. CASE c \in 184..191
  BY <1>2, <1>4, <1>7
<1>8. CASE c \in 192..247
  BY <1>2, <1>3, <1>8
<1>9. CASE c > 247
  BY <1>2, <1>4, <1>9
<1> QED BY <1>5, <1>6, <1>7, <1>8, <1>9

\* The same for a buffer of bytes.
LEMMA ItemShape ==
    ASSUME NEW b \in Seq(Byte), NEW at \in Nat, at < Len(b)
    PROVE  Shape(ItemAt(b, at), at)
<1>1. b[at + 1] \in 0..255
  <2>1. b[at + 1] \in Byte
    OBVIOUS
  <2> QED BY <2>1 DEF Byte
<1>2. \A from \in Nat : BigEndian(Slice(b, at + 1, from)) \in Nat
  <2> TAKE from \in Nat
  <2>1. at + 1 \in Nat
    OBVIOUS
  <2> QED BY <2>1, LengthNat
<1> QED BY <1>1, <1>2, ItemShapeOf

\* The scan keeps to one list, and everything found so far is contiguous up to the next
\* item: the invariant that carries ItemsTile (codec.py:172-203).
THEOREM TileCorrect == Spec => []TileInv
<1>1. Init => TileInv
  BY BuffersAssumption DEF Init, Given, TileInv, TypeOK, ItemsTile
<1>2. TileInv /\ [Next]_vars => TileInv'
  <2> SUFFICES ASSUME TileInv, [Next]_vars
               PROVE  TileInv'
    OBVIOUS
  <2>0. TypeOK
    BY DEF TileInv
  <2>1. CASE Enter
    <3>1. ItemAt(buf, 0) \in ItemType /\ HeadFits /\ 0 < Len(buf)
      BY <2>0, <2>1, ItemShape DEF Shape, Enter, HeadFits, TypeOK
    <3>2. TypeOK'
      BY <2>0, <2>1, <3>1 DEF Enter, HeadFits, TypeOK, ItemType
    <3>3. Contiguous'
      BY <2>1 DEF Enter, TileInv, Contiguous, Reached
    <3> QED BY <2>1, <3>2, <3>3 DEF Enter, TileInv, ItemsTile
  <2>2. CASE RefuseHead
    BY <2>0, <2>2 DEF RefuseHead, TileInv, TypeOK, ItemsTile
  <2>3. CASE Item
    <3> DEFINE item == ItemAt(buf, i)
    <3>1. /\ phase = "scan" /\ phase' = "scan" /\ i < end
          /\ buf' = buf /\ end' = end /\ i' = item.to /\ out' = Append(out, item)
      BY <2>3 DEF Item
    <3>2. i < Len(buf)
      BY <2>0, <3>1 DEF TypeOK, HeadFits
    <3>3. /\ item \in ItemType /\ item.start = i
          /\ i <= item.from /\ item.from <= item.to /\ i < item.to
      BY <2>0, <3>2, ItemShape DEF Shape, TypeOK
    <3> HIDE DEF item
    <3>4. TypeOK'
      <4>1. i' \in Nat /\ out' \in Seq(ItemType)
        BY <2>0, <3>1, <3>3 DEF TypeOK, ItemType
      <4>2. ItemAt(buf, 0) \in ItemType
        BY <2>0, <3>1, ItemShape DEF Shape, TypeOK, HeadFits
      <4>3. ItemAt(buf, 0).from <= i'
        BY <2>0, <3>1, <3>3, <4>2 DEF TypeOK, ItemType
      <4> QED BY <2>0, <3>1, <4>1, <4>3 DEF TypeOK, HeadFits
    <3>5. Contiguous'
      BY <2>0, <3>1, <3>3 DEF TypeOK, TileInv, Contiguous, Reached
    <3> QED BY <3>1, <3>4, <3>5 DEF TileInv, ItemsTile
  <2>4. CASE Finish
    <3>1. /\ phase = "scan" /\ phase' = "done" /\ i = end
          /\ buf' = buf /\ end' = end /\ i' = i /\ out' = out
      BY <2>4 DEF Finish
    <3>2. TypeOK'
      BY <2>0, <3>1 DEF TypeOK, HeadFits
    <3>3. Contiguous' /\ Reached' = end'
      BY <2>0, <3>1 DEF TypeOK, TileInv, Contiguous, Reached
    <3>4. end' <= Len(buf')
      BY <2>0, <3>1 DEF TypeOK, HeadFits
    <3> QED BY <3>1, <3>2, <3>3, <3>4 DEF TileInv, ItemsTile
  <2>5. CASE RefuseEnd
    BY <2>0, <2>5 DEF RefuseEnd, TileInv, TypeOK, ItemsTile
  <2>6. CASE UNCHANGED vars
    BY <2>6 DEF vars, TileInv, TypeOK, HeadFits, ItemsTile, Contiguous, Reached
  <2> QED BY <2>1, <2>2, <2>3, <2>4, <2>5, <2>6 DEF Next
<1> QED BY <1>1, <1>2, PTL DEF Spec

\* What a finished scan returns covers the list from end to end (codec.py:169-203).
THEOREM ItemsTileCorrect == Spec => []ItemsTile
<1>1. TileInv => ItemsTile
  BY DEF TileInv
<1> QED BY <1>1, TileCorrect, PTL

\* Every turn of the loop consumes a byte (codec.py:174-200).
THEOREM AdvancesCorrect == Spec => Advances
<1> DEFINE Stays   == phase = "scan" /\ phase' = "scan"
           Shrinks == i < i' /\ i < end
<1>1. TileInv /\ [Next]_vars => [Stays => Shrinks]_vars
  <2> SUFFICES ASSUME TileInv, Next, Stays
               PROVE  Shrinks
    BY DEF vars
  <2>1. Item
    BY DEF Next, Enter, RefuseHead, Finish, RefuseEnd
  <2>2. i < Len(buf)
    BY <2>1 DEF Item, TileInv, TypeOK, HeadFits
  <2>3. i < ItemAt(buf, i).to
    BY <2>2, ItemShape DEF Shape, TileInv, TypeOK
  <2> QED BY <2>1, <2>3 DEF Item
<1> QED BY <1>1, TileCorrect, PTL DEF Spec, Advances

-----------------------------------------------------------------------------
(* One way to read a list                                                  *)

\* An item found at an offset, one equation for each range of its first byte.
LEMMA ItemCases ==
    ASSUME NEW b, NEW at \in Nat, NEW c \in 0..255, b[at + 1] = c
    PROVE  /\ c < 128 => ItemAt(b, at) = Triple(at, at, at + 1)
           /\ c \in 128..183 => ItemAt(b, at) = Triple(at, at + 1, at + 1 + (c - 128))
           /\ c \in 184..191 => ItemAt(b, at) = Long(b, at, 183)
           /\ c \in 192..247 => ItemAt(b, at) = Triple(at, at + 1, at + 1 + (c - 192))
           /\ c > 247 => ItemAt(b, at) = Long(b, at, 247)
BY DEF ItemAt, Long

\* Where the item of a short prefix ends.
LEMMA ShortEnds ==
    ASSUME NEW b, NEW at \in Nat, NEW c \in 0..255, b[at + 1] = c
    PROVE  /\ c < 128 => ItemAt(b, at).to = at + 1
           /\ c \in 128..183 => ItemAt(b, at).to = at + 1 + (c - 128)
<1>1. \A start, from, to : Triple(start, from, to).to = to
  BY DEF Triple
<1>2. c < 128 => ItemAt(b, at).to = at + 1
  BY <1>1 DEF ItemAt
<1>3. c \in 128..183 => ItemAt(b, at).to = at + 1 + (c - 128)
  BY <1>1 DEF ItemAt
<1> QED BY <1>2, <1>3

\* Where a short list ends.
LEMMA ListEnds ==
    ASSUME NEW b, NEW at \in Nat, NEW c \in 192..247, b[at + 1] = c
    PROVE  ItemAt(b, at).to = at + 1 + (c - 192)
<1>1. \A start, from, to : Triple(start, from, to).to = to
  BY DEF Triple
<1> QED BY <1>1 DEF ItemAt

\* The bytes from p to q are one item, by the declarative reading of RLP, just when the item
\* found at p ends at q: the reading that the scan makes is the only one.
LEMMA ItemEndsThere ==
    ASSUME NEW b \in Seq(Byte), NEW p \in Nat, NEW q \in Nat, p < q, q <= Len(b)
    PROVE  IsItem(SubSeq(b, p + 1, q)) <=> ItemAt(b, p).to = q
<1> DEFINE x == SubSeq(b, p + 1, q)
<1>1. /\ x \in Seq(Byte) /\ Len(x) = q - p /\ \A k \in 1..q - p : x[k] = b[p + k]
  <2>1. x = Slice(b, p, q) /\ p <= q
    BY DEF Slice
  <2> HIDE DEF x
  <2> QED BY <2>1, SliceIs DEF IsSlice
<1> HIDE DEF x
<1>2. PICK c \in 0..255 : b[p + 1] = c /\ x[1] = c
  <2>1. 1 \in 1..q - p /\ p + 1 \in DOMAIN b
    OBVIOUS
  <2>2. b[p + 1] \in Byte
    BY <2>1
  <2> QED BY <1>1, <2>1, <2>2 DEF Byte
<1>3. x # <<>>
  BY <1>1
<1> DEFINE prefixed(base) ==
             LET n == x[1] - base
             IN  n < Len(x) /\ Len(x) = 1 + n + BigEndian(SubSeq(x, 2, 1 + n))
<1>4. IsItem(x) <=> \/ c < 128 /\ Len(x) = 1
                    \/ c \in 128..183 /\ Len(x) = 1 + c - 128
                    \/ c \in 192..247 /\ Len(x) = 1 + c - 192
                    \/ c \in 184..191 /\ prefixed(183)
                    \/ c \in 248..255 /\ prefixed(247)
  BY <1>2, <1>3 DEF IsItem
<1>5. ASSUME NEW base \in {183, 247}, base < c, c - base <= 8
      PROVE  prefixed(base) <=> Long(b, p, base).to = q
  <2> DEFINE n == c - base
             from == p + 1 + n
  <2>1. n \in 1..8 /\ from \in Nat /\ x[1] - base = n /\ from = p + (1 + n)
    BY <1>2, <1>5
  <2>2. Long(b, p, base).to = from + BigEndian(Slice(b, p + 1, from))
    BY <1>2 DEF Long, Triple
  <2> HIDE DEF n, from
  <2>3. BigEndian(Slice(b, p + 1, from)) \in Nat
    <3>1. p + 1 \in Nat
      OBVIOUS
    <3> QED BY <2>1, <3>1, LengthNat
  <2>4. CASE n < Len(x)
    <3>1. SubSeq(x, 2, 1 + n) = Slice(x, 1, 1 + n)
      BY <1>1, <2>1, <2>4 DEF Slice
    <3>2. x = Slice(b, p, q)
      BY DEF x, Slice
    <3>3. Slice(x, 1, 1 + n) = Slice(b, p + 1, p + (1 + n))
      <4> DEFINE y == Slice(x, 1, 1 + n)
                 z == Slice(b, p + 1, p + (1 + n))
      <4>1. 1 \in Nat /\ 1 + n \in Nat /\ 1 <= 1 + n /\ 1 + n <= Len(x) /\ (1 + n) - 1 = n
        BY <1>1, <2>1, <2>4
      <4>2. /\ p + 1 \in Nat /\ p + (1 + n) \in Nat /\ p + 1 <= p + (1 + n)
            /\ p + (1 + n) <= Len(b) /\ (p + (1 + n)) - (p + 1) = n
        BY <1>1, <2>1, <2>4
      <4>3. IsSlice(y, x, 1, 1 + n)
        BY <1>1, <4>1, SliceIs
      <4>4. IsSlice(z, b, p + 1, p + (1 + n))
        BY <4>2, SliceIs
      <4> HIDE DEF y, z
      <4>5. y \in Seq(Byte) /\ Len(y) = n /\ \A k \in 1..n : y[k] = x[1 + k]
        BY <4>1, <4>3 DEF IsSlice
      <4>6. z \in Seq(Byte) /\ Len(z) = n /\ \A k \in 1..n : z[k] = b[(p + 1) + k]
        BY <4>2, <4>4 DEF IsSlice
      <4>7. \A k \in 1..n : x[1 + k] = b[(p + 1) + k]
        <5> TAKE k \in 1..n
        <5>1. 1 + k \in 1..q - p /\ p + (1 + k) = (p + 1) + k
          BY <1>1, <2>1, <2>4
        <5> QED BY <1>1, <5>1
      <4>8. y = z
        <5>1. \A k \in 1..Len(y) : y[k] = z[k]
          BY <4>5, <4>6, <4>7
        <5> QED BY <4>5, <4>6, <5>1, SameBytes
      <4> QED BY <4>8 DEF y, z
    <3>4. BigEndian(SubSeq(x, 2, 1 + n)) = BigEndian(Slice(b, p + 1, from))
      BY <2>1, <3>1, <3>3
    <3>5. PICK l \in Nat : l = BigEndian(Slice(b, p + 1, from))
      BY <2>3
    <3>6. prefixed(base) <=> Len(x) = 1 + n + l
      BY <2>1, <2>4, <3>4, <3>5
    <3>7. Len(x) = 1 + n + l <=> from + l = q
      BY <1>1, <2>1
    <3> QED BY <2>2, <3>5, <3>6, <3>7
  <2>5. CASE ~(n < Len(x))
    <3>1. ~prefixed(base)
      BY <2>1, <2>5
    <3>2. q < from
      BY <1>1, <2>1, <2>5
    <3>3. PICK l \in Nat : l = BigEndian(Slice(b, p + 1, from))
      BY <2>3
    <3>4. from + l # q
      BY <2>1, <3>2
    <3> QED BY <2>2, <3>1, <3>3, <3>4
  <2> QED BY <2>4, <2>5
<1> HIDE DEF prefixed
<1>6. CASE c < 128
  <2>1. ItemAt(b, p).to = p + 1
    BY <1>2, <1>6, ShortEnds
  <2> QED BY <1>1, <1>4, <1>6, <2>1 DEF x
<1>7. CASE c \in 128..183
  <2>1. ItemAt(b, p).to = p + 1 + (c - 128)
    BY <1>2, <1>7, ShortEnds
  <2> QED BY <1>1, <1>4, <1>7, <2>1 DEF x
<1>8. CASE c \in 192..247
  <2>1. ItemAt(b, p).to = p + 1 + (c - 192)
    <3>1. c \in 192..247 /\ b[p + 1] = c
      BY <1>2, <1>8
    <3> QED BY ONLY <3>1, ListEnds
  <2> QED BY <1>1, <1>4, <1>8, <2>1 DEF x
<1>9. CASE c \in 184..191
  <2>1. ItemAt(b, p) = Long(b, p, 183) /\ 183 < c /\ c - 183 <= 8
    BY <1>2, <1>9, ItemCases
  <2>2. IsItem(x) <=> prefixed(183)
    BY <1>4, <1>9
  <2> QED BY <1>5, <2>1, <2>2 DEF x
<1>10. CASE c \in 248..255
  <2>1. ItemAt(b, p) = Long(b, p, 247) /\ 247 < c /\ c - 247 <= 8
    BY <1>2, <1>10, ItemCases
  <2>2. IsItem(x) <=> prefixed(247)
    BY <1>4, <1>10
  <2> QED BY <1>5, <2>1, <2>2 DEF x
<1> QED BY <1>6, <1>7, <1>8, <1>9, <1>10

-----------------------------------------------------------------------------
(* The only cut                                                            *)

\* The offset p of a set goes on to the end of the item that is found there, past none of
\* the others.
Onward(b, C, p) ==
    /\ p < ItemAt(b, p).to
    /\ ItemAt(b, p).to \in C
    /\ \A r \in C : r <= p \/ ItemAt(b, p).to <= r

\* A set of offsets that goes from the first item to e, item by item.
CutAt(b, C, e) ==
    /\ C \subseteq 0..Len(b)
    /\ e \in C /\ ItemAt(b, 0).from \in C
    /\ \A p \in C : ItemAt(b, 0).from <= p /\ p <= e
    /\ \A p \in C : p # e => Onward(b, C, p)

\* The item found where a list starts.
LEMMA ListAtHead ==
    ASSUME NEW b, NEW c \in 0..255, b[0 + 1] = c
    PROVE  /\ c \in 192..247 => ItemAt(b, 0) = Triple(0, 0 + 1, 0 + 1 + (c - 192))
           /\ c > 247 => ItemAt(b, 0) = Long(b, 0, 247)
<1>1. ASSUME NEW at, b[at + 1] = c
      PROVE  /\ c \in 192..247 => ItemAt(b, at) = Triple(at, at + 1, at + 1 + (c - 192))
             /\ c > 247 => ItemAt(b, at) = Long(b, at, 247)
  BY <1>1 DEF ItemAt, Long
<1> QED BY ONLY b[0 + 1] = c, <1>1, Zenon

\* The first item of a list is behind the list's own prefix.
LEMMA HeadIs ==
    ASSUME buf \in Seq(Byte), buf # <<>>, buf[1] >= 192
    PROVE  HeadLength = ItemAt(buf, 0).from /\ HeadLength \in Nat /\ 1 <= HeadLength
<1>1. PICK c \in 192..255 : buf[1] = c
  <2>1. buf[1] \in Byte
    OBVIOUS
  <2>2. PICK c \in 0..255 : buf[1] = c
    BY <2>1 DEF Byte
  <2>3. c \in 192..255
    BY <2>2
  <2> QED BY <2>2, <2>3
<1>2. buf[0 + 1] = c /\ c \in 0..255
  BY <1>1
<1>3. HeadLength \in Nat /\ 1 <= HeadLength
  BY <1>1 DEF HeadLength
<1>4. CASE c \in 192..247
  <2>1. ItemAt(buf, 0) = Triple(0, 0 + 1, 0 + 1 + (c - 192))
    BY <1>2, <1>4, ListAtHead
  <2> QED BY <1>1, <1>3, <1>4, <2>1 DEF Triple, HeadLength
<1>5. CASE c > 247
  <2>1. ItemAt(buf, 0) = Long(buf, 0, 247)
    BY <1>2, <1>5, ListAtHead
  <2>2. ItemAt(buf, 0).from = 0 + 1 + (c - 247)
    BY <1>2, <2>1 DEF Long, Triple
  <2> QED BY <1>1, <1>3, <1>5, <2>2 DEF HeadLength
<1> QED BY <1>1, <1>4, <1>5

\* The sets that cut the list by the declarative reading of RLP are those that follow the
\* items the scan finds, and there is none when the list does not fit the buffer.
LEMMA CutsAre ==
    ASSUME buf \in Seq(Byte), buf # <<>>, buf[1] >= 192, NEW C
    PROVE  C \in Cuts <=> HeadFits /\ CutAt(buf, C, ItemAt(buf, 0).to)
<1> DEFINE h == HeadLength
           e == ItemAt(buf, 0).to
<1>1. h = ItemAt(buf, 0).from /\ h \in Nat /\ 1 <= h
  BY HeadIs
<1>2. Len(buf) \in Nat
  OBVIOUS
<1>3. ASSUME NEW last \in 0..Len(buf), h <= last
      PROVE  IsItem(SubSeq(buf, 1, last)) <=> e = last
  <2>1. 0 < last /\ last <= Len(buf) /\ last \in Nat /\ 0 \in Nat /\ 0 + 1 = 1
    BY <1>1, <1>3
  <2>2. IsItem(SubSeq(buf, 0 + 1, last)) <=> ItemAt(buf, 0).to = last
    BY <2>1, ItemEndsThere
  <2> QED BY <2>1, <2>2
<1>4. ASSUME NEW p \in 0..Len(buf), NEW q \in 0..Len(buf), p < q
      PROVE  IsItem(SubSeq(buf, p + 1, q)) <=> ItemAt(buf, p).to = q
  BY <1>4, ItemEndsThere
<1>5. ASSUME NEW p \in 0..Len(buf), p < Len(buf)
      PROVE  p < ItemAt(buf, p).to
  BY <1>5, ItemShape DEF Shape
<1> HIDE DEF h, e
<1>6. ASSUME C \in Cuts
      PROVE  HeadFits /\ CutAt(buf, C, e)
  <2>1. C \subseteq 0..Len(buf)
    BY <1>6 DEF Cuts
  <2>2. PICK last \in C : /\ h \in C
                          /\ \A p \in C : h <= p /\ p <= last
                          /\ IsItem(SubSeq(buf, 1, last))
                          /\ \A p \in C \ {last} :
                               \E q \in C : /\ p < q
                                            /\ \A r \in C : r <= p \/ q <= r
                                            /\ IsItem(SubSeq(buf, p + 1, q))
    BY <1>6 DEF Cuts, h
  <2>3. last \in 0..Len(buf) /\ h <= last
    BY <2>1, <2>2
  <2>4. e = last
    BY <1>3, <2>2, <2>3
  <2>5. HeadFits
    BY <2>3, <2>4 DEF HeadFits, e
  <2>6. ASSUME NEW p \in C, p # e
        PROVE  Onward(buf, C, p)
    <3>1. PICK q \in C : /\ p < q
                         /\ \A r \in C : r <= p \/ q <= r
                         /\ IsItem(SubSeq(buf, p + 1, q))
      BY <2>2, <2>4, <2>6
    <3>2. p \in 0..Len(buf) /\ q \in 0..Len(buf)
      BY <2>1
    <3>3. ItemAt(buf, p).to = q
      BY <1>4, <3>1, <3>2
    <3> QED BY <3>1, <3>3 DEF Onward
  <2> QED BY <1>1, <2>1, <2>2, <2>4, <2>5, <2>6 DEF CutAt
<1>7. ASSUME HeadFits, CutAt(buf, C, e)
      PROVE  C \in Cuts
  <2>1. C \subseteq 0..Len(buf) /\ e \in C /\ h \in C /\ \A p \in C : h <= p /\ p <= e
    BY <1>1, <1>7 DEF CutAt
  <2>2. e \in 0..Len(buf) /\ h <= e
    BY <2>1
  <2>3. IsItem(SubSeq(buf, 1, e))
    BY <1>3, <2>2
  <2>4. ASSUME NEW p \in C \ {e}
        PROVE  \E q \in C : /\ p < q
                            /\ \A r \in C : r <= p \/ q <= r
                            /\ IsItem(SubSeq(buf, p + 1, q))
    <3>1. Onward(buf, C, p)
      BY <1>7, <2>4 DEF CutAt
    <3>2. PICK q \in C : q = ItemAt(buf, p).to
      BY <3>1 DEF Onward
    <3>3. p < q /\ \A r \in C : r <= p \/ q <= r
      BY <3>1, <3>2 DEF Onward
    <3>4. p \in 0..Len(buf) /\ q \in 0..Len(buf)
      BY <2>1, <2>4
    <3>5. IsItem(SubSeq(buf, p + 1, q))
      BY <1>4, <3>2, <3>3, <3>4
    <3> QED BY <3>3, <3>5
  <2> QED BY <2>1, <2>3, <2>4 DEF Cuts, h
<1> QED BY <1>6, <1>7 DEF e

\* Where the items found so far start.
Starts == {out[k].start : k \in DOMAIN out}

\* The items are in order, each the one that is found where it starts; every way to cut
\* the list has, up to here, cut it where they start; and a scan that raised had a list
\* that cannot be cut.
FaithInv ==
    /\ TileInv
    /\ phase \in {"scan", "done"} =>
         /\ \A k \in DOMAIN out :
              /\ out[k] = ItemAt(buf, out[k].start)
              /\ ItemAt(buf, 0).from <= out[k].start
              /\ out[k].start < out[k].to /\ out[k].to <= i /\ out[k].start < end
         /\ \A j, k \in DOMAIN out : j < k => out[j].to <= out[k].start
         /\ \A C : CutAt(buf, C, end) => {p \in C : p <= i} = Starts \cup {i}
    /\ phase = "done" => i = end
    /\ phase = "raised" => /\ out = <<>>
                           /\ buf # <<>> /\ buf[1] >= 192 => Cuts = {}

\* The invariant behind Faithful (codec.py:149-203).
THEOREM FaithInvCorrect == Spec => []FaithInv
<1>1. Init => FaithInv
  <2>1. Init => TileInv
    BY BuffersAssumption DEF Init, Given, TileInv, TypeOK, ItemsTile
  <2> QED BY <2>1 DEF Init, Given, FaithInv
<1>2. FaithInv /\ TileInv' /\ [Next]_vars => FaithInv'
  <2> SUFFICES ASSUME FaithInv, TileInv', [Next]_vars
               PROVE  FaithInv'
    OBVIOUS
  <2>0. TypeOK /\ TypeOK'
    BY DEF FaithInv, TileInv
  <2>1. CASE Enter
    <3>1. /\ phase = "head" /\ phase' = "scan" /\ HeadFits /\ buf' = buf
          /\ out = <<>> /\ out' = <<>> /\ i' = ItemAt(buf, 0).from
      BY <2>1 DEF Enter, FaithInv, TileInv
    <3>2. Starts' = {}
      BY <3>1 DEF Starts
    <3>3. ASSUME NEW C, CutAt(buf, C, end')
          PROVE  {p \in C : p <= i'} = {i'}
      <4>1. i' \in C /\ \A p \in C : p \in 0..Len(buf) /\ i' <= p
        BY <3>1, <3>3 DEF CutAt
      <4>2. i' \in Nat /\ Len(buf) \in Nat
        BY <2>0 DEF TypeOK
      <4>3. \A p \in C : p <= i' <=> p = i'
        BY <4>1, <4>2
      <4> QED BY <4>1, <4>3
    <3> QED BY <3>1, <3>2, <3>3 DEF FaithInv
  <2>2. CASE RefuseHead
    <3>1. /\ phase = "head" /\ phase' = "raised" /\ ~HeadFits /\ buf' = buf
          /\ out = <<>> /\ out' = <<>>
      BY <2>2 DEF RefuseHead, FaithInv, TileInv
    <3>2. ASSUME buf # <<>>, buf[1] >= 192
          PROVE  Cuts = {}
      <4>1. buf \in Seq(Byte)
        BY <2>0 DEF TypeOK
      <4>2. \A C : C \notin Cuts
        BY <3>1, <3>2, <4>1, CutsAre
      <4> QED BY <4>2
    <3>3. Cuts' = Cuts
      BY <3>1 DEF Cuts, HeadLength
    <3> QED BY <3>1, <3>2, <3>3 DEF FaithInv
  <2>3. CASE Item
    <3> DEFINE item == ItemAt(buf, i)
    <3>1. /\ phase = "scan" /\ phase' = "scan" /\ i < end
          /\ buf' = buf /\ end' = end /\ i' = item.to /\ out' = Append(out, item)
      BY <2>3 DEF Item
    <3>2. i \in Nat /\ end \in Nat /\ i < Len(buf) /\ ItemAt(buf, 0).from <= i
      BY <2>0, <3>1 DEF TypeOK, HeadFits
    <3>3. /\ item \in ItemType /\ item.start = i
          /\ i <= item.from /\ item.from <= item.to /\ i < item.to
      BY <2>0, <3>2, ItemShape DEF Shape, TypeOK
    <3>4. item = ItemAt(buf, item.start)
      BY <3>3
    <3> HIDE DEF item
    <3>5. out \in Seq(ItemType) /\ DOMAIN out = 1..Len(out) /\ Len(out) \in Nat
      BY <2>0 DEF TypeOK
    <3>6. /\ DOMAIN out' = 1..Len(out) + 1 /\ out'[Len(out) + 1] = item
          /\ \A k \in 1..Len(out) : out'[k] = out[k]
      BY <3>1, <3>3, <3>5
    <3>7. \A k \in 1..Len(out) : out[k] \in ItemType
      BY <3>5
    <3>8. ASSUME NEW k \in DOMAIN out'
          PROVE  /\ out'[k] = ItemAt(buf, out'[k].start)
                 /\ ItemAt(buf, 0).from <= out'[k].start
                 /\ out'[k].start < out'[k].to /\ out'[k].to <= i' /\ out'[k].start < end
      <4>1. CASE k \in 1..Len(out)
        <5>1. /\ out[k] = ItemAt(buf, out[k].start)
              /\ ItemAt(buf, 0).from <= out[k].start
              /\ out[k].start < out[k].to /\ out[k].to <= i /\ out[k].start < end
          BY <3>1, <3>5, <4>1 DEF FaithInv
        <5>2. out[k].to <= i'
          <6>1. out[k].to \in Nat /\ item.to \in Nat
            BY <3>3, <3>7, <4>1 DEF ItemType
          <6> QED BY <3>1, <3>2, <3>3, <5>1, <6>1
        <5> QED BY <3>6, <4>1, <5>1, <5>2
      <4>2. CASE k = Len(out) + 1
        <5>1. out'[k] = item /\ item.to \in Nat
          BY <3>3, <3>6, <4>2 DEF ItemType
        <5> QED BY <3>1, <3>2, <3>3, <3>4, <5>1
      <4> QED BY <3>5, <3>6, <4>1, <4>2
    <3>9. ASSUME NEW j \in DOMAIN out', NEW k \in DOMAIN out', j < k
          PROVE  out'[j].to <= out'[k].start
      <4>1. CASE k \in 1..Len(out)
        BY <3>1, <3>5, <3>6, <3>9, <4>1 DEF FaithInv
      <4>2. CASE k = Len(out) + 1
        <5>1. j \in 1..Len(out)
          BY <3>5, <3>6, <3>9, <4>2
        <5>2. out[j].to <= i
          BY <3>1, <3>5, <5>1 DEF FaithInv
        <5> QED BY <3>3, <3>6, <4>2, <5>1, <5>2
      <4> QED BY <3>5, <3>6, <4>1, <4>2
    <3>10. Starts' = Starts \cup {i}
      <4>1. \A k \in 1..Len(out) : out'[k].start = out[k].start
        BY <3>6
      <4>2. out'[Len(out) + 1].start = i
        BY <3>3, <3>6
      <4> QED BY <3>5, <3>6, <4>1, <4>2 DEF Starts
    <3>11. ASSUME NEW C, CutAt(buf, C, end)
           PROVE  {p \in C : p <= i'} = Starts' \cup {i'}
      <4>1. {p \in C : p <= i} = Starts \cup {i}
        BY <3>1, <3>11 DEF FaithInv
      <4>2. i \in C /\ \A p \in C : p \in Nat
        BY <3>11, <4>1 DEF CutAt
      <4>3. i # end
        BY <3>1, <3>2
      <4>4. Onward(buf, C, i)
        BY <3>11, <4>2, <4>3 DEF CutAt
      <4>5. i' \in C /\ i' \in Nat /\ i < i' /\ \A r \in C : r <= i \/ i' <= r
        BY <3>1, <4>2, <4>4 DEF Onward, item
      <4>6. {p \in C : p <= i'} = {p \in C : p <= i} \cup {i'}
        <5>1. \A p \in C : p <= i' <=> p <= i \/ p = i'
          BY <3>2, <4>2, <4>5
        <5>2. i' \in C
          BY <4>5
        <5> QED BY <5>1, <5>2, Zenon
      <4> QED BY <3>10, <4>1, <4>6
    <3> QED BY <3>1, <3>8, <3>9, <3>11 DEF FaithInv
  <2>4. CASE Finish
    <3>1. /\ phase = "scan" /\ phase' = "done" /\ i = end
          /\ buf' = buf /\ end' = end /\ i' = i /\ out' = out
      BY <2>4 DEF Finish
    <3> QED BY <3>1 DEF FaithInv, Starts
  <2>5. CASE RefuseEnd
    <3>1. /\ phase = "scan" /\ phase' = "raised" /\ i > end /\ buf' = buf /\ out' = <<>>
      BY <2>5 DEF RefuseEnd
    <3>2. /\ HeadFits /\ end = ItemAt(buf, 0).to /\ buf \in Seq(Byte)
          /\ i \in Nat /\ end \in Nat
      BY <2>0, <3>1 DEF TypeOK
    <3>3. ASSUME NEW C \in Cuts
          PROVE  FALSE
      <4>1. CutAt(buf, C, end)
        BY <3>2, CutsAre DEF HeadFits
      <4>2. i \in {p \in C : p <= i}
        BY <3>1, <4>1 DEF FaithInv
      <4>3. i <= end
        BY <4>1, <4>2 DEF CutAt
      <4> QED BY <3>1, <3>2, <4>3
    <3>4. Cuts' = {}
      <4>1. Cuts' = Cuts
        BY <3>1 DEF Cuts, HeadLength
      <4> QED BY <3>3, <4>1
    <3> QED BY <3>1, <3>4 DEF FaithInv
  <2>6. CASE UNCHANGED vars
    <3>1. /\ phase' = phase /\ buf' = buf /\ i' = i /\ end' = end /\ out' = out
      BY <2>6 DEF vars
    <3>2. Cuts' = Cuts
      BY <3>1 DEF Cuts, HeadLength
    <3> QED BY <3>1, <3>2 DEF FaithInv, Starts
  <2> QED BY <2>1, <2>2, <2>3, <2>4, <2>5, <2>6 DEF Next
<1> QED BY <1>1, <1>2, TileCorrect, PTL DEF Spec

\* The scan returns what RLP says is there, and raises when RLP says there is nothing: a
\* list that can be cut into items can be cut in one way only, for every byte string and
\* not only for the short ones a run tries (codec.py:149-203).
THEOREM FaithfulCorrect == Spec => []Faithful
<1>1. FaithInv => Faithful
  <2> SUFFICES ASSUME FaithInv
               PROVE  Faithful
    OBVIOUS
  <2>0. TypeOK
    BY DEF FaithInv, TileInv
  <2>1. ASSUME phase = "done"
        PROVE  buf # <<>> /\ buf[1] >= 192 /\ Cuts = {Starts \cup {end}}
    <3> DEFINE S == Starts \cup {end}
    <3>1. /\ HeadFits /\ buf \in Seq(Byte) /\ i = end /\ end = ItemAt(buf, 0).to
          /\ end \in Nat /\ end <= Len(buf) /\ Len(buf) \in Nat
      BY <2>0, <2>1 DEF TypeOK, HeadFits, FaithInv
    <3>2. \A C : C \in Cuts <=> CutAt(buf, C, end)
      BY <3>1, CutsAre DEF HeadFits
    <3>3. ASSUME NEW C, CutAt(buf, C, end)
          PROVE  C = S
      <4>1. {p \in C : p <= end} = S
        BY <2>1, <3>1, <3>3 DEF FaithInv
      <4>2. \A p \in C : p <= end
        BY <3>3 DEF CutAt
      <4> QED BY <4>1, <4>2
    <3>4. CutAt(buf, S, end)
      <4>1. out \in Seq(ItemType) /\ DOMAIN out = 1..Len(out) /\ Len(out) \in Nat
        BY <2>0 DEF TypeOK
      <4>2. \A k \in 1..Len(out) : out[k].start \in Nat /\ out[k].to \in Nat
        <5>1. \A k \in 1..Len(out) : out[k] \in ItemType
          BY <4>1
        <5> QED BY <5>1 DEF ItemType
      <4>3. Contiguous /\ Reached = end
        BY <2>1 DEF FaithInv, TileInv, ItemsTile
      <4>4. PICK h \in Nat : h = ItemAt(buf, 0).from
        BY <3>1, HeadIs DEF HeadFits
      <4>5. \A k \in 1..Len(out) : /\ out[k] = ItemAt(buf, out[k].start)
                                   /\ h <= out[k].start /\ out[k].start < out[k].to
                                   /\ out[k].to <= end /\ out[k].start < end
        BY <2>1, <3>1, <4>1, <4>4 DEF FaithInv
      <4>6. \A j, k \in 1..Len(out) : j < k => out[j].to <= out[k].start
        BY <2>1, <4>1 DEF FaithInv
      <4>7. h <= end
        BY <2>0, <2>1, <3>1, <4>4 DEF TypeOK
      <4>8. S \subseteq 0..Len(buf) /\ end \in S
        BY <3>1, <4>1, <4>2, <4>5 DEF Starts
      <4>9. \A p \in S : h <= p /\ p <= end
        BY <3>1, <4>1, <4>2, <4>5, <4>7 DEF Starts
      <4>10. h \in S
        <5>1. CASE out = <<>>
          BY <4>3, <4>4, <5>1 DEF Reached
        <5>2. CASE out # <<>>
          <6>1. out[1].start = h /\ 1 \in DOMAIN out
            BY <4>1, <4>3, <4>4, <5>2 DEF Contiguous
          <6> QED BY <6>1 DEF Starts
        <5> QED BY <5>1, <5>2
      <4>11. ASSUME NEW p \in S, p # end
             PROVE  Onward(buf, S, p)
        <5>1. PICK k \in 1..Len(out) : p = out[k].start
          BY <4>1, <4>11 DEF Starts
        <5>2. PICK q \in Nat : q = out[k].to
          BY <4>2
        <5>3. ItemAt(buf, p).to = q /\ p < q
          BY <4>5, <5>1, <5>2
        <5>4. q \in S
          <6>1. CASE k = Len(out)
            BY <4>1, <4>3, <5>2, <6>1 DEF Reached
          <6>2. CASE k # Len(out)
            <7>1. k \in 1..Len(out) - 1 /\ k + 1 \in DOMAIN out
              <8>1. PICK n \in Nat : n = Len(out) /\ DOMAIN out = 1..n
                BY <4>1
              <8>2. k \in 1..n /\ k # n
                BY <5>1, <6>2, <8>1
              <8>3. k \in 1..n - 1 /\ k + 1 \in 1..n
                BY <8>2
              <8> QED BY <8>1, <8>3
            <7>2. out[k + 1].start = q
              BY <4>3, <5>2, <7>1 DEF Contiguous
            <7> QED BY <7>1, <7>2 DEF Starts
          <6> QED BY <6>1, <6>2
        <5>5. ASSUME NEW r \in S
              PROVE  r <= p \/ q <= r
          <6>1. CASE r = end
            BY <4>5, <5>2, <6>1
          <6>2. CASE r # end
            <7>1. PICK j \in 1..Len(out) : r = out[j].start
              BY <4>1, <6>2 DEF Starts
            <7>2. CASE j < k
              <8>1. out[j].to <= p /\ r < out[j].to
                BY <4>5, <4>6, <5>1, <7>1, <7>2
              <8> QED BY <4>2, <5>1, <7>1, <8>1
            <7>3. CASE j = k
              BY <4>2, <5>1, <7>1, <7>3
            <7>4. CASE k < j
              BY <4>6, <5>2, <7>1, <7>4
            <7> QED BY <4>1, <7>2, <7>3, <7>4
          <6> QED BY <6>1, <6>2
        <5> QED BY <5>3, <5>4, <5>5 DEF Onward
      <4> HIDE DEF S
      <4> QED BY <4>4, <4>8, <4>9, <4>10, <4>11 DEF CutAt
    <3> HIDE DEF S
    <3>5. Cuts = {S}
      BY <3>2, <3>3, <3>4
    <3> QED BY <3>1, <3>5 DEF S, HeadFits
  <2>2. ASSUME phase = "raised"
        PROVE  out = <<>> /\ (buf # <<>> /\ buf[1] >= 192 => Cuts = {})
    BY <2>2 DEF FaithInv
  <2> QED BY <2>1, <2>2 DEF Faithful, Starts
<1> QED BY <1>1, FaithInvCorrect, PTL

-----------------------------------------------------------------------------
(* Numbers and lists, written                                              *)

\* A number written in as few bytes as it needs: a recursion over n \div 256, which is
\* found by trying it once more for every number.
LEMMA NumberBytesIs ==
    /\ NumberBytes[0] = <<>>
    /\ \A n \in Nat : NumberBytes[n] \in Seq(Byte)
<1> DEFINE F == [Nat -> Seq(Byte)]
           Step(r) == [n \in Nat |-> IF n = 0 THEN <<>> ELSE Append(r[n \div 256], n % 256)]
           g == [p \in Nat \X F |-> Step(p[2])]
           a == [n \in Nat |-> <<>>]
<1>1. \A n \in Nat : n \div 256 \in Nat /\ (n # 0 => n \div 256 <= n - 1) /\ n % 256 \in Byte
  BY DEF Byte
<1>2. a \in F
  OBVIOUS
<1>3. ASSUME NEW r \in F PROVE Step(r) \in F
  <2>1. ASSUME NEW n \in Nat
        PROVE  (IF n = 0 THEN <<>> ELSE Append(r[n \div 256], n % 256)) \in Seq(Byte)
    <3>1. PICK q \in Nat, c \in Byte : q = n \div 256 /\ c = n % 256
      BY <1>1
    <3>2. r[q] \in Seq(Byte)
      OBVIOUS
    <3> QED BY <3>1, <3>2
  <2> QED BY <2>1
<1>4. \A r, n : n \in Nat => Step(r)[n] = IF n = 0 THEN <<>> ELSE Append(r[n \div 256], n % 256)
  OBVIOUS
<1> HIDE DEF F, Step, a
<1>5. g \in [Nat \X F -> F] /\ \A n \in Nat, r \in F : g[<<n, r>>] = Step(r)
  <2>1. ASSUME NEW p \in Nat \X F PROVE Step(p[2]) \in F
    BY <1>3
  <2> QED BY <2>1
<1> HIDE DEF g
<1>6. PICK h : Chain(F, a, g, h)
  BY <1>2, <1>5, Recursion
<1>7. /\ h \in [Nat -> F] /\ h[0] = a
      /\ \A k \in Nat : h[k + 1] = Step(h[k])
  BY <1>5, <1>6 DEF Chain
<1>8. \A k, n \in Nat : h[k + 1][n] = IF n = 0 THEN <<>> ELSE Append(h[k][n \div 256], n % 256)
  <2> TAKE k, n \in Nat
  <2>1. h[k + 1] = Step(h[k])
    BY <1>7
  <2>2. Step(h[k])[n] = IF n = 0 THEN <<>> ELSE Append(h[k][n \div 256], n % 256)
    BY <1>4
  <2> QED BY <2>1, <2>2
<1>9. h[0][0] = <<>>
  BY <1>7 DEF a
<1>10. \A k \in Nat : \A n \in 0..k : h[k + 1][n] = h[k][n]
  <2> DEFINE T == {k \in Nat : \E n \in 0..k : h[k + 1][n] # h[k][n]}
  <2>1. ASSUME T # {} PROVE FALSE
    <3>1. PICK k \in T : \A m \in T : k <= m
      BY <2>1, LeastOf
    <3>2. k \in Nat
      OBVIOUS
    <3>3. PICK n \in 0..k : h[k + 1][n] # h[k][n]
      BY <3>1
    <3>4. k # 0
      <4>1. h[0 + 1][0] = h[0][0]
        BY <1>8, <1>9
      <4> QED BY <3>2, <3>3, <4>1
    <3>5. PICK j \in Nat : k = j + 1 /\ j = k - 1
      BY <3>2, <3>4
    <3>6. j \notin T
      BY <3>1, <3>5
    <3>7. n # 0
      <4>1. h[k + 1][0] = <<>> /\ h[j + 1][0] = <<>>
        BY <1>8, <3>2
      <4> QED BY <3>3, <3>5, <4>1
    <3>8. n \in Nat /\ n \div 256 \in 0..j
      BY <1>1, <3>2, <3>5, <3>7
    <3>9. PICK q \in 0..j : q = n \div 256
      BY <3>8
    <3>10. h[j + 1][q] = h[j][q]
      BY <3>6
    <3>11. h[k + 1][n] = Append(h[k][q], n % 256) /\ h[j + 1][n] = Append(h[j][q], n % 256)
      <4>1. h[k + 1][n] = Append(h[k][n \div 256], n % 256)
        <5>1. h[k + 1][n] = IF n = 0 THEN <<>> ELSE Append(h[k][n \div 256], n % 256)
          BY <1>8, <3>2, <3>8
        <5> QED BY <3>7, <5>1
      <4>2. h[j + 1][n] = Append(h[j][n \div 256], n % 256)
        BY <1>8, <3>7, <3>8
      <4> QED BY <3>9, <4>1, <4>2
    <3> QED BY <3>3, <3>5, <3>10, <3>11
  <2> QED BY <2>1
<1>11. \A n, k \in Nat : n <= k => h[k][n] = h[n][n]
  <2> TAKE n \in Nat
  <2> DEFINE T == {k \in Nat : n <= k /\ h[k][n] # h[n][n]}
  <2>1. ASSUME T # {} PROVE FALSE
    <3>1. PICK k \in T : \A m \in T : k <= m
      BY <2>1, LeastOf
    <3>2. k \in Nat /\ n <= k /\ h[k][n] # h[n][n]
      OBVIOUS
    <3>3. k # n
      BY <3>2
    <3>4. PICK j \in Nat : k = j + 1 /\ j = k - 1 /\ n <= j
      BY <3>2, <3>3
    <3>5. j \notin T
      BY <3>1, <3>4
    <3>6. h[j][n] = h[n][n]
      BY <3>4, <3>5
    <3>7. h[j + 1][n] = h[j][n]
      BY <1>10, <3>4
    <3> QED BY <3>2, <3>4, <3>6, <3>7
  <2> QED BY <2>1
<1> DEFINE f == [n \in Nat |-> h[n][n]]
<1>12. f = Step(f)
  <2>1. ASSUME NEW n \in Nat
        PROVE  f[n] = IF n = 0 THEN <<>> ELSE Append(f[n \div 256], n % 256)
    <3>1. CASE n = 0
      BY <1>9, <3>1
    <3>2. CASE n # 0
      <4>1. PICK j \in Nat : n = j + 1 /\ j = n - 1
        BY <3>2
      <4>2. PICK q \in Nat : q = n \div 256 /\ q <= j
        BY <1>1, <3>2, <4>1
      <4>3. h[j][q] = h[q][q]
        BY <1>11, <4>2
      <4>4. h[j + 1][n] = Append(h[j][n \div 256], n % 256)
        BY <1>8, <3>2
      <4>5. f[n] = h[n][n] /\ f[q] = h[q][q]
        OBVIOUS
      <4> QED BY <3>2, <4>1, <4>2, <4>3, <4>4, <4>5
    <3> QED BY <3>1, <3>2
  <2> QED BY <2>1 DEF Step
<1>13. NumberBytes = CHOOSE r : r = Step(r)
  BY DEF NumberBytes, Step
<1> HIDE DEF f
<1>14. NumberBytes = Step(NumberBytes)
  BY <1>12, <1>13
<1>15. \A n \in Nat : NumberBytes[n] = IF n = 0 THEN <<>>
                                     ELSE Append(NumberBytes[n \div 256], n % 256)
  BY <1>14 DEF Step
<1>16. \A n \in Nat : NumberBytes[n] \in Seq(Byte)
  <2> DEFINE T == {n \in Nat : NumberBytes[n] \notin Seq(Byte)}
  <2>1. ASSUME T # {} PROVE FALSE
    <3>1. PICK n \in T : \A m \in T : n <= m
      BY <2>1, LeastOf
    <3>2. n \in Nat /\ NumberBytes[n] \notin Seq(Byte)
      OBVIOUS
    <3>3. n # 0
      <4>1. NumberBytes[0] = <<>> /\ <<>> \in Seq(Byte)
        BY <1>15
      <4> QED BY <3>2, <4>1
    <3>4. PICK q \in Nat : q = n \div 256 /\ q <= n - 1
      BY <1>1, <3>2, <3>3
    <3>5. q \notin T
      BY <3>1, <3>2, <3>4
    <3>6. NumberBytes[q] \in Seq(Byte)
      BY <3>5
    <3>7. n % 256 \in Byte
      BY <1>1, <3>2
    <3>8. NumberBytes[n] = Append(NumberBytes[q], n % 256)
      BY <1>15, <3>2, <3>3, <3>4
    <3> QED BY <3>2, <3>6, <3>7, <3>8
  <2> QED BY <2>1
<1> QED BY <1>15, <1>16

\* The n slices that a string is cut into at rising offsets, put together again.
LEMMA FlattenedSlices ==
    ASSUME NEW b \in Seq(Byte), NEW n \in Nat, 0 < n, NEW a \in [1..n + 1 -> 0..Len(b)],
           \A j, k \in 1..n + 1 : j <= k => a[j] <= a[k]
    PROVE  FlattenSeq([k \in 1..n |-> Slice(b, a[k], a[k + 1])]) = Slice(b, a[1], a[n + 1])
<1> DEFINE s == [k \in 1..n |-> Slice(b, a[k], a[k + 1])]
           Step(r) == [k \in 1..n |-> IF k = 1 THEN s[k] ELSE r[k - 1] \o s[k]]
           f == [k \in 1..n |-> Slice(b, a[1], a[k + 1])]
           flat == CHOOSE r : r = Step(r)
<1>1. Len(s) = n
  OBVIOUS
<1>2. FlattenSeq(s) = flat[n]
  BY <1>1 DEF FlattenSeq
<1>3. f = Step(f)
  <2>1. ASSUME NEW k \in 1..n
        PROVE  f[k] = IF k = 1 THEN s[k] ELSE f[k - 1] \o s[k]
    <3>1. CASE k = 1
      BY <3>1
    <3>2. CASE k # 1
      <4>1. k - 1 \in 1..n /\ (k - 1) + 1 = k /\ k \in 1..n + 1 /\ k + 1 \in 1..n + 1
            /\ 1 \in 1..n + 1 /\ 1 <= k /\ k <= k + 1
        BY <3>2
      <4>2. PICK x \in Nat, m \in Nat, y \in Nat : x = a[1] /\ m = a[k] /\ y = a[k + 1]
        BY <4>1
      <4>3. x <= m /\ m <= y /\ y <= Len(b)
        BY <4>1, <4>2
      <4>4. Slice(b, x, m) \o Slice(b, m, y) = Slice(b, x, y)
        BY <4>3, SlicesJoin
      <4>5. f[k - 1] = Slice(b, x, m) /\ s[k] = Slice(b, m, y) /\ f[k] = Slice(b, x, y)
        BY <4>1, <4>2
      <4> QED BY <3>2, <4>4, <4>5
    <3> QED BY <3>1, <3>2
  <2> QED BY <2>1
<1>4. f[n] = Slice(b, a[1], a[n + 1])
  OBVIOUS
<1> HIDE DEF f, s
<1>5. flat = Step(flat)
  BY <1>3
<1> HIDE DEF flat
<1>6. ASSUME NEW k \in 1..n
      PROVE  /\ flat[k] = IF k = 1 THEN s[k] ELSE flat[k - 1] \o s[k]
             /\ f[k] = IF k = 1 THEN s[k] ELSE f[k - 1] \o s[k]
  BY <1>3, <1>5
<1>7. \A k \in 1..n : flat[k] = f[k]
  <2> DEFINE T == {k \in 1..n : flat[k] # f[k]}
  <2>1. ASSUME T # {} PROVE FALSE
    <3>1. T \subseteq Nat
      OBVIOUS
    <3>2. PICK k \in T : \A m \in T : k <= m
      BY <2>1, <3>1, LeastOf
    <3>3. k \in 1..n /\ flat[k] # f[k]
      OBVIOUS
    <3>4. k # 1
      BY <1>6, <3>3
    <3>5. PICK j \in 1..n : j = k - 1 /\ j < k
      BY <3>3, <3>4
    <3>6. flat[j] = f[j]
      BY <3>2, <3>5
    <3>7. flat[k] = flat[j] \o s[k] /\ f[k] = f[j] \o s[k]
      BY <1>6, <3>3, <3>4, <3>5
    <3> QED BY <3>3, <3>6, <3>7
  <2> QED BY <2>1
<1>8. n \in 1..n
  OBVIOUS
<1> QED BY <1>2, <1>4, <1>7, <1>8 DEF s

\* In a finished scan of fields that are encoded as their payloads are, the first of them
\* are, as they stand, what they encode to.
LEMMA RunIsFields ==
    ASSUME FaithInv, phase = "done", Canonical, NEW last \in 1..Count
    PROVE  Run(last) = FlattenSeq([k \in 1..last |-> EncodedField(k)])
<1>1. /\ buf \in Seq(Byte) /\ end \in Nat /\ end <= Len(buf) /\ Len(buf) \in Nat
      /\ out \in Seq(ItemType) /\ i = end
  BY DEF FaithInv, TileInv, TypeOK, HeadFits
<1>2. Count \in Nat /\ DOMAIN out = 1..Count /\ last \in Nat /\ last <= Count
  BY <1>1 DEF Count
<1>3. \A k \in 1..Count : out[k].start \in Nat /\ out[k].to \in Nat
  <2>1. \A k \in 1..Count : out[k] \in ItemType
    BY <1>1, <1>2
  <2> QED BY <2>1 DEF ItemType
<1>4. \A k \in 1..Count : out[k].start < out[k].to /\ out[k].to <= end
  BY <1>1, <1>2 DEF FaithInv
<1>5. \A j, k \in 1..Count : j < k => out[j].to <= out[k].start
  BY <1>2 DEF FaithInv
<1>6. \A k \in 1..Count - 1 : out[k + 1].start = out[k].to
  BY DEF FaithInv, TileInv, Contiguous, Count
<1>7. \A k \in 1..Count : EncodedField(k) = Slice(buf, out[k].start, out[k].to)
  BY <1>2 DEF Canonical
<1> DEFINE a == [k \in 1..last + 1 |-> IF k <= last THEN out[k].start ELSE out[last].to]
<1>8. a \in [1..last + 1 -> 0..Len(buf)]
  <2>1. ASSUME NEW k \in 1..last + 1
        PROVE  (IF k <= last THEN out[k].start ELSE out[last].to) \in 0..Len(buf)
    <3>1. CASE k <= last
      <4>1. k \in 1..Count
        BY <1>2, <3>1
      <4>2. out[k].start \in Nat /\ out[k].to \in Nat /\ out[k].start < out[k].to /\ out[k].to <= end
        BY <1>3, <1>4, <4>1
      <4> QED BY <1>1, <3>1, <4>2
    <3>2. CASE ~(k <= last)
      <4>1. out[last].to \in Nat /\ out[last].to <= end
        BY <1>2, <1>3, <1>4
      <4> QED BY <1>1, <3>2, <4>1
    <3> QED BY <3>1, <3>2
  <2> QED BY <2>1
<1>9. \A k \in 1..last : k \in 1..Count /\ a[k] = out[k].start /\ a[k + 1] = out[k].to
  <2> TAKE k \in 1..last
  <2>1. k \in 1..Count /\ a[k] = out[k].start
    BY <1>2
  <2>2. CASE k = last
    BY <1>2, <2>1, <2>2
  <2>3. CASE k # last
    <3>1. k + 1 \in 1..last /\ k \in 1..Count - 1
      BY <1>2, <2>3
    <3> QED BY <1>6, <2>1, <3>1
  <2> QED BY <2>1, <2>2, <2>3
<1>10. a[1] = out[1].start /\ a[last + 1] = out[last].to
  BY <1>2
<1> HIDE DEF a
<1>11. \A j, k \in 1..last + 1 : j <= k => a[j] <= a[k]
  <2> TAKE j, k \in 1..last + 1
  <2> HAVE j <= k
  <2>1. a[j] \in Nat /\ a[k] \in Nat
    BY <1>8
  <2>2. CASE j = k
    BY <2>1, <2>2
  <2>3. CASE j < k /\ k <= last
    <3>1. j \in 1..last /\ k \in 1..last
      BY <2>3
    <3>2. a[j] = out[j].start /\ a[k] = out[k].start /\ j \in 1..Count /\ k \in 1..Count
      BY <1>9, <3>1
    <3>3. out[j].start < out[j].to /\ out[j].to <= out[k].start /\ out[j].to \in Nat
      BY <1>3, <1>4, <1>5, <2>3, <3>2
    <3> QED BY <2>1, <3>2, <3>3
  <2>4. CASE j < k /\ k = last + 1
    <3>1. j \in 1..last /\ last \in 1..last
      BY <1>2, <2>4
    <3>2. a[j] = out[j].start /\ a[k] = out[last].to /\ j \in 1..Count
      BY <1>9, <1>10, <2>4, <3>1
    <3>3. out[j].start < out[j].to /\ out[j].to \in Nat
      BY <1>3, <1>4, <3>2
    <3>4. out[j].to <= out[last].to
      <4>1. CASE j = last
        BY <3>3, <4>1
      <4>2. CASE j < last
        <5>1. out[j].to <= out[last].start /\ out[last].start < out[last].to
          BY <1>4, <1>5, <3>2, <4>2
        <5>2. out[last].start \in Nat /\ out[last].to \in Nat
          BY <1>3
        <5> QED BY <3>3, <5>1, <5>2
      <4> QED BY <3>1, <4>1, <4>2
    <3> QED BY <2>1, <3>2, <3>3, <3>4
  <2> QED BY <2>2, <2>3, <2>4
<1>12. [k \in 1..last |-> EncodedField(k)] = [k \in 1..last |-> Slice(buf, a[k], a[k + 1])]
  BY <1>7, <1>9
<1>13. FlattenSeq([k \in 1..last |-> Slice(buf, a[k], a[k + 1])]) = Slice(buf, a[1], a[last + 1])
  <2>1. 0 < last
    BY <1>2
  <2> QED BY <1>1, <1>2, <1>8, <1>11, <2>1, FlattenedSlices
<1> QED BY <1>10, <1>12, <1>13 DEF Run

\* Bytes are numbers.
LEMMA BytesAreNumbers == \A s \in Seq(Byte) : s \in Seq(Nat)
<1>1. Byte \subseteq Nat
  BY DEF Byte
<1> QED BY <1>1, SeqMonotonic

\* What is put behind the fields of a transaction that names its chain.
LEMMA ChainIsEncoded ==
    ASSUME NEW n \in Nat, NEW run \in Seq(Byte)
    PROVE  run \o RlpUint(n) \o <<128, 128>>
             = run \o (Encoded(FALSE, NumberBytes[n]) \o Encoded(FALSE, <<>>) \o Encoded(FALSE, <<>>))
<1>1. \A k \in Nat : NumberBytes[k] \in Seq(Nat) /\ Len(NumberBytes[k]) \in Nat
  BY NumberBytesIs, BytesAreNumbers
<1>2. RlpUint(n) = Encoded(FALSE, NumberBytes[n])
  BY DEF RlpUint, RlpBytes, Encoded
<1>3. Encoded(FALSE, <<>>) = <<128>>
  BY DEF Encoded, RlpHeader
<1>4. RlpUint(n) \in Seq(Nat)
  <2> DEFINE b == NumberBytes[n]
             head == RlpHeader(Len(b), 128)
  <2>1. PICK l \in Nat : l = Len(b)
    BY <1>1
  <2>2. head \in Seq(Nat)
    <3>1. CASE l < 56
      BY <2>1, <3>1 DEF RlpHeader
    <3>2. CASE ~(l < 56)
      <4>1. 128 + 55 + Len(NumberBytes[l]) \in Nat /\ NumberBytes[l] \in Seq(Nat)
        BY <1>1
      <4> QED BY <2>1, <3>2, <4>1 DEF RlpHeader
    <3> QED BY <3>1, <3>2
  <2>3. b \in Seq(Nat)
    BY <1>1
  <2> HIDE DEF head
  <2>4. head \o b \in Seq(Nat)
    BY <2>2, <2>3
  <2> QED BY <2>3, <2>4 DEF RlpUint, RlpBytes, head
<1>5. run \in Seq(Nat)
  BY BytesAreNumbers
<1>6. \A u \in Seq(Nat) : (run \o u) \o <<128, 128>> = run \o ((u \o <<128>>) \o <<128>>)
  BY <1>5
<1> QED BY <1>2, <1>3, <1>4, <1>6

-----------------------------------------------------------------------------
(* The envelope                                                            *)

\* An envelope is read by scanning its body: every behaviour is one of RlpScan
\* (codec.py:436-453).
THEOREM EnvelopeScans == EnvelopeSpec => Spec
<1>1. EnvelopeInit => Init
  BY EnvelopesAssumption DEF EnvelopeInit, Init
<1>2. [EnvelopeNext]_<<vars, raw, tx>> => [Next]_vars
  BY DEF EnvelopeNext, Scan, KeepHash, ReadFields
<1> QED BY <1>1, <1>2, PTL DEF EnvelopeSpec, Spec

\* A list that ends where its buffer ends is one item, by the declarative reading of RLP.
LEMMA WholeListIsItem ==
    ASSUME NEW b \in Seq(Byte), b # <<>>, b[1] >= 192, ItemAt(b, 0).to = Len(b)
    PROVE  IsItem(b)
<1>1. PICK c \in 0..255 : b[1] = c
  <2>1. b[1] \in Byte
    OBVIOUS
  <2> QED BY <2>1 DEF Byte
<1>2. /\ c \in 192..247 => ItemAt(b, 0) = Triple(0, 0 + 1, 0 + 1 + (c - 192))
      /\ c > 247 => ItemAt(b, 0) = Long(b, 0, 247)
  <2>1. b[0 + 1] = c
    BY <1>1
  <2> QED BY <2>1, ListAtHead
<1>3. CASE c \in 192..247
  <2>1. Len(b) = 1 + c - 192
    BY <1>2, <1>3 DEF Triple
  <2>2. b[1] \in 192..247 /\ Len(b) = 1 + b[1] - 192
    BY <1>1, <1>3, <2>1
  <2> QED BY <2>2 DEF IsItem
<1>4. CASE c > 247
  <2>1. PICK n \in 1..8 : c = 247 + n
    BY <1>4
  <2>2. b[0 + 1] = c /\ 0 + 1 = 1 /\ 0 + 1 + (c - 247) = 1 + n
    BY <1>1, <2>1
  <2>3. ItemAt(b, 0).to = 1 + n + BigEndian(Slice(b, 1, 1 + n))
    BY <1>2, <1>4, <2>2 DEF Long, Triple
  <2>4. BigEndian(Slice(b, 1, 1 + n)) \in Nat
    <3>1. 1 \in Nat /\ 1 + n \in Nat
      OBVIOUS
    <3> QED BY <3>1, LengthNat
  <2>5. n < Len(b)
    BY <2>3, <2>4
  <2>6. Slice(b, 1, 1 + n) = SubSeq(b, 2, 1 + n)
    BY <2>5 DEF Slice
  <2>7. n < Len(b) /\ Len(b) = 1 + n + BigEndian(SubSeq(b, 2, 1 + n))
    BY <2>3, <2>5, <2>6
  <2>8. b[1] - 247 = n /\ b[1] \in 248..255
    BY <1>1, <1>4, <2>1
  <2> QED BY <2>7, <2>8 DEF IsItem
<1>5. c >= 192
  BY <1>1
<1> QED BY <1>3, <1>4, <1>5

\* What reading keeps of an envelope: the body is the scanned one, and what was accepted
\* was accepted of a finished scan that no step touches any more.
Kept ==
    /\ raw \in Envelopes
    /\ buf = Body(raw)
    /\ tx.status = "unread" => ~tx.accepted
    /\ tx.accepted => phase = "done" /\ ~IsOpaque /\ IsAccepted

\* The invariant behind AcceptedIsWhole.
THEOREM KeptCorrect == EnvelopeSpec => []Kept
<1>1. EnvelopeInit => Kept
  BY DEF EnvelopeInit, Given, Kept
<1>2. Kept /\ [EnvelopeNext]_<<vars, raw, tx>> => Kept'
  <2> SUFFICES ASSUME Kept, [EnvelopeNext]_<<vars, raw, tx>>
               PROVE  Kept'
    OBVIOUS
  <2>1. CASE Scan
    <3>1. /\ raw' = raw /\ tx' = tx /\ buf' = buf /\ phase # "done"
      BY <2>1 DEF Scan, Next, Enter, RefuseHead, Item, Finish, RefuseEnd
    <3> QED BY <3>1 DEF Kept
  <2>2. CASE KeepHash
    BY <2>2 DEF KeepHash, Kept, vars
  <2>3. CASE ReadFields
    <3>1. /\ phase' = phase /\ buf' = buf /\ out' = out /\ raw' = raw
          /\ phase = "done" /\ ~IsOpaque
          /\ tx'.status = "fields" /\ tx'.accepted = IsAccepted
      BY <2>3 DEF ReadFields, vars
    <3>2. IsOpaque' = IsOpaque /\ IsAccepted' = IsAccepted
      BY <3>1 DEF IsOpaque, IsAccepted, Count
    <3> QED BY <3>1, <3>2 DEF Kept
  <2>4. CASE UNCHANGED <<vars, raw, tx>>
    <3>1. /\ phase' = phase /\ buf' = buf /\ out' = out /\ raw' = raw /\ tx' = tx
      BY <2>4 DEF vars
    <3>2. IsOpaque' = IsOpaque /\ IsAccepted' = IsAccepted
      BY <3>1 DEF IsOpaque, IsAccepted, Count
    <3> QED BY <3>1, <3>2 DEF Kept
  <2> QED BY <2>1, <2>2, <2>3, <2>4 DEF EnvelopeNext
<1> QED BY <1>1, <1>2, PTL DEF EnvelopeSpec

\* An envelope that _signed_tx accepts is one RLP item from its first byte to its last, of
\* a type arbos knows, and none of the fields that are read is part of its signature
\* (codec.py:483-498).
THEOREM AcceptedIsWholeCorrect == EnvelopeSpec => []AcceptedIsWhole
<1>1. TileInv /\ Kept => AcceptedIsWhole
  <2> SUFFICES ASSUME TileInv, Kept, tx.accepted
               PROVE  /\ IsItem(buf)
                      /\ IsTyped(raw) => raw[1] \in {1, 2, 4}
                      /\ DataField(TxType(raw)) + 1 < Count - 2
    BY DEF AcceptedIsWhole
  <2>1. phase = "done" /\ ~IsOpaque /\ IsAccepted
    BY DEF Kept
  <2>2. TypeOK /\ HeadFits /\ Reached = end /\ end = ItemAt(buf, 0).to
    BY <2>1 DEF TileInv, TypeOK, ItemsTile
  <2>3. raw \in Seq(Byte) /\ raw # <<>>
    BY EnvelopesAssumption DEF Kept
  <2>4. raw[1] \in 0..255
    <3>1. raw[1] \in Byte
      BY <2>3
    <3> QED BY <3>1 DEF Byte
  <2>5. Count \in Nat /\ TxType(raw) \in Layouts /\ DataField(TxType(raw)) + 4 <= Count
    BY <2>1, <2>2 DEF IsOpaque, TypeOK, Count, Layouts, DataField
  <2>6. DataField(TxType(raw)) \in 5..7
    BY <2>5 DEF DataField, Layouts
  <2>7. out[Count].to = Len(buf) /\ out # <<>>
    BY <2>1, <2>5, <2>6 DEF IsAccepted, Count
  <2>8. IsItem(buf)
    <3>1. ItemAt(buf, 0).to = Len(buf)
      BY <2>2, <2>7 DEF Reached, Count
    <3> QED BY <2>2, <3>1, WholeListIsItem DEF HeadFits, TypeOK
  <2>9. IsTyped(raw) => raw[1] \in {1, 2, 4}
    <3> SUFFICES ASSUME IsTyped(raw), raw[1] \notin {1, 2, 4}
                 PROVE  FALSE
      OBVIOUS
    <3>1. ArbosFields(raw) = 0
      BY <2>4 DEF ArbosFields, IsTyped
    <3> QED BY <2>1, <2>5, <2>6, <3>1 DEF IsAccepted
  <2> QED BY <2>5, <2>6, <2>8, <2>9
<1>2. EnvelopeSpec => []TileInv
  BY EnvelopeScans, TileCorrect, PTL
<1> QED BY <1>1, <1>2, KeptCorrect, PTL

\* So it is with the lists of the envelopes, and in particular with those the run reads
\* against every way to cut them.
THEOREM FaithfulWhenSmallCorrect == EnvelopeSpec => []FaithfulWhenSmall
<1>1. Faithful => FaithfulWhenSmall
  BY DEF FaithfulWhenSmall
<1>2. EnvelopeSpec => []Faithful
  BY EnvelopeScans, FaithfulCorrect, PTL
<1> QED BY <1>1, <1>2, PTL

\* A signed payload is put together once, out of a finished scan that no step touches any
\* more.
SignedOnce ==
    /\ raw \in Envelopes
    /\ tx.status = "unread" => tx.signed = None
    /\ tx.signed # None => phase = "done" /\ ~IsOpaque /\ tx.signed = Signed

LEMMA SignedOnceCorrect == EnvelopeSpec => []SignedOnce
<1>1. EnvelopeInit => SignedOnce
  BY DEF EnvelopeInit, Given, SignedOnce
<1>2. SignedOnce /\ [EnvelopeNext]_<<vars, raw, tx>> => SignedOnce'
  <2> SUFFICES ASSUME SignedOnce, [EnvelopeNext]_<<vars, raw, tx>>
               PROVE  SignedOnce'
    OBVIOUS
  <2>1. CASE Scan
    <3>1. raw' = raw /\ tx' = tx /\ phase # "done"
      BY <2>1 DEF Scan, Next, Enter, RefuseHead, Item, Finish, RefuseEnd
    <3> QED BY <3>1 DEF SignedOnce
  <2>2. CASE KeepHash
    BY <2>2 DEF KeepHash, SignedOnce
  <2>3. CASE ReadFields
    <3>1. /\ phase' = phase /\ buf' = buf /\ out' = out /\ raw' = raw
          /\ phase = "done" /\ ~IsOpaque
          /\ tx'.status = "fields" /\ tx'.signed = Signed
      BY <2>3 DEF ReadFields, vars
    <3>2. IsOpaque' = IsOpaque /\ Signed' = Signed
      BY <3>1 DEF IsOpaque, Signed, Count, V, Field, Run
    <3> QED BY <3>1, <3>2 DEF SignedOnce
  <2>4. CASE UNCHANGED <<vars, raw, tx>>
    <3>1. /\ phase' = phase /\ buf' = buf /\ out' = out /\ raw' = raw /\ tx' = tx
      BY <2>4 DEF vars
    <3>2. IsOpaque' = IsOpaque /\ Signed' = Signed
      BY <3>1 DEF IsOpaque, Signed, Count, V, Field, Run
    <3> QED BY <3>1, <3>2 DEF SignedOnce
  <2> QED BY <2>1, <2>2, <2>3, <2>4 DEF EnvelopeNext
<1> QED BY <1>1, <1>2, PTL DEF EnvelopeSpec

\* The payload that is put together out of slices of the envelope is the one its fields
\* encode to, for every envelope with canonical fields: the sender recovered from it is
\* the one who signed it (codec.py:394-422).
THEOREM SignedIsWhatWasSignedCorrect == EnvelopeSpec => []SignedIsWhatWasSigned
<1>1. FaithInv /\ SignedOnce => SignedIsWhatWasSigned
  <2> SUFFICES ASSUME FaithInv, SignedOnce, tx.signed # None, Canonical
               PROVE  tx.signed = WhatIsSigned
    BY DEF SignedIsWhatWasSigned
  <2>1. phase = "done" /\ ~IsOpaque /\ tx.signed = Signed /\ Signed # None
    BY DEF SignedOnce
  <2>2. buf \in Seq(Byte) /\ out \in Seq(ItemType) /\ Count \in Nat /\ DOMAIN out = 1..Count
    BY DEF FaithInv, TileInv, TypeOK, Count
  <2>3. TxType(raw) \in Layouts /\ DataField(TxType(raw)) + 4 <= Count
    BY <2>1, <2>2 DEF IsOpaque, TypeOK, Layouts, DataField
  <2>4. 9 <= Count
    BY <2>2, <2>3 DEF DataField, Layouts
  <2>5. V \in Nat
    <3>1. Count - 2 \in DOMAIN out
      BY <2>2, <2>4
    <3>2. out[Count - 2] \in ItemType
      BY <2>2, <3>1
    <3>3. out[Count - 2].from \in Nat /\ out[Count - 2].to \in Nat
      BY <3>2 DEF ItemType
    <3> QED BY <2>2, <3>3, LengthNat DEF V, Field
  <2> DEFINE fields(last) == FlattenSeq([k \in 1..last |-> EncodedField(k)])
             chain(n) == Encoded(FALSE, NumberBytes[n]) \o Encoded(FALSE, <<>>) \o Encoded(FALSE, <<>>)
             legacy == TxType(raw) = 0
  <2>6. ASSUME NEW last \in 1..Count
        PROVE  Run(last) = fields(last) /\ Run(last) \in Seq(Byte)
    <3>1. Run(last) = fields(last)
      BY <2>1, RunIsFields
    <3>2. Run(last) \in Seq(Byte)
      <4>1. out[1].start \in Nat /\ out[last].to \in Nat
        <5>1. out[1] \in ItemType /\ out[last] \in ItemType
          BY <2>2, <2>4
        <5> QED BY <5>1 DEF ItemType
      <4> QED BY <2>2, <4>1 DEF Run, Slice
    <3> QED BY <3>1, <3>2
  <2>7. 6 \in 1..Count /\ Count - 3 \in 1..Count
    BY <2>2, <2>4
  <2>8. \A c : RlpList(c) = Encoded(TRUE, c)
    BY DEF RlpList, Encoded
  <2>9. /\ ~legacy => WhatIsSigned = <<TxType(raw)>> \o Encoded(TRUE, fields(Count - 3))
        /\ legacy /\ V < 35 => WhatIsSigned = Encoded(TRUE, fields(6))
        /\ legacy /\ ~(V < 35) => WhatIsSigned = Encoded(TRUE, fields(6) \o chain((V - 35) \div 2))
    BY DEF WhatIsSigned
  <2>10. IsScalar(Field(Count - 1)) /\ IsScalar(Field(Count))
    BY <2>1 DEF Signed, IsScalar
  <2>11. Signed = CASE legacy /\ V >= 35 ->
                          RlpList(Run(6) \o RlpUint((V - 35) \div 2) \o <<128, 128>>)
                    [] legacy /\ V \in {27, 28} -> RlpList(Run(6))
                    [] ~legacy /\ V <= 1 -> <<TxType(raw)>> \o RlpList(Run(Count - 3))
                    [] IF legacy THEN V < 35 /\ V \notin {27, 28} ELSE V > 1 -> None
    BY <2>10 DEF Signed
  <2> HIDE DEF fields, chain, legacy
  <2>12. PICK v \in Nat : v = V
    BY <2>5
  <2>13. CASE legacy /\ v >= 35
    <3>1. Signed = RlpList(Run(6) \o RlpUint((V - 35) \div 2) \o <<128, 128>>)
      BY <2>11, <2>12, <2>13
    <3>2. PICK n \in Nat : n = (V - 35) \div 2
      BY <2>12, <2>13
    <3>3. Run(6) \in Seq(Byte) /\ Run(6) = fields(6)
      BY <2>6, <2>7
    <3>4. Run(6) \o RlpUint(n) \o <<128, 128>> = Run(6) \o chain(n)
      BY <3>3, ChainIsEncoded DEF chain
    <3>5. WhatIsSigned = Encoded(TRUE, fields(6) \o chain(n))
      <4>1. legacy /\ ~(V < 35)
        BY <2>12, <2>13
      <4> QED BY <2>9, <3>2, <4>1
    <3> QED BY <2>1, <2>8, <3>1, <3>2, <3>3, <3>4, <3>5
  <2>14. CASE legacy /\ v \in {27, 28}
    <3>1. Signed = RlpList(Run(6))
      BY <2>11, <2>12, <2>14
    <3>2. WhatIsSigned = Encoded(TRUE, fields(6))
      <4>1. legacy /\ V < 35
        BY <2>12, <2>14
      <4> QED BY <2>9, <4>1
    <3> QED BY <2>1, <2>6, <2>7, <2>8, <3>1, <3>2
  <2>15. CASE ~legacy /\ v <= 1
    <3>1. Signed = <<TxType(raw)>> \o RlpList(Run(Count - 3))
      BY <2>11, <2>12, <2>15
    <3>2. WhatIsSigned = <<TxType(raw)>> \o Encoded(TRUE, fields(Count - 3))
      BY <2>9, <2>15
    <3> QED BY <2>1, <2>6, <2>7, <2>8, <3>1, <3>2
  <2>16. CASE IF legacy THEN v < 35 /\ v \notin {27, 28} ELSE v > 1
    <3>1. Signed = None
      BY <2>11, <2>12, <2>16
    <3> QED BY <2>1, <3>1
  <2> QED BY <2>12, <2>13, <2>14, <2>15, <2>16
<1>2. EnvelopeSpec => []FaithInv
  BY EnvelopeScans, FaithInvCorrect, PTL
<1> QED BY <1>1, <1>2, SignedOnceCorrect, PTL
=============================================================================
