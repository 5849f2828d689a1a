---------------------------- MODULE MCTxEnvelope ----------------------------
(***************************************************************************)
(* Envelopes of every type around lists of as many fields as arbos wants,  *)
(* one fewer and one more, some fields not as usual, and a type byte       *)
(* before every buffer of up to MaxLen bytes, one byte or more from each   *)
(* range of prefixes, and before lists of exactly one byte more.           *)
(***************************************************************************)
EXTENDS TxEnvelope, SequencesExt

CONSTANTS MaxLen, Alphabet

\* Bytes that are their own payload, the empty string, a string of one byte, a long string,
\* lists of none and of one byte, long lists with a length of one and of two bytes.
SomeBytes == {0, 1, 128, 129, 184, 192, 193, 248, 249}

Words(n) == {[k \in 1..n |-> w[k]] : w \in [1..n -> Alphabet]}

LongerLists == {<<192 + MaxLen>> \o w : w \in Words(MaxLen)}
               \cup {<<248, MaxLen - 1>> \o w : w \in Words(MaxLen - 1)}

SmallBuffers == LongerLists \cup UNION {Words(n) : n \in 0..MaxLen}

-----------------------------------------------------------------------------
(* Envelopes                                                               *)

\* A usual field, an empty one, a string of two bytes, a list, and a string that makes the
\* list around it a long one.
LongString == <<184, 56>> \o [k \in 1..56 |-> 9]
SomeFields == {<<7>>, <<128>>, <<130, 1, 7>>, <<194, 7, 128>>, LongString}

\* Signatures: v of every kind, r or s empty or as usual.
SomeVs == {<<128>>, <<1>>, <<2>>, <<27>>, <<28>>, <<34>>, <<35>>, <<38>>, <<129, 200>>, <<130, 1, 44>>}
Signatures == {<<v, <<130, 7, 7>>, <<5>>>> : v \in SomeVs}
              \cup {<<<<27>>, <<128>>, <<5>>>>, <<<<1>>, <<5>>, <<128>>>>}

\* n fields: all usual but the one at `at`.
Fields(n, at, field) == [k \in 1..n |-> IF k = at THEN field ELSE <<7>>]

SomeLists ==
    UNION {{RlpList(FlattenSeq(Fields(n - 3, at, field) \o sig)) :
                at \in {1, 6, n - 3}, field \in SomeFields, sig \in Signatures} : n \in 8..14}

Whole == {<<type>> \o l : type \in {0, 1, 2, 3, 4, 5}, l \in SomeLists} \cup SomeLists

\* A byte too many, and a list that claims a byte more than its fields have.
Damaged ==
    LET some == {RlpList(FlattenSeq(Fields(n - 3, 1, <<7>>) \o <<<<27>>, <<5>>, <<5>>>>)) : n \in 9..13}
        longer(l) == <<l[1] + 1>> \o Tail(l) \o <<129>>
        bad == {Append(l, 9) : l \in some} \cup {longer(l) : l \in some}
    IN  bad \cup {<<type>> \o l : type \in 0..4, l \in bad}

AllEnvelopes == Whole \cup Damaged \cup {<<1>> \o b : b \in SmallBuffers}

AllBuffers == {Body(b) : b \in AllEnvelopes}

-----------------------------------------------------------------------------
(* Properties                                                              *)

\* Faithful, of the buffers short enough to try every way to cut them.
FaithfulWhenSmall == Len(buf) <= MaxLen + 1 => Faithful

\* RLP of a string or a list, written from its payload.
Encoded(isList, payload) ==
    IF ~isList /\ Len(payload) = 1 /\ payload[1] < 128 THEN payload
    ELSE RlpHeader(Len(payload), IF isList THEN 192 ELSE 128) \o payload

EncodedField(k) == Encoded(buf[out[k].start + 1] >= 192, Field(k))

Canonical == \A k \in DOMAIN out : EncodedField(k) = Slice(buf, out[k].start, out[k].to)

\* What a sender signs, written field by field: those before the signature, and of a legacy
\* transaction that names its chain the chain and two empty fields.
WhatIsSigned ==
    LET fields(last) == FlattenSeq([k \in 1..last |-> EncodedField(k)])
        chain(id)    == Encoded(FALSE, NumberBytes[id]) \o Encoded(FALSE, <<>>) \o Encoded(FALSE, <<>>)
    IN  IF TxType(raw) # 0 THEN <<TxType(raw)>> \o Encoded(TRUE, fields(Count - 3))
        ELSE IF V < 35 THEN Encoded(TRUE, fields(6))
        ELSE Encoded(TRUE, fields(6) \o chain((V - 35) \div 2))

\* The payload put together out of slices of the envelope is the one its fields encode to,
\* whatever the type, the lengths and the number of the fields, so that the sender
\* recovered is the one who signed (codec.py:394-422).
SignedIsWhatWasSigned ==
    tx.signed # None /\ Canonical => tx.signed = WhatIsSigned
=============================================================================
