------------------------------ MODULE MCFrame -------------------------------
(***************************************************************************)
(* Small frames: lengths of one byte, words of two bytes of which a uint64 *)
(* and an address fill one each, and every way an entry may be out of      *)
(* order.                                                                  *)
(***************************************************************************)
EXTENDS FrameReading, SequencesExt

CONSTANTS MaxLen, Alphabet, MaxEntries

SomeBytes == {0, 1, 2, 3, 4, 9}

Words(n) == {[k \in 1..n |-> w[k]] : w \in [1..n -> Alphabet]}

Field(b) == <<Len(b)>> \o b

-----------------------------------------------------------------------------
(* L2 messages                                                             *)

Signed == <<L2_SIGNED_TX, 9>>
Contract(high) == <<L2_CONTRACT_TX, high, 1, 2, 2, 2, 2, 2, 2>>
User(high, nonce) == <<L2_UNSIGNED_USER_TX, high, 1, 2, 2, nonce, 1, 2, 2, 2, 2>>

\* Unsigned transactions, whole and a byte short, alone and among signed siblings.
Unsigned ==
    LET whole == {Contract(0), Contract(1), User(0, 0), User(1, 0), User(0, 1)}
    IN  whole \cup {SubSeq(u, 1, Len(u) - 1) : u \in whole}

Siblings ==
    {<<L2_BATCH>> \o Field(Signed) \o Field(u) \o Field(Signed) : u \in Unsigned}

\* Batches in batches, around every short word, down to one level past the cap.
RECURSIVE Nested(_, _)
Nested(b, depth) ==
    IF depth = 0 THEN b
    ELSE <<L2_BATCH>> \o Field(Nested(b, depth - 1)) \o Field(Signed)

Deep == {Nested(b, depth) : b \in Words(2) \cup {Signed, <<>>}, depth \in 1..MaxDepth + 1}

\* As long as a message may be, and longer.
Flat == {<<L2_BATCH>> \o FlattenSeq([k \in 1..n |-> Field(Signed)]) : n \in {7, 8}}

AllPayloads == Unsigned \cup Siblings \cup Deep \cup Flat \cup UNION {Words(n) : n \in 0..MaxLen}

\* Bodies that decode as a signed transaction.
SomeBodies == {<<9>>, <<1, 9>>, <<3, 9>>}

-----------------------------------------------------------------------------
(* Parent-chain messages                                                   *)

\* A ticket to `to` with room for `length` bytes of data, of which `tail` are there.
Ticket(to, gas, length, tail) ==
    to \o <<0, 5>> \o <<1, 0>> \o <<0, 0>> \o <<7, 7>> \o <<8, 8>> \o gas \o <<0, 200>>
    \o <<0, length>> \o [k \in 1..tail |-> k]

SomeTickets ==
    {Ticket(to, <<0, 3>>, length, tail) :
        to \in {<<0, 6>>, <<6, 6>>, <<6, 0>>}, length \in {0, 1, 2, 3, 4, 9, 23}, tail \in 0..5}
    \cup {Ticket(<<0, 6>>, <<1, 0>>, 0, 0), SubSeq(Ticket(<<0, 6>>, <<0, 3>>, 0, 0), 1, 17)}

Header(kind, id, sender, fee) ==
    [kind |-> kind, requestId |-> id, sender |-> sender, baseFeeL1 |-> fee]

Usual(kind) == Header(kind, <<1, 2>>, <<8>>, 300)

SomeHeaders ==
    {Header(L1_SUBMIT_RETRYABLE, id, <<8>>, 0) : id \in {None, Odd, <<1>>, <<0, 0>>}}
    \cup {Header(L1_SUBMIT_RETRYABLE, <<1, 2>>, sender, 0) : sender \in {None, Odd, <<1, 1>>}}
    \cup {Header(L1_SUBMIT_RETRYABLE, <<1, 2>>, <<200>>, fee) :
            fee \in {None, Odd, -1, 127, 128, 65535, 65536}}

SomeDeposits == {SubSeq(<<6, 1, 4, 9>>, 1, n) : n \in 0..4}

-----------------------------------------------------------------------------
(* Frames                                                                  *)

Entry(n, header, body) == [sequenceNumber |-> n, header |-> header, l2Msg |-> body]

Sequenced == Header(L1_L2_MESSAGE, None, <<8>>, None)

\* Entries to be met with others: good, refused, without a body, not base64, of another kind.
SomeEntries ==
    LET good == Ticket(<<6, 6>>, <<0, 3>>, 3, 2)
    IN  {<<Sequenced, Signed>>, <<Sequenced, <<9>>>>, <<Sequenced, NotBase64>>,
         <<Sequenced, None>>, <<Usual(L1_SUBMIT_RETRYABLE), good>>,
         <<Usual(L1_SUBMIT_RETRYABLE), NotBase64>>, <<Usual(L1_ETH_DEPOSIT), <<6, 1, 4>>>>,
         <<Usual(13), good>>}

Numbered(s) == [k \in DOMAIN s |-> Entry(k, s[k][1], s[k][2])]

Singles ==
    {<<Sequenced, p>> : p \in AllPayloads}
    \cup {<<Usual(L1_SUBMIT_RETRYABLE), p>> : p \in SomeTickets}
    \cup {<<h, Ticket(<<0, 6>>, <<0, 3>>, 2, 2)>> : h \in SomeHeaders}
    \cup {<<Usual(L1_ETH_DEPOSIT), p>> : p \in SomeDeposits}

Call(frame, decode, chain) == [frame |-> frame, decode_txs |-> decode, chain_id |-> chain]

AllCalls ==
    {Call(Numbered(<<e>>), TRUE, 7) : e \in Singles}
    \cup {Call(Numbered(s), decode, chain) :
            s \in UNION {[1..n -> SomeEntries] : n \in 0..MaxEntries},
            decode \in BOOLEAN, chain \in {None, 7}}
=============================================================================
