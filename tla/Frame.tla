------------------------------- MODULE Frame --------------------------------
(***************************************************************************)
(* `parse_frame` (src/src/rhfeed/codec.py:791-833): one message of a frame *)
(* for each of its entries, in order.  The body of an L2Message is walked  *)
(* (L2Message), a message of the parent chain is built from (ParentChain), *)
(* and whatever else an entry holds, its envelope is read.                 *)
(***************************************************************************)
EXTENDS ParentChain

CONSTANTS
    Calls,      \* the arguments: frame, decode_txs, chain_id
    NotBase64   \* an l2Msg that does not decode

ASSUME CallsAssumption ==
    \A c \in Calls :
        /\ Len(c.frame) \in Nat /\ DOMAIN c.frame = 1..Len(c.frame)
        /\ \A k \in DOMAIN c.frame :
             c.frame[k].l2Msg \notin {None, NotBase64} => c.frame[k].l2Msg \in Seq(Byte)
        /\ \A k \in DOMAIN c.frame :
             c.frame[k].header.requestId \notin {None, Odd}
                => c.frame[k].header.requestId \in Seq(Byte)

VARIABLES
    call,        \* the arguments
    at,          \* the entry being read
    reading,     \* "entry", "walk" an L2Message, "returned", "raised"
    messages     \* out

frameVars == <<call, at, reading, messages>>

Current == call.frame[at]

FromParentChain(e) == e.header.requestId # None \/ e.header.kind # L1_L2_MESSAGE

\* FeedMessage, with the transactions t.
Message(e, t) ==
    [seq |-> e.sequenceNumber, txs |-> t, from_parent_chain |-> FromParentChain(e)]

SignedTxs == [k \in DOMAIN txs |-> Slice(payload, txs[k].from, txs[k].to)]

FrameInit ==
    /\ call \in Calls
    /\ at = 1
    /\ reading = "entry"
    /\ messages = <<>>
    /\ phase = "done"
    /\ payload = <<>>
    /\ entry = Interval(0, 0)
    /\ stack = <<>>
    /\ txs = <<>>

HasEntryLeft == reading = "entry" /\ at <= Len(call.frame)

IsWalked == call.decode_txs /\ Current.l2Msg # None /\ Current.header.kind = L1_L2_MESSAGE

IsBuilt ==
    /\ call.decode_txs /\ call.chain_id # None
    /\ Current.l2Msg \notin {None, NotBase64}
    /\ Current.header.kind \in {L1_SUBMIT_RETRYABLE, L1_ETH_DEPOSIT}

EnterL2Message ==
    /\ HasEntryLeft
    /\ IsWalked /\ Current.l2Msg # NotBase64
    /\ reading' = "walk"
    /\ phase' = "start"
    /\ payload' = Current.l2Msg
    /\ entry' = Interval(0, 0)
    /\ stack' = <<>>
    /\ txs' = <<>>
    /\ UNCHANGED <<call, at, messages>>

Walk == reading = "walk" /\ Next /\ UNCHANGED frameVars

Add(t) ==
    /\ messages' = Append(messages, Message(Current, t))
    /\ at' = at + 1
    /\ reading' = "entry"
    /\ UNCHANGED <<vars, call>>

LeaveL2Message == reading = "walk" /\ phase \in {"done", "void"} /\ Add(SignedTxs)

\* Mutant of BadL2Message: the entry alone is passed over.
BadL2Message_Skipped ==
    /\ HasEntryLeft
    /\ IsWalked /\ Current.l2Msg = NotBase64
    /\ at' = at + 1
    /\ UNCHANGED <<vars, call, reading, messages>>

\* binascii.Error leaves parse_frame, and the entries before it are lost with it.
BadL2Message ==
    /\ HasEntryLeft
    /\ IsWalked /\ Current.l2Msg = NotBase64
    /\ reading' = "raised"
    /\ messages' = <<>>
    /\ UNCHANGED <<vars, call, at>>

BuildParentChain ==
    /\ HasEntryLeft
    /\ IsBuilt
    /\ Add(Built(Current.header, Current.l2Msg, call.chain_id))

\* Of any other kind, without a body or a chain id, not base64, or not to be decoded.
ReadEnvelope == HasEntryLeft /\ ~IsWalked /\ ~IsBuilt /\ Add(<<>>)

Return ==
    /\ reading = "entry" /\ at > Len(call.frame)
    /\ reading' = "returned"
    /\ UNCHANGED <<vars, call, at, messages>>

FrameNext ==
    \/ EnterL2Message \/ Walk \/ LeaveL2Message \/ BadL2Message
    \/ BuildParentChain \/ ReadEnvelope \/ Return

FrameSpec == FrameInit /\ [][FrameNext]_<<vars, frameVars>>

-----------------------------------------------------------------------------
(* Properties                                                              *)

\* The walk's own state is as ever, whichever entry it is at, and no more is returned than
\* was read.
FrameTypeOK ==
    /\ TypeOK
    /\ reading \in {"entry", "walk", "returned", "raised"}
    /\ at \in 1..Len(call.frame) + 1
    /\ Len(messages) < at

\* There is one message for every entry read, in its place and under its number, when a
\* frame is returned there is one for every entry of it, and a frame that raised returns
\* none (codec.py:803, 820-833).
OnePerEntry ==
    /\ \A k \in DOMAIN messages : messages[k].seq = call.frame[k].sequenceNumber
    /\ reading = "returned" => Len(messages) = Len(call.frame)
    /\ reading = "raised" => messages = <<>>

\* The messages with a transaction built from a message of the given kind.
BuiltFrom(kind) ==
    {k \in DOMAIN messages : messages[k].txs # <<>> /\ call.frame[k].header.kind = kind}

DepositReadsBack(p, t) == t.to \o WordOf(t.value) = Slice(p, 0, Address + Word)

TicketReadsBack(h, p, chain, t) ==
    LET d == Slice(t.data, 4, Len(t.data))
        sent == AbiDynamic(d, 10)
        n == DataLength(p)
        number(j) == RlpUint(BigEndian(AbiWord(d, j)))
        hashed == RlpUint(chain) \o RlpBytes(AbiWord(d, 0)) \o RlpBytes(h.sender)
                  \o number(1) \o number(2) \o number(4) \o RlpUint(t.gas)
                  \o RlpBytes(Nil(AbiAddress(d, 9))) \o number(3)
                  \o RlpBytes(AbiAddress(d, 8)) \o number(6)
                  \o RlpBytes(AbiAddress(d, 7)) \o RlpBytes(sent)
    IN  /\ AbiWord(d, 0) = h.requestId
        /\ \A pair \in {<<2, 2>>, <<3, 1>>, <<4, 7>>, <<5, 6>>, <<6, 3>>} :
             AbiWord(d, pair[1]) = W(p, pair[2])
        /\ \A pair \in {<<7, 4>>, <<8, 5>>, <<9, 0>>} :
             AbiAddress(d, pair[1]) = LowBytes(W(p, pair[2]))
        /\ sent # Odd /\ Len(sent) = n
        /\ \A b \in 1..n : sent[b] = IF 9 * Word + b <= Len(p) THEN p[9 * Word + b] ELSE 0
        /\ Len(d) % Word = 0 /\ Len(d) - 12 * Word - n \in 0..Word - 1
        /\ t.raw = <<ARB_SUBMIT_RETRYABLE_TX>> \o RlpList(hashed)

\* A ticket's calldata, read the way a decoder reads any call, gives what the message held:
\* its words, the low bytes of its addresses (whatever lay above them), and its data at full
\* length, padded to whole words and with nothing behind it; and the parts that the
\* transaction's hash covers say the same.  So does a deposit (codec.py:589-697,
\* abi.py:29-75).
BuiltReadsBack ==
    /\ \A k \in BuiltFrom(L1_ETH_DEPOSIT) :
         DepositReadsBack(call.frame[k].l2Msg, messages[k].txs[1])
    /\ \A k \in BuiltFrom(L1_SUBMIT_RETRYABLE) :
         TicketReadsBack(call.frame[k].header, call.frame[k].l2Msg, call.chain_id,
                         messages[k].txs[1])
=============================================================================
