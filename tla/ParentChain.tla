---------------------------- MODULE ParentChain -----------------------------
(***************************************************************************)
(* `decode_parent_chain_message` (src/src/rhfeed/codec.py:555-697): the    *)
(* one transaction arbos builds from a deposit or from a retryable ticket. *)
(* A ticket is written twice over, as the RLP list its hash covers and as  *)
(* the calldata a node reports; the readers of src/src/rhfeed/abi.py get   *)
(* the latter back.                                                        *)
(***************************************************************************)
EXTENDS L2Message, Rlp

CONSTANTS
    Address,       \* bytes of an address, 20 in the code
    RequestId,     \* bytes of a request id, 32 in the code
    None, Odd      \* JSON null, and a value of some other type than is due

ASSUME AddressAssumption == Word \in Nat \ {0} /\ Address \in 1..Word /\ RequestId = Word

ASSUME OddAssumption == Odd \notin Seq(Byte)

L1_L2_MESSAGE == 3
L1_SUBMIT_RETRYABLE == 9
L1_ETH_DEPOSIT == 12
ARB_DEPOSIT_TX == 100
ARB_SUBMIT_RETRYABLE_TX == 105
SUBMIT_RETRYABLE_SELECTOR == <<201, 249, 93, 50>>
ARB_RETRYABLE_TX == [k \in 1..Address |-> IF k = Address THEN 110 ELSE 0]

ZeroBytes(n) == [k \in 1..n |-> 0]

\* n.to_bytes(32, "big")
WordOf(n) == [k \in 1..Word |-> (n \div Power[Word - k]) % 256]

W(p, k) == Slice(p, k * Word, (k + 1) * Word)

LowBytes(w) == Slice(w, Word - Address, Word)

\* _header_bytes: of the size that is due.
HeaderFits(h) ==
    /\ h.requestId \notin {None, Odd} /\ Len(h.requestId) = RequestId
    /\ h.sender \notin {None, Odd} /\ Len(h.sender) = Address

DepositFits(p) == Len(p) >= Address + Word

Deposit(h, p, chain) ==
    LET to     == Slice(p, 0, Address)
        amount == BigEndian(Slice(p, Address, Address + Word))
    IN  [type |-> ARB_DEPOSIT_TX, to |-> to, value |-> amount, gas |-> 0,
         data |-> <<>>, sender |-> h.sender,
         raw |-> <<ARB_DEPOSIT_TX>> \o
            RlpList(RlpUint(chain) \o RlpBytes(h.requestId) \o RlpBytes(h.sender)
                    \o RlpBytes(to) \o RlpUint(amount))]

-----------------------------------------------------------------------------
(* Retryable tickets                                                       *)

DataLength(p) == BigEndian(W(p, 8))

\* _l1_base_fee, of what fits a word.
BaseFee(h) == IF h.baseFeeL1 = None THEN 0 ELSE h.baseFeeL1

TicketFits(h, p) ==
    /\ Len(p) >= 9 * Word
    /\ Zeros(W(p, 6), 0, Word - Uint64)
    /\ DataLength(p) <= MaxSize
    /\ DataLength(p) # 0 => Len(p) > 9 * Word
    /\ h.baseFeeL1 # Odd
    /\ BaseFee(h) \in 0..Power[Word] - 1

\* Mutant of RetryData: a short tail stays short.
RetryData_Short(p) == Slice(p, 9 * Word, 9 * Word + DataLength(p))

\* One plain Read: a short tail is padded with zeros.
RetryData(p) ==
    LET tail == Slice(p, 9 * Word, 9 * Word + DataLength(p))
    IN  tail \o ZeroBytes(DataLength(p) - Len(tail))

Nil(a) == IF \E k \in DOMAIN a : a[k] # 0 THEN a ELSE <<>>

TicketRaw(h, p, chain) ==
    <<ARB_SUBMIT_RETRYABLE_TX>> \o
    RlpList(RlpUint(chain) \o RlpBytes(h.requestId) \o RlpBytes(h.sender)
            \o RlpUint(BaseFee(h))
            \o RlpUint(BigEndian(W(p, 2))) \o RlpUint(BigEndian(W(p, 7)))
            \o RlpUint(BigEndian(W(p, 6))) \o RlpBytes(Nil(LowBytes(W(p, 0))))
            \o RlpUint(BigEndian(W(p, 1))) \o RlpBytes(LowBytes(W(p, 5)))
            \o RlpUint(BigEndian(W(p, 3))) \o RlpBytes(LowBytes(W(p, 4)))
            \o RlpBytes(RetryData(p)))

Padded(w) == ZeroBytes(Word - Address) \o LowBytes(w)

TicketData(h, p) ==
    SUBMIT_RETRYABLE_SELECTOR \o h.requestId \o WordOf(BaseFee(h))
    \o W(p, 2) \o W(p, 1) \o W(p, 7) \o W(p, 6) \o W(p, 3)
    \o Padded(W(p, 4)) \o Padded(W(p, 5)) \o Padded(W(p, 0))
    \o WordOf(11 * Word) \o W(p, 8)
    \o RetryData(p) \o ZeroBytes((Word - (DataLength(p) % Word)) % Word)

SubmitRetryable(h, p, chain) ==
    [type |-> ARB_SUBMIT_RETRYABLE_TX, to |-> ARB_RETRYABLE_TX, value |-> 0,
     gas |-> BigEndian(W(p, 6)), data |-> TicketData(h, p), sender |-> h.sender,
     raw |-> TicketRaw(h, p, chain)]

\* What arbos builds from a message, if it does not refuse it.
Built(h, p, chain) ==
    LET whole == Len(p) <= MaxSize /\ HeaderFits(h)
    IN  CASE whole /\ h.kind = L1_ETH_DEPOSIT /\ DepositFits(p) -> <<Deposit(h, p, chain)>>
          [] whole /\ h.kind = L1_SUBMIT_RETRYABLE /\ TicketFits(h, p) ->
                <<SubmitRetryable(h, p, chain)>>
          [] OTHER -> <<>>

-----------------------------------------------------------------------------
(* Reading calldata                                                        *)

AbiWord(d, k) == IF (k + 1) * Word > Len(d) THEN Odd ELSE W(d, k)

AbiAddress(d, k) ==
    LET w == AbiWord(d, k)
    IN  IF w = Odd \/ ~Zeros(w, 0, Word - Address) THEN Odd ELSE LowBytes(w)

\* An offset of whole words to a length that is there, and as many bytes behind it.
AbiDynamic(d, k) ==
    LET w     == AbiWord(d, k)
        off   == BigEndian(w)
        start == off + Word
        n     == BigEndian(Slice(d, off, start))
    IN  IF w = Odd \/ off % Word # 0 \/ start > Len(d) \/ start + n > Len(d) THEN Odd
        ELSE Slice(d, start, start + n)
=============================================================================
