----------------------------- MODULE TxEnvelope -----------------------------
(***************************************************************************)
(* `decode_transaction` and `_signed_tx` (src/src/rhfeed/codec.py:436-498): *)
(* a signed transaction's envelope is a type byte and an RLP list, or the  *)
(* list alone; once its fields are scanned (RlpScan) it is decided whether *)
(* arbos takes it, and the bytes that its sender signed are put together   *)
(* again out of it (Tx._recover, codec.py:394-422).                        *)
(***************************************************************************)
EXTENDS RlpScan

CONSTANT Envelopes    \* the byte strings it may be given, none empty

VARIABLES
    raw,    \* the envelope
    tx      \* what came of it: status, accepted by _signed_tx, signed payload

None == <<>>

IsTyped(b) == b[1] < 128

TxType(b) == IF IsTyped(b) THEN b[1] ELSE 0

Body(b) == IF IsTyped(b) THEN Tail(b) ELSE b

ASSUME EnvelopesAssumption ==
    /\ Envelopes \subseteq Seq(Byte) \ {<<>>}
    /\ Buffers = {Body(b) : b \in Envelopes}

\* _LAYOUT: where the last of the fields it reads, the calldata, is.
Layouts == {0, 1, 2, 3, 4}
DataField(type) == CASE type = 0 -> 5 [] type = 1 -> 6 [] type \in {2, 3, 4} -> 7

\* _LEGACY_FIELDS and _ARBOS_FIELDS: how many fields arbos wants, none of a type it refuses.
ArbosFields(b) ==
    CASE ~IsTyped(b) -> 9
      [] b[1] = 1 -> 11
      [] b[1] = 2 -> 12
      [] b[1] = 4 -> 13
      [] b[1] \in 0..127 \ {1, 2, 4} -> 0

-----------------------------------------------------------------------------
(* The signed payload                                                      *)

Count == Len(out)

\* v, r and s are the last three fields whatever the type.
Field(k) == Slice(buf, out[k].from, out[k].to)
V == BigEndian(Field(Count - 2))
IsScalar(b) == Len(b) \in 1..32

\* Mutant of Run: a field of the signature is taken along.
Run_PlusOne(last) == Slice(buf, out[1].start, out[last + 1].to)

\* The first fields up to `last`, prefixes included, as they stand.
Run(last) == Slice(buf, out[1].start, out[last].to)

\* A legacy v of 35 or more holds the chain id, which is signed with two empty fields; one of
\* 27 or 28 does not.  Of a type byte, everything but the signature is signed.
Signed ==
    LET legacy == TxType(raw) = 0
        v      == V
    IN  CASE ~IsScalar(Field(Count - 1)) \/ ~IsScalar(Field(Count)) -> None
          [] IsScalar(Field(Count - 1)) /\ IsScalar(Field(Count)) ->
                CASE legacy /\ v >= 35 ->
                        RlpList(Run(6) \o RlpUint((v - 35) \div 2) \o <<128, 128>>)
                  [] legacy /\ v \in {27, 28} -> RlpList(Run(6))
                  [] ~legacy /\ v <= 1 -> <<TxType(raw)>> \o RlpList(Run(Count - 3))
                  [] IF legacy THEN v < 35 /\ v \notin {27, 28} ELSE v > 1 -> None

-----------------------------------------------------------------------------
(* The envelope                                                            *)

EnvelopeInit ==
    /\ raw \in Envelopes
    /\ Given(Body(raw))
    /\ tx = [status |-> "unread", accepted |-> FALSE, signed |-> None]

\* Kept for its hash alone: a type without a layout, no list, or too few fields.
IsOpaque ==
    \/ TxType(raw) \notin Layouts
    \/ phase = "raised"
    \/ phase = "done" /\ Count < DataField(TxType(raw)) + 4

KeepHash ==
    /\ tx.status = "unread"
    /\ IsOpaque
    /\ tx' = [status |-> "hash", accepted |-> FALSE, signed |-> None]
    /\ UNCHANGED <<vars, raw>>

\* Mutant of IsAccepted: what comes after the list is not looked at.
IsAccepted_Trailing == Count = ArbosFields(raw)

\* _signed_tx: neither a field too few or too many nor a byte after the last.
IsAccepted == Count = ArbosFields(raw) /\ out[Count].to = Len(buf)

ReadFields ==
    /\ tx.status = "unread"
    /\ phase = "done"
    /\ ~IsOpaque
    /\ tx' = [status |-> "fields", accepted |-> IsAccepted, signed |-> Signed]
    /\ UNCHANGED <<vars, raw>>

Scan == TxType(raw) \in Layouts /\ Next /\ UNCHANGED <<raw, tx>>

EnvelopeNext == Scan \/ KeepHash \/ ReadFields

EnvelopeSpec == EnvelopeInit /\ [][EnvelopeNext]_<<vars, raw, tx>>

-----------------------------------------------------------------------------
(* Properties                                                              *)

\* An envelope arbos would be given is one RLP item from its first byte to its last, after a
\* type byte that arbos knows, and its calldata is none of the signature's fields: an
\* l2Msg with anything else in it is void (codec.py:483-498).
AcceptedIsWhole ==
    tx.accepted =>
        /\ IsItem(buf)
        /\ IsTyped(raw) => raw[1] \in {1, 2, 4}
        /\ DataField(TxType(raw)) + 1 < Count - 2
=============================================================================
