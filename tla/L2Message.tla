----------------------------- MODULE L2Message ------------------------------
(***************************************************************************)
(* `decode_l2_message` (src/src/rhfeed/codec.py:456-552): the walk over an *)
(* l2Msg and the batches nested in it, which collects the signed           *)
(* transactions or, when any entry anywhere is refused, nothing.           *)
(*                                                                         *)
(* The recursion over slices is a stack of intervals of the one payload:   *)
(* a batch that is being split is an interval whose start moves past each  *)
(* entry before the entry is looked at, as the generator _split_batch      *)
(* does.  Whether a signed envelope decodes is left open (SignedBodies).   *)
(***************************************************************************)
EXTENDS ByteStrings

CONSTANTS
    Payloads,      \* the byte strings it may be given
    MaxSize,       \* MAX_L2_MESSAGE_SIZE, 256 KiB in the code
    MaxDepth,      \* MAX_BATCH_DEPTH, 16 in the code
    LengthSize,    \* bytes of an entry's length, 8 in the code
    Word,          \* bytes of a word of an unsigned transaction, 32 in the code
    Uint64,        \* bytes of a word that a uint64 fills, 8 in the code
    SignedBodies   \* the envelopes _signed_tx accepts

ASSUME PayloadsAssumption == Payloads \subseteq Seq(Byte)
ASSUME SizesAssumption ==
    /\ {MaxSize, MaxDepth} \subseteq Nat
    /\ LengthSize \in 1..8
    /\ Word \in Nat
    /\ Uint64 \in 0..Word

L2_UNSIGNED_USER_TX == 0
L2_CONTRACT_TX == 1
L2_BATCH == 3
L2_SIGNED_TX == 4

VARIABLES
    phase,     \* "start", "parse" an entry, "split" the innermost batch, "done", "void"
    payload,   \* the l2Msg
    entry,     \* the entry at hand: from, to
    stack,     \* the batches being split, outermost first: next, to
    txs        \* the signed transactions found: from, to

vars == <<phase, payload, entry, stack, txs>>

Interval(from, to) == [from |-> from, to |-> to]

-----------------------------------------------------------------------------
(* One entry                                                               *)

Empty == entry.from = entry.to

Kind == payload[entry.from + 1]

Body == Slice(payload, entry.from + 1, entry.to)

Zeros(b, from, to) == \A k \in DOMAIN Slice(b, from, to) : Slice(b, from, to)[k] = 0

\* _check_unsigned_tx: enough words, and the gas limit and the nonce fit a uint64.
UnsignedFits(kind, b) ==
    /\ Len(b) >= Word * (IF kind = L2_UNSIGNED_USER_TX THEN 5 ELSE 4)
    /\ Zeros(b, 0, Word - Uint64)
    /\ kind = L2_UNSIGNED_USER_TX => Zeros(b, 2 * Word, 3 * Word - Uint64)

IsSigned == ~Empty /\ Kind = L2_SIGNED_TX /\ Body \in SignedBodies

\* Mutant of IsBatch: one level too many.
IsBatch_Deeper == ~Empty /\ Kind = L2_BATCH /\ Len(stack) <= MaxDepth

IsBatch == ~Empty /\ Kind = L2_BATCH /\ Len(stack) < MaxDepth

IsUnsigned ==
    /\ ~Empty
    /\ Kind \in {L2_UNSIGNED_USER_TX, L2_CONTRACT_TX}
    /\ UnsignedFits(Kind, Body)

-----------------------------------------------------------------------------
(* The walk                                                                *)

Init ==
    /\ phase = "start"
    /\ payload \in Payloads
    /\ entry = Interval(0, 0)
    /\ stack = <<>>
    /\ txs = <<>>

\* Nothing to decode, or too much of it: ParseL2Transactions ignores the message.
Ignore ==
    /\ phase = "start"
    /\ payload = <<>> \/ Len(payload) > MaxSize
    /\ phase' = "done"
    /\ UNCHANGED <<payload, entry, stack, txs>>

Start ==
    /\ phase = "start"
    /\ payload # <<>> /\ Len(payload) <= MaxSize
    /\ phase' = "parse"
    /\ entry' = Interval(0, Len(payload))
    /\ UNCHANGED <<payload, stack, txs>>

SignedTx ==
    /\ phase = "parse"
    /\ IsSigned
    /\ phase' = "split"
    /\ txs' = Append(txs, Interval(entry.from + 1, entry.to))
    /\ UNCHANGED <<payload, entry, stack>>

Batch ==
    /\ phase = "parse"
    /\ IsBatch
    /\ phase' = "split"
    /\ stack' = Append(stack, Interval(entry.from + 1, entry.to))
    /\ UNCHANGED <<payload, entry, txs>>

\* Run by arbos, and not surfaced.
UnsignedTx ==
    /\ phase = "parse"
    /\ IsUnsigned
    /\ phase' = "split"
    /\ UNCHANGED <<payload, entry, stack, txs>>

\* Mutant of Reject: only the entry is dropped.
Reject_EntryOnly ==
    /\ phase = "parse"
    /\ ~(IsSigned \/ IsBatch \/ IsUnsigned)
    /\ phase' = "split"
    /\ UNCHANGED <<payload, entry, stack, txs>>

\* _Rejected, from whatever depth: the whole message is void.
Reject ==
    /\ phase = "parse"
    /\ ~(IsSigned \/ IsBatch \/ IsUnsigned)
    /\ phase' = "void"
    /\ txs' = <<>>
    /\ UNCHANGED <<payload, entry, stack>>

Top == stack[Len(stack)]

\* Where the next entry of the innermost batch would start and end.
EntryStart == Top.from + LengthSize
EntryEnd == EntryStart + BigEndian(Slice(payload, Top.from, EntryStart))

\* Mutant of HasEntry: a length that runs past the batch is taken as it stands.
HasEntry_Overlong == EntryStart <= Top.to

\* The length and the entry are both there in full.
HasEntry == EntryStart <= Top.to /\ EntryEnd <= Top.to

\* Mutant of NextEntry: the batch is not moved past the entry's body.
NextEntry_Stays ==
    /\ phase = "split" /\ stack # <<>>
    /\ HasEntry
    /\ phase' = "parse"
    /\ entry' = Interval(EntryStart, EntryEnd)
    /\ stack' = [stack EXCEPT ![Len(stack)] = Interval(EntryStart, Top.to)]
    /\ UNCHANGED <<payload, txs>>

NextEntry ==
    /\ phase = "split" /\ stack # <<>>
    /\ HasEntry
    /\ phase' = "parse"
    /\ entry' = Interval(EntryStart, EntryEnd)
    /\ stack' = [stack EXCEPT ![Len(stack)] = Interval(EntryEnd, Top.to)]
    /\ UNCHANGED <<payload, txs>>

\* A truncated length or body ends the batch and keeps what came before.
EndBatch ==
    /\ phase = "split" /\ stack # <<>>
    /\ ~HasEntry
    /\ stack' = SubSeq(stack, 1, Len(stack) - 1)
    /\ UNCHANGED <<phase, payload, entry, txs>>

Finish ==
    /\ phase = "split" /\ stack = <<>>
    /\ phase' = "done"
    /\ UNCHANGED <<payload, entry, stack, txs>>

Next ==
    \/ Ignore \/ Start
    \/ SignedTx \/ Batch \/ UnsignedTx \/ Reject
    \/ NextEntry \/ EndBatch \/ Finish

Spec == Init /\ [][Next]_vars

-----------------------------------------------------------------------------
(* Properties                                                              *)

IntervalType == [from : Nat, to : Nat]

\* Intervals are intervals of the payload, and batches nest no deeper than the cap
\* (codec.py:85, 523).
TypeOK ==
    /\ phase \in {"start", "parse", "split", "done", "void"}
    /\ payload \in Seq(Byte)
    /\ entry \in IntervalType
    /\ stack \in Seq(IntervalType)
    /\ txs \in Seq(IntervalType)
    /\ Len(stack) <= MaxDepth

\* A batch never reads past its own end, which lies within what its parent has already
\* stepped over: however lengths lie, no byte is read under two meanings
\* (codec.py:472-480).
SlicesNest ==
    /\ \A k \in DOMAIN stack : stack[k].from <= stack[k].to /\ stack[k].to <= Len(payload)
    /\ \A k \in 1..Len(stack) - 1 : stack[k + 1].to <= stack[k].from
    /\ entry.from <= entry.to /\ entry.to <= Len(payload)
    /\ phase = "parse" /\ stack # <<>> => entry.to <= Top.from

\* Where the walk has got to in the payload.
Frontier ==
    CASE phase = "start" -> 0
      [] phase = "parse" -> entry.from
      [] phase = "split" /\ stack # <<>> -> Top.from
      [] OTHER -> Len(payload)

\* The transactions of a message come in the order of its bytes and do not overlap, and
\* all of them lie behind the walk: none is surfaced twice (codec.py:526-530).
TxsInOrder ==
    /\ \A k \in DOMAIN txs : txs[k].from <= txs[k].to /\ txs[k].to <= Frontier
    /\ \A k \in 1..Len(txs) - 1 : txs[k].to <= txs[k + 1].from

\* What every step preserves.
WalkInv ==
    /\ TypeOK
    /\ phase = "start" => stack = <<>> /\ txs = <<>>
    /\ SlicesNest
    /\ TxsInOrder

\* The walk ends on every message: it is over, or gets further into the payload, or is
\* done with a batch without falling back (codec.py:474-480).
MovesOn ==
    [][phase # "start"
        => \/ phase' \in {"done", "void"}
           \/ Frontier < Frontier'
           \/ Frontier <= Frontier' /\ Len(stack') < Len(stack)]_vars
=============================================================================
