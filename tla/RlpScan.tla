------------------------------ MODULE RlpScan -------------------------------
(***************************************************************************)
(* `_scan_list` (src/src/rhfeed/codec.py:149-203): the offsets of every    *)
(* item of the RLP list at the head of a buffer, found by stepping from    *)
(* length prefix to length prefix without descending into nested lists.    *)
(* One action is one turn of its loop.                                     *)
(***************************************************************************)
EXTENDS Rlp, FiniteSets

CONSTANT Buffers    \* the byte strings it may be given

ASSUME BuffersAssumption == Buffers \subseteq Seq(Byte)

VARIABLES
    phase,    \* "head", "scan", "done", or "raised": ValueError
    buf,      \* the argument
    i,        \* offset of the next item
    end,      \* offset of the end of the list
    out       \* the items found

vars == <<phase, buf, i, end, out>>

Given(b) ==
    /\ phase = "head"
    /\ buf = b
    /\ i = 0
    /\ end = 0
    /\ out = <<>>

Init == \E b \in Buffers : Given(b)

\* The head is the prefix of a list that fits the buffer.
HeadFits == buf # <<>> /\ buf[1] >= 192 /\ ItemAt(buf, 0).to <= Len(buf)

Enter ==
    /\ phase = "head"
    /\ HeadFits
    /\ phase' = "scan"
    /\ i' = ItemAt(buf, 0).from
    /\ end' = ItemAt(buf, 0).to
    /\ UNCHANGED <<buf, out>>

\* "empty", "not an RLP list", "truncated RLP list"
RefuseHead ==
    /\ phase = "head"
    /\ ~HeadFits
    /\ phase' = "raised"
    /\ UNCHANGED <<buf, i, end, out>>

Item ==
    /\ phase = "scan"
    /\ i < end
    /\ out' = Append(out, ItemAt(buf, i))
    /\ i' = ItemAt(buf, i).to
    /\ UNCHANGED <<phase, buf, end>>

\* Mutant of Finish: the last item may end anywhere.
Finish_Anywhere ==
    /\ phase = "scan"
    /\ i >= end
    /\ phase' = "done"
    /\ UNCHANGED <<buf, i, end, out>>

Finish ==
    /\ phase = "scan"
    /\ i = end
    /\ phase' = "done"
    /\ UNCHANGED <<buf, i, end, out>>

\* "malformed RLP list": the last item ends beyond the list.  What was found is lost.
RefuseEnd ==
    /\ phase = "scan"
    /\ i > end
    /\ phase' = "raised"
    /\ out' = <<>>
    /\ UNCHANGED <<buf, i, end>>

Next == Enter \/ RefuseHead \/ Item \/ Finish \/ RefuseEnd

Spec == Init /\ [][Next]_vars

-----------------------------------------------------------------------------
(* Properties                                                              *)

ItemType == [start : Nat, from : Nat, to : Nat]

\* Offsets are offsets, and a scan that entered a list stays with that list.
TypeOK ==
    /\ phase \in {"head", "scan", "done", "raised"}
    /\ buf \in Seq(Byte)
    /\ i \in Nat
    /\ end \in Nat
    /\ out \in Seq(ItemType)
    /\ phase \in {"scan", "done"}
         => HeadFits /\ end = ItemAt(buf, 0).to /\ ItemAt(buf, 0).from <= i

\* Where the next item has to start.
Reached == IF out = <<>> THEN ItemAt(buf, 0).from ELSE out[Len(out)].to

\* Each item starts where the one before it ended, prefix included, so a run of items
\* can be cut out of the buffer again as it stands (codec.py:152-155).
Contiguous ==
    /\ out # <<>> => out[1].start = ItemAt(buf, 0).from
    /\ \A k \in 1..Len(out) - 1 : out[k + 1].start = out[k].to
    /\ \A k \in DOMAIN out : out[k].start <= out[k].from /\ out[k].from <= out[k].to
    /\ phase = "scan" => Reached = i

\* What a finished scan returns covers the list's payload from end to end, without a
\* gap, an overlap or a byte beyond the list or the buffer (codec.py:169-203).
ItemsTile ==
    phase = "done" => Contiguous /\ Reached = end /\ end <= Len(buf)

\* The invariant behind ItemsTile.
TileInv ==
    /\ TypeOK
    /\ phase = "head" => out = <<>>
    /\ phase \in {"scan", "done"} => Contiguous
    /\ ItemsTile

\* The scan ends on every input: no step leaves the loop where it stood, so there are
\* no more turns than bytes (codec.py:174-200).
Advances == [][phase = "scan" /\ phase' = "scan" => i < i' /\ i < end]_vars

\* RLP, read the other way round: whether a string of bytes is one item.
IsItem(b) ==
    LET prefixed(base) ==
            LET n == b[1] - base
            IN  n < Len(b) /\ Len(b) = 1 + n + BigEndian(SubSeq(b, 2, 1 + n))
    IN  /\ b # <<>>
        /\ \/ b[1] < 128 /\ Len(b) = 1
           \/ b[1] \in 128..183 /\ Len(b) = 1 + b[1] - 128
           \/ b[1] \in 192..247 /\ Len(b) = 1 + b[1] - 192
           \/ b[1] \in 184..191 /\ prefixed(183)
           \/ b[1] \in 248..255 /\ prefixed(247)

HeadLength == IF buf[1] < 248 THEN 1 ELSE 1 + buf[1] - 247

\* The sets of offsets that cut a list at the head of the buffer into items.
Cuts ==
    {C \in SUBSET (0..Len(buf)) :
        \E last \in C :
            /\ HeadLength \in C
            /\ \A p \in C : HeadLength <= p /\ p <= last
            /\ IsItem(SubSeq(buf, 1, last))
            /\ \A p \in C \ {last} :
                 \E q \in C : /\ p < q
                              /\ \A r \in C : r <= p \/ q <= r
                              /\ IsItem(SubSeq(buf, p + 1, q))}

\* The scan returns what RLP says is there, and raises when RLP says there is nothing:
\* a list that can be cut into items can be cut in one way only, and that is what is
\* returned (codec.py:149-203).
Faithful ==
    LET cuts == IF buf # <<>> /\ buf[1] >= 192 THEN Cuts ELSE {}
    IN  /\ phase = "done" => cuts = {{out[k].start : k \in DOMAIN out} \cup {end}}
        /\ phase = "raised" => cuts = {} /\ out = <<>>
=============================================================================
