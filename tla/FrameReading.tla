---------------------------- MODULE FrameReading ----------------------------
(***************************************************************************)
(* What an l2Msg is, read as a set of entries rather than walked, and what *)
(* a frame comes to, each of its entries taken for itself.  The properties *)
(* compare the walk of L2Message and the frames of Frame with that.        *)
(***************************************************************************)
EXTENDS Frame, FiniteSets

\* An entry, or what is left of a batch: where it is, and under how many batches.
Nodes == [from : Nat, to : Nat, depth : Nat]
Node(from, to, depth) == [from |-> from, to |-> to, depth |-> depth]

-----------------------------------------------------------------------------
(* The entries of a message                                                *)

IsBatchNode(p, e) == e.from < e.to /\ p[e.from + 1] = L2_BATCH

\* All of a batch.
Inside(e) == Node(e.from + 1, e.to, e.depth + 1)

\* The next entry of what is left of a batch, if that is there in full, and what is left
\* behind it.
NextNode(p, r) ==
    LET start == r.from + LengthSize
    IN  Node(start, start + BigEndian(Slice(p, r.from, start)), r.depth)

HasNode(p, r) == r.from + LengthSize <= r.to /\ NextNode(p, r).to <= r.to

Behind(p, r) == Node(NextNode(p, r).to, r.to, r.depth)

\* The entries in what is left of a batch, and in the batches among those.
Contents(p) ==
    LET in[r \in Nodes] ==
            IF ~HasNode(p, r) THEN {}
            ELSE {NextNode(p, r)} \cup in[Behind(p, r)]
                 \cup IF IsBatchNode(p, NextNode(p, r)) THEN in[Inside(NextNode(p, r))] ELSE {}
    IN  in

\* An entry and those inside it.
Tree(p, e) == {e} \cup IF IsBatchNode(p, e) THEN Contents(p)[Inside(e)] ELSE {}

Entries(p) == Tree(p, Node(0, Len(p), 0))

Refused(p, e) ==
    LET b    == Slice(p, e.from, e.to)
        rest == Tail(b)
    IN  \/ b = <<>>
        \/ /\ b # <<>>
           /\ \/ Head(b) \notin {0, 1, 3, 4}
              \/ Head(b) = 4 /\ rest \notin SignedBodies
              \/ Head(b) = 3 /\ e.depth >= MaxDepth
              \/ Head(b) \in {0, 1} /\ ~UnsignedFits(Head(b), rest)

\* Where the signed transactions of a message are, if nothing in it is refused.
Bodies(p) ==
    IF p = <<>> \/ Len(p) > MaxSize \/ \E e \in Entries(p) : Refused(p, e) THEN {}
    ELSE {Interval(e.from + 1, e.to) : e \in {m \in Entries(p) : p[m.from + 1] = L2_SIGNED_TX}}

\* A body comes behind those that start before it.
Place(S, b) == 1 + Cardinality({c \in S : c.from < b.from})

-----------------------------------------------------------------------------
(* Properties                                                              *)

\* A message is worth its signed transactions, in order, if nothing in it is refused,
\* and nothing at all otherwise: one bad entry voids its siblings, whether they come
\* before it or after, and however deep it is (codec.py:456-462, 539-552).
Sound ==
    phase \in {"done", "void"} =>
        LET S == Bodies(payload)
        IN  Len(txs) = Cardinality(S) /\ \A b \in S : txs[Place(S, b)] = b

\* The bytes s are those of the message's signed transactions, in order.
IsWorth(p, s) ==
    LET S == Bodies(p)
    IN  /\ Len(s) = Cardinality(S)
        /\ \A b \in S : s[Place(S, b)] = Slice(p, b.from, b.to)

\* Every entry of a frame gives one message, in its place and under its number, and what it
\* is worth is its own: not less for a refused entry beside it, nothing where it was not to
\* be decoded, one transaction at most from the parent chain, and that one never without a
\* chain id.  A frame is returned whole or not at all (codec.py:796-833).
FrameSound ==
    /\ OnePerEntry
    /\ \A k \in DOMAIN messages :
         LET e == call.frame[k]
             walked == call.decode_txs /\ e.l2Msg # None /\ e.header.kind = L1_L2_MESSAGE
         IN  /\ walked => e.l2Msg # NotBase64 /\ IsWorth(e.l2Msg, messages[k].txs)
             /\ ~walked => /\ Len(messages[k].txs) <= 1
                           /\ messages[k].txs # <<>> => call.decode_txs /\ call.chain_id # None
                           /\ messages[k].txs # <<>> => messages[k].from_parent_chain
=============================================================================
