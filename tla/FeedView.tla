------------------------------ MODULE FeedView ------------------------------
(***************************************************************************)
(* What a reader of `FeedConsumer.messages()` is promised, whatever the    *)
(* feed sends: a picture of the chain that only ever changes in two ways.  *)
(* A message without `reorg` extends the picture above everything already  *)
(* in it; a message with `reorg` replaces one position and discards every  *)
(* position above it.  The module knows nothing of connections, frames,    *)
(* signatures or hash windows: FeedConsumer implements it.                 *)
(***************************************************************************)
EXTENDS Integers

CONSTANTS
    Seqs,     \* sequence numbers (L2 block numbers)
    Hashes,   \* block hashes
    NoHash    \* the envelope carries no block hash

VARIABLE
    view      \* the reader's picture: sequence number -> block hash

EmptyView == [s \in {} |-> NoHash]

Below(v, s) == {t \in DOMAIN v : t < s}

\* The reader's bookkeeping for an ordinary message.
Extended(v, s, h) == [t \in DOMAIN v \cup {s} |-> IF t = s THEN h ELSE v[t]]

\* The reader's bookkeeping for a message with `reorg` set.
Replaced(v, s, h) == [t \in Below(v, s) \cup {s} |-> IF t = s THEN h ELSE v[t]]

Init == view = EmptyView

Extend(s, h) ==
    /\ \A t \in DOMAIN view : t < s
    /\ view' = Extended(view, s, h)

\* Never for a block that is already in the picture: the hash must differ.
Replace(s, h) ==
    /\ \E t \in DOMAIN view : s <= t
    /\ s \in DOMAIN view => view[s] # h
    /\ view' = Replaced(view, s, h)

Next ==
    \/ \E s \in Seqs, h \in Hashes \cup {NoHash} : Extend(s, h)
    \/ \E s \in Seqs, h \in Hashes : Replace(s, h)

Spec == Init /\ [][Next]_view
=============================================================================
