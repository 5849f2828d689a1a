--------------------------- MODULE FeedRefinement ---------------------------
(***************************************************************************)
(* FeedSystem implements Replica.  The mapping is computed from what is    *)
(* under way: the picture that the reader is going to have is the one that *)
(* the consumer leaves it when it has handled, in turn, each entry of the  *)
(* rest of the frame and of the connection.                                *)
(***************************************************************************)
EXTENDS FeedReaders

\* What the next turn of the loop depends on, and what it has given the reader.
Consumers ==
    [view : PartialFunctions(Seqs, Hashes), hashes : PartialFunctions(Seqs, Hashes),
     highestSeq : Seqs \cup {-1}, peak : Seqs \cup {-1}]

Now == [view |-> view, hashes |-> hashes, highestSeq |-> highestSeq, peak |-> peak]

\* The consumer c takes e, which has a hash as all that this feed sends, for a replacement:
\* IsReorg.
Contradicts(c, e) == e.seq \in DOMAIN c.hashes /\ c.hashes[e.seq] # e.hash

\* What c remembers when it has delivered e: Remembered.
Recalled(c, e) ==
    LET known  == Put(c.hashes, e.seq, e.hash)
        recent == {s \in DOMAIN known : s > e.seq - ReorgWindow}
    IN  IF Cardinality(DOMAIN known) > 2 * ReorgWindow THEN [s \in recent |-> known[s]]
        ELSE known

\* The consumer c when it has handled e: Duplicate, Reorg or Deliver.
Handled(c, e) ==
    LET old == e.seq <= c.highestSeq
    IN  IF old /\ ~Contradicts(c, e) THEN c
        ELSE [view       |-> IF old THEN View!Replaced(c.view, e.seq, e.hash)
                             ELSE View!Extended(c.view, e.seq, e.hash),
              hashes     |-> Recalled(c, e),
              highestSeq |-> e.seq,
              peak       |-> IF e.seq > c.peak THEN e.seq ELSE c.peak]

Handling(e) == [c \in Consumers |-> Handled(c, e)]

\* The consumer c when it has handled the entries in turn.
AfterAll(c, entries) ==
    LET after[n \in 0..Len(entries)] ==
            IF n = 0 THEN c ELSE Handling(entries[n])[after[n - 1]]
    IN  after[Len(entries)]

\* The consumer once everything under way has been read.
Coming == AfterAll(Now, frame \o pipe)

Followed == INSTANCE Replica WITH
    Window <- ReorgWindow, connected <- phase = "open", copy <- Coming.view, reach <- Coming.peak

\* The caller's picture follows the feed's chain as Replica promises: whatever is under way
\* when it changes, every new block and every replacement gets there in its place, reading
\* in pieces and leaving between two entries change nothing in what will be had, and what a
\* reconnect brings joins what there was (consume.py:12-32, 190-195, 402-446).
FollowsTheChain == Followed!ReplicaSpec
=============================================================================
