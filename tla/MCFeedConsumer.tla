--------------------------- MODULE MCFeedConsumer ---------------------------
(***************************************************************************)
(* Small feeds for FeedConsumer: the alphabets of entries its runs use.    *)
(***************************************************************************)
EXTENDS FeedConsumer

CONSTANTS a, b, c1, c2

\* Every sequence number under every hash, and one of them without a hash.
Plain == [seq : Seqs, hash : Hashes, signed : {TRUE}, broken : {FALSE}]
         \cup {[seq |-> 1, hash |-> NoHash, signed |-> TRUE, broken |-> FALSE]}

\* Numbers 0 and 1 under every hash or none, some entries unsigned.
Signed == [seq : {0, 1}, hash : Hashes \cup {NoHash}, signed : BOOLEAN, broken : {FALSE}]

\* What Signed leaves out: a missing number and a body that is not base64.
Odd == {[seq |-> -1, hash |-> a, signed |-> TRUE, broken |-> FALSE],
        [seq |-> 1, hash |-> b, signed |-> TRUE, broken |-> TRUE],
        [seq |-> 0, hash |-> a, signed |-> FALSE, broken |-> TRUE]}

SignedAndOdd == Signed \cup Odd

AB == {a, b}
TwoChains == {c1, c2}
NoAnnouncement == {<<>>}
SomeAnnouncements == {<<>>, <<Unknown, c1>>, <<c2>>}
SeqsTo1 == -1..1
SeqsTo5 == 0..5
=============================================================================
