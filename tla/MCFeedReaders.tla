--------------------------- MODULE MCFeedReaders ----------------------------
(* Small chains for FeedReaders and FeedRefinement, as in MCFeedSystem. *)
EXTENDS FeedRefinement

CONSTANT c1

MCSeqs == 1..MaxTail
MCHashes == 0..MaxReorgs
MCEntries == [seq : MCSeqs, hash : MCHashes, signed : {TRUE}, broken : {FALSE}]
OneChain == {c1}
NoAnnouncement == {<<>>}
=============================================================================
