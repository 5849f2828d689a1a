---------------------------- MODULE MCFeedSystem ----------------------------
(***************************************************************************)
(* Small chains for FeedSystem.  The handshake announces nothing and no    *)
(* signature is checked here: FeedConsumer's own runs cover both.          *)
(***************************************************************************)
EXTENDS FeedSystem

CONSTANT c1

MCSeqs == 1..MaxTail
MCHashes == 0..MaxReorgs
MCEntries == [seq : MCSeqs, hash : MCHashes, signed : {TRUE}, broken : {FALSE}]
OneChain == {c1}
NoAnnouncement == {<<>>}
=============================================================================
