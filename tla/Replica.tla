------------------------------ MODULE Replica -------------------------------
(***************************************************************************)
(* What a reader of `FeedConsumer.messages()` is promised when the feed is *)
(* one that keeps a chain: beside the picture it has (FeedView's `view`),  *)
(* there is the picture it is going to have once everything under way has  *)
(* been read, `copy`, and that one follows the chain from block to block.  *)
(* Reading catches up with `copy` and never changes it; losing the         *)
(* connection loses what was under way; a connection brings the chain from *)
(* the reader's last block on, or all that the feed still has.             *)
(*                                                                         *)
(* A block may be passed over when nobody knows what it would replace:     *)
(* one that fell into a gap of the picture, and one that lies a window     *)
(* below the greatest block the reader will ever have had.                 *)
(***************************************************************************)
EXTENDS FeedView, Sequences

CONSTANT
    Window      \* how far back a replacement is sure to be noticed

VARIABLES
    chain,      \* the feed's chain: block number -> block hash
    floor,      \* the lowest block the feed still has
    connected,
    copy,       \* the picture the reader will have
    reach       \* the greatest block the reader will have had

InGap(v, s) == s \notin DOMAIN v /\ \E t \in DOMAIN v : s < t

Deep(s, r) == s <= r - Window

MayMiss(v, r, s) == IF s \in DOMAIN v THEN Deep(s, r) ELSE InGap(v, s)

\* The picture v follows the chain from block `from` on, but for what lies deep, and ends with
\* it, unless the last block of all was passed over.
Follows(v, r, from) ==
    LET last == Len(chain)
        right == {s \in from..last : s \in DOMAIN v /\ v[s] = chain[s]}
    IN  /\ \A s \in from..last : s \in DOMAIN v => s \in right \/ Deep(s, r)
        /\ last \in right => \A s \in DOMAIN v : s <= last

IsGreatest(n, S) == n \in S /\ \A m \in S : m <= n

\* Block s of the chain, which is new, is sent.
Sent(s) ==
    IF connected
    THEN \/ /\ copy' = Replaced(copy, s, chain'[s])
            /\ IsGreatest(reach', {reach, s})
         \/ /\ MayMiss(copy, reach, s)
            /\ UNCHANGED <<copy, reach>>
    ELSE UNCHANGED <<copy, reach>>

ReplicaInit ==
    /\ Init
    /\ \E h \in Hashes : chain = <<h>>
    /\ floor = 1
    /\ connected = FALSE
    /\ copy = view
    /\ reach = -1

Grow ==
    /\ Len(chain') = Len(chain) + 1
    /\ \E h \in Hashes : chain' = Append(chain, h)
    /\ Sent(Len(chain'))
    /\ UNCHANGED <<view, floor, connected>>

\* Block s is replaced, and what was built on it goes.
Reorganise(s) ==
    /\ Len(chain') = s
    /\ \E h \in Hashes \ {chain[s]} : chain' = Append(SubSeq(chain, 1, s - 1), h)
    /\ floor' = IF s < floor THEN s ELSE floor
    /\ Sent(s)
    /\ UNCHANGED <<view, connected>>

Trim ==
    /\ floor' \in floor + 1..Len(chain)
    /\ UNCHANGED <<view, chain, connected, copy, reach>>

IsLast(s) == s \in DOMAIN view /\ \A t \in DOMAIN view : t <= s

\* From the reader's last block on if the feed has it, and everything otherwise; what the
\* picture holds below stays as it is, right or wrong.
Connect(from) ==
    /\ ~connected /\ connected' = TRUE
    /\ IF \E s \in floor..Len(chain) : IsLast(s) THEN IsLast(from) ELSE from = floor
    /\ Below(copy', from) = Below(view, from)
    /\ \A s \in DOMAIN copy' \ (from..Len(chain)) : s \in DOMAIN view /\ copy'[s] = view[s]
    /\ Follows(copy', reach', from)
    /\ \A s \in from..Len(chain) : s \in DOMAIN copy' \/ InGap(view, s)
    /\ IsGreatest(reach', {reach} \cup DOMAIN copy')
    /\ UNCHANGED <<view, chain, floor>>

Lose ==
    /\ connected /\ connected' = FALSE
    /\ copy' = view
    /\ reach' <= reach /\ \A s \in DOMAIN view : s <= reach'
    /\ UNCHANGED <<view, chain, floor>>

\* The reader is handed one message of those under way.
Read ==
    /\ connected /\ view' # view
    /\ Next
    /\ UNCHANGED <<chain, floor, connected, copy, reach>>

ReplicaNext ==
    \/ Grow
    \/ \E s \in DOMAIN chain : Reorganise(s)
    \/ \E from \in floor..Len(chain) : Connect(from)
    \/ Trim \/ Lose \/ Read

ReplicaSpec == ReplicaInit /\ [][ReplicaNext]_<<view, chain, floor, connected, copy, reach>>
=============================================================================
