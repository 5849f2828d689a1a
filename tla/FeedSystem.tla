----------------------------- MODULE FeedSystem -----------------------------
(***************************************************************************)
(* FeedConsumer against the feed it is written for: a Nitro sequencer feed *)
(* (or a relay) that holds the chain, keeps a backlog of its last blocks,  *)
(* answers Arbitrum-Requested-Sequence-Number, and re-broadcasts from the  *)
(* reorg point.  The feed is not part of the repository: it is modelled    *)
(* from what the module docstring of src/src/rhfeed/consume.py relies on.  *)
(*                                                                         *)
(* A block hash commits to its parents, so a block is identified by its    *)
(* number and the fork it was built on: forks stand for hashes here.       *)
(***************************************************************************)
EXTENDS FeedConsumer

CONSTANTS
    MaxTail,    \* bound: blocks of the chain
    MaxReorgs,  \* bound: reorgs
    MaxTrim,    \* bound: blocks the backlog forgets
    MaxFaults   \* bound: failures and departures of the caller

ASSUME FeedAssumption ==
    /\ {MaxTail, MaxReorgs, MaxTrim, MaxFaults} \subseteq Nat
    /\ MaxTail >= 1
    /\ Seqs = 1..MaxTail
    /\ Hashes = 0..MaxReorgs
    /\ [seq : Seqs, hash : Hashes, signed : {TRUE}, broken : {FALSE}] \subseteq Entries
    /\ ~Verifying

VARIABLES
    chain,     \* the feed's chain: block number -> fork
    fork,      \* the fork the feed builds on
    floor,     \* the lowest block of the backlog
    pipe,      \* entries sent on this connection and not yet read
    faults,    \* faults so far
    \* History variables.
    resumed,   \* the last replay started at the number asked for
    dups,      \* blocks the caller already had that this connection sent again
    stale      \* blocks of the picture the replay of a reconnect passed over

feed == <<chain, fork, floor>>
ghosts == <<resumed, dups, stale>>
systemVars == <<vars, feed, pipe, faults, ghosts>>

\* Block s of chain c as the feed sends it.
Wire(c, s) == [seq |-> s, hash |-> c[s], signed |-> TRUE, broken |-> FALSE]

Held(e) == e.seq \in DOMAIN view /\ view[e.seq] = e.hash

Disagreements == {s \in DOMAIN view : s \notin DOMAIN chain \/ view[s] # chain[s]}

-----------------------------------------------------------------------------
(* The feed                                                                *)

SystemInit ==
    /\ Init
    /\ chain = <<0>>
    /\ fork = 0
    /\ floor = 1
    /\ pipe = <<>>
    /\ faults = 0
    /\ resumed = FALSE
    /\ dups = 0
    /\ stale = {}

\* Send the block just put at the tail to a connected client.
Broadcast(c) ==
    pipe' = IF phase = "open" THEN Append(pipe, Wire(c, Len(c))) ELSE pipe

FeedAppend ==
    /\ Len(chain) < MaxTail
    /\ chain' = Append(chain, fork)
    /\ Broadcast(chain')
    /\ UNCHANGED <<vars, fork, floor, faults, ghosts>>

\* addMessagesAndReorg: block s is replaced and everything above it goes.
FeedReorg(s) ==
    /\ fork < MaxReorgs
    /\ fork' = fork + 1
    /\ chain' = Append(SubSeq(chain, 1, s - 1), fork + 1)
    /\ floor' = IF s < floor THEN s ELSE floor
    /\ Broadcast(chain')
    /\ UNCHANGED <<vars, faults, ghosts>>

FeedTrim ==
    /\ floor < Len(chain)
    /\ floor <= MaxTrim
    /\ floor' = floor + 1
    /\ UNCHANGED <<vars, chain, fork, pipe, faults, ghosts>>

InBacklog(s) == s \in floor..Len(chain)

\* Mutant of Requested: the consumer asks for the block before its last.
Requested_Before == highestSeq - 1

\* The Arbitrum-Requested-Sequence-Number header; none while nothing was seen.
Requested == highestSeq

\* The number the consumer asks for if the backlog has it, else all of it.
ReplayFrom == IF InBacklog(Requested) THEN Requested ELSE floor

-----------------------------------------------------------------------------
(* The consumer, connected to it                                           *)

SystemOpen ==
    /\ \E ann \in Announcements : Open(ann)
    /\ pipe' = [i \in 1..(Len(chain) - ReplayFrom + 1) |-> Wire(chain, ReplayFrom + i - 1)]
    /\ resumed' = InBacklog(Requested)
    /\ dups' = 0
    /\ stale' = {s \in Disagreements : s < ReplayFrom}
    /\ UNCHANGED <<feed, faults>>

SystemReceive ==
    /\ \E n \in 1..MaxFrame : \E fresh \in SUBSET (1..n) :
        /\ n <= Len(pipe)
        /\ Receive(SubSeq(pipe, 1, n), fresh)
        /\ pipe' = SubSeq(pipe, n + 1, Len(pipe))
    /\ UNCHANGED <<feed, faults, ghosts>>

SystemStep ==
    /\ Step
    /\ dups' = IF Duplicate /\ Held(Head(frame)) THEN dups + 1 ELSE dups
    /\ UNCHANGED <<feed, pipe, faults, resumed, stale>>

SystemRetry ==
    /\ Call \/ Wake
    /\ UNCHANGED <<feed, pipe, faults, ghosts>>

SystemFault ==
    /\ faults < MaxFaults
    /\ ConnectFails \/ Drop \/ CleanClose \/ Close
    /\ faults' = faults + 1
    /\ pipe' = <<>>
    /\ UNCHANGED <<feed, ghosts>>

Environment ==
    \/ FeedAppend
    \/ \E s \in DOMAIN chain : FeedReorg(s)
    \/ FeedTrim
    \/ SystemFault

SystemNext == SystemOpen \/ SystemReceive \/ SystemStep \/ SystemRetry \/ Environment

\* The event loop runs the generator whenever what it awaits is there, and the
\* caller keeps asking for the next message; the feed and the faults owe nothing.
Fairness ==
    /\ WF_systemVars(SystemOpen)
    /\ WF_systemVars(SystemReceive)
    /\ WF_systemVars(SystemStep)
    /\ WF_systemVars(SystemRetry)

SystemSpec == SystemInit /\ [][SystemNext]_systemVars /\ Fairness

-----------------------------------------------------------------------------
(* Properties                                                              *)

\* The feed, the connection and the history variables stay in their types.
SystemTypeOK ==
    /\ TypeOK
    /\ chain \in Seq(Hashes) /\ Len(chain) \in 1..MaxTail
    /\ fork \in Hashes
    /\ floor \in 1..MaxTail
    /\ pipe \in Seq(EntryType)
    /\ faults \in 0..MaxFaults
    /\ resumed \in BOOLEAN
    /\ dups \in Nat
    /\ stale \subseteq Seqs

CaughtUp == phase = "open" /\ frame = <<>> /\ pipe = <<>>

AtTip == highestSeq = Len(chain) /\ view[highestSeq] = chain[highestSeq]

\* The chain was cut back to a block the consumer has no hash of: there is nothing
\* to compare the replacement with, and it is dropped as a duplicate.
Overtaken == Len(chain) < highestSeq /\ Len(chain) \notin DOMAIN hashes

\* What the consumer can still have wrong then is exactly what a reconnect let it
\* miss, blocks replaced during an outage, below the number it resumed from, and what
\* was replaced deeper down than it remembers hashes (consume.py:190-195, 425-446).
OnlyOutageReorgsAreMissed ==
    CaughtUp /\ ~Overtaken =>
        \A s \in Disagreements : s \in stale \/ s <= peak - ReorgWindow

\* A reconnect that resumes where it left off is sent one block the caller already
\* has and no more (consume.py:19-25, 190-195).
OneDuplicatePerResume == phase = "open" /\ resumed => dups <= 1

\* After the last fault the consumer reads everything there is and stays at the
\* feed's tip: no failure, reorg or departure leaves it waiting for a frame that
\* will not come, or reconnecting for ever (consume.py:261-321).
EventuallyCaughtUp == <>[](CaughtUp /\ (AtTip \/ Overtaken))

-----------------------------------------------------------------------------
(* What the documentation says and the code does not do                    *)

\* consume.py:19-20: a reconnect "trims the replay to messages we actually missed",
\* so after it the caller's picture is the feed's chain.
ReplayCoversWhatWasMissed == CaughtUp /\ ~Overtaken => Disagreements = {}
=============================================================================
