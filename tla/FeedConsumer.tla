---------------------------- MODULE FeedConsumer ----------------------------
(***************************************************************************)
(* `FeedConsumer.messages()` (src/src/rhfeed/consume.py): one connection   *)
(* to a relay, reconnecting, with backlog, duplicate, reorg and signature  *)
(* handling, against a feed that may send anything.                        *)
(*                                                                         *)
(* `messages()` is an async generator: it runs until it awaits (a connect, *)
(* a frame, a sleep) or yields.  One action is one stretch between two     *)
(* such points, and every entry of a frame is a step of its own, so that   *)
(* the caller may leave, or look at the consumer, between two entries.     *)
(*                                                                         *)
(* Left out: the counters of `stats` and the log lines, which no decision  *)
(* reads, and the contents of a message beyond its number and block hash.  *)
(***************************************************************************)
EXTENDS Integers, Sequences, FiniteSets

CONSTANTS
    Seqs,           \* sequence numbers an entry may carry; -1: the field is missing
    Hashes,         \* block hashes
    NoHash,         \* the entry carries no blockHash
    Entries,        \* the entries the feed may send
    MaxFrame,       \* bound: entries in one frame
    Verifying,      \* a Verifier was passed
    DecodeBacklog,  \* the argument of messages(); live() passes FALSE
    ReorgWindow,    \* reorg_window
    BaseDelay,      \* reconnect_delay
    MaxDelay,       \* max_reconnect_delay
    Chains,         \* chain ids
    Unknown,        \* no chain id, or a header int() cannot read
    GivenChain,     \* chain_id as passed to the constructor
    UrlChain,       \* KNOWN_CHAIN_IDS for the URL
    VerifierChain,  \* the verifier's chain id
    Announcements   \* the Arbitrum-Chain-Id headers a handshake may carry

EntryType == [seq : Seqs, hash : Hashes \cup {NoHash}, signed : BOOLEAN,
              broken : BOOLEAN]

ASSUME SeqsAssumption == Seqs \subseteq Nat \cup {-1}
ASSUME HashesAssumption == NoHash \notin Hashes
ASSUME EntriesAssumption == Entries \subseteq EntryType
ASSUME SizesAssumption ==
    /\ MaxFrame \in Nat
    /\ ReorgWindow \in Nat
ASSUME DelaysAssumption ==
    /\ BaseDelay \in Nat
    /\ MaxDelay \in Nat
    /\ BaseDelay <= MaxDelay
ASSUME FlagsAssumption == {Verifying, DecodeBacklog} \subseteq BOOLEAN
ASSUME ChainsAssumption ==
    /\ Unknown \notin Chains
    /\ {GivenChain, UrlChain} \subseteq Chains \cup {Unknown}
    /\ VerifierChain \in Chains
    /\ Announcements \subseteq Seq(Chains \cup {Unknown})

VARIABLES
    phase,       \* where messages() stands
    delay,       \* the local `delay`: the next sleep of the retry loop
    chainId,     \* self.chain_id
    highestSeq,  \* self._highest_seq
    hashes,      \* self._hashes
    live,        \* self._live
    waited,      \* more than max_backlog_seconds have passed since `started`
    frame,       \* the entries of the current frame still to be handled
    out,         \* the message the generator is suspended on, if any
    \* History variables: what the caller can know of the past.
    view,        \* the reader's picture of the chain, from `out` alone
    peak         \* the greatest watermark so far

core == <<highestSeq, hashes>>
history == <<view, peak>>
vars == <<phase, delay, chainId, core, live, waited, frame, out, history>>

View == INSTANCE FeedView WITH view <- view

\* f[s] = h, whether or not s was there.
Put(f, s, h) == [t \in DOMAIN f \cup {s} |-> IF t = s THEN h ELSE f[t]]

\* The least of a set of positions.
First(S) == CHOOSE i \in S : \A j \in S : i <= j

-----------------------------------------------------------------------------
(* The handshake                                                           *)

Readable(ann) == {i \in DOMAIN ann : ann[i] # Unknown}

\* _check_chain: any readable header that is not the verifier's chain.
ForeignChain(ann) ==
    Verifying /\ \E i \in Readable(ann) : ann[i] # VerifierChain

\* _find_chain_id: first readable header, then the URL, then the verifier.
FindChainId(ann) ==
    IF Readable(ann) # {} THEN ann[First(Readable(ann))]
    ELSE IF UrlChain # Unknown THEN UrlChain
    ELSE IF Verifying THEN VerifierChain
    ELSE Unknown

-----------------------------------------------------------------------------
(* A frame                                                                 *)

Accepted(entry) == Verifying => entry.signed

\* Mutant of FirstLive: a forged entry can end the backlog.
FirstLive_Unverified(entries, fresh) ==
    LET current == {i \in DOMAIN entries : waited \/ i \in fresh}
    IN  IF live THEN 1
        ELSE IF current = {} THEN Len(entries) + 1
        ELSE First(current)

\* Mutant of FirstLive: a live connection looks at timestamps again.
FirstLive_Forgets(entries, fresh) ==
    LET current == {i \in DOMAIN entries : Accepted(entries[i]) /\ (waited \/ i \in fresh)}
    IN  IF current = {} THEN Len(entries) + 1 ELSE First(current)

\* The first entry of a frame that ends the backlog, or one past the last.
FirstLive(entries, fresh) ==
    LET current == {i \in DOMAIN entries : Accepted(entries[i]) /\ (waited \/ i \in fresh)}
    IN  IF live THEN 1
        ELSE IF current = {} THEN Len(entries) + 1
        ELSE First(current)

\* parse_frame raises on an L2Message whose body is not base64, if it decodes it.
Undecodable(entries, first) ==
    \E i \in DOMAIN entries : entries[i].broken /\ (DecodeBacklog \/ i >= first)

\* Mutant of Annotated: the flag is raised with the frame, not with its first live entry.
Annotated_Early(entries, first) ==
    [i \in DOMAIN entries |->
        [seq      |-> entries[i].seq,
         hash     |-> entries[i].hash,
         accepted |-> Accepted(entries[i]),
         live     |-> i >= first,
         goesLive |-> i = 1 /\ first <= Len(entries) /\ ~live]]

\* What the loop of _frame will do with each entry.
Annotated(entries, first) ==
    [i \in DOMAIN entries |->
        [seq      |-> entries[i].seq,
         hash     |-> entries[i].hash,
         accepted |-> Accepted(entries[i]),
         live     |-> i >= first,
         goesLive |-> i = first /\ ~live]]

\* Mutant of IsReorg: any known number counts, whatever its hash.
IsReorg_Unequal(e) == e.seq \in DOMAIN hashes /\ e.hash # NoHash

\* Mutant of IsReorg: only the last block is compared.
IsReorg_TipOnly(e) ==
    /\ e.seq = highestSeq
    /\ e.seq \in DOMAIN hashes
    /\ e.hash # NoHash
    /\ hashes[e.seq] # e.hash

\* _is_reorg
IsReorg(e) ==
    /\ e.seq \in DOMAIN hashes
    /\ e.hash # NoHash
    /\ hashes[e.seq] # e.hash

\* Mutant of Remembered: a replacement does not overwrite the hash.
Remembered_FirstWins(e) ==
    IF e.seq \in DOMAIN hashes \/ e.hash = NoHash THEN hashes
    ELSE Put(hashes, e.seq, e.hash)

\* Mutant of Remembered: the cutoff is one too high.
Remembered_Short(e) ==
    LET known  == Put(hashes, e.seq, e.hash)
        recent == {s \in DOMAIN known : s > e.seq - ReorgWindow + 1}
    IN  IF e.hash = NoHash THEN hashes
        ELSE IF Cardinality(DOMAIN known) > 2 * ReorgWindow
             THEN [s \in recent |-> known[s]]
             ELSE known

\* _remember, called once the watermark stands at e.seq.
Remembered(e) ==
    LET known  == Put(hashes, e.seq, e.hash)
        recent == {s \in DOMAIN known : s > e.seq - ReorgWindow}
    IN  IF e.hash = NoHash THEN hashes
        ELSE IF Cardinality(DOMAIN known) > 2 * ReorgWindow
             THEN [s \in recent |-> known[s]]
             ELSE known

\* The caller's bookkeeping: append, or replace from the reorg point on.
Absorbed(v, m) ==
    IF m.reorg THEN View!Replaced(v, m.seq, m.hash) ELSE View!Extended(v, m.seq, m.hash)

\* The message an entry is yielded as.
Message(e, reorg) == [seq |-> e.seq, hash |-> e.hash, live |-> e.live, reorg |-> reorg]

-----------------------------------------------------------------------------
(* Connecting and retrying                                                 *)

Init ==
    /\ phase = "closed"
    /\ delay = BaseDelay
    /\ chainId = GivenChain
    /\ highestSeq = -1
    /\ hashes = View!EmptyView
    /\ live = FALSE
    /\ waited = FALSE
    /\ frame = <<>>
    /\ out = <<>>
    /\ view = View!EmptyView
    /\ peak = -1

\* The caller starts iterating messages(), for the first time or again.
Call ==
    /\ phase \in {"closed", "refused"}
    /\ phase' = "connecting"
    /\ delay' = BaseDelay
    /\ UNCHANGED <<chainId, core, live, waited, frame, out, history>>

\* The handshake succeeds and the feed serves the verifier's chain.
Open(ann) ==
    /\ phase = "connecting"
    /\ ~ForeignChain(ann)
    /\ phase' = "open"
    /\ chainId' = IF chainId = Unknown THEN FindChainId(ann) ELSE chainId
    /\ delay' = BaseDelay
    /\ live' = FALSE
    /\ waited' = FALSE
    /\ UNCHANGED <<core, frame, out, history>>

\* The handshake announces another chain: WrongChain leaves the generator.
Refuse(ann) ==
    /\ phase = "connecting"
    /\ ForeignChain(ann)
    /\ phase' = "refused"
    /\ UNCHANGED <<delay, chainId, core, live, waited, frame, out, history>>

\* The connection cannot be opened.
ConnectFails ==
    /\ phase = "connecting"
    /\ phase' = "sleeping"
    /\ UNCHANGED <<delay, chainId, core, live, waited, frame, out, history>>

\* Mutant of Wake: the delay doubles without a limit.
Wake_Unlimited ==
    /\ phase = "sleeping"
    /\ phase' = "connecting"
    /\ delay' = 2 * delay
    /\ UNCHANGED <<chainId, core, live, waited, frame, out, history>>

\* asyncio.sleep(delay) returns; the next delay doubles.
Wake ==
    /\ phase = "sleeping"
    /\ phase' = "connecting"
    /\ delay' = IF 2 * delay < MaxDelay THEN 2 * delay ELSE MaxDelay
    /\ UNCHANGED <<chainId, core, live, waited, frame, out, history>>

\* The generator waits for the next frame.
Idle == phase = "open" /\ frame = <<>>

\* The connection dies, or a frame is not JSON: an exception at the read.
Drop ==
    /\ Idle
    /\ phase' = "sleeping"
    /\ out' = <<>>
    /\ UNCHANGED <<delay, chainId, core, live, waited, frame, history>>

\* The feed closes properly: `async for` just ends, and the loop reconnects at once.
CleanClose ==
    /\ Idle
    /\ phase' = "connecting"
    /\ out' = <<>>
    /\ UNCHANGED <<delay, chainId, core, live, waited, frame, history>>

\* max_backlog_seconds pass on this connection.
WaitOut ==
    /\ phase = "open"
    /\ ~waited
    /\ waited' = TRUE
    /\ UNCHANGED <<phase, delay, chainId, core, live, frame, out, history>>

-----------------------------------------------------------------------------
(* Reading                                                                 *)

\* A frame is read and parsed; `fresh` are the entries within live_threshold.
Receive(entries, fresh) ==
    LET first == FirstLive(entries, fresh) IN
    /\ Idle
    /\ ~Undecodable(entries, first)
    /\ frame' = Annotated(entries, first)
    /\ out' = <<>>
    /\ UNCHANGED <<phase, delay, chainId, core, live, waited, history>>

\* A frame cannot be parsed: nothing of it is delivered and the connection goes.
Choke(entries, fresh) ==
    /\ Idle
    /\ Undecodable(entries, FirstLive(entries, fresh))
    /\ phase' = "sleeping"
    /\ out' = <<>>
    /\ UNCHANGED <<delay, chainId, core, live, waited, frame, history>>

\* One turn of the loop of _frame, as far as every branch shares it.
Turn ==
    /\ phase = "open"
    /\ frame # <<>>
    /\ frame' = Tail(frame)
    /\ live' = (live \/ Head(frame).goesLive)
    /\ UNCHANGED <<phase, delay, chainId, waited>>

\* _reject
Reject ==
    /\ Turn
    /\ ~Head(frame).accepted
    /\ out' = <<>>
    /\ UNCHANGED <<core, history>>

Duplicate ==
    /\ Turn
    /\ Head(frame).accepted
    /\ Head(frame).seq <= highestSeq
    /\ ~IsReorg(Head(frame))
    /\ out' = <<>>
    /\ UNCHANGED <<core, history>>

\* Mutant of Yield: a reorg does not rewind the watermark.
Yield_NoRewind(e, reorg) ==
    /\ highestSeq' = IF e.seq > highestSeq THEN e.seq ELSE highestSeq
    /\ hashes' = Remembered(e)
    /\ out' = <<Message(e, reorg)>>
    /\ view' = Absorbed(view, Message(e, reorg))
    /\ peak' = IF e.seq > peak THEN e.seq ELSE peak

\* Move the watermark, remember the hash and yield.
Yield(e, reorg) ==
    /\ highestSeq' = e.seq
    /\ hashes' = Remembered(e)
    /\ out' = <<Message(e, reorg)>>
    /\ view' = Absorbed(view, Message(e, reorg))
    /\ peak' = IF e.seq > peak THEN e.seq ELSE peak

Reorg ==
    /\ Turn
    /\ Head(frame).accepted
    /\ Head(frame).seq <= highestSeq
    /\ IsReorg(Head(frame))
    /\ Yield(Head(frame), TRUE)

\* Mutant of Deliver: only the very next number is new.
Deliver_NextOnly ==
    /\ Turn
    /\ Head(frame).accepted
    /\ Head(frame).seq = highestSeq + 1
    /\ Yield(Head(frame), FALSE)

Deliver ==
    /\ Turn
    /\ Head(frame).accepted
    /\ Head(frame).seq > highestSeq
    /\ Yield(Head(frame), FALSE)

Step == Reject \/ Duplicate \/ Reorg \/ Deliver

-----------------------------------------------------------------------------
(* Leaving                                                                 *)

\* aclose() at a yield, or cancellation at an await: what is left of the frame
\* is lost with the connection.
Close ==
    /\ phase \in {"connecting", "sleeping", "open"}
    /\ frame # <<>> => out # <<>>
    /\ phase' = "closed"
    /\ frame' = <<>>
    /\ out' = <<>>
    /\ UNCHANGED <<delay, chainId, core, live, waited, history>>

Next ==
    \/ Call
    \/ \E ann \in Announcements : Open(ann) \/ Refuse(ann)
    \/ ConnectFails \/ Wake \/ Drop \/ CleanClose \/ WaitOut
    \/ \E n \in 0..MaxFrame : \E entries \in [1..n -> Entries] :
         \E fresh \in SUBSET (1..n) :
            Receive(entries, fresh) \/ Choke(entries, fresh)
    \/ Step
    \/ Close

Spec == Init /\ [][Next]_vars

-----------------------------------------------------------------------------
(* Properties                                                              *)

MessageType == [seq : Seqs, hash : Hashes \cup {NoHash}, live : BOOLEAN, reorg : BOOLEAN]

ItemType == [seq : Seqs, hash : Hashes \cup {NoHash}, accepted : BOOLEAN,
             live : BOOLEAN, goesLive : BOOLEAN]

PartialFunctions(S, T) == UNION {[D -> T] : D \in SUBSET S}

Phases == {"closed", "connecting", "open", "sleeping", "refused"}

\* Every variable stays in its type; the retry delay stays between
\* reconnect_delay and max_reconnect_delay (consume.py:273, 280, 321).
TypeOK ==
    /\ phase \in Phases
    /\ delay \in BaseDelay..MaxDelay
    /\ chainId \in Chains \cup {Unknown}
    /\ highestSeq \in Seqs \cup {-1}
    /\ hashes \in PartialFunctions(Seqs, Hashes)
    /\ {live, waited} \subseteq BOOLEAN
    /\ frame \in Seq(ItemType)
    /\ out \in {<<>>} \cup {<<m>> : m \in MessageType}
    /\ view \in PartialFunctions(Seqs, Hashes \cup {NoHash})
    /\ peak \in Seqs \cup {-1}

\* The watermark, which the next connection asks the feed to resume from, is
\* exactly the last block of the caller's picture: nothing the caller has not
\* been handed is ever skipped, wherever the generator was left (consume.py:190-195).
WatermarkIsTip ==
    IF DOMAIN view = {} THEN highestSeq = -1
    ELSE highestSeq \in DOMAIN view /\ \A s \in DOMAIN view : s <= highestSeq

\* A remembered hash of a block in the caller's picture is the one the caller was
\* last handed, so a re-sent block is compared with what the caller believes,
\* through rewinds, gaps and pruning (consume.py:418-446).
HashesMatchView ==
    \A s \in DOMAIN view \cap DOMAIN hashes : view[s] \in {NoHash, hashes[s]}

\* Every block of the picture within reorg_window of the greatest watermark ever
\* reached still has its hash, so a replacement of it is noticed (consume.py:439-446).
WindowRemembered ==
    \A s \in DOMAIN view :
        view[s] # NoHash /\ s > peak - ReorgWindow => s \in DOMAIN hashes

\* The watermark never exceeds its peak, and hashes are those of delivered blocks.
PeakIsGreatest == highestSeq <= peak
NothingRememberedUnseen == DOMAIN view = {} => DOMAIN hashes = {}

\* The strengthening of the three invariants above that every step preserves: what
\* the consumer keeps and what the caller holds describe the same chain
\* (consume.py:402-446).
SafetyInv ==
    /\ TypeOK
    /\ WatermarkIsTip
    /\ HashesMatchView
    /\ WindowRemembered
    /\ PeakIsGreatest
    /\ NothingRememberedUnseen

\* Within a frame the backlog ends once, at an entry that was accepted; entries are
\* marked live from there on.
FrameShape ==
    \A i \in DOMAIN frame :
        /\ frame[i].live <=> live \/ \E j \in 1..i : frame[j].goesLive
        /\ frame[i].goesLive => frame[i].accepted

\* Only an open connection has a frame or a message in hand.
OnlyOpenReads == phase # "open" => frame = <<>> /\ out = <<>>

\* is_live, read while the generator is suspended on a message, agrees with the
\* message: it is not raised before the last backlog entry of a mixed frame is
\* delivered (consume.py:387-390).
LiveFlagMatchesMessage ==
    phase = "open" /\ out # <<>> => (out[1].live <=> live)

\* The strengthening of LiveFlagMatchesMessage that every step preserves
\* (consume.py:370-395).
LiveInv ==
    /\ TypeOK
    /\ FrameShape
    /\ OnlyOpenReads
    /\ LiveFlagMatchesMessage

\* An entry that fails verification changes nothing but the counters: not the
\* watermark, not the hashes, not the picture, and it does not end the backlog
\* (consume.py:366-374, 396-401).
ForgedEntriesAreInert ==
    [][Turn /\ ~Head(frame).accepted
        => UNCHANGED <<core, live, view>> /\ out' = <<>>]_vars

\* A replacement of a block the caller holds, within reorg_window of the greatest
\* watermark, is always handed over and always flagged (consume.py:402-418).
ReorgsAreDelivered ==
    [][LET e == Head(frame) IN
        /\ Turn
        /\ e.accepted
        /\ e.seq \in DOMAIN view
        /\ e.seq > peak - ReorgWindow
        /\ NoHash \notin {e.hash, view[e.seq]}
        /\ view[e.seq] # e.hash
        => out' = <<Message(e, TRUE)>> /\ view'[e.seq] = e.hash]_vars

\* Once live, a connection never goes back to backlog: `live` falls only when a new
\* connection opens, and no message of a live connection is marked as backlog
\* (consume.py:284, 371-395).
LiveUntilReconnect ==
    [][/\ live /\ ~live' => phase = "connecting" /\ phase' = "open"
       /\ live /\ phase = "open" /\ out' # <<>> => out'[1].live]_vars

\* The caller's picture changes only as FeedView allows (consume.py:402-423).
ViewSpec == View!Spec
=============================================================================
