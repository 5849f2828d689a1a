# A verification development for rhfeed

rhfeed reads the sequencer feed of Robinhood Chain (an Arbitrum Nitro chain) over a
WebSocket and hands decoded messages to a caller. This directory holds TLA+ models of its
stateful parts, of the walks over untrusted bytes at its centre and of the programs around
them, the TLC configurations that check them, and proofs that TLAPS checks for every value
of the constants. `PROJECT.json` lists the components, runs, mutants, theorems and hazards,
and maps every definition to its source lines.

    tlc -workers 2 -config MCFeedConsumer_frames.cfg MCFeedConsumer
    tlapm FeedConsumerProofs.tla

## 1. Inventory

Paths are relative to `src/rhfeed/` in the repository unless they say otherwise.

| Component | State | Operations | Interacts with |
|---|---|---|---|
| `consume.FeedConsumer.messages`, `_frame` | `_highest_seq` (watermark), `_hashes`, `_live`, `chain_id`, `_last_frame_at`, the local `delay` and `started`, the rest of the frame | connect, retry, check the chain, read a frame, verify, drop, detect a reorg, yield | the feed (connection), the caller (generator), the monitor (shared `_last_frame_at`), `verify`, `codec` |
| `consume.FeedConsumer.live` | none | passes on messages with `live` set | `messages()` and the caller |
| `consume.FeedConsumer._monitor` | `warned` | polls `_last_frame_at` | `messages()`, the log |
| the feed or relay (not in the repository) | chain, backlog | broadcast, reorg, trim, replay on connect | the consumer |
| `verify.Verifier` | none | rebuild the signed payload, recover the signer | `_frame` |
| `codec.parse_frame` | the messages so far | one message per entry, dispatch on the kind | `_frame`, the decoders below |
| `codec.decode_l2_message`, `_split_batch` | the recursion's slices | walk nested batches | `parse_frame`, `_signed_tx` |
| `codec.decode_parent_chain_message`, `_submit_retryable` | none | build arbos' deposit and retryable transactions | `parse_frame` |
| `codec._scan_list`, `_rlp_list` | two offsets | step from length prefix to length prefix; write items | `decode_transaction`, the parent-chain decoder |
| `codec.decode_transaction`, `_signed_tx`, `Tx` | lazy `hash`, `to`, `sender` | cut the envelope into fields; recover the sender | the walk, the callers |
| `intents.decode_call`, `abi`, `decoders/` | the dispatch table, filled at import | dispatch on the selector; containers dispatch inner calls | the callers, `cli.Filter` |
| `cli.watch`, `main` | the deadline, who has cancelled the task | iterate `live()` under a deadline, print, leave | `live()`, the event loop, the monitor |
| `cli.Filter`, `examples/copy_trade_signals.py` | none | which intents of a message to show | `intents` |
| `examples/local_execution/execute.py` | `context`, `pending`, what was touched | execute blocks on a fork, trace them, snapshot, execute again offline | `live()`, a node, an EVM |
| `labels`, `codec.is_filtered_call`, other examples | none of interest | | |

What is hard in it:

* **Interleaving.** `messages()` is an async generator. It stops at every await and every
  `yield`; the caller may look at the consumer, leave (`aclose`, cancellation) or wait
  there, also between two entries of one frame, and the monitor task runs in the gaps.
* **Ordering.** One frame can hold the end of the backlog and the first live entries.
  Numbers may come again (duplicates), go back (reorgs) and skip (gaps).
* **Failure.** A connection fails to open, dies, or closes properly, which raises nothing;
  a frame cannot be parsed; a handshake names another chain; entries are forged.
* **Recovery.** A reconnect resumes from one number. What changed below it is not sent.
* **Leaving.** A deadline, Ctrl-C, a wrong chain and the caller's own exception may each end
  a run, one while another is being dealt with.
* **Untrusted lengths.** Two length-prefixed formats are walked by offset, and a third is
  written from what was read.
* **Nesting.** Batches and calls nest; one refusal voids a whole message in one walk and
  the nearest call only in the other. An opcode trace nests and names no contract.

What makes each part correct:

* the consumer: the watermark, the remembered hashes and what the caller was handed
  describe one chain; a recognisable replacement is always handed over and flagged; a
  forged entry changes nothing; the live flag agrees with the message in hand;
* the consumer and the feed: what is under way always adds up to the feed's chain, but for
  what a reconnect could not bring; after the last fault the consumer gets to the feed's tip;
  a reconnect costs one duplicate;
* `live()`: from where a connection goes live, its caller holds what the caller of
  `messages()` holds;
* the monitor: a silence is reported in time, once, and only when there is one;
* `watch`: a deadline ends it wherever it waits, `WrongChain` and Ctrl-C get out, and the
  connection and the monitor are gone when it is over;
* frames: one message per entry, worth what its own entry is worth, or no frame at all;
* the walks: no byte is read under two meanings, nothing beyond the buffer is taken, the
  walk ends, what is returned is what the format says, one refusal voids a whole message;
* what is written: a ticket's calldata reads back as the message it was built from, and the
  list that its hash covers says the same;
* the envelope: what arbos is given is one whole list of the right count, and the payload
  whose hash the sender is recovered from is the one the sender signed;
* intents: each is reported for the right wallet, on the right way and in order; a
  malformed call loses no more than the calls it contains; a filter by wallet shows those
  that are that wallet's;
* local execution: the trace tells whose storage is read, so the snapshot of what was
  touched is all that the second run needs.

## 2. Modules

| Module | What it is |
|---|---|
| `FeedView` | Abstract specification: how the picture of a reader of `messages()` may change |
| `Replica` | Abstract specification: how that picture follows the feed's chain |
| `FeedConsumer` | `messages()` and all it calls, against a feed that may send anything |
| `FeedConsumerProofs` | Its theorems, the refinement of `FeedView` among them |
| `FeedSystem` | `FeedConsumer` connected to a Nitro feed |
| `FeedReaders` | `FeedSystem` with a caller of `live()` beside the caller of `messages()` |
| `FeedRefinement` | The mapping under which `FeedSystem` implements `Replica` |
| `FeedSystemProofs` | The theorems about the consumer in its system and about the two callers |
| `StallMonitor` | `_monitor` beside the parts of `messages()` that share its clock |
| `Watch`, `WatchProofs` | `cli.watch` and `main` around the generator and its monitor, and the theorems about all three |
| `ByteStrings`, `ByteStringsProofs` | Bytes, Python slices, big-endian numbers, and lemmas on them and on definitions by recursion |
| `Rlp` | The items that the codec writes |
| `RlpScan` | `_scan_list`, one action per turn of its loop |
| `TxEnvelope`, `TxEnvelopeProofs` | `decode_transaction`, `_signed_tx` and the payload of `_recover`, over `RlpScan`, and the theorems about both |
| `L2Message` | `decode_l2_message` with `_split_batch` |
| `ParentChain` | `decode_parent_chain_message`, and the readers of `abi.py` that take it apart again |
| `Frame` | `parse_frame`, over `L2Message` and `ParentChain` |
| `FrameReading` | What an l2Msg and a frame are worth, read as sets of entries, for the properties to compare with |
| `FrameProofs` | The theorems about the walk, about frames and about what is built |
| `Intents` | `decode_intents`, `decode_call`, `inner` and the decoders |
| `IntentsReading` | What a call is worth, read off its calldata as a whole, for the properties to compare with |
| `Filter` | `cli.Filter` and the wallet-following example, over `Intents` |
| `IntentsProofs` | The theorems about the walk into calls and about the filter |
| `LocalExecution`, `LocalExecutionProofs` | The local execution example, and its theorems |
| `MC*` | Small instances for TLC |

### FeedConsumer

`phase` is where the generator stands: `closed` (not iterated), `connecting` (in
`connect`), `open` (in the `async with`), `sleeping` (in `asyncio.sleep(delay)`), `refused`
(`WrongChain` has left). `frame` is the rest of the entries that the `for` loop of `_frame`
has to handle and `out` the message the generator is suspended on. An action is a stretch
between two points at which something else may run:

| Action | Code |
|---|---|
| `Call` | the first lines of `messages()` |
| `Open`, `Refuse` | a handshake that `_check_chain` accepts or not; `_find_chain_id`, `delay`, `_live`, `started` |
| `ConnectFails`, `Drop`, `Choke` | the `except` at connect, at the read, in `parse_frame` |
| `CleanClose` | `async for` ends without an exception |
| `Wake` | the sleep is over and the delay doubles |
| `Receive` | a frame is read, verified and parsed, and `first_live` is found |
| `Reject`, `Duplicate`, `Reorg`, `Deliver` | one turn of the loop of `_frame`, one per branch |
| `Close` | `aclose()` at a yield or cancellation at an await |

An entry is its number, its hash, whether its signature is good and whether its body is
base64. Its timestamp is abstracted to the set `fresh` of the entries of a frame within
`live_threshold`, and the time of the connection to `waited`: any subset and any moment
are possible. `view` and `peak` are history variables. `view` is what the caller can
compute from the messages alone: append, or on `reorg` replace from that number on.

`FeedView` says that the picture changes in those two ways only. `FeedConsumer` is shown to
implement it with `View == INSTANCE FeedView`; the refinement mapping is the identity on
`view`, which exists because `view` is computed from `out`.

### FeedSystem, Replica, FeedReaders and FeedRefinement

The feed is modelled from what the docstring of `consume.py` says of Nitro: a chain, a
backlog whose lowest block is `floor`, the answer to the requested number (from that number
if the backlog has it, all of the backlog otherwise), and a re-broadcast of the new block
at a reorg. A block's hash commits to its parents, so the fork a block was built on stands
for its hash. `pipe` holds what was sent on this connection and not read; frames are
prefixes of it, cut anywhere. The consumer's actions are `FeedConsumer`'s own, conjoined
with what they do to the connection.

`Replica` is what the two of them promise together, without frames, entries, watermarks or
remembered hashes. Its `copy` is the picture the reader is going to have: the chain's changes
go into it as they happen, a lost connection sets it back to the picture there is, and a new
one brings the chain from the reader's last block on, or from the backlog's first. Reading
changes the picture and leaves `copy` alone. The mapping, in `FeedRefinement`, is not the
identity: `copy` is the picture that `Coming` has, the consumer after every entry of the rest
of the frame and of the connection has been handled in turn, `reach` its greatest block, and
`connected` is a phase. Some steps of the system are stutters of `Replica` (a retry, a frame
read, a duplicate), and a `SystemOpen` is one `Connect` however many entries it puts on the
way. A new block may be passed over where there is no hash to tell a replacement from a
duplicate by: in a gap of the picture, and a `Window` below the greatest block that the reader
will ever have had.

`FeedReaders` adds the picture that the caller of `live()` has, by the same rule.

### StallMonitor and Watch

Time is in ticks: `Tick` is possible once everything due has run, so the event loop is
assumed not to be blocked. `idle` is the time since `_last_frame_at`, `Never` when that is
`0.0`; `queued` counts frames that the connection holds and the generator has not read.

`Watch` puts the program around it. `asyncio.timeout` and `asyncio.run` both work by
cancelling the one task (`Expire`, `Interrupt`; `cancels` says who, `pending` that it has
not come out yet), and what comes out, and where, is the subject:

| Action | Code |
|---|---|
| `Begin` | `main` calls `watch`, with `--seconds` or without |
| `Iterate`, `Beside` | the generator's own steps; frames coming in and the monitor |
| `Expire`, `Interrupt` | the timer of `asyncio.timeout`; the handler of SIGINT |
| `CancelStream` | `CancelledError` at an await of the generator, through `async with connect` |
| `RefuseChain` | `_check_chain` drops the connection and raises `WrongChain` |
| `Unwind` | the closing handshake is over, and the exception leaves the generator |
| `CancelBody`, `BodyRaises` | an exception where the caller holds a message; `aclosing(live())` |
| `Finalise` | the event loop's hook for generators that were let go |
| `WatchTick` | time passes |

`awaits` tells `watch`, whose body never waits, from a caller that follows its pattern and
does. A wait of one pass of the event loop, as an aborted connection's, is below the
model's resolution; a second Ctrl-C, which ends the process, is left out; an exception out
of `_frame` leaves through a closing handshake that `Fail` does not stop at.

### Frame, L2Message and ParentChain

`Frame` reads the entries of one call of `parse_frame` in turn: `EnterL2Message`, `Walk` and
`LeaveL2Message` for a body that is walked, `BuildParentChain` for one that is built from,
`BadL2Message` for the one exception that gets out, `ReadEnvelope` for everything else. An
entry is its number, the fields of its header that are read, and its body, `NotBase64` or
`None`. Of a message of the feed, the fields that are only copied are left out.

`L2Message` replaces the recursion over slices by a stack of intervals of the one payload;
the depth of the recursion is the height of the stack. Which bodies decode as signed
transactions is a parameter: `_signed_tx` is the component of its own that follows.

`ParentChain` builds both of a ticket's encodings byte by byte, with `Rlp`'s items for the
one and padded words for the other. `AbiWord`, `AbiAddress` and `AbiDynamic` are `abi.py`'s
`word`, `address` and `dynamic`, which share nothing with what they read back. Sizes (8-byte
lengths, 32-byte words, 20-byte addresses, 256 KiB, 16 levels) are constants.

`FrameReading` has no walk and no loop: an l2Msg is a set of nodes, each an interval and the
number of batches around it, given by `Contents` from what is left of a batch, and a frame is
worth what each entry's own body is.

### RlpScan and TxEnvelope

`RlpScan` runs `_scan_list` on any byte string: an item is start, payload start, payload
end, as in the code. `TxEnvelope` extends `RlpScan` and drives it: the envelope `raw` fixes
the buffer, `Scan` is a step of the scanner and nothing else, and `ReadFields` or `KeepHash`
ends the decoding. `Signed` is what `_recover` hashes, put together from slices of the
buffer and headers of its own, and `IsAccepted` is `_signed_tx`. What the two should be is
stated without the scanner: `Encoded` writes RLP from payloads.

### Intents and Filter

The recursion of `decode_call` is a stack with a frame for every container whose elements
are being gone through, so depth is its height. Calldata is a record of what its decoder
reads: the function `fn` that its selector names, whether the reads of a leaf succeed
(`fits`), what the reads before a loop find (`head`) and whether those after it succeed
(`tail`), and the elements. That separates every place where `Malformed` can be raised
from every other by what has been decoded by then.

| Action | Code |
|---|---|
| `PlainTransfer`, `Dispatch` | the two branches of `decode_intents` |
| `NoDecoder`, `Leaf` | `decode_call` on something that is no container |
| `Enter`, `RefuseHead` | a container's decoder up to its loop |
| `Descend`, `Absorb` | `out.extend(decode_call(inner(...), depth + 1))`, going and coming back |
| `Command` | one command of a Universal Router, which nests no calls |
| `Executor` | one call to Relay's executor, read and not dispatched |
| `RefuseItem` | `Malformed` out of the loop, caught around the container |
| `Leave`, `Finish` | a container returns, Relay's folding what it found; the walk is over |

`Filter` applies `Keep` (the command line's) and `Signals` (the example's) to what a walk
found, for every recovered sender there may be.

`IntentsReading` says what a transaction asks for without a walk: `Worth` is a function of a
call and the number of containers around it, defined by what the calls in it are worth.
`MCIntents` has a second reading that shares nothing with it, by the lines of descent of a
tree, and its assumption `ReadingsAgree` has TLC compare the two on every transaction of the
instance before the run starts.

### LocalExecution

`evm` executes any sequence of operations on a state: transactions, calls, delegate calls,
creations, looks at an account (`probe`, for BALANCE and its like), loads, stores, returns,
reverts. `tracer` follows `traced()` step by step. `Snapshot` keeps what the tracer recorded
and `Offline` repeats the operations: a program goes by what it reads, so it does the same
for as long as each operation sees the same. `None` in `tracer.context` is a depth that
`context` has no entry for; an entry that an earlier frame left at a depth stays there.

The EVM is external to the repository. An account is its code, or that it has none, and one
slot; balances, nonces, SELFDESTRUCT, BLOCKHASH, delegated code and transfers of value are
left out. An account counts as there for another creation from the moment its own begins.

## 3. Runs

All of them finish; every action and disjunct is taken in some passing run.

| Run | Instance | Question |
|---|---|---|
| `consumer_frames` | numbers -1..1, two hashes or none, signed or forged, fresh or old, undecodable, frames of up to two entries, window 1 | What may a frame do to the live flag and to what the consumer keeps, whatever is sent? |
| `consumer_window` | numbers 0..5 in any order under two hashes, frames of one entry, window 2 | Do rewinds, gaps and pruning keep the hashes right, and is `FeedView` implemented? |
| `system` | chain of 3, 2 reorgs, 2 blocks trimmed, 2 faults, frames of up to 2 (583 445 states) | Where does the consumer stand when all is read, does what is under way follow the chain, what does a reconnect cost, do the two callers hold the same blocks, does it always get to the tip? |
| `watch` | threshold 8, poll 2, 2 frames queued, a deadline of 3 ticks or none, a closing handshake of 1 (35 358 states) | How does a run end and what does it leave behind? Is a silence reported in time, once, and only then? |
| `tx_envelope` | every buffer of up to 4 bytes over 9 that meet every branch, lists of one more; lists of 8 to 14 fields under no type, types 0 to 5, with an unusual field and every kind of signature; damaged ones | Is the scan what RLP says, is what is accepted whole, is what is hashed what was signed? |
| `frame` | every message of up to 5 bytes over 6, unsigned transactions whole and short, batches nested to one past the cap, messages at the size cap and over it; tickets and deposits, whole, short, padded, oversized, under good and bad headers; every frame of up to 3 entries of 8 sorts, decoded or not, with a chain id or without (74 352 states) | Is a message worth what a tree of entries says, an entry what its own body says, and does what is built read back? |
| `intents` | every container around one and two leaves of each kind, complete and broken, some of those inside every container again, towers past a depth cap of 2; filters by each option, three senders (28 322 states) | Is what is reported what a reading of the tree says, and what is shown what is followed? |
| `offline` | 3 accounts, any of them there at the cut, then with a slot set (up to symmetry), 6 operations, calls 3 deep, no creation onto an account that is there (1 514 435 states) | Is the snapshot enough for the second run? |
| `system_outage`, `readers_outage`, `watch_close`, `offline_create` | as small as shows it | The disagreements of section 6 |

Why the bounds are enough. In the consumer a step looks at one entry, the watermark and the
table of hashes. Pruning starts at `2 * window + 1` remembered hashes, and six numbers with
a window of two pass it, rewind below it and come back. A frame of two entries has a backlog
entry before a live one, a forged one before a good one, and a place to leave between. Two
hashes make every inequality. In the system, a second reorg falls after a first and a second
fault during the recovery from the first; two trimmed blocks let the backlog move past the
watermark, so that a gap appears. In `watch` the deadline falls into every phase and into a
closing handshake, and a stall is long enough for several polls. In RLP every branch of the
loop and each of its boundaries has a byte; two bytes follow the longest prefix. Lists of one
field fewer and one more than each type wants are there, and a payload that needs a length of
one byte. Words of two bytes and addresses of one have a high part to cut off and a low part
to keep; a word's worth of data, one byte less and one more need every padding. Three entries
put one before and one after each sort. A cap of two on nesting is passed by one in both
walks; three containers around a call are enough for an actor to be replaced and passed on,
and for a Relay call inside another. Offline, six operations are a transaction that calls,
delegates, stores and returns and a second one that loads what the first wrote; the third
account is a call's target beside a caller and a creation. What the mutants need is well
below each bound. The numbers `MaxFrame`, `MaxTail`, `MaxReorgs`, `MaxTrim`, `MaxFaults`,
`MaxQueue`, `MaxLen`, `MaxEntries`, `MaxOps` and `LocalExecution`'s `MaxDepth` are the bounds
of the instances; nothing in the code corresponds to them.

Deadlock is checked for the consumer and for `watch`, which always have something to do. It
is not for the system (a feed that has sent everything may stay quiet), nor for the walks and
the two executions (they end).

**Fairness.** `FeedSystem` assumes weak fairness of the consumer's own steps: opening a
connection, reading, handling an entry, and retrying. The event loop runs a coroutine whose
await is done and the caller keeps asking. Nothing is assumed of the feed, and faults are
bounded in number: `EventuallyCaughtUp` is about the time after the last one.

`Watch` assumes that the event loop runs what is due (the monitor, the timer, a cancellation,
the end of a handshake) and that a frame that is there is read and a body that does not wait
comes back: weak fairness of each. Time passes whenever nothing is due; that is strong
fairness of `WatchTick`, which other steps disable for an instant at a time, under the
premise `FiniteBursts` that a feed sends finitely many frames in an instant. No connection
has to open, no handshake to be answered and no message to arrive for `DeadlineEndsIt`.

## 4. Proofs

All of these hold for every value of the constants that the named assumptions allow.

`FeedConsumerProofs`:

* `TypeCorrect`: types, and the retry delay between its two limits.
* `SafetyCorrect`: the inductive invariant `SafetyInv`. `WatermarkIsTip` and
  `HashesMatchView` alone are not inductive together with `WindowRemembered`: a delivery
  must know that what it appends is above the picture, and the pruning that what it cuts is
  below the window of the greatest watermark (`peak`), because a rewind lowers the
  watermark and not the cut. `NothingRememberedUnseen` closes the empty picture.
  `WatermarkCorrect`, `HashesCorrect`, `WindowCorrect` follow.
* `ReorgsCorrect`: the window guarantees the hash, the hash the recognition.
* `ImplementsFeedView`: every step is a step of `FeedView` or leaves `view` alone.
  `Extend` needs `WatermarkIsTip`, `Replace` needs `HashesMatchView`.
* `LiveInvCorrect`: the inductive invariant of the live flag speaks of the entries still to
  come (`FrameShape`), since the flag is raised by an entry, not by the frame.
  `LiveFlagCorrect`, `ForgedCorrect`, `LiveUntilReconnectCorrect` rest on it.

`FeedSystemProofs`, for chains, reorgs, faults and frames of any number and length (the
bounds of the instance are parameters with `FeedAssumption`):

* `SystemRunsConsumer`: every step of the system is a step of `FeedConsumer` or none of its,
  so all of the theorems above hold when it is connected to its feed, and by
  `ReadersRunSystem` with both callers behind it.
* `SystemInvCorrect`: the inductive invariant of the connection. What is under way is the
  rest of the frame and then the connection, entry by entry (`UnderWay`, `SeqAt`, `HashAt`),
  so that a frame that is cut changes nothing (`ReadInPlace`), a turn takes the first
  (`TurnTakesFirst`), a reconnect brings what the backlog has (`OpenBrings`) and a new block
  goes last (`BlockBuilt`). `SentInv`: every block held or under way was on the chain, and is
  under way once. A reorg builds on a fork that nothing was built on before, so a new block
  is none of those. `NoGapInv`: an entry follows the one before it or goes back, up to the
  tip. `ResumeInv` counts what a replay repeats.
* `OneDuplicateCorrect` follows from `ResumeInv`, `ReadToTheTip` from `NoGapInv`.
* `LiveReaderCorrect`: `ReaderInv` says that the two pictures are the same from the first
  live block to the watermark, and adds that the next entry leaves no gap above it; a gap
  would be filled in one picture by a block from before the connection.
* `MissedCorrect` is `OnlyOutageReorgsAreMissed`. Its inductive `MissedInv` follows forks, which
  only ever get newer: none that the chain, the picture or the connection holds is newer than
  what the chain has from there on (`ForkInv`). What is under way gets newer too, and an entry
  that was replaced after it was sent is followed by its replacement (`OrderInv`), so when all
  is read none of those is left. `AgreeInv` says where the picture may differ meanwhile: in what
  the replay passed over (`stale`), below the window, or where the replacement is under way. A
  replacement is only taken for a duplicate when its hash is not remembered; `NewestInv` tells
  that from the newest fork having been reached.
* `FollowsCorrect`: the system implements `Replica`, and with both callers behind it
  (`ReadersFollowCorrect`). What is to come is a recursion over what is under way, so the first
  part is about that: the consumer can be followed through any entries (`RunsExist`,
  `AfterAllIs`), one more at the end is handled last (`AfterOneMore`), one less at the front is
  handled first (`AfterFirst`), and what `SafetyInv` says of the consumer as it is holds all the
  way (`Sane`, `RunsAreSane`). Then the steps: a frame that is read or left moves nothing
  (`ReadingKeepsComing`), a turn does to the consumer what `Handled` says (`TurnHandles`) and so
  changes what it has and not what it will have (`TurnKeepsComing`); a turn that hands over a
  message is a step of `FeedView` by the theorem above (`TurnReads`); a new block goes on top of
  what is to come or in the place of what it replaces (`BlockIsSent`), since no hash that is kept
  or on the way can be its own (`SentInv`, `ForkInv`). A connection (`OpenConnects`) brings many entries at once; that they join
  what the reader had is an induction over them (`Joins`, `OneMoreJoins`, `RunJoins`). `Replica`
  also promises that a picture that ends up with the chain's last block has nothing above it,
  which is why the inductive invariant is `FollowInv`, `MissedInv` with one conjunct more:
  `PictureInv`, that a picture with any block of the newest fork has one for its last.

`TxEnvelopeProofs`: `TileCorrect`, about the scanner alone, is inductive: the next item
starts at `i`, which is where the last one ended. `ItemsTileCorrect` (what is returned covers
the list) and `AdvancesCorrect` (the loop ends) follow, for buffers of any length.
`EnvelopeScans` says that decoding an envelope is a behaviour of
`RlpScan` on its body, which brings `TileInv` with it. `AcceptedIsWholeCorrect` joins that
with what is kept at the end: the first item starts where the list's head ends, the last
one ends at the buffer's end, so the buffer is one list (`WholeListIsItem`).

`FaithfulCorrect` compares the scan with RLP read as a set of cuts, for buffers of any length.
A scan that goes on has to be the only one there is: an item at an offset ends in one place
(`ItemEndsThere`), so any set of cuts has those of the scan as far as it got (`FaithInv`); one
that raises has met an offset at which no item ends, and no set of cuts goes past it. Within
an envelope that gives `FaithfulWhenSmallCorrect`. `SignedIsWhatWasSignedCorrect` is about the
other end: the slices of the buffer between the list's head and the signature, under the new
header, are the fields written one by one. It needs the items side by side (`TileInv`), since
the code cuts one slice where the reading writes each field, and, of a field that is not
written the shortest way, it says nothing, as the property does not.

`FrameProofs` begins with the walk of one message: `WalkCorrect` is the inductive `WalkInv`.
That intervals nest (`SlicesNest`) needs the parent's start to be moved before the entry is
looked at; that no transaction is found twice (`TxsInOrder`) needs that `Frontier`, the place
the walk has got to, never falls back, which in turn needs the nesting when a batch ends
(`StepMoves`). `MovesOnCorrect` gives termination: a step that does not move the frontier closes
a batch.

What the walk returns is compared with `FrameReading` in `SoundCorrect`. `ContentsIs` shows
first that the recursion of `Contents` defines something: what is left of a batch gets less
from entry to entry (`Left`, `NextIsLess`). The invariant behind it is `Account`: the entries of
the message are those that the walk has been at and those still `Pending` (the entry at hand,
what is in it, and what is left of the batches it is in); of the former none is refused, and
the signed ones among them are what has been found, each in the place that its start gives it
among all (`PlacesAre`). A step takes an entry from one side to the other (`AccountPreserved`),
and when nothing is pending the account is the property. A walk that raises has met an entry
of the message that is refused.

For whole frames `FrameCorrect` is the inductive `FrameInv`: `WalkInv` and `Account` beside the
entries read so far, their numbers and what they are worth (`Worths`). A step that reads an
entry leaves the walk's variables alone or starts it anew on that entry's body, so what is
known of the walk carries over from entry to entry, and with it `FrameSlicesNest`,
`FrameTxsInOrder` and `FrameWalksAreSound`. `OnePerEntryCorrect`: a frame returned has
one message per entry, and one that raised has none; `FrameSoundCorrect`: each of them is worth
what its own entry is.

`BuiltReadsBackCorrect`, for words and addresses of any size: the fields of a ticket are in the
calldata at the offsets where `abi.py` looks for them, the padding up to a whole word is
zeros that the length leaves out, and the words of the hashed list are those of the message.
What a word holds is read back with `ReadAsWritten`: a number that fits is the number that its
bytes, written from the high end, stand for.

`IntentsProofs`, for any addresses, calldata and cap on depth. `IntentsInvCorrect` is inductive:
every container lies under the one below it on the stack (`Nests`), and the call at hand or what
is being returned under the last (`PhaseInv`), where under means a way that goes on from the
other's and no actor given up (`Under`). A container that returns hands what it found to the one
below, which needs that ways extend one another transitively. `TypeOKCorrect` and
`FoundUnderCorrect` follow. `FieldsAssumption` says what a successful read of a field returns: an
address or a number; `abi.py` is not part of this.

`SoundCorrect` says what is found. `WorthIs` shows that `Worth` is defined and gives intents,
since a call in a container has less `Room` below the cap than the container. The inductive
`WorthInv` follows the recursion of `decode_call` through its stack: each container is the call
that the one below it holds at its element (`Made`), has read without fault what it is past, and
has found what that is worth (`Counted`), a Relay call the token that the last of its executor's
calls named (`TokenOf`); what is being returned is what the call it comes from is worth, so that
taking it in is one part more (`CountedFurther`). A container that is left at its end has found
all parts of it (`CountedToTheEnd`), and one that is left by `Malformed` is void.

`ShowsWhatIsFollowedCorrect`, for any filter, senders and intents: keeping twice is keeping what
both keep (`KeptTwice`), and where an intent names no wallet the message is unclaimed, so the
sender that the filter asks for once is the one that the example asks for there.

`LocalExecutionProofs`, for any accounts, programs and depth: `TypeOKCorrect`, and
`ContextCorrect`, whose inductive `ContextInv` adds to `ContextIsKnown` that the stack is at most
one frame above a pending call: a call that ran nothing leaves `pending` behind, and only the
depth tells, at the next step, whether the frame it was about is there. Frames at or below the
top keep their entry of `context`, since a step writes no entry but that of the top.

`OfflineCorrect` needs the forked run again when it is over: `RunsCorrect` says that what was
recorded is a run, state by state, under a tracer, step by step (the states are not kept, so the
invariant says that there are some). Two runs of the same operations are then compared:
they are `Similar` as long as they differ only in what the tracer has not recorded. What an
operation sees is recorded by the time it is seen (`TracerInv`, for which `ContextInv` is
needed), also in a frame that reverts, since a revert takes back writes and not records;
`TrailInv` and `Founded` say where a creation stands in this. The theorem assumes
`~Collisions`, which is the setting of run `offline`; `offline_create` shows that it is needed.

`WatchProofs`, for any threshold, poll interval, deadline and `close_timeout`. By
`WatchRunsMonitor` every step of a run is a step of `StallMonitor` or none of its, so that the
monitor's properties hold in every run. `MonitorCorrect` is their inductive `MonitorInv`:
`ClockInv` (the clock stands for a frame while a connection is open, and for none while the
loop sleeps), `ReportedInv` (a reported stall is remembered as long as it lasts, for
`OneWarningCorrect`), `QuietInv` (of a connection read empty, for `SilenceCorrect`) and
`InTimeInv`, which says that the next poll is in time and that an earlier stall is forgotten
by then. `StallReportedCorrect` needs `MinPoll < Stall`, see section 6. `WatchInvCorrect` adds
for `ClosedCorrect` and `NothingSwallowedCorrect` what `RunInv` says: while `WrongChain`
leaves the generator nothing is waited for, so no cancellation can take its place.

The invariants and step properties `SafetyInv`, `LiveInv`, `SystemInv`, `MissedInv`, `FollowInv`,
`ReaderInv`,
`TileInv`, `Advances`, `FaithInv`, `Faithful`, `WalkInv`, `MovesOn`, `FrameInv`, `OnePerEntry`,
`IntentsInv`, `WorthInv`, `ContextInv`, `MonitorInv` and `WatchInv` are proved; `OnePerEntry` is
part of the checked `FrameSound`, `Faithful` is checked of short buffers, and none of the others
is in a run.

**Definitions by recursion.** A recursive function is a CHOOSE: nothing is known of it until
some function is shown to satisfy its equation. `ByteStringsProofs` does that once for each
shape, without operators as parameters: `Recursion` (from a first value, step by step) and
`MeasuredRecursion` (from the values at whatever measures less), both from the least element
of a set of numbers (`LeastOf`). The same least element, as that of the counterexamples, stands
for induction. `BigEndianIs`, `KeptIs`, `FirstOfIs`, `ContentsIs`, `WorthIs` and `AfterAllIs` are what
comes of it for `BigEndian`, `Kept`, `FirstOf`, `Contents`, `Worth` and `AfterAll`.

**Assumptions.** Each is evaluated by TLC in the runs of its module. Beside those named above:
the words of a ticket are a byte or longer, addresses are no longer than words, and a request id
is as long as a word (`AddressAssumption`); what stands for a value of another type than is due
is no byte string (`OddAssumption`); an l2Msg and a request id that are there are byte strings
(`CallsAssumption`), as payloads are (`PayloadsAssumption`), and the length of an entry is
written in up to eight bytes (`SizesAssumption`); `None` is no list of intents
(`NoneAssumption`).

Model-checked only: liveness (`EventuallyCaughtUp`, `DeadlineEndsIt`), which needs fairness and
ENABLED and is beyond the prover. Every other property of a passing run is stated by a theorem.
RECURSIVE operators occur in `MC*` modules, about which nothing is proved, and nowhere else.

## 5. Reading the properties

The properties that took thought, and what would break them:

* `FollowsTheChain` is a statement about every moment, not about the moments at which all has
  been read: losing or doubling an entry anywhere, or handling one by another rule, breaks it
  at the step that does it. The instance has a window wider than its chain, so there `Deep` is
  never an excuse; the proof is for every window. `OnlyOutageReorgsAreMissed` says exactly how far the picture may
  differ from the chain when all has been read: only in blocks replaced during an outage below
  the number asked for, in blocks replaced deeper down than `reorg_window`, or when the chain
  was cut back to a block whose hash was never seen.
* `WindowRemembered` counts from the greatest watermark, not the current one. That is what
  the code gives; the comment at `consume.py:159` could be read as the stronger claim.
* `WarnsOnlyAboutSilence` allows a warning while frames are waiting behind a slow caller:
  `_last_frame_at` is when a frame was read.
* `LiveReaderAgrees` speaks of blocks from the first live one on. Below it the caller of
  `live()` may hold replaced blocks, see below. Note also that only the reorg point itself
  carries `reorg`: the replacements above it come as new blocks, which a caller that keeps
  a picture expects, and one that looks at single messages does not.
* `ClosedByTheRun` holds because `watch` never waits with a message in its hands: whatever
  cancels it does so inside the generator. `NothingIsSwallowed` holds because
  `asyncio.timeout` takes only its own cancellation for a timeout, and because `_check_chain`
  drops the connection before it raises: a closing handshake would be a wait in which the
  deadline could take the place of `WrongChain`.
* `BuiltReadsBack` is about two encodings of one message that nothing in the code compares,
  and about readers that were written for other calldata.
* `ShowsWhatIsFollowed` compares two programs of the repository that answer one question:
  the filter asks once per message whether the sender matters, the example intent by intent.
* `ContextIsKnown` leaves out what runs inside an account that is being created. The trace
  does not give its address there, so its slots are laid to another account; they are empty
  at the cut, which is why `OfflineAgrees` holds all the same.

## 6. Where the documentation and the code disagree

* `system_outage`: `consume.py:19-20` says the replay is trimmed to what was missed. Blocks
  below the watermark that were replaced during an outage are missed and never sent.
* `readers_outage`: `consume.py:31-32` says a reorg arrives with `msg.reorg` set. One that a
  reconnect's backlog brings is dropped by `live()` with its flag, and the live blocks that
  follow replace blocks without saying so.
* `watch_close`: `cli.py:161-164` uses `aclosing` so that the generator is not unwound by the
  GC from the wrong task. `aclosing` closes `live()`, which is suspended in a bare `async for`
  and does not close `messages()`; after an exception in the body, that is what happens to it.
* `offline_create`: `examples/local_execution/execute.py:9-13` says that the trace records
  every account the blocks touch. CREATE and CREATE2 look at the account they create, which
  the tracer does not record, so that a creation that failed succeeds offline.

Three more that the models have and no run is spent on. `consume.py:24-25` says the last seen
number is always in range; after a reorg to a shorter chain, or a long outage, it is not, and
all of the backlog is sent (the other branch of `ReplayFrom`). `consume.py:223` takes
`_last_frame_at == 0` for "no connection"; a proper close does not clear it (`CleanClose`),
so "connected, but nothing is arriving" may be logged while the next connection is being
opened, which `DownIsNotStalled` therefore does not exclude. `consume.py:217-218` polls well
inside the threshold, so that no stall goes unreported for long; the floor of 0.1 s under the
interval undoes that for a threshold that is no longer, and a stall that follows another then
goes unreported altogether (`StallIsReported` fails for `MinPoll >= Stall`).

## 7. Not modelled, and the plan

In order:

1. `Abi`: offsets and lengths of arrays and tuples as operators, with lemmas that a read that
   succeeds lies within the calldata.
2. The payload of `verify.signature_payload`: that it is injective in what it covers.
3. A feed that keeps sending an undecodable entry, added to `FeedSystem`.

Left out for good: hashing and ECDSA (libraries), which slot of third-party calldata holds
which field, the public fields of `Tx`, which are slices of the same items, labels, argument
parsing and printing, `is_filtered_call`, the counters of `stats` and log lines, which no
decision reads, the local execution example's recording and scores, and the other examples,
which are scripts around the library.
