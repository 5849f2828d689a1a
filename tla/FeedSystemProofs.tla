-------------------------- MODULE FeedSystemProofs --------------------------
(***************************************************************************)
(* Theorems about the consumer connected to its feed, and its two callers, *)
(* for chains, reorgs, faults and frames of any number and length; the     *)
(* last of them is that the system implements Replica.                     *)
(***************************************************************************)
EXTENDS FeedRefinement, FeedConsumerProofs, ByteStringsProofs

\* A block as the feed sends it.
Blocks == [seq : Seqs, hash : Hashes, signed : {TRUE}, broken : {FALSE}]

-----------------------------------------------------------------------------
(* What is under way: the rest of the frame, then the connection           *)

UnderWay == Len(frame) + Len(pipe)

SeqAt(i) == IF i <= Len(frame) THEN frame[i].seq ELSE pipe[i - Len(frame)].seq

HashAt(i) == IF i <= Len(frame) THEN frame[i].hash ELSE pipe[i - Len(frame)].hash

\* Block t of fork g was on the feed's chain at some time: no block has been built on a
\* later fork, nor above the tip on this one.
WasSent(t, g) == g \in 0..fork /\ (g = fork => t <= Len(chain))

\* The picture has block t of fork g.
Has(t, g) == t \in DOMAIN view /\ view[t] = g

-----------------------------------------------------------------------------
(* The inductive invariant                                                 *)

ChainInv ==
    /\ floor <= Len(chain)
    /\ \A s \in DOMAIN chain : chain[s] \in 0..fork

\* Only a connection has anything under way, and all of it is taken.
PipeInv ==
    /\ pipe \in Seq(Blocks)
    /\ phase # "open" => pipe = <<>>
    /\ \A i \in DOMAIN frame : frame[i].accepted /\ frame[i].hash \in Hashes

\* What is held and what is under way was sent, and is under way once.
SentInv ==
    /\ \A t \in DOMAIN view : WasSent(t, view[t])
    /\ \A i \in 1..UnderWay : WasSent(SeqAt(i), HashAt(i))
    /\ \A i, j \in 1..UnderWay : i < j => SeqAt(i) # SeqAt(j) \/ HashAt(i) # HashAt(j)

\* Each entry follows the one before it, or replaces it or one below; the last is the tip.
NoGapInv ==
    /\ \A i \in 1..(UnderWay - 1) : SeqAt(i + 1) <= SeqAt(i) + 1
    /\ phase = "open" =>
        IF UnderWay = 0 THEN Len(chain) <= highestSeq ELSE SeqAt(UnderWay) = Len(chain)

\* A replay that started where it was asked to brings one block that is already there,
\* its first, and none when that one has been handled.
ResumeInv ==
    phase = "open" /\ resumed =>
        /\ dups <= 1
        /\ \A i \in 1..UnderWay : Has(SeqAt(i), HashAt(i)) => i = 1 /\ dups = 0

SystemInv ==
    /\ SafetyInv /\ LiveInv /\ SystemTypeOK
    /\ ChainInv /\ PipeInv /\ SentInv /\ NoGapInv /\ ResumeInv

\* Once something was passed on, nothing that is under way leaves a gap above the watermark,
\* and the two callers hold the same blocks from there to the watermark.
ReaderInv ==
    /\ liveView \in PartialFunctions(Seqs, Hashes \cup {NoHash})
    /\ liveFrom \in Nat
    /\ phase = "open" /\ liveFrom # 0 =>
        /\ live
        /\ liveFrom <= highestSeq
        /\ UnderWay > 0 => SeqAt(1) <= highestSeq + 1
        /\ \A s \in liveFrom..highestSeq :
              /\ s \in DOMAIN liveView <=> s \in DOMAIN view
              /\ s \in DOMAIN view => liveView[s] = view[s]

-----------------------------------------------------------------------------
(* The composition                                                         *)

\* What a frame takes from the connection, and what it leaves there.
LEMMA CutPipe ==
    ASSUME pipe \in Seq(Blocks), NEW n \in Nat, n >= 1, n <= Len(pipe)
    PROVE  /\ Len(pipe) \in Nat
           /\ SubSeq(pipe, 1, n) \in [1..n -> Blocks]
           /\ \A i \in 1..n : SubSeq(pipe, 1, n)[i] = pipe[i]
           /\ SubSeq(pipe, n + 1, Len(pipe)) \in Seq(Blocks)
           /\ Len(SubSeq(pipe, n + 1, Len(pipe))) = Len(pipe) - n
           /\ \A i \in 1..(Len(pipe) - n) :
                 SubSeq(pipe, n + 1, Len(pipe))[i] = pipe[n + i]
<1>1. Len(pipe) \in Nat /\ \A i \in 1..Len(pipe) : pipe[i] \in Blocks
  OBVIOUS
<1>2. SubSeq(pipe, 1, n) = [i \in 1..n |-> pipe[i]]
  BY <1>1
<1>3. SubSeq(pipe, n + 1, Len(pipe)) = [i \in 1..(Len(pipe) - n) |-> pipe[n + i]]
  BY <1>1
<1>4. \A i \in 1..(Len(pipe) - n) : pipe[n + i] \in Blocks
  BY <1>1
<1>5. /\ SubSeq(pipe, 1, n) \in [1..n -> Blocks]
      /\ \A i \in 1..n : SubSeq(pipe, 1, n)[i] = pipe[i]
  <2>1. \A i \in 1..n : pipe[i] \in Blocks
    BY <1>1
  <2> QED BY <1>2, <2>1
<1>6. PICK k \in Nat : k = Len(pipe) - n
  BY <1>1
<1>7. SubSeq(pipe, n + 1, Len(pipe)) \in [1..k -> Blocks]
  BY <1>3, <1>4, <1>6
<1>8. SubSeq(pipe, n + 1, Len(pipe)) \in Seq(Blocks) /\ Len(SubSeq(pipe, n + 1, Len(pipe))) = k
  BY <1>7
<1>9. \A i \in 1..k : SubSeq(pipe, n + 1, Len(pipe))[i] = pipe[n + i]
  BY <1>3, <1>6
<1> QED BY <1>1, <1>5, <1>6, <1>8, <1>9

\* Every step of the consumer in the system is a step of FeedConsumer, and everything else
\* leaves it alone.
LEMMA SystemStepIsConsumers ==
    ASSUME pipe \in Seq(Blocks), [SystemNext]_systemVars
    PROVE  [Next]_vars
<1>1. CASE SystemOpen \/ SystemStep \/ SystemRetry
  BY <1>1 DEF SystemOpen, SystemStep, SystemRetry, Next
<1>2. CASE SystemReceive
  <2>1. PICK n \in 1..MaxFrame : \E fresh \in SUBSET (1..n) :
            n <= Len(pipe) /\ Receive(SubSeq(pipe, 1, n), fresh)
    BY <1>2 DEF SystemReceive
  <2>2. n \in 0..MaxFrame /\ n \in Nat /\ n >= 1
    BY SizesAssumption
  <2>3. SubSeq(pipe, 1, n) \in [1..n -> Entries]
    BY <2>1, <2>2, CutPipe, FeedAssumption DEF Blocks
  <2>4. \E entries \in [1..n -> Entries] : \E fresh \in SUBSET (1..n) :
            Receive(entries, fresh) \/ Choke(entries, fresh)
    BY <2>1, <2>3
  <2> QED BY <2>2, <2>4 DEF Next
<1>3. CASE Environment
  BY <1>3 DEF Environment, FeedAppend, FeedReorg, FeedTrim, SystemFault, Next
<1>4. CASE UNCHANGED systemVars
  BY <1>4 DEF systemVars
<1> QED BY <1>1, <1>2, <1>3, <1>4 DEF SystemNext

-----------------------------------------------------------------------------
(* How each step changes what is under way                                 *)

\* What is under way are blocks by number and fork.
LEMMA UnderWayType ==
    ASSUME TypeOK, PipeInv
    PROVE  /\ UnderWay \in Nat /\ Len(frame) \in Nat /\ Len(pipe) \in Nat
           /\ \A i \in 1..UnderWay : SeqAt(i) \in Seqs /\ HashAt(i) \in Hashes
<1>1. Len(frame) \in Nat /\ \A i \in 1..Len(frame) : frame[i] \in ItemType
  BY DEF TypeOK
<1>2. Len(pipe) \in Nat /\ \A i \in 1..Len(pipe) : pipe[i] \in Blocks
  BY DEF PipeInv
<1>3. \A i \in 1..Len(frame) : frame[i].hash \in Hashes
  BY DEF PipeInv, TypeOK
<1>4. ASSUME NEW i \in 1..UnderWay
      PROVE  SeqAt(i) \in Seqs /\ HashAt(i) \in Hashes
  <2>1. CASE i <= Len(frame)
    <3>1. i \in 1..Len(frame)
      BY <1>1, <1>2, <2>1 DEF UnderWay
    <3> QED BY <1>1, <1>3, <2>1, <3>1 DEF SeqAt, HashAt, ItemType
  <2>2. CASE ~(i <= Len(frame))
    <3>1. i - Len(frame) \in 1..Len(pipe)
      BY <1>1, <1>2, <2>2 DEF UnderWay
    <3> QED BY <1>2, <2>2, <3>1 DEF SeqAt, HashAt, Blocks
  <2> QED BY <2>1, <2>2
<1> QED BY <1>1, <1>2, <1>4 DEF UnderWay

\* The feed sends one more block.
LEMMA SentBehind ==
    ASSUME TypeOK, PipeInv, NEW b \in Blocks,
           pipe' = Append(pipe, b), UNCHANGED frame
    PROVE  /\ UnderWay' = UnderWay + 1
           /\ \A i \in 1..UnderWay : SeqAt(i)' = SeqAt(i) /\ HashAt(i)' = HashAt(i)
           /\ \A i : i = UnderWay + 1 => SeqAt(i)' = b.seq /\ HashAt(i)' = b.hash
           /\ pipe' \in Seq(Blocks)
<1>1. Len(frame) \in Nat /\ Len(pipe) \in Nat
  BY UnderWayType
<1>2. /\ pipe' \in Seq(Blocks) /\ Len(pipe') = Len(pipe) + 1
      /\ \A i \in 1..Len(pipe) : pipe'[i] = pipe[i]
      /\ pipe'[Len(pipe) + 1] = b
  BY DEF PipeInv
<1>3. ASSUME NEW i \in 1..UnderWay
      PROVE  SeqAt(i)' = SeqAt(i) /\ HashAt(i)' = HashAt(i)
  <2>1. CASE i <= Len(frame)
    BY <2>1 DEF SeqAt, HashAt
  <2>2. CASE ~(i <= Len(frame))
    <3>1. i - Len(frame) \in 1..Len(pipe)
      BY <1>1, <2>2 DEF UnderWay
    <3> QED BY <1>2, <2>2, <3>1 DEF SeqAt, HashAt
  <2> QED BY <2>1, <2>2
<1>4. ASSUME NEW i, i = UnderWay + 1
      PROVE  SeqAt(i)' = b.seq /\ HashAt(i)' = b.hash
  <2>1. ~(i <= Len(frame)) /\ i - Len(frame) = Len(pipe) + 1
    BY <1>1, <1>4 DEF UnderWay
  <2> QED BY <1>2, <2>1 DEF SeqAt, HashAt
<1> QED BY <1>1, <1>2, <1>3, <1>4 DEF UnderWay

\* Reading a frame changes where entries are and not which they are.
LEMMA ReadInPlace ==
    ASSUME TypeOK, PipeInv, SystemReceive
    PROVE  /\ phase = "open" /\ UNCHANGED <<phase, highestSeq, hashes, live, view>>
           /\ UnderWay' = UnderWay
           /\ \A i \in 1..UnderWay : SeqAt(i)' = SeqAt(i) /\ HashAt(i)' = HashAt(i)
           /\ PipeInv'
<1>1. PICK n \in 1..MaxFrame : \E fresh \in SUBSET (1..n) :
          /\ n <= Len(pipe)
          /\ Receive(SubSeq(pipe, 1, n), fresh)
          /\ pipe' = SubSeq(pipe, n + 1, Len(pipe))
  BY DEF SystemReceive
<1>2. PICK fresh : Receive(SubSeq(pipe, 1, n), fresh)
  BY <1>1
<1>3. n \in Nat /\ n >= 1 /\ n <= Len(pipe)
  BY <1>1, SizesAssumption
<1> DEFINE entries == SubSeq(pipe, 1, n)
<1>4. /\ Len(pipe) \in Nat
      /\ entries \in [1..n -> Blocks]
      /\ \A i \in 1..n : entries[i] = pipe[i]
      /\ pipe' \in Seq(Blocks)
      /\ Len(pipe') = Len(pipe) - n
      /\ \A i \in 1..(Len(pipe) - n) : pipe'[i] = pipe[n + i]
  BY <1>1, <1>3, CutPipe DEF PipeInv
<1>5. /\ phase = "open" /\ frame = <<>>
      /\ frame' = Annotated(entries, FirstLive(entries, fresh))
      /\ UNCHANGED <<phase, highestSeq, hashes, live, view>>
  BY <1>2 DEF Receive, Idle, core, history
<1>6. DOMAIN frame' = 1..n
  BY <1>4, <1>5 DEF Annotated
<1>7. ASSUME NEW i \in 1..n
      PROVE  /\ frame'[i].seq = pipe[i].seq /\ frame'[i].hash = pipe[i].hash
             /\ frame'[i].accepted /\ frame'[i].hash \in Hashes
  <2>1. entries[i] = pipe[i] /\ entries[i] \in Blocks
    BY <1>4
  <2>2. /\ frame'[i].seq = entries[i].seq /\ frame'[i].hash = entries[i].hash
        /\ frame'[i].accepted = Accepted(entries[i])
    BY <1>4, <1>5 DEF Annotated
  <2>3. Accepted(entries[i])
    BY FeedAssumption DEF Accepted
  <2> QED BY <2>1, <2>2, <2>3 DEF Blocks
<1>8. frame' \in Seq(ItemType) /\ Len(frame') = n
  <2>1. [SystemNext]_systemVars
    BY DEF SystemNext
  <2>2. TypeOK'
    BY <2>1, SystemStepIsConsumers, TypeNext DEF PipeInv
  <2> QED BY <1>3, <1>6, <2>2 DEF TypeOK
<1>9. Len(frame) = 0
  BY <1>5
<1> HIDE DEF entries
<1>10. ASSUME NEW i \in 1..UnderWay
       PROVE  SeqAt(i)' = SeqAt(i) /\ HashAt(i)' = HashAt(i)
  <2>0. /\ i \in 1..Len(pipe) /\ ~(i <= Len(frame)) /\ i - Len(frame) = i
    BY <1>4, <1>9 DEF UnderWay
  <2>1. CASE i <= n
    BY <1>3, <1>7, <1>8, <2>0, <2>1 DEF SeqAt, HashAt
  <2>2. CASE ~(i <= n)
    <3>1. i - n \in 1..(Len(pipe) - n) /\ n + (i - n) = i
      BY <1>3, <1>4, <2>0, <2>2
    <3>2. pipe'[i - n] = pipe[i]
      BY <1>4, <3>1
    <3> QED BY <1>8, <2>0, <2>2, <3>2 DEF SeqAt, HashAt
  <2> QED BY <2>1, <2>2
<1>11. UnderWay' = UnderWay
  BY <1>3, <1>4, <1>8, <1>9 DEF UnderWay
<1>12. PipeInv'
  BY <1>4, <1>5, <1>6, <1>7 DEF PipeInv
<1> QED BY <1>5, <1>10, <1>11, <1>12

\* A turn of the loop takes the first.
LEMMA TurnTakesFirst ==
    ASSUME TypeOK, PipeInv, Turn, UNCHANGED pipe
    PROVE  /\ UnderWay >= 1 /\ UnderWay' = UnderWay - 1
           /\ \A i \in 1..(UnderWay - 1) : SeqAt(i)' = SeqAt(i + 1) /\ HashAt(i)' = HashAt(i + 1)
           /\ SeqAt(1) = Head(frame).seq /\ HashAt(1) = Head(frame).hash
           /\ Head(frame) \in ItemType /\ Head(frame).accepted
           /\ PipeInv'
<1>1. /\ frame # <<>> /\ frame' = Tail(frame) /\ phase = "open" /\ phase' = phase
      /\ Len(pipe) \in Nat
  BY UnderWayType DEF Turn
<1>2. /\ Head(frame) \in ItemType /\ Head(frame) = frame[1]
      /\ Tail(frame) \in Seq(ItemType)
      /\ Len(frame') = Len(frame) - 1
      /\ \A i \in 1..Len(frame') : frame'[i] = frame[i + 1]
      /\ Len(frame) \in Nat \ {0}
  BY <1>1, RestOfFrame DEF TypeOK
<1>3. DOMAIN frame = 1..Len(frame) /\ DOMAIN frame' = 1..Len(frame')
  BY <1>1, <1>2 DEF TypeOK
<1>4. frame[1].accepted
  BY <1>2, <1>3 DEF PipeInv
<1>5. ASSUME NEW i \in 1..(UnderWay - 1)
      PROVE  SeqAt(i)' = SeqAt(i + 1) /\ HashAt(i)' = HashAt(i + 1)
  <2>1. CASE i <= Len(frame')
    BY <1>2, <2>1 DEF SeqAt, HashAt
  <2>2. CASE ~(i <= Len(frame'))
    <3>1. ~(i + 1 <= Len(frame)) /\ i - Len(frame') = (i + 1) - Len(frame)
      BY <1>2, <2>2
    <3> QED BY <1>1, <2>2, <3>1 DEF SeqAt, HashAt
  <2> QED BY <2>1, <2>2
<1>6. PipeInv'
  <2>1. \A i \in DOMAIN frame' : frame'[i].accepted /\ frame'[i].hash \in Hashes
    BY <1>2, <1>3 DEF PipeInv
  <2> QED BY <1>1, <2>1 DEF PipeInv
<1>7. UnderWay >= 1 /\ UnderWay' = UnderWay - 1
  BY <1>1, <1>2 DEF UnderWay
<1>8. SeqAt(1) = Head(frame).seq /\ HashAt(1) = Head(frame).hash
  BY <1>2 DEF SeqAt, HashAt
<1> QED BY <1>2, <1>4, <1>5, <1>6, <1>7, <1>8

\* A connection brings the chain from the replay's first block on.
LEMMA OpenBrings ==
    ASSUME SystemInv, SystemOpen
    PROVE  /\ phase = "connecting" /\ phase' = "open" /\ frame' = <<>>
           /\ UNCHANGED <<highestSeq, view>>
           /\ ReplayFrom \in floor..Len(chain)
           /\ UnderWay' = Len(chain) - ReplayFrom + 1
           /\ \A i \in 1..(Len(chain) - ReplayFrom + 1) :
                 /\ SeqAt(i)' = ReplayFrom + i - 1
                 /\ HashAt(i)' = chain[ReplayFrom + i - 1]
           /\ PipeInv'
<1> DEFINE count == Len(chain) - ReplayFrom + 1
           sent == [i \in 1..count |-> Wire(chain, ReplayFrom + i - 1)]
<1>1. /\ phase = "connecting" /\ phase' = "open" /\ UNCHANGED <<frame, highestSeq, view>>
      /\ pipe' = sent
  BY DEF SystemOpen, Open, core, history
<1>2. frame = <<>>
  BY <1>1 DEF SystemInv, LiveInv, OnlyOpenReads
<1>3. /\ chain \in Seq(Hashes) /\ Len(chain) \in 1..MaxTail /\ floor \in 1..MaxTail
      /\ floor <= Len(chain) /\ MaxTail \in Nat
  BY FeedAssumption DEF SystemInv, SystemTypeOK, ChainInv
<1>4. ReplayFrom \in floor..Len(chain)
  BY <1>3 DEF ReplayFrom, InBacklog
<1>5. count \in Nat /\ \A i \in 1..count : ReplayFrom + i - 1 \in 1..Len(chain)
  BY <1>3, <1>4
<1>6. ASSUME NEW i \in 1..count
      PROVE  /\ sent[i] \in Blocks
             /\ sent[i].seq = ReplayFrom + i - 1
             /\ sent[i].hash = chain[ReplayFrom + i - 1]
  <2>1. PICK s \in 1..Len(chain) : s = ReplayFrom + i - 1
    BY <1>5
  <2>2. sent[i] = Wire(chain, s)
    BY <2>1
  <2>3. s \in Seqs /\ chain[s] \in Hashes
    BY <1>3, FeedAssumption
  <2> QED BY <2>1, <2>2, <2>3 DEF Wire, Blocks
<1> HIDE DEF sent
<1>7. /\ DOMAIN sent = 1..count
      /\ sent \in [1..count -> Blocks]
  BY <1>6 DEF sent
<1>8. sent \in Seq(Blocks) /\ Len(sent) = count
  BY <1>5, <1>7
<1>9. Len(frame') = 0 /\ frame' = <<>> /\ DOMAIN frame' = {}
  BY <1>1, <1>2
<1>10. ASSUME NEW i \in 1..count
       PROVE  SeqAt(i)' = ReplayFrom + i - 1 /\ HashAt(i)' = chain[ReplayFrom + i - 1]
  <2>1. ~(i <= Len(frame')) /\ i - Len(frame') = i
    BY <1>9
  <2> QED BY <1>1, <1>6, <2>1 DEF SeqAt, HashAt
<1>11. UnderWay' = count
  BY <1>1, <1>5, <1>8, <1>9 DEF UnderWay
<1>12. PipeInv'
  BY <1>1, <1>8, <1>9 DEF PipeInv
<1> QED BY <1>1, <1>4, <1>9, <1>10, <1>11, <1>12

\* A fault leaves nothing under way.
LEMMA FaultLoses ==
    ASSUME SystemInv, SystemFault
    PROVE  /\ phase' # "open" /\ frame' = <<>> /\ UnderWay' = 0
           /\ UNCHANGED <<highestSeq, view>>
           /\ PipeInv'
<1>1. /\ pipe' = <<>> /\ phase' # "open" /\ UNCHANGED <<highestSeq, view>>
  BY DEF SystemFault, ConnectFails, Drop, CleanClose, Close, core, history
<1>2. frame' = <<>>
  BY DEF SystemFault, ConnectFails, Drop, CleanClose, Close, Idle, SystemInv, LiveInv,
         OnlyOpenReads
<1>3. pipe' \in Seq(Blocks) /\ Len(pipe') = 0 /\ Len(frame') = 0 /\ DOMAIN frame' = {}
  BY <1>1, <1>2
<1> QED BY <1>1, <1>2, <1>3 DEF PipeInv, UnderWay

\* The feed puts a block at the tip that was never sent before, and sends it.
LEMMA BlockBuilt ==
    ASSUME SystemInv, FeedAppend \/ \E s \in DOMAIN chain : FeedReorg(s)
    PROVE  LET tip == Len(chain') IN
           /\ chain' \in Seq(Hashes) /\ tip \in 1..MaxTail /\ tip <= Len(chain) + 1
           /\ fork' \in Hashes /\ fork <= fork' /\ floor' \in 1..tip
           /\ chain'[tip] = fork' /\ DOMAIN chain' = 1..tip
           /\ \A s \in DOMAIN chain' : s # tip => s \in DOMAIN chain /\ chain'[s] = chain[s]
           /\ \A s \in DOMAIN chain' : chain'[s] \in 0..fork'
           /\ Wire(chain', tip) \in Blocks
           /\ pipe' = IF phase = "open" THEN Append(pipe, Wire(chain', tip)) ELSE pipe
           /\ \A t \in Int : \A g : WasSent(t, g) =>
                 WasSent(t, g)' /\ ~(t = tip /\ g = fork')
           /\ UNCHANGED <<vars, faults, ghosts>>
<1>1. /\ chain \in Seq(Hashes) /\ Len(chain) \in 1..MaxTail /\ floor \in 1..MaxTail
      /\ floor <= Len(chain) /\ MaxTail \in Nat /\ MaxReorgs \in Nat
      /\ Hashes = 0..MaxReorgs /\ Seqs = 1..MaxTail
      /\ fork \in Hashes /\ \A s \in 1..Len(chain) : chain[s] \in 0..fork
  BY FeedAssumption DEF SystemInv, SystemTypeOK, ChainInv
<1>2. CASE FeedAppend
  <2>1. /\ chain' = Append(chain, fork) /\ fork' = fork /\ floor' = floor
        /\ Len(chain) < MaxTail
        /\ UNCHANGED <<vars, faults, ghosts>>
    BY <1>2 DEF FeedAppend
  <2>2. /\ chain' \in Seq(Hashes) /\ Len(chain') = Len(chain) + 1
        /\ chain'[Len(chain')] = fork
        /\ \A s \in 1..Len(chain) : chain'[s] = chain[s]
        /\ DOMAIN chain' = 1..(Len(chain) + 1)
    BY <1>1, <2>1
  <2>3. /\ \A s \in DOMAIN chain' : chain'[s] \in 0..fork'
        /\ \A s \in DOMAIN chain' : s # Len(chain') => s \in DOMAIN chain /\ chain'[s] = chain[s]
    BY <1>1, <2>1, <2>2
  <2>4. pipe' = IF phase = "open" THEN Append(pipe, Wire(chain', Len(chain'))) ELSE pipe
    BY <1>2 DEF FeedAppend, Broadcast
  <2>5. \A t \in Int : \A g : WasSent(t, g) =>
            WasSent(t, g)' /\ ~(t = Len(chain') /\ g = fork')
    BY <1>1, <2>1, <2>2 DEF WasSent
  <2>6. Wire(chain', Len(chain')) \in Blocks
    BY <1>1, <2>1, <2>2 DEF Wire, Blocks
  <2> QED BY <1>1, <2>1, <2>2, <2>3, <2>4, <2>5, <2>6
<1>3. CASE \E s \in DOMAIN chain : FeedReorg(s)
  <2>1. PICK s \in 1..Len(chain) : FeedReorg(s)
    BY <1>1, <1>3
  <2>2. /\ chain' = Append(SubSeq(chain, 1, s - 1), fork + 1) /\ fork' = fork + 1
        /\ floor' = (IF s < floor THEN s ELSE floor)
        /\ fork < MaxReorgs
        /\ UNCHANGED <<vars, faults, ghosts>>
    BY <2>1 DEF FeedReorg
  <2>3. /\ SubSeq(chain, 1, s - 1) \in Seq(Hashes)
        /\ Len(SubSeq(chain, 1, s - 1)) = s - 1
        /\ \A t \in 1..(s - 1) : SubSeq(chain, 1, s - 1)[t] = chain[t]
    BY <1>1
  <2>4. fork + 1 \in Hashes
    BY <1>1, <2>2
  <2>5. /\ chain' \in Seq(Hashes) /\ Len(chain') = s
        /\ chain'[s] = fork + 1
        /\ \A t \in 1..(s - 1) : chain'[t] = chain[t]
        /\ DOMAIN chain' = 1..s
    BY <2>2, <2>3, <2>4
  <2>6. ASSUME NEW t \in 1..s
        PROVE  /\ chain'[t] \in 0..fork'
               /\ t # s => t \in DOMAIN chain /\ chain'[t] = chain[t]
    <3>1. CASE t = s
      BY <1>1, <2>2, <2>5, <3>1
    <3>2. CASE t # s
      <4>1. t \in 1..(s - 1) /\ t \in 1..Len(chain) /\ t \in DOMAIN chain
        BY <1>1, <3>2
      <4>2. chain'[t] = chain[t] /\ chain[t] \in 0..fork
        BY <1>1, <2>5, <4>1
      <4> QED BY <1>1, <2>2, <4>1, <4>2
    <3> QED BY <3>1, <3>2
  <2>7. /\ \A t \in DOMAIN chain' : chain'[t] \in 0..fork'
        /\ \A t \in DOMAIN chain' : t # Len(chain') => t \in DOMAIN chain /\ chain'[t] = chain[t]
    BY <2>5, <2>6
  <2>8. pipe' = IF phase = "open" THEN Append(pipe, Wire(chain', Len(chain'))) ELSE pipe
    BY <2>1 DEF FeedReorg, Broadcast
  <2>9. \A t \in Int : \A g : WasSent(t, g) =>
            WasSent(t, g)' /\ ~(t = Len(chain') /\ g = fork')
    BY <1>1, <2>2, <2>5 DEF WasSent
  <2>10. Wire(chain', Len(chain')) \in Blocks
    BY <1>1, <2>4, <2>5 DEF Wire, Blocks
  <2> QED BY <1>1, <2>2, <2>4, <2>5, <2>7, <2>8, <2>9, <2>10
<1> QED BY <1>2, <1>3

\* What a turn makes of the picture and the watermark.
LEMMA TurnHolds ==
    ASSUME SystemInv, SystemStep
    PROVE  LET e == Head(frame) IN
           /\ Turn /\ UNCHANGED <<pipe, chain, fork, floor, resumed>>
           /\ \/ view' = view /\ highestSeq' = highestSeq /\ e.seq <= highestSeq
              \/ highestSeq' = e.seq
           /\ \A t \in DOMAIN view' :
                 \/ t = e.seq /\ view'[t] = e.hash
                 \/ t \in DOMAIN view /\ view'[t] = view[t]
<1> DEFINE e == Head(frame)
<1>1. Turn /\ Step /\ UNCHANGED <<pipe, chain, fork, floor, resumed>>
  BY DEF SystemStep, Step, Reject, Duplicate, Reorg, Deliver, feed
<1>2. TypeOK /\ PipeInv /\ e \in ItemType /\ e.accepted
  BY <1>1, TurnTakesFirst DEF SystemInv, SafetyInv
<1>3. CASE Duplicate
  BY <1>1, <1>3 DEF Duplicate, core, history
<1>4. ASSUME NEW r \in BOOLEAN, Yield(e, r)
      PROVE  /\ highestSeq' = e.seq
             /\ \A t \in DOMAIN view' :
                   \/ t = e.seq /\ view'[t] = e.hash
                   \/ t \in DOMAIN view /\ view'[t] = view[t]
  <2>1. highestSeq' = e.seq /\ view' = Absorbed(view, Message(e, r))
    BY <1>4 DEF Yield
  <2>2. view \in PartialFunctions(Seqs, Hashes \cup {NoHash})
    BY <1>2 DEF TypeOK
  <2>e. e \in ItemType
    BY <1>2
  <2> HIDE DEF e
  <2>3. /\ DOMAIN view' = (IF r THEN {s \in DOMAIN view : s < e.seq} ELSE DOMAIN view)
                          \cup {e.seq}
        /\ \A s \in DOMAIN view' : view'[s] = IF s = e.seq THEN e.hash ELSE view[s]
    BY <2>e, <2>1, <2>2, AbsorbedMessage
  <2> QED BY <2>1, <2>3
<1>5. CASE Reorg \/ Deliver
  <2>1. Yield(e, TRUE) \/ Yield(e, FALSE)
    BY <1>5 DEF Reorg, Deliver
  <2> QED BY <1>1, <1>4, <2>1
<1>6. ~Reject
  BY <1>2, Zenon DEF Reject
<1> QED BY <1>1, <1>3, <1>5, <1>6 DEF Step

-----------------------------------------------------------------------------
(* The invariant is inductive                                              *)

\* Numbers are integers, on the chain and under way.
LEMMA SystemNumbers ==
    ASSUME SystemInv
    PROVE  /\ TypeOK /\ PipeInv
           /\ UnderWay \in Nat /\ Len(chain) \in Nat /\ highestSeq \in Int /\ dups \in Nat
           /\ \A i \in 1..UnderWay : SeqAt(i) \in Int
           /\ DOMAIN view \subseteq Int /\ DOMAIN view \subseteq Seqs
<1>1. TypeOK /\ PipeInv /\ dups \in Nat /\ chain \in Seq(Hashes)
  BY DEF SystemInv, SafetyInv, SystemTypeOK
<1>2. UnderWay \in Nat /\ \A i \in 1..UnderWay : SeqAt(i) \in Int
  BY <1>1, UnderWayType, SeqsAreIntegers
<1>3. highestSeq \in Int
  BY <1>1, SeqsAreIntegers DEF TypeOK
<1>4. DOMAIN view \subseteq Seqs
  BY <1>1, PartialFunctionElim DEF TypeOK
<1> QED BY <1>1, <1>2, <1>3, <1>4, SeqsAreIntegers

\* A block more, under way if there is a connection, and never one that is there already.
LEMMA BlockKeepsWay ==
    ASSUME SystemInv, FeedAppend \/ \E s \in DOMAIN chain : FeedReorg(s)
    PROVE  PipeInv' /\ SentInv' /\ NoGapInv' /\ ResumeInv'
<1> DEFINE tip == Len(chain')
<1>1. /\ tip \in Int /\ tip >= 1 /\ tip <= Len(chain) + 1
      /\ fork' \in Nat /\ chain'[tip] = fork' /\ Wire(chain', tip) \in Blocks
      /\ pipe' = IF phase = "open" THEN Append(pipe, Wire(chain', tip)) ELSE pipe
      /\ \A t \in Int : \A g : WasSent(t, g) => WasSent(t, g)' /\ ~(t = tip /\ g = fork')
      /\ UNCHANGED <<phase, frame, view, highestSeq, resumed, dups>>
  BY BlockBuilt, FeedAssumption DEF vars, core, history, ghosts
<1>2. /\ TypeOK /\ PipeInv
      /\ UnderWay \in Nat /\ Len(chain) \in Nat /\ highestSeq \in Int
      /\ \A i \in 1..UnderWay : SeqAt(i) \in Int
      /\ DOMAIN view \subseteq Int
      /\ SentInv /\ NoGapInv /\ ResumeInv
  BY SystemNumbers DEF SystemInv
<1>3. \A t \in DOMAIN view : WasSent(t, view[t])' /\ ~(t = tip /\ view[t] = fork')
  BY <1>1, <1>2 DEF SentInv
<1>4. CASE phase = "open"
  <2>1. /\ UnderWay' = UnderWay + 1
        /\ \A i \in 1..UnderWay : SeqAt(i)' = SeqAt(i) /\ HashAt(i)' = HashAt(i)
        /\ \A i : i = UnderWay + 1 => SeqAt(i)' = tip /\ HashAt(i)' = fork'
        /\ pipe' \in Seq(Blocks)
    BY <1>1, <1>2, <1>4, SentBehind DEF Wire
  <2>2. PipeInv'
    BY <1>1, <1>2, <1>4, <2>1 DEF PipeInv
  <2>3. ASSUME NEW i \in 1..UnderWay
        PROVE  /\ SeqAt(i)' = SeqAt(i) /\ HashAt(i)' = HashAt(i)
               /\ WasSent(SeqAt(i), HashAt(i))'
               /\ ~(SeqAt(i) = tip /\ HashAt(i) = fork')
    <3>1. SeqAt(i) \in Int /\ WasSent(SeqAt(i), HashAt(i))
      BY <1>2 DEF SentInv
    <3>2. /\ SeqAt(i) \in 0..fork' => TRUE
          /\ HashAt(i) \in 0..fork' /\ (HashAt(i) = fork' => SeqAt(i) <= tip)
          /\ ~(SeqAt(i) = tip /\ HashAt(i) = fork')
      BY <1>1, <3>1 DEF WasSent
    <3> QED BY <2>1, <3>2 DEF WasSent
  <2>4. ASSUME NEW i, i = UnderWay + 1
        PROVE  WasSent(SeqAt(i), HashAt(i))'
    BY <1>1, <2>1, <2>4 DEF WasSent
  <2>5. \A i \in 1..UnderWay' : i \in 1..UnderWay \/ i = UnderWay + 1
    BY <1>2, <2>1
  <2>6. SentInv'
    <3>1. \A i \in 1..UnderWay' : WasSent(SeqAt(i), HashAt(i))'
      BY <2>3, <2>4, <2>5
    <3>2. ASSUME NEW i \in 1..UnderWay', NEW j \in 1..UnderWay', i < j
          PROVE  SeqAt(i)' # SeqAt(j)' \/ HashAt(i)' # HashAt(j)'
      <4>1. i \in 1..UnderWay
        BY <1>2, <2>1, <3>2
      <4>2. CASE j \in 1..UnderWay
        BY <1>2, <2>3, <3>2, <4>1, <4>2 DEF SentInv
      <4>3. CASE j = UnderWay + 1
        BY <2>1, <2>3, <4>1, <4>3
      <4> QED BY <2>5, <4>2, <4>3
    <3> QED BY <1>1, <1>3, <3>1, <3>2 DEF SentInv
  <2>7. NoGapInv'
    <3>1. ASSUME NEW i \in 1..(UnderWay' - 1)
          PROVE  SeqAt(i + 1)' <= SeqAt(i)' + 1
      <4>1. i \in 1..UnderWay /\ SeqAt(i)' = SeqAt(i)
        BY <1>2, <2>1
      <4>2. CASE i = UnderWay
        <5>1. SeqAt(i) = Len(chain)
          BY <1>2, <1>4, <4>1, <4>2 DEF NoGapInv
        <5>2. SeqAt(i + 1)' = tip
          BY <2>1, <4>2
        <5> QED BY <1>1, <4>1, <5>1, <5>2
      <4>3. CASE i # UnderWay
        <5>1. i \in 1..(UnderWay - 1) /\ i + 1 \in 1..UnderWay
          BY <1>2, <4>1, <4>3
        <5>2. SeqAt(i + 1)' = SeqAt(i + 1)
          BY <2>1, <5>1
        <5> QED BY <1>2, <4>1, <5>1, <5>2 DEF NoGapInv
      <4> QED BY <4>2, <4>3
    <3>2. UnderWay' # 0 /\ SeqAt(UnderWay)' = tip
      BY <1>2, <2>1
    <3> QED BY <3>1, <3>2 DEF NoGapInv
  <2>8. ResumeInv'
    <3> SUFFICES ASSUME resumed, NEW i \in 1..UnderWay', Has(SeqAt(i), HashAt(i))'
                 PROVE  i = 1 /\ dups = 0
      BY <1>1, <1>2, <1>4 DEF ResumeInv
    <3>1. i \in 1..UnderWay
      BY <1>1, <1>3, <2>1, <2>5 DEF Has
    <3>2. Has(SeqAt(i), HashAt(i))
      BY <1>1, <2>1, <3>1 DEF Has
    <3> QED BY <1>2, <1>4, <3>1, <3>2 DEF ResumeInv
  <2> QED BY <2>2, <2>6, <2>7, <2>8
<1>5. CASE phase # "open"
  <2>1. frame = <<>> /\ pipe = <<>>
    BY <1>2, <1>5 DEF SystemInv, LiveInv, OnlyOpenReads, PipeInv
  <2>2. frame' = <<>> /\ pipe' = <<>> /\ UnderWay' = 0
    BY <1>1, <1>5, <2>1 DEF UnderWay
  <2> QED BY <1>1, <1>2, <1>3, <1>5, <2>1, <2>2
          DEF PipeInv, SentInv, NoGapInv, ResumeInv
<1> QED BY <1>4, <1>5

\* A step that moves nothing under way and no picture.
LEMMA WayStays ==
    ASSUME SystemInv, PipeInv', UnderWay' = UnderWay,
           \A i \in 1..UnderWay : SeqAt(i)' = SeqAt(i) /\ HashAt(i)' = HashAt(i),
           UNCHANGED <<view, highestSeq, chain, fork, resumed, dups>>,
           phase' = "open" => phase = "open"
    PROVE  SentInv' /\ NoGapInv' /\ ResumeInv'
<1>1. UnderWay \in Nat /\ SentInv /\ NoGapInv /\ ResumeInv
  BY SystemNumbers DEF SystemInv
<1>2. SentInv'
  <2>1. \A i \in 1..UnderWay' : WasSent(SeqAt(i), HashAt(i))'
    BY <1>1 DEF SentInv, WasSent
  <2>2. \A i, j \in 1..UnderWay' : i < j => SeqAt(i)' # SeqAt(j)' \/ HashAt(i)' # HashAt(j)'
    BY <1>1 DEF SentInv
  <2>3. \A t \in DOMAIN view' : WasSent(t, view[t])'
    BY <1>1 DEF SentInv, WasSent
  <2> QED BY <2>1, <2>2, <2>3 DEF SentInv
<1>3. NoGapInv'
  <2>1. \A i \in 1..(UnderWay - 1) : i \in 1..UnderWay /\ i + 1 \in 1..UnderWay
    BY <1>1
  <2>2. \A i \in 1..(UnderWay' - 1) : SeqAt(i + 1)' <= SeqAt(i)' + 1
    BY <1>1, <2>1 DEF NoGapInv
  <2>3. UnderWay # 0 => SeqAt(UnderWay)' = SeqAt(UnderWay)
    BY <1>1
  <2> QED BY <1>1, <2>2, <2>3 DEF NoGapInv
<1>4. ResumeInv'
  BY <1>1 DEF ResumeInv, Has
<1> QED BY <1>2, <1>3, <1>4

\* A new connection starts at the block that is held, if the feed still has it, and goes
\* on above everything that is held.
LEMMA OpenStartsWay ==
    ASSUME SystemInv, SystemOpen
    PROVE  SentInv' /\ NoGapInv' /\ ResumeInv'
<1> DEFINE from == ReplayFrom
           count == Len(chain) - from + 1
<1>1. /\ phase' = "open" /\ UNCHANGED <<highestSeq, view, chain, fork>>
      /\ from \in floor..Len(chain) /\ UnderWay' = count
      /\ \A i \in 1..count : SeqAt(i)' = from + i - 1 /\ HashAt(i)' = chain[from + i - 1]
      /\ dups' = 0 /\ resumed' = InBacklog(Requested)
  BY OpenBrings DEF SystemOpen, feed
<1>2. /\ floor \in Nat /\ floor >= 1 /\ Len(chain) \in Nat /\ DOMAIN chain = 1..Len(chain)
      /\ fork \in Nat /\ \A s \in 1..Len(chain) : chain[s] \in 0..fork
      /\ SentInv /\ WatermarkIsTip
  BY FeedAssumption DEF SystemInv, SystemTypeOK, ChainInv, SafetyInv
<1>3. count \in Nat /\ count >= 1 /\ from \in Int
  BY <1>1, <1>2
<1> HIDE DEF count
<1>4. ASSUME NEW i \in 1..count
      PROVE  /\ from + i - 1 \in 1..Len(chain)
             /\ SeqAt(i)' = from + i - 1 /\ HashAt(i)' \in 0..fork
  <2>1. from + i - 1 \in 1..Len(chain)
    BY <1>1, <1>2 DEF count
  <2> QED BY <1>1, <1>2, <2>1
<1> HIDE DEF from
<1>5. SentInv'
  <2>1. \A i \in 1..UnderWay' : WasSent(SeqAt(i), HashAt(i))'
    BY <1>1, <1>2, <1>4 DEF WasSent
  <2>2. \A i, j \in 1..UnderWay' : i < j => SeqAt(i)' # SeqAt(j)'
    BY <1>1, <1>3, <1>4
  <2>3. \A t \in DOMAIN view' : WasSent(t, view[t])'
    BY <1>1, <1>2 DEF SentInv, WasSent
  <2> QED BY <2>1, <2>2, <2>3 DEF SentInv
<1>6. NoGapInv'
  <2>1. \A i \in 1..(UnderWay' - 1) : SeqAt(i + 1)' <= SeqAt(i)' + 1
    <3> SUFFICES ASSUME NEW i \in 1..(count - 1) PROVE SeqAt(i + 1)' <= SeqAt(i)' + 1
      BY <1>1
    <3>1. i \in 1..count /\ i + 1 \in 1..count
      BY <1>3
    <3>2. SeqAt(i)' = from + i - 1 /\ SeqAt(i + 1)' = from + (i + 1) - 1
      BY <1>4, <3>1
    <3> QED BY <1>3, <3>1, <3>2
  <2>2. UnderWay' # 0
    BY <1>1, <1>3
  <2>3. count \in 1..count /\ from + count - 1 = Len(chain)
    BY <1>2, <1>3 DEF count
  <2>4. SeqAt(UnderWay)' = Len(chain)
    BY <1>1, <1>4, <2>3
  <2> QED BY <1>1, <2>1, <2>2, <2>4 DEF NoGapInv
<1>7. ResumeInv'
  <2> SUFFICES ASSUME InBacklog(Requested), NEW i \in 1..count, Has(SeqAt(i), HashAt(i))'
               PROVE  i = 1
    BY <1>1 DEF ResumeInv
  <2>1. from = highestSeq
    BY DEF from, ReplayFrom, Requested
  <2>2. SeqAt(i)' = from + i - 1 /\ from + i - 1 \in DOMAIN view
    BY <1>1, <1>4 DEF Has
  <2>3. from + i - 1 <= highestSeq
    BY <1>2, <2>2 DEF WatermarkIsTip
  <2> QED BY <1>3, <2>1, <2>3
<1> QED BY <1>5, <1>6, <1>7

\* A turn of the loop: what it puts into the picture does not come again.
LEMMA StepKeepsWay ==
    ASSUME SystemInv, SystemStep
    PROVE  PipeInv' /\ SentInv' /\ NoGapInv' /\ ResumeInv'
<1> DEFINE e == Head(frame)
<1>1. /\ Turn /\ phase = "open" /\ phase' = "open"
      /\ UNCHANGED <<pipe, chain, fork, resumed>>
      /\ \/ highestSeq' = highestSeq /\ e.seq <= highestSeq
         \/ highestSeq' = e.seq
      /\ \A t \in DOMAIN view' :
            \/ t = e.seq /\ view'[t] = e.hash
            \/ t \in DOMAIN view /\ view'[t] = view[t]
  BY TurnHolds DEF Turn
<1>2. /\ TypeOK /\ PipeInv
      /\ UnderWay \in Nat /\ Len(chain) \in Nat /\ highestSeq \in Int /\ dups \in Nat
      /\ \A i \in 1..UnderWay : SeqAt(i) \in Int
      /\ SentInv /\ NoGapInv /\ ResumeInv
  BY SystemNumbers DEF SystemInv
<1>3. /\ UnderWay >= 1 /\ UnderWay' = UnderWay - 1
      /\ \A i \in 1..(UnderWay - 1) : SeqAt(i)' = SeqAt(i + 1) /\ HashAt(i)' = HashAt(i + 1)
      /\ SeqAt(1) = e.seq /\ HashAt(1) = e.hash
      /\ PipeInv'
  BY <1>1, <1>2, TurnTakesFirst
<1> HIDE DEF e
<1>4. \A i \in 1..(UnderWay - 1) : i + 1 \in 1..UnderWay
  BY <1>2
<1>5. 1 \in 1..UnderWay /\ e.seq \in Int
  BY <1>2, <1>3
<1>6. SentInv'
  <2>1. \A i \in 1..UnderWay' : WasSent(SeqAt(i), HashAt(i))'
    BY <1>1, <1>2, <1>3, <1>4 DEF SentInv, WasSent
  <2>2. ASSUME NEW i \in 1..UnderWay', NEW j \in 1..UnderWay', i < j
        PROVE  SeqAt(i)' # SeqAt(j)' \/ HashAt(i)' # HashAt(j)'
    <3>1. i + 1 \in 1..UnderWay /\ j + 1 \in 1..UnderWay /\ i + 1 < j + 1
      BY <1>2, <1>3, <2>2
    <3>2. SeqAt(i + 1) # SeqAt(j + 1) \/ HashAt(i + 1) # HashAt(j + 1)
      BY <1>2, <3>1 DEF SentInv
    <3> QED BY <1>3, <3>2
  <2>3. WasSent(e.seq, e.hash)
    BY <1>2, <1>3, <1>5 DEF SentInv
  <2>4. \A t \in DOMAIN view' : WasSent(t, view[t])'
    BY <1>1, <1>2, <2>3 DEF SentInv, WasSent
  <2> QED BY <2>1, <2>2, <2>4 DEF SentInv
<1>7. NoGapInv'
  <2>1. ASSUME NEW i \in 1..(UnderWay' - 1)
        PROVE  SeqAt(i + 1)' <= SeqAt(i)' + 1
    <3>1. /\ i \in 1..(UnderWay - 1) /\ i + 1 \in 1..(UnderWay - 1)
      BY <1>2, <1>3
    <3>2. SeqAt(i)' = SeqAt(i + 1) /\ SeqAt(i + 1)' = SeqAt((i + 1) + 1)
      BY <1>3, <3>1
    <3> QED BY <1>2, <3>1, <3>2 DEF NoGapInv
  <2>2. CASE UnderWay = 1
    <3>1. UnderWay' = 0 /\ e.seq = Len(chain)
      BY <1>1, <1>2, <1>3, <2>2 DEF NoGapInv
    <3> QED BY <1>1, <1>2, <2>1, <3>1 DEF NoGapInv
  <2>3. CASE UnderWay # 1
    <3>1. UnderWay - 1 \in 1..(UnderWay - 1) /\ (UnderWay - 1) + 1 = UnderWay
      BY <1>2, <1>3, <2>3
    <3>2. SeqAt(UnderWay)' = SeqAt(UnderWay)
      BY <1>3, <3>1
    <3>3. SeqAt(UnderWay) = Len(chain)
      BY <1>1, <1>2, <1>3 DEF NoGapInv
    <3>4. UnderWay' # 0
      BY <1>3, <3>1
    <3> QED BY <1>1, <2>1, <3>2, <3>3, <3>4 DEF NoGapInv
  <2> QED BY <2>2, <2>3
<1>8. ResumeInv'
  <2> SUFFICES ASSUME resumed
               PROVE  /\ dups' <= 1
                      /\ \A i \in 1..UnderWay' : ~Has(SeqAt(i), HashAt(i))'
    BY <1>1 DEF ResumeInv
  <2>1. /\ dups <= 1
        /\ \A i \in 1..UnderWay : Has(SeqAt(i), HashAt(i)) => i = 1 /\ dups = 0
    BY <1>1, <1>2 DEF ResumeInv
  <2>2. dups' <= 1
    <3>1. dups' = dups \/ (Held(Head(frame)) /\ dups' = dups + 1)
      BY DEF SystemStep
    <3>2. Held(Head(frame)) => dups = 0
      BY <1>3, <1>5, <2>1 DEF Held, Has, e
    <3> QED BY <1>2, <2>1, <3>1, <3>2
  <2>3. ASSUME NEW i \in 1..UnderWay', Has(SeqAt(i), HashAt(i))'
        PROVE  FALSE
    <3>1. i \in 1..(UnderWay - 1) /\ i + 1 \in 1..UnderWay /\ 1 < i + 1
      BY <1>2, <1>3
    <3>2. SeqAt(i + 1) \in DOMAIN view' /\ view'[SeqAt(i + 1)] = HashAt(i + 1)
      BY <1>3, <2>3, <3>1 DEF Has
    <3>3. CASE SeqAt(i + 1) = e.seq /\ HashAt(i + 1) = e.hash
      BY <1>2, <1>3, <1>5, <3>1, <3>3 DEF SentInv
    <3>4. CASE Has(SeqAt(i + 1), HashAt(i + 1))
      <4>1. i + 1 = 1
        BY <2>1, <3>1, <3>4
      <4> QED BY <3>1, <4>1
    <3> QED BY <1>1, <3>2, <3>3, <3>4 DEF Has
  <2> QED BY <2>2, <2>3
<1> QED BY <1>3, <1>6, <1>7, <1>8

\* What is under way stays a picture of the chain, whichever step is taken.
LEMMA WayPreserved ==
    ASSUME SystemInv, [SystemNext]_systemVars
    PROVE  PipeInv' /\ SentInv' /\ NoGapInv' /\ ResumeInv'
<1>1. CASE SystemOpen
  BY <1>1, OpenBrings, OpenStartsWay
<1>2. CASE SystemReceive
  BY <1>2, ReadInPlace, SystemNumbers, WayStays DEF SystemReceive, feed, ghosts
<1>3. CASE SystemStep
  BY <1>3, StepKeepsWay
<1>4. CASE FeedAppend \/ \E s \in DOMAIN chain : FeedReorg(s)
  BY <1>4, BlockKeepsWay
<1>5. CASE SystemRetry \/ FeedTrim \/ UNCHANGED systemVars
  <2>1. /\ UNCHANGED <<frame, pipe, view, highestSeq, chain, fork, resumed, dups>>
        /\ phase' = phase \/ (phase # "open" /\ phase' = "connecting")
    BY <1>5 DEF SystemRetry, Call, Wake, FeedTrim, systemVars, vars, core, history, feed, ghosts
  <2>2. PipeInv'
    BY <2>1 DEF SystemInv, PipeInv
  <2>3. /\ UnderWay' = UnderWay
        /\ \A i \in 1..UnderWay : SeqAt(i)' = SeqAt(i) /\ HashAt(i)' = HashAt(i)
    BY <2>1 DEF UnderWay, SeqAt, HashAt
  <2> QED BY <2>1, <2>2, <2>3, WayStays
<1>6. CASE SystemFault
  <2>1. /\ phase' # "open" /\ UnderWay' = 0 /\ PipeInv'
        /\ UNCHANGED <<view, chain, fork>>
    BY <1>6, FaultLoses DEF SystemFault, feed
  <2>2. SentInv'
    BY <2>1 DEF SystemInv, SentInv, WasSent
  <2> QED BY <2>1, <2>2 DEF NoGapInv, ResumeInv
<1> QED BY <1>1, <1>2, <1>3, <1>4, <1>5, <1>6 DEF SystemNext, Environment

LEMMA SystemTypePreserved ==
    ASSUME SystemInv, [SystemNext]_systemVars, TypeOK', PipeInv'
    PROVE  SystemTypeOK' /\ ChainInv'
<1>1. /\ chain \in Seq(Hashes) /\ Len(chain) \in 1..MaxTail /\ fork \in Hashes
      /\ floor \in 1..MaxTail /\ floor <= Len(chain)
      /\ \A s \in DOMAIN chain : chain[s] \in 0..fork
      /\ faults \in 0..MaxFaults /\ resumed \in BOOLEAN /\ dups \in Nat /\ stale \subseteq Seqs
      /\ MaxTail \in Nat /\ MaxFaults \in Nat
  BY FeedAssumption DEF SystemInv, SystemTypeOK, ChainInv
<1>2. pipe' \in Seq(EntryType)
  <2>1. Blocks \subseteq EntryType
    BY DEF Blocks, EntryType
  <2> QED BY <2>1 DEF PipeInv
<1>3. faults' \in 0..MaxFaults
  BY <1>1 DEF SystemNext, SystemOpen, SystemReceive, SystemStep, SystemRetry, Environment,
              FeedAppend, FeedReorg, FeedTrim, SystemFault, systemVars
<1>4. resumed' \in BOOLEAN /\ dups' \in Nat /\ stale' \subseteq Seqs
  <2>1. CASE SystemOpen
    <3>1. resumed' \in BOOLEAN
      BY <2>1 DEF SystemOpen, InBacklog
    <3>2. stale' \subseteq DOMAIN view /\ dups' = 0
      BY <2>1 DEF SystemOpen, Disagreements
    <3> QED BY <3>1, <3>2, SystemNumbers
  <2>2. CASE SystemStep
    BY <1>1, <2>2 DEF SystemStep
  <2>3. CASE UNCHANGED ghosts
    BY <1>1, <2>3 DEF ghosts
  <2> QED BY <2>1, <2>2, <2>3 DEF SystemNext, SystemReceive, SystemRetry, Environment,
              FeedAppend, FeedReorg, FeedTrim, SystemFault, systemVars
<1>5. CASE FeedAppend \/ \E s \in DOMAIN chain : FeedReorg(s)
  <2>1. /\ chain' \in Seq(Hashes) /\ Len(chain') \in 1..MaxTail /\ fork' \in Hashes
        /\ floor' \in 1..Len(chain')
        /\ \A s \in DOMAIN chain' : chain'[s] \in 0..fork'
    BY <1>5, BlockBuilt
  <2>2. floor' \in 1..MaxTail /\ floor' <= Len(chain')
    BY <1>1, <2>1
  <2> QED BY <1>2, <1>3, <1>4, <2>1, <2>2 DEF SystemTypeOK, ChainInv
<1>6. CASE FeedTrim
  <2>1. floor' = floor + 1 /\ floor < Len(chain) /\ UNCHANGED <<chain, fork>>
    BY <1>6 DEF FeedTrim
  <2>2. floor' \in 1..MaxTail /\ floor' <= Len(chain)
    BY <1>1, <2>1
  <2> QED BY <1>1, <1>2, <1>3, <1>4, <2>1, <2>2 DEF SystemTypeOK, ChainInv
<1>7. CASE UNCHANGED feed
  BY <1>1, <1>2, <1>3, <1>4, <1>7 DEF feed, SystemTypeOK, ChainInv
<1> QED BY <1>5, <1>6, <1>7 DEF SystemNext, SystemOpen, SystemReceive, SystemStep, SystemRetry,
        Environment, SystemFault, systemVars

LEMMA SystemInitInv == SystemInit => SystemInv
<1> SUFFICES ASSUME SystemInit PROVE SystemInv
  OBVIOUS
<1>1. /\ Init /\ SafetyInv /\ LiveInv /\ TypeOK
  BY SafetyInit, LiveInit DEF SystemInit, SafetyInv
<1>2. /\ frame = <<>> /\ phase = "closed" /\ DOMAIN view = {}
  BY EmptyViewIsPartial DEF SystemInit, Init
<1>3. /\ chain = <<0>> /\ fork = 0 /\ floor = 1 /\ pipe = <<>> /\ faults = 0
      /\ resumed = FALSE /\ dups = 0 /\ stale = {}
  BY DEF SystemInit
<1>4. /\ chain \in Seq(Hashes) /\ Len(chain) = 1 /\ DOMAIN chain = {1} /\ chain[1] = 0
      /\ fork \in Hashes
  BY <1>3, FeedAssumption
<1>5. UnderWay = 0 /\ pipe \in Seq(EntryType) /\ pipe \in Seq(Blocks) /\ DOMAIN frame = {}
  BY <1>2, <1>3 DEF UnderWay
<1>6. SystemTypeOK
  <2>1. MaxTail \in Nat /\ MaxFaults \in Nat /\ MaxTail >= 1
    BY FeedAssumption
  <2>2. Len(chain) \in 1..MaxTail /\ floor \in 1..MaxTail
    BY <1>3, <1>4, <2>1
  <2>3. faults \in 0..MaxFaults /\ dups \in Nat
    BY <1>3, <2>1
  <2>4. resumed \in BOOLEAN /\ stale \subseteq Seqs
    BY <1>3
  <2> QED BY <1>1, <1>4, <1>5, <2>2, <2>3, <2>4 DEF SystemTypeOK
<1>7. ChainInv
  BY <1>3, <1>4 DEF ChainInv
<1> QED BY <1>1, <1>2, <1>3, <1>5, <1>6, <1>7
        DEF SystemInv, PipeInv, SentInv, NoGapInv, ResumeInv

LEMMA SystemNextInv ==
    ASSUME SystemInv, [SystemNext]_systemVars
    PROVE  SystemInv'
<1>1. [Next]_vars
  BY SystemStepIsConsumers DEF SystemInv, PipeInv
<1>2. SafetyInv' /\ LiveInv' /\ TypeOK'
  BY <1>1, SafetyNext, LiveNext DEF SystemInv, SafetyInv
<1>3. PipeInv' /\ SentInv' /\ NoGapInv' /\ ResumeInv'
  BY WayPreserved
<1>4. SystemTypeOK' /\ ChainInv'
  BY <1>2, <1>3, SystemTypePreserved
<1> QED BY <1>2, <1>3, <1>4 DEF SystemInv

\* The inductive invariant of the consumer and its feed (consume.py:190-195, 385-437).
THEOREM SystemInvCorrect == SystemSpec => []SystemInv
BY SystemInitInv, SystemNextInv, PTL DEF SystemSpec

\* Connected to its feed the consumer takes its own steps alone, so that everything proved
\* of FeedConsumer holds of it there.
THEOREM SystemRunsConsumer == SystemSpec => Spec
<1>1. SystemInit => Init
  BY DEF SystemInit
<1>2. SystemInv /\ [SystemNext]_systemVars => [Next]_vars
  BY SystemStepIsConsumers DEF SystemInv, PipeInv
<1> QED BY <1>1, <1>2, SystemInvCorrect, PTL DEF SystemSpec, Spec

\* The feed, the connection and the history variables stay in their types.
THEOREM SystemTypeCorrect == SystemSpec => []SystemTypeOK
<1>1. SystemInv => SystemTypeOK
  BY DEF SystemInv
<1> QED BY <1>1, SystemInvCorrect, PTL

\* A reconnect that resumes where it left off brings one block a second time at most, however
\* the chain grows and reorgs meanwhile (consume.py:19-25, 190-195).
THEOREM OneDuplicateCorrect == SystemSpec => []OneDuplicatePerResume
<1>1. SystemInv => OneDuplicatePerResume
  BY DEF SystemInv, ResumeInv, OneDuplicatePerResume
<1> QED BY <1>1, SystemInvCorrect, PTL

\* When everything is read, the watermark is not below the tip of the feed's chain: nothing
\* above it was lost, dropped as a duplicate or not asked for (consume.py:190-195, 402-423).
THEOREM ReadToTheTip == SystemSpec => [](CaughtUp => Len(chain) <= highestSeq)
<1>1. SystemInv => (CaughtUp => Len(chain) <= highestSeq)
  BY DEF SystemInv, NoGapInv, CaughtUp, UnderWay
<1> QED BY <1>1, SystemInvCorrect, PTL

-----------------------------------------------------------------------------
(* How the picture can differ from the chain                               *)

\* What the chain has from block t on is on no older fork than g.
NoneOlder(t, g) == \A s \in DOMAIN chain : t <= s => g <= chain[s]

\* The chain's block s is under way behind entry i.
ComesAfter(i, s) == \E j \in 1..UnderWay : i < j /\ SeqAt(j) = s /\ HashAt(j) = chain[s]

ForkInv ==
    /\ chain[Len(chain)] = fork
    /\ \A s \in DOMAIN chain : NoneOlder(s, chain[s])
    /\ \A t \in DOMAIN view : NoneOlder(t, view[t])
    /\ \A i \in 1..UnderWay : NoneOlder(SeqAt(i), HashAt(i))
    /\ \A t \in DOMAIN hashes : WasSent(t, hashes[t])

\* What is under way goes from older forks to newer, and an entry that the chain has
\* replaced since is followed by the replacement.
OrderInv ==
    /\ \A i, j \in 1..UnderWay : i < j => HashAt(i) <= HashAt(j)
    /\ \A i \in 1..UnderWay :
          SeqAt(i) \in DOMAIN chain /\ HashAt(i) # chain[SeqAt(i)] => ComesAfter(i, SeqAt(i))

\* Once a block of the newest fork was handed over, the last that was is one, and only such
\* blocks are under way.
NewestInv ==
    (\E t \in DOMAIN hashes : hashes[t] = fork) =>
        /\ Has(highestSeq, fork)
        /\ \A i \in 1..UnderWay : HashAt(i) = fork

\* A block that the picture has wrong was passed over by the replay, is too deep to be
\* recognised, or has its replacement under way; nothing is held above the tip when all is
\* read, unless the replacement was not recognised.
AgreeInv ==
    phase = "open" =>
        /\ \A s \in DOMAIN view \cap DOMAIN chain :
              view[s] # chain[s] => s \in stale \/ s <= peak - ReorgWindow \/ ComesAfter(0, s)
        /\ UnderWay = 0 /\ ~Overtaken => highestSeq <= Len(chain)

MissedInv == SystemInv /\ ForkInv /\ OrderInv /\ NewestInv /\ AgreeInv

\* Forks and numbers are numbers.
LEMMA MissedNumbers ==
    ASSUME SystemInv
    PROVE  /\ fork \in Nat /\ Len(chain) \in Nat /\ Len(chain) >= 1
           /\ DOMAIN chain = 1..Len(chain) /\ \A s \in DOMAIN chain : chain[s] \in 0..fork
           /\ \A t \in DOMAIN view : view[t] \in 0..fork
           /\ \A i \in 1..UnderWay : HashAt(i) \in 0..fork
           /\ DOMAIN hashes \subseteq Int /\ peak \in Int /\ ReorgWindow \in Nat
<1>1. fork \in Nat /\ chain \in Seq(Hashes) /\ Len(chain) \in Nat /\ Len(chain) >= 1
  BY FeedAssumption DEF SystemInv, SystemTypeOK
<1>2. /\ \A s \in DOMAIN chain : chain[s] \in 0..fork
      /\ \A t \in DOMAIN view : view[t] \in 0..fork
      /\ \A i \in 1..UnderWay : HashAt(i) \in 0..fork
  BY DEF SystemInv, ChainInv, SentInv, WasSent
<1>3. DOMAIN hashes \subseteq Int /\ peak \in Int /\ ReorgWindow \in Nat
  BY SeqsAreIntegers, SizesAssumption, PartialFunctionElim DEF SystemInv, SafetyInv, TypeOK
<1> QED BY <1>1, <1>2, <1>3

\* What a turn makes of the hashes: nothing if it drops a block, which it does only to one
\* that it cannot tell from what was delivered.
LEMMA TurnRemembers ==
    ASSUME SystemInv, SystemStep
    PROVE  LET e == Head(frame) IN
           \/ /\ UNCHANGED <<view, highestSeq, hashes, peak>>
              /\ e.seq <= highestSeq /\ ~IsReorg(e)
           \/ /\ highestSeq' = e.seq /\ e.seq \in DOMAIN view' /\ view'[e.seq] = e.hash
              /\ peak' \in Int /\ peak <= peak'
              /\ \A t \in DOMAIN hashes' :
                    \/ t = e.seq /\ hashes'[t] = e.hash
                    \/ t \in DOMAIN hashes /\ hashes'[t] = hashes[t]
<1> DEFINE e == Head(frame)
<1>1. Turn /\ Step
  BY DEF SystemStep, Step, Reject, Duplicate, Reorg, Deliver
<1>2. /\ TypeOK /\ PipeInv /\ UNCHANGED pipe
  BY DEF SystemInv, SafetyInv, SystemStep
<1>3. e \in ItemType /\ e.accepted /\ e.seq \in Seqs
  BY <1>1, <1>2, TurnTakesFirst DEF ItemType
<1>4. e.hash \in Hashes /\ e.hash # NoHash
  <2>1. UnderWay >= 1 /\ UnderWay \in Nat /\ HashAt(1) = e.hash
    BY <1>1, <1>2, TurnTakesFirst, UnderWayType
  <2>2. HashAt(1) \in Hashes
    BY <1>2, <2>1, UnderWayType
  <2> QED BY <2>1, <2>2, HashesAssumption
<1>5. CASE Duplicate
  BY <1>5 DEF Duplicate, core, history
<1>6. ASSUME NEW r \in BOOLEAN, Yield(e, r)
      PROVE  /\ highestSeq' = e.seq /\ e.seq \in DOMAIN view' /\ view'[e.seq] = e.hash
             /\ peak' \in Int /\ peak <= peak'
             /\ \A t \in DOMAIN hashes' :
                    \/ t = e.seq /\ hashes'[t] = e.hash
                    \/ t \in DOMAIN hashes /\ hashes'[t] = hashes[t]
  <2>1. /\ highestSeq' = e.seq /\ view' = Absorbed(view, Message(e, r))
        /\ hashes' = Remembered(e) /\ peak' = IF e.seq > peak THEN e.seq ELSE peak
    BY <1>6 DEF Yield
  <2>2. /\ view \in PartialFunctions(Seqs, Hashes \cup {NoHash})
        /\ hashes \in PartialFunctions(Seqs, Hashes)
    BY <1>2 DEF TypeOK
  <2>3. e.seq \in Int /\ peak \in Int
    BY <1>2, <1>3, SeqsAreIntegers DEF TypeOK
  <2>e. e \in ItemType
    BY <1>3
  <2> HIDE DEF e
  <2>4. e.seq \in DOMAIN view' /\ view'[e.seq] = e.hash
    BY <2>e, <2>1, <2>2, AbsorbedMessage
  <2>5. /\ DOMAIN Remembered(e) \subseteq DOMAIN hashes \cup {e.seq}
        /\ \A s \in DOMAIN Remembered(e) :
              Remembered(e)[s] = IF s = e.seq THEN e.hash ELSE hashes[s]
    BY <1>4, <2>e, <2>2, RememberedKeeps
  <2> QED BY <2>1, <2>3, <2>4, <2>5
<1>7. CASE Reorg \/ Deliver
  <2>1. Yield(e, TRUE) \/ Yield(e, FALSE)
    BY <1>7 DEF Reorg, Deliver
  <2> QED BY <1>6, <2>1
<1>8. ~Reject
  BY <1>3, Zenon DEF Reject
<1> QED BY <1>1, <1>5, <1>7, <1>8 DEF Step

\* The chain's new block is on the newest fork, and whatever it replaces is followed by it.
LEMMA BlockMisses ==
    ASSUME MissedInv, FeedAppend \/ \E s \in DOMAIN chain : FeedReorg(s)
    PROVE  ForkInv' /\ OrderInv' /\ NewestInv' /\ AgreeInv'
<1>0. PICK tip : tip = Len(chain')
  OBVIOUS
<1>1. /\ tip \in Nat /\ tip >= 1 /\ DOMAIN chain' = 1..tip
      /\ fork' \in Nat /\ fork <= fork' /\ chain'[tip] = fork'
      /\ \A s \in DOMAIN chain' : s # tip => s \in DOMAIN chain /\ chain'[s] = chain[s]
      /\ pipe' = IF phase = "open" THEN Append(pipe, Wire(chain', tip)) ELSE pipe
      /\ Wire(chain', tip) \in Blocks
      /\ \A t \in Int : \A g : WasSent(t, g) => WasSent(t, g)'
      /\ UNCHANGED <<phase, frame, view, highestSeq, hashes, stale, peak>>
  <2>1. /\ tip \in 1..MaxTail /\ DOMAIN chain' = 1..tip
        /\ fork' \in Hashes /\ fork <= fork' /\ chain'[tip] = fork'
        /\ \A s \in DOMAIN chain' : s # tip => s \in DOMAIN chain /\ chain'[s] = chain[s]
        /\ pipe' = IF phase = "open" THEN Append(pipe, Wire(chain', tip)) ELSE pipe
        /\ Wire(chain', tip) \in Blocks
        /\ \A t \in Int : \A g : WasSent(t, g) => WasSent(t, g)'
        /\ UNCHANGED <<vars, ghosts>>
    <3>1. SystemInv
      BY DEF MissedInv
    <3> QED BY <1>0, <3>1, BlockBuilt
  <2>2. UNCHANGED <<phase, frame, view, highestSeq, hashes, stale, peak>>
    BY <2>1 DEF vars, core, history, ghosts
  <2>3. tip \in Nat /\ tip >= 1 /\ fork' \in Nat
    BY <2>1, FeedAssumption
  <2> QED BY <2>1, <2>2, <2>3
<1>2. /\ SystemInv /\ ForkInv /\ OrderInv /\ NewestInv /\ AgreeInv
      /\ TypeOK /\ PipeInv /\ UnderWay \in Nat
      /\ \A i \in 1..UnderWay : SeqAt(i) \in Int
      /\ DOMAIN view \subseteq Int /\ DOMAIN hashes \subseteq Int
      /\ fork \in Nat /\ \A s \in DOMAIN chain : chain[s] \in 0..fork
      /\ \A t \in DOMAIN view : view[t] \in 0..fork
      /\ \A i \in 1..UnderWay : HashAt(i) \in 0..fork
  BY SystemNumbers, MissedNumbers DEF MissedInv
<1>3. ASSUME NEW t \in Int, NEW g \in 0..fork, NoneOlder(t, g)
      PROVE  NoneOlder(t, g)'
  BY <1>1, <1>2, <1>3 DEF NoneOlder
<1>4. ASSUME NEW s \in DOMAIN chain'
      PROVE  NoneOlder(s, chain[s])'
  <2>1. CASE s = tip
    BY <1>1, <2>1 DEF NoneOlder
  <2>2. CASE s # tip
    <3>1. s \in DOMAIN chain /\ chain'[s] = chain[s] /\ s \in Int
      BY <1>1, <2>2
    <3>2. NoneOlder(s, chain[s]) /\ chain[s] \in 0..fork
      BY <1>2, <3>1 DEF ForkInv
    <3>3. \A x \in DOMAIN chain' : s <= x => chain[s] <= chain'[x]
      BY <1>1, <1>2, <3>1, <3>2 DEF NoneOlder
    <3> QED BY <3>1, <3>3 DEF NoneOlder
  <2> QED BY <2>1, <2>2
<1>5. \A t \in DOMAIN view : NoneOlder(t, view[t])'
  <2> SUFFICES ASSUME NEW t \in DOMAIN view PROVE NoneOlder(t, view[t])'
    OBVIOUS
  <2>1. t \in Int /\ view[t] \in 0..fork /\ NoneOlder(t, view[t]) /\ view'[t] = view[t]
    BY <1>1, <1>2 DEF ForkInv
  <2> QED BY <1>3, <2>1 DEF NoneOlder
<1>6. \A t \in DOMAIN hashes' : WasSent(t, hashes[t])'
  BY <1>1, <1>2 DEF ForkInv, WasSent
<1>7. ASSUME NEW g, g \in {hashes[t] : t \in DOMAIN hashes}, g = fork'
      PROVE  fork' = fork /\ \E t \in DOMAIN hashes : hashes[t] = fork
  <2>1. PICK t \in DOMAIN hashes : hashes[t] = g
    BY <1>7
  <2>2. g \in 0..fork
    BY <1>2, <2>1 DEF ForkInv, WasSent
  <2> QED BY <1>1, <1>2, <1>7, <2>1, <2>2
<1>8. CASE phase = "open"
  <2>1. /\ UnderWay' = UnderWay + 1
        /\ \A i \in 1..UnderWay : SeqAt(i)' = SeqAt(i) /\ HashAt(i)' = HashAt(i)
        /\ \A i : i = UnderWay + 1 => SeqAt(i)' = tip /\ HashAt(i)' = fork'
    BY <1>1, <1>2, <1>8, SentBehind DEF Wire
  <2>2. \A i \in 1..UnderWay' : i \in 1..UnderWay \/ i = UnderWay + 1
    BY <1>2, <2>1
  <2>3. \A i \in Int : i < UnderWay + 1 => ComesAfter(i, tip)'
    BY <1>1, <1>2, <2>1 DEF ComesAfter
  <2>4. ASSUME NEW i, NEW s \in DOMAIN chain', s # tip, ComesAfter(i, s)
        PROVE  ComesAfter(i, s)'
    <3>1. PICK j \in 1..UnderWay : i < j /\ SeqAt(j) = s /\ HashAt(j) = chain[s]
      BY <2>4 DEF ComesAfter
    <3>2. j \in 1..UnderWay' /\ SeqAt(j)' = s /\ HashAt(j)' = chain'[s]
      BY <1>1, <1>2, <2>1, <2>4, <3>1
    <3> QED BY <3>1, <3>2 DEF ComesAfter
  <2>5. ForkInv'
    <3>1. ASSUME NEW i \in 1..UnderWay'
          PROVE  NoneOlder(SeqAt(i), HashAt(i))'
      <4>1. CASE i \in 1..UnderWay
        <5>1. /\ SeqAt(i)' = SeqAt(i) /\ HashAt(i)' = HashAt(i)
              /\ SeqAt(i) \in Int /\ HashAt(i) \in 0..fork /\ NoneOlder(SeqAt(i), HashAt(i))
          BY <1>2, <2>1, <4>1 DEF ForkInv
        <5>2. \A x \in DOMAIN chain' : SeqAt(i) <= x => HashAt(i) <= chain'[x]
          BY <1>1, <1>2, <5>1 DEF NoneOlder
        <5> QED BY <5>1, <5>2 DEF NoneOlder
      <4>2. CASE i = UnderWay + 1
        <5>1. \A x \in DOMAIN chain' : tip <= x => fork' <= chain'[x]
          BY <1>1
        <5> QED BY <2>1, <4>2, <5>1 DEF NoneOlder
      <4> QED BY <2>2, <4>1, <4>2
    <3>2. chain'[Len(chain')] = fork'
      BY <1>0, <1>1
    <3>3. \A t \in DOMAIN view' : NoneOlder(t, view[t])'
      BY <1>1, <1>5
    <3> QED BY <1>4, <1>6, <3>1, <3>2, <3>3 DEF ForkInv
  <2>6. OrderInv'
    <3>1. ASSUME NEW i \in 1..UnderWay', NEW j \in 1..UnderWay', i < j
          PROVE  HashAt(i)' <= HashAt(j)'
      <4>1. i \in 1..UnderWay
        BY <1>2, <2>1, <3>1
      <4>2. CASE j \in 1..UnderWay
        BY <1>2, <2>1, <3>1, <4>1, <4>2 DEF OrderInv
      <4>3. CASE j = UnderWay + 1
        BY <1>1, <1>2, <2>1, <4>1, <4>3
      <4> QED BY <2>2, <4>2, <4>3
    <3>2. ASSUME NEW i \in 1..UnderWay', SeqAt(i)' \in DOMAIN chain',
                 HashAt(i)' # chain'[SeqAt(i)']
          PROVE  ComesAfter(i, SeqAt(i))'
      <4>1. CASE i = UnderWay + 1
        BY <1>1, <2>1, <3>2, <4>1
      <4>2. CASE i \in 1..UnderWay /\ SeqAt(i) = tip
        <5>1. i < UnderWay + 1 /\ i \in Int /\ SeqAt(i)' = tip
          BY <1>2, <2>1, <4>2
        <5>2. ComesAfter(i, tip)'
          BY <2>3, <5>1
        <5> QED BY <5>1, <5>2 DEF ComesAfter
      <4>3. CASE i \in 1..UnderWay /\ SeqAt(i) # tip
        <5>1. /\ SeqAt(i)' = SeqAt(i) /\ HashAt(i)' = HashAt(i)
              /\ SeqAt(i) \in DOMAIN chain /\ SeqAt(i) \in DOMAIN chain'
              /\ HashAt(i) # chain[SeqAt(i)]
          BY <1>1, <2>1, <3>2, <4>3
        <5>2. ComesAfter(i, SeqAt(i))
          BY <1>2, <4>3, <5>1 DEF OrderInv
        <5>3. PICK s \in DOMAIN chain' : s = SeqAt(i)
          BY <5>1
        <5>4. ComesAfter(i, s)'
          BY <2>4, <4>3, <5>2, <5>3
        <5> QED BY <5>1, <5>3, <5>4 DEF ComesAfter
      <4> QED BY <2>2, <4>1, <4>2, <4>3
    <3> QED BY <3>1, <3>2 DEF OrderInv
  <2>7. NewestInv'
    <3> SUFFICES ASSUME NEW t \in DOMAIN hashes', hashes'[t] = fork'
                 PROVE  Has(highestSeq, fork)' /\ \A i \in 1..UnderWay' : HashAt(i)' = fork'
      BY DEF NewestInv
    <3>1. fork' = fork /\ \E x \in DOMAIN hashes : hashes[x] = fork
      BY <1>1, <1>7
    <3>2. Has(highestSeq, fork) /\ \A i \in 1..UnderWay : HashAt(i) = fork
      BY <1>2, <3>1 DEF NewestInv
    <3>3. Has(highestSeq, fork)'
      BY <1>1, <3>1, <3>2 DEF Has
    <3> QED BY <2>1, <2>2, <3>1, <3>2, <3>3
  <2>8. AgreeInv'
    <3>1. ASSUME NEW s \in DOMAIN view' \cap DOMAIN chain', view'[s] # chain'[s]
          PROVE  s \in stale' \/ s <= peak' - ReorgWindow \/ ComesAfter(0, s)'
      <4>1. CASE s = tip
        <5>1. 0 < UnderWay + 1 /\ 0 \in Int
          BY <1>2
        <5> QED BY <2>3, <4>1, <5>1 DEF ComesAfter
      <4>2. CASE s # tip
        <5>1. s \in DOMAIN view \cap DOMAIN chain /\ view[s] # chain[s]
          BY <1>1, <3>1, <4>2
        <5>2. s \in stale \/ s <= peak - ReorgWindow \/ ComesAfter(0, s)
          BY <1>2, <1>8, <5>1 DEF AgreeInv
        <5> QED BY <1>1, <2>4, <3>1, <4>2, <5>2
      <4> QED BY <4>1, <4>2
    <3>2. UnderWay' # 0
      BY <1>2, <2>1
    <3> QED BY <3>1, <3>2 DEF AgreeInv
  <2> QED BY <2>5, <2>6, <2>7, <2>8
<1>9. CASE phase # "open"
  <2>1. frame = <<>> /\ pipe = <<>>
    BY <1>2, <1>9 DEF SystemInv, LiveInv, OnlyOpenReads, PipeInv
  <2>2. frame' = <<>> /\ pipe' = <<>> /\ UnderWay' = 0 /\ phase' # "open"
    BY <1>1, <1>9, <2>1 DEF UnderWay
  <2>3. NewestInv'
    <3> SUFFICES ASSUME NEW t \in DOMAIN hashes', hashes'[t] = fork'
                 PROVE  Has(highestSeq, fork)'
      BY <2>2 DEF NewestInv
    <3>1. fork' = fork /\ \E x \in DOMAIN hashes : hashes[x] = fork
      BY <1>1, <1>7
    <3>2. Has(highestSeq, fork)
      BY <1>2, <3>1 DEF NewestInv
    <3> QED BY <1>1, <3>1, <3>2 DEF Has
  <2>4. ForkInv'
    <3>1. chain'[Len(chain')] = fork'
      BY <1>0, <1>1
    <3>2. \A t \in DOMAIN view' : NoneOlder(t, view[t])'
      BY <1>1, <1>5
    <3> QED BY <1>4, <1>6, <2>2, <3>1, <3>2 DEF ForkInv
  <2> QED BY <2>2, <2>3, <2>4 DEF OrderInv, AgreeInv
<1> QED BY <1>8, <1>9

\* A step that moves nothing under way, no picture and no chain.
LEMMA NothingMisses ==
    ASSUME MissedInv, UnderWay' = UnderWay,
           \A i \in 1..UnderWay : SeqAt(i)' = SeqAt(i) /\ HashAt(i)' = HashAt(i),
           UNCHANGED <<view, highestSeq, hashes, peak, chain, fork, stale>>,
           phase' = "open" => phase = "open"
    PROVE  ForkInv' /\ OrderInv' /\ NewestInv' /\ AgreeInv'
<1>1. ForkInv /\ OrderInv /\ NewestInv /\ AgreeInv
  BY DEF MissedInv
<1>2. \A t, g : NoneOlder(t, g)' <=> NoneOlder(t, g)
  BY DEF NoneOlder
<1>3. \A t, g : WasSent(t, g)' <=> WasSent(t, g)
  BY DEF WasSent
<1>4. \A i, s : ComesAfter(i, s)' <=> ComesAfter(i, s)
  BY DEF ComesAfter
<1>5. ForkInv'
  <2>1. \A t \in DOMAIN view' : NoneOlder(t, view[t])'
    BY <1>1 DEF ForkInv, NoneOlder
  <2>2. \A i \in 1..UnderWay' : NoneOlder(SeqAt(i), HashAt(i))'
    BY <1>1 DEF ForkInv, NoneOlder
  <2>3. \A s \in DOMAIN chain' : NoneOlder(s, chain[s])'
    BY <1>1 DEF ForkInv, NoneOlder
  <2>4. \A t \in DOMAIN hashes' : WasSent(t, hashes[t])'
    BY <1>1 DEF ForkInv, WasSent
  <2> QED BY <1>1, <2>1, <2>2, <2>3, <2>4 DEF ForkInv
<1>6. OrderInv'
  <2>1. ASSUME NEW i \in 1..UnderWay, SeqAt(i) \in DOMAIN chain, HashAt(i) # chain[SeqAt(i)]
        PROVE  ComesAfter(i, SeqAt(i))'
    <3>1. ComesAfter(i, SeqAt(i))
      BY <1>1, <2>1 DEF OrderInv
    <3> QED BY <3>1 DEF ComesAfter
  <2> QED BY <1>1, <2>1 DEF OrderInv
<1>7. NewestInv'
  BY <1>1 DEF NewestInv, Has
<1>8. AgreeInv'
  BY <1>1, <1>4 DEF AgreeInv, Overtaken
<1> QED BY <1>5, <1>6, <1>7, <1>8

\* A connection brings the chain as it is, from below which the replay passes over what
\* differs.
LEMMA OpenMisses ==
    ASSUME MissedInv, SystemOpen
    PROVE  ForkInv' /\ OrderInv' /\ NewestInv' /\ AgreeInv'
<1> DEFINE from == ReplayFrom
<1>0. PICK count : count = Len(chain) - from + 1
  OBVIOUS
<1>1. /\ SystemInv /\ ForkInv /\ NewestInv
      /\ fork \in Nat /\ Len(chain) \in Nat /\ DOMAIN chain = 1..Len(chain)
      /\ \A s \in DOMAIN chain : chain[s] \in 0..fork
      /\ DOMAIN view \subseteq Int /\ highestSeq \in Int
      /\ floor \in Nat /\ floor >= 1 /\ floor <= Len(chain)
  BY SystemNumbers, MissedNumbers, FeedAssumption
     DEF MissedInv, SystemInv, SystemTypeOK, ChainInv
<1>2. /\ UNCHANGED <<highestSeq, view, hashes, peak, chain, fork>>
      /\ from \in floor..Len(chain) /\ UnderWay' = count
      /\ \A i \in 1..count : SeqAt(i)' = from + i - 1 /\ HashAt(i)' = chain[from + i - 1]
      /\ stale' = {s \in Disagreements : s < from}
  BY <1>0, <1>1, OpenBrings DEF SystemOpen, Open, core, history, feed
<1>3. from \in Int /\ count \in Nat /\ count >= 1
  BY <1>0, <1>1, <1>2
<1>4. from = highestSeq \/ highestSeq \notin floor..Len(chain)
  BY DEF from, ReplayFrom, InBacklog, Requested
<1> HIDE DEF from
<1>5. ASSUME NEW i \in 1..count
      PROVE  /\ from + i - 1 \in DOMAIN chain /\ from + i - 1 >= floor
             /\ SeqAt(i)' = from + i - 1 /\ HashAt(i)' = chain[from + i - 1]
  BY <1>0, <1>1, <1>2, <1>3
<1>6. ForkInv'
  <2>1. ASSUME NEW i \in 1..UnderWay' PROVE NoneOlder(SeqAt(i), HashAt(i))'
    <3>1. PICK s \in DOMAIN chain : s = from + i - 1
      BY <1>2, <1>5, <2>1
    <3>2. SeqAt(i)' = s /\ HashAt(i)' = chain[s] /\ NoneOlder(s, chain[s])
      BY <1>1, <1>2, <1>5, <2>1, <3>1 DEF ForkInv
    <3> QED BY <1>2, <3>2 DEF NoneOlder
  <2> QED BY <1>1, <1>2, <2>1 DEF ForkInv, NoneOlder, WasSent
<1>7. OrderInv'
  <2>1. ASSUME NEW i \in 1..count, NEW j \in 1..count, i < j
        PROVE  HashAt(i)' <= HashAt(j)'
    <3>1. PICK s \in DOMAIN chain : s = from + i - 1
      BY <1>5
    <3>2. PICK t \in DOMAIN chain : t = from + j - 1
      BY <1>5
    <3>3. s <= t
      BY <1>3, <2>1, <3>1, <3>2
    <3>4. chain[s] <= chain[t]
      BY <1>1, <3>3 DEF ForkInv, NoneOlder
    <3> QED BY <1>5, <3>1, <3>2, <3>4
  <2>2. \A i \in 1..UnderWay' : HashAt(i)' = chain'[SeqAt(i)']
    BY <1>2, <1>5
  <2> QED BY <1>2, <2>1, <2>2 DEF OrderInv
<1>8. NewestInv'
  <2> SUFFICES ASSUME NEW t \in DOMAIN hashes, hashes[t] = fork
               PROVE  Has(highestSeq, fork)' /\ \A i \in 1..count : HashAt(i)' = fork
    BY <1>2 DEF NewestInv
  <2>1. Has(highestSeq, fork)
    BY <1>1 DEF NewestInv
  <2>2. /\ highestSeq <= Len(chain)
        /\ \A s \in DOMAIN chain : highestSeq <= s => fork <= chain[s]
    BY <1>1, <2>1 DEF Has, SystemInv, SentInv, WasSent, ForkInv, NoneOlder
  <2>3. highestSeq <= from
    BY <1>1, <1>2, <1>4, <2>2
  <2>4. ASSUME NEW i \in 1..count PROVE HashAt(i)' = fork
    <3>1. PICK s \in DOMAIN chain : s = from + i - 1
      BY <1>5
    <3>2. highestSeq <= s
      BY <1>1, <1>3, <2>3, <3>1
    <3>3. fork <= chain[s] /\ chain[s] \in 0..fork
      BY <1>1, <2>2, <3>2
    <3> QED BY <1>1, <1>5, <3>1, <3>3
  <2> QED BY <1>2, <2>1, <2>4 DEF Has
<1>9. AgreeInv'
  <2>1. ASSUME NEW s \in DOMAIN view \cap DOMAIN chain, view[s] # chain[s]
        PROVE  s \in stale' \/ ComesAfter(0, s)'
    <3>1. CASE s < from
      BY <1>2, <2>1, <3>1 DEF Disagreements
    <3>2. CASE ~(s < from)
      <4>1. PICK j \in 1..count : j = s - from + 1
        BY <1>0, <1>1, <1>3, <3>2
      <4>2. from + j - 1 = s /\ 0 < j
        BY <1>1, <1>3, <4>1
      <4>3. SeqAt(j)' = s /\ HashAt(j)' = chain'[s]
        BY <1>2, <1>5, <4>2
      <4> QED BY <1>2, <4>2, <4>3 DEF ComesAfter
    <3> QED BY <3>1, <3>2
  <2>2. UnderWay' # 0
    BY <1>2, <1>3
  <2> QED BY <1>2, <2>1, <2>2 DEF AgreeInv
<1> QED BY <1>6, <1>7, <1>8, <1>9

\* A turn of the loop: what it puts into the picture wrong is followed by what is right, and
\* it drops the right block only if the wrong one is too deep to be recognised.
LEMMA StepMisses ==
    ASSUME MissedInv, SystemStep
    PROVE  ForkInv' /\ OrderInv' /\ NewestInv' /\ AgreeInv'
<1>0. PICK e : e = Head(frame)
  OBVIOUS
<1>1. /\ Turn /\ phase = "open" /\ phase' = "open" /\ UNCHANGED <<pipe, chain, fork, stale>>
      /\ \A t \in DOMAIN view' :
            \/ t = e.seq /\ view'[t] = e.hash
            \/ t \in DOMAIN view /\ view'[t] = view[t]
  BY <1>0, TurnHolds DEF MissedInv, Turn, SystemStep
<1>2. /\ SystemInv /\ ForkInv /\ OrderInv /\ NewestInv /\ AgreeInv
      /\ TypeOK /\ PipeInv
      /\ UnderWay \in Nat /\ Len(chain) \in Nat /\ highestSeq \in Int
      /\ \A i \in 1..UnderWay : SeqAt(i) \in Int
      /\ DOMAIN view \subseteq Int /\ fork \in Nat /\ DOMAIN chain = 1..Len(chain)
      /\ Len(chain) >= 1
      /\ \A s \in DOMAIN chain : chain[s] \in 0..fork
      /\ \A i \in 1..UnderWay : HashAt(i) \in 0..fork
      /\ peak \in Int /\ ReorgWindow \in Nat
  BY SystemNumbers, MissedNumbers DEF MissedInv
<1>3. /\ UnderWay >= 1 /\ UnderWay' = UnderWay - 1
      /\ \A i \in 1..(UnderWay - 1) : SeqAt(i)' = SeqAt(i + 1) /\ HashAt(i)' = HashAt(i + 1)
      /\ SeqAt(1) = e.seq /\ HashAt(1) = e.hash
  BY <1>0, <1>1, <1>2, TurnTakesFirst
<1>4. \/ /\ UNCHANGED <<view, highestSeq, hashes, peak>>
         /\ e.seq <= highestSeq /\ ~IsReorg(e)
      \/ /\ highestSeq' = e.seq /\ e.seq \in DOMAIN view' /\ view'[e.seq] = e.hash
         /\ peak' \in Int /\ peak <= peak'
         /\ \A t \in DOMAIN hashes' :
               \/ t = e.seq /\ hashes'[t] = e.hash
               \/ t \in DOMAIN hashes /\ hashes'[t] = hashes[t]
  BY <1>0, <1>2, TurnRemembers
<1>5. /\ \A i \in 1..UnderWay' : i + 1 \in 1..UnderWay /\ i \in 1..(UnderWay - 1)
      /\ 1 \in 1..UnderWay /\ e.seq \in Int /\ e.hash \in 0..fork
  BY <1>2, <1>3
\* Behind the first, everything moves up one place.
<1>6. ASSUME NEW i \in Nat, NEW s, ComesAfter(i + 1, s)
      PROVE  ComesAfter(i, s)'
  <2>1. PICK j \in 1..UnderWay : i + 1 < j /\ SeqAt(j) = s /\ HashAt(j) = chain[s]
    BY <1>6 DEF ComesAfter
  <2>2. PICK k \in 1..(UnderWay - 1) : k + 1 = j
    BY <1>2, <2>1
  <2>3. i < k /\ SeqAt(k)' = s /\ HashAt(k)' = chain[s]
    BY <1>3, <2>1, <2>2
  <2> QED BY <1>1, <1>3, <2>3 DEF ComesAfter
<1>7. ForkInv'
  <2>1. \A i \in 1..UnderWay' : NoneOlder(SeqAt(i), HashAt(i))'
    BY <1>1, <1>2, <1>3, <1>5 DEF ForkInv, NoneOlder
  <2>2. NoneOlder(e.seq, e.hash) /\ WasSent(e.seq, e.hash)
    BY <1>2, <1>3, <1>5 DEF ForkInv, SystemInv, SentInv
  <2>3. \A t \in DOMAIN view' : NoneOlder(t, view[t])'
    BY <1>1, <1>2, <2>2 DEF ForkInv, NoneOlder
  <2>4. ASSUME NEW t \in DOMAIN hashes' PROVE WasSent(t, hashes[t])'
    <3>1. \/ t = e.seq /\ hashes'[t] = e.hash
          \/ t \in DOMAIN hashes /\ hashes'[t] = hashes[t]
      BY <1>4
    <3> QED BY <1>1, <1>2, <2>2, <3>1 DEF ForkInv, WasSent
  <2>5. \A s \in DOMAIN chain' : NoneOlder(s, chain[s])'
    BY <1>1, <1>2 DEF ForkInv, NoneOlder
  <2> QED BY <1>1, <1>2, <2>1, <2>3, <2>4, <2>5 DEF ForkInv
<1>8. OrderInv'
  <2>1. ASSUME NEW i \in 1..UnderWay', NEW j \in 1..UnderWay', i < j
        PROVE  HashAt(i)' <= HashAt(j)'
    <3>1. i + 1 \in 1..UnderWay /\ j + 1 \in 1..UnderWay /\ i + 1 < j + 1
      BY <1>5, <2>1
    <3>2. HashAt(i + 1) <= HashAt(j + 1)
      BY <1>2, <3>1 DEF OrderInv
    <3> QED BY <1>3, <1>5, <3>2
  <2>2. ASSUME NEW i \in 1..UnderWay', SeqAt(i)' \in DOMAIN chain',
               HashAt(i)' # chain'[SeqAt(i)']
        PROVE  ComesAfter(i, SeqAt(i))'
    <3>1. PICK s : s = SeqAt(i + 1)
      OBVIOUS
    <3>2. /\ i + 1 \in 1..UnderWay /\ SeqAt(i)' = s /\ s \in DOMAIN chain
          /\ HashAt(i + 1) # chain[s]
      BY <1>1, <1>3, <1>5, <2>2, <3>1
    <3>3. ComesAfter(i + 1, s)
      BY <1>2, <3>1, <3>2 DEF OrderInv
    <3>4. ComesAfter(i, s)'
      BY <1>6, <3>3
    <3> QED BY <3>2, <3>4 DEF ComesAfter
  <2> QED BY <2>1, <2>2 DEF OrderInv
<1>9. NewestInv'
  <2> SUFFICES ASSUME NEW t \in DOMAIN hashes', hashes'[t] = fork
               PROVE  Has(highestSeq, fork)' /\ \A i \in 1..UnderWay' : HashAt(i)' = fork
    BY <1>1 DEF NewestInv
  <2>1. (t \in DOMAIN hashes /\ hashes[t] = fork) \/ (e.hash = fork /\ highestSeq' = e.seq)
    BY <1>4
  <2>2. e.hash = fork
    BY <1>2, <1>3, <1>5, <2>1 DEF NewestInv
  <2>3. \A i \in 1..UnderWay' : HashAt(i)' = fork
    <3> SUFFICES ASSUME NEW i \in 1..UnderWay' PROVE HashAt(i + 1) = fork
      BY <1>3, <1>5
    <3>1. 1 < i + 1 /\ i + 1 \in 1..UnderWay /\ HashAt(1) = fork
      BY <1>3, <1>5, <2>2
    <3>2. HashAt(1) <= HashAt(i + 1) /\ HashAt(i + 1) \in 0..fork
      BY <1>2, <1>5, <3>1 DEF OrderInv
    <3> QED BY <1>2, <3>1, <3>2
  <2>4. Has(highestSeq, fork)'
    <3>1. CASE highestSeq' = e.seq /\ e.seq \in DOMAIN view' /\ view'[e.seq] = e.hash
      BY <1>1, <2>2, <3>1 DEF Has
    <3>2. CASE UNCHANGED <<view, highestSeq, hashes, peak>>
      BY <1>1, <1>2, <3>2 DEF NewestInv, Has
    <3> QED BY <1>4, <3>1, <3>2
  <2> QED BY <2>3, <2>4
\* A block that is dropped is in the picture already, or its place is too deep.
<1>10. ASSUME UNCHANGED <<view, highestSeq, hashes, peak>>, ~IsReorg(e)
       PROVE  /\ e.seq \in DOMAIN view =>
                    view[e.seq] = e.hash \/ e.seq <= peak - ReorgWindow
              /\ e.seq \in DOMAIN hashes => hashes[e.seq] = e.hash
  <2>1. e.hash # NoHash /\ \A s \in DOMAIN view : view[s] # NoHash
    <3>1. 0..fork \subseteq Hashes
      BY FeedAssumption, <1>2 DEF SystemInv, SystemTypeOK
    <3>2. \A s \in DOMAIN view : view[s] \in Hashes
      BY <1>2, <3>1 DEF SystemInv, SentInv, WasSent
    <3> QED BY <1>5, <3>1, <3>2, HashesAssumption
  <2>2. e.seq \in DOMAIN hashes => hashes[e.seq] = e.hash
    BY <1>10, <2>1 DEF IsReorg
  <2>3. ASSUME e.seq \in DOMAIN view, ~(e.seq <= peak - ReorgWindow)
        PROVE  view[e.seq] = e.hash
    <3>1. e.seq \in DOMAIN hashes
      BY <1>2, <1>5, <2>1, <2>3 DEF SystemInv, SafetyInv, WindowRemembered
    <3>2. view[e.seq] = hashes[e.seq]
      BY <1>2, <2>1, <2>3, <3>1 DEF SystemInv, SafetyInv, HashesMatchView
    <3> QED BY <2>2, <3>1, <3>2
  <2> QED BY <2>2, <2>3
<1>11. ASSUME NEW s \in DOMAIN view' \cap DOMAIN chain', view'[s] # chain'[s]
       PROVE  s \in stale' \/ s <= peak' - ReorgWindow \/ ComesAfter(0, s)'
  <2>0. s \in DOMAIN chain /\ view'[s] # chain[s] /\ s \in Int /\ 0 \in Nat
    BY <1>1, <1>2, <1>11
  <2>1. CASE s = e.seq /\ view'[s] = e.hash
    <3>1. ComesAfter(1, s)
      BY <1>2, <1>3, <1>5, <2>0, <2>1 DEF OrderInv
    <3> QED BY <1>6, <2>0, <3>1
  <2>2. CASE s \in DOMAIN view /\ view'[s] = view[s] /\ ~(s = e.seq /\ view'[s] = e.hash)
    <3>1. s \in stale \/ s <= peak - ReorgWindow \/ ComesAfter(0, s)
      BY <1>1, <1>2, <2>0, <2>2 DEF AgreeInv
    <3>2. peak' \in Int /\ peak <= peak'
      BY <1>2, <1>4
    <3>3. s <= peak - ReorgWindow => s <= peak' - ReorgWindow
      BY <1>2, <2>0, <3>2
    <3>4. ASSUME ComesAfter(0, s)
          PROVE  s <= peak' - ReorgWindow \/ ComesAfter(0, s)'
      <4>1. PICK j \in 1..UnderWay : SeqAt(j) = s /\ HashAt(j) = chain[s]
        BY <3>4 DEF ComesAfter
      <4>2. CASE j = 1
        <5>1. s = e.seq /\ e.hash = chain[s]
          BY <1>3, <4>1, <4>2
        <5>2. UNCHANGED <<view, highestSeq, hashes, peak>> /\ ~IsReorg(e)
          BY <1>4, <2>0, <5>1
        <5> QED BY <1>10, <2>0, <2>2, <5>1, <5>2
      <4>3. CASE j # 1
        <5>1. 0 + 1 < j
          BY <4>3
        <5>2. ComesAfter(0 + 1, s)
          BY <4>1, <5>1 DEF ComesAfter
        <5> QED BY <1>6, <5>2
      <4> QED BY <4>2, <4>3
    <3> QED BY <1>1, <3>1, <3>3, <3>4
  <2> QED BY <1>1, <1>11, <2>1, <2>2
<1>12. ASSUME UnderWay' = 0, ~Overtaken'
       PROVE  highestSeq' <= Len(chain)'
  <2>1. UnderWay = 1 /\ e.seq = Len(chain)
    BY <1>1, <1>2, <1>3, <1>12 DEF SystemInv, NoGapInv
  <2>2. CASE highestSeq' = e.seq
    BY <1>1, <1>2, <2>1, <2>2
  <2>3. CASE UNCHANGED <<view, highestSeq, hashes, peak>> /\ ~IsReorg(e)
    <3> SUFFICES ASSUME highestSeq > Len(chain) PROVE FALSE
      BY <1>1, <1>2, <2>3
    <3>1. Len(chain) \in DOMAIN hashes
      BY <1>1, <1>12, <2>3 DEF Overtaken
    <3>2. hashes[Len(chain)] = e.hash
      BY <1>10, <2>1, <2>3, <3>1
    <3>3. e.hash = chain[Len(chain)]
      <4>1. Len(chain) \in DOMAIN chain /\ ~ComesAfter(1, Len(chain))
        BY <1>2, <2>1 DEF ComesAfter
      <4> QED BY <1>2, <1>3, <1>5, <2>1, <4>1 DEF OrderInv
    <3>4. Has(highestSeq, fork)
      BY <1>2, <3>1, <3>2, <3>3 DEF ForkInv, NewestInv
    <3> QED BY <1>2, <3>4 DEF Has, SystemInv, SentInv, WasSent
  <2> QED BY <1>4, <2>2, <2>3
<1>13. AgreeInv'
  BY <1>11, <1>12 DEF AgreeInv
<1> QED BY <1>7, <1>8, <1>9, <1>13

LEMMA MissedInitInv == SystemInit => MissedInv
<1> SUFFICES ASSUME SystemInit PROVE MissedInv
  OBVIOUS
<1>1. SystemInv
  BY SystemInitInv
<1>2. /\ frame = <<>> /\ pipe = <<>> /\ phase = "closed" /\ chain = <<0>> /\ fork = 0
      /\ DOMAIN view = {} /\ DOMAIN hashes = {}
  BY EmptyViewIsPartial DEF SystemInit, Init
<1>3. UnderWay = 0 /\ Len(chain) = 1 /\ chain[1] = 0 /\ DOMAIN chain = {1}
  BY <1>2 DEF UnderWay
<1>4. ForkInv
  BY <1>2, <1>3 DEF ForkInv, NoneOlder
<1> QED BY <1>1, <1>2, <1>3, <1>4 DEF MissedInv, OrderInv, NewestInv, AgreeInv

LEMMA MissedNextInv ==
    ASSUME MissedInv, [SystemNext]_systemVars
    PROVE  MissedInv'
<1>1. SystemInv /\ SystemInv'
  BY SystemNextInv DEF MissedInv
<1>2. CASE SystemOpen
  BY <1>1, <1>2, OpenMisses DEF MissedInv
<1>3. CASE SystemStep
  BY <1>1, <1>3, StepMisses DEF MissedInv
<1>4. CASE FeedAppend \/ \E s \in DOMAIN chain : FeedReorg(s)
  BY <1>1, <1>4, BlockMisses DEF MissedInv
<1>5. CASE SystemReceive
  <2>1. UNCHANGED <<highestSeq, hashes, view, peak, chain, fork, stale>>
    BY <1>5 DEF SystemReceive, Receive, core, history, feed, ghosts
  <2>2. /\ phase = "open" /\ UnderWay' = UnderWay
        /\ \A i \in 1..UnderWay : SeqAt(i)' = SeqAt(i) /\ HashAt(i)' = HashAt(i)
    BY <1>1, <1>5, ReadInPlace, SystemNumbers
  <2>3. ForkInv' /\ OrderInv' /\ NewestInv' /\ AgreeInv'
    BY <2>1, <2>2, NothingMisses
  <2> QED BY <1>1, <2>3 DEF MissedInv
<1>6. CASE SystemRetry \/ FeedTrim \/ UNCHANGED systemVars
  <2>1. /\ UNCHANGED <<frame, pipe, view, highestSeq, hashes, peak, chain, fork, stale>>
        /\ phase' = phase \/ (phase # "open" /\ phase' = "connecting")
    BY <1>6 DEF SystemRetry, Call, Wake, FeedTrim, systemVars, vars, core, history, feed, ghosts
  <2>2. /\ UnderWay' = UnderWay
        /\ \A i \in 1..UnderWay : SeqAt(i)' = SeqAt(i) /\ HashAt(i)' = HashAt(i)
    BY <2>1 DEF UnderWay, SeqAt, HashAt
  <2>3. ForkInv' /\ OrderInv' /\ NewestInv' /\ AgreeInv'
    BY <2>1, <2>2, NothingMisses
  <2> QED BY <1>1, <2>3 DEF MissedInv
<1>7. CASE SystemFault
  <2>1. /\ phase' # "open" /\ UnderWay' = 0
        /\ UNCHANGED <<view, highestSeq, hashes, chain, fork>>
    BY <1>1, <1>7, FaultLoses
       DEF SystemFault, ConnectFails, Drop, CleanClose, Close, core, history, feed
  <2>2. ForkInv'
    BY <2>1 DEF MissedInv, ForkInv, NoneOlder, WasSent
  <2>3. NewestInv'
    BY <2>1 DEF MissedInv, NewestInv, Has
  <2> QED BY <1>1, <2>1, <2>2, <2>3 DEF MissedInv, OrderInv, AgreeInv
<1> QED BY <1>2, <1>3, <1>4, <1>5, <1>6, <1>7 DEF SystemNext, Environment

\* The inductive invariant of what the picture and the chain can differ in
\* (consume.py:190-195, 402-446).
THEOREM MissedInvCorrect == SystemSpec => []MissedInv
BY MissedInitInv, MissedNextInv, PTL DEF SystemSpec

\* When everything is read, what the caller has wrong was replaced during an outage below the
\* number asked for, or deeper than hashes are remembered (consume.py:190-195, 425-446).
THEOREM MissedCorrect == SystemSpec => []OnlyOutageReorgsAreMissed
<1>1. MissedInv => OnlyOutageReorgsAreMissed
  <2> SUFFICES ASSUME MissedInv, CaughtUp, ~Overtaken, NEW s \in Disagreements
               PROVE  s \in stale \/ s <= peak - ReorgWindow
    BY DEF OnlyOutageReorgsAreMissed
  <2>1. /\ DOMAIN chain = 1..Len(chain) /\ DOMAIN view \subseteq Int /\ Len(chain) \in Nat
        /\ DOMAIN view \subseteq Seqs /\ highestSeq \in Int
    BY SystemNumbers, MissedNumbers DEF MissedInv
  <2>2. phase = "open" /\ UnderWay = 0
    BY DEF CaughtUp, UnderWay
  <2>3. highestSeq <= Len(chain)
    BY <2>2 DEF MissedInv, AgreeInv
  <2>4. s \in DOMAIN view /\ (s \notin DOMAIN chain \/ view[s] # chain[s])
    BY DEF Disagreements
  <2>5. s <= highestSeq /\ s >= 1
    BY <2>1, <2>4, FeedAssumption DEF MissedInv, SystemInv, SafetyInv, WatermarkIsTip
  <2>6. s \in DOMAIN chain /\ view[s] # chain[s]
    BY <2>1, <2>3, <2>4, <2>5
  <2>7. ~ComesAfter(0, s)
    BY <2>2 DEF ComesAfter
  <2> QED BY <2>2, <2>4, <2>6, <2>7 DEF MissedInv, AgreeInv
<1> QED BY <1>1, MissedInvCorrect, PTL

-----------------------------------------------------------------------------
(* The two callers                                                         *)

\* live() takes no step of its own: the two callers share one consumer, as FeedSystem has it
\* (consume.py:472-476).
THEOREM ReadersRunSystem == ReaderSpec => SystemSpec
<1>1. ReaderInit => SystemInit
  BY DEF ReaderInit
<1>2. [ReaderNext]_readerVars => [SystemNext]_systemVars
  BY DEF ReaderNext, ReaderStep, ReaderOpen, readerVars, SystemNext
<1> QED BY <1>1, <1>2, PTL DEF ReaderSpec, SystemSpec

LEMMA ReaderInitInv == ReaderInit => ReaderInv
<1> SUFFICES ASSUME ReaderInit PROVE ReaderInv
  OBVIOUS
<1>1. liveView = View!EmptyView /\ liveFrom = 0
  BY DEF ReaderInit
<1>2. liveView \in PartialFunctions(Seqs, Hashes \cup {NoHash})
  BY <1>1, EmptyViewIsPartial
<1> QED BY <1>1, <1>2 DEF ReaderInv

\* What both callers are handed, both put in the same place.
LEMMA PassedOn ==
    ASSUME SystemInv, ReaderInv, SystemStep, NEW r \in BOOLEAN,
           Yield(Head(frame), r), r => Head(frame).seq <= highestSeq,
           ~r => Head(frame).seq > highestSeq,
           PassOn(out'[1]), out' = <<Message(Head(frame), r)>>
    PROVE  ReaderInv'
<1> DEFINE e == Head(frame)
           m == Message(e, r)
<1>1. /\ Turn /\ UNCHANGED pipe /\ phase = "open" /\ phase' = "open"
      /\ highestSeq' = e.seq /\ view' = Absorbed(view, m)
  BY TurnHolds DEF Turn, Yield
<1>2. /\ TypeOK /\ PipeInv /\ LiveInv /\ NoGapInv
      /\ UnderWay \in Nat /\ highestSeq \in Int
      /\ \A i \in 1..UnderWay : SeqAt(i) \in Int
      /\ Seqs \subseteq Nat \ {0}
      /\ view \in PartialFunctions(Seqs, Hashes \cup {NoHash})
      /\ liveView \in PartialFunctions(Seqs, Hashes \cup {NoHash})
      /\ liveFrom \in Nat
  BY SystemNumbers, FeedAssumption DEF SystemInv, TypeOK, ReaderInv
<1>3. /\ e \in ItemType /\ e.seq \in Seqs /\ SeqAt(1) = e.seq
      /\ UnderWay >= 1 /\ UnderWay' = UnderWay - 1
      /\ \A i \in 1..(UnderWay - 1) : SeqAt(i)' = SeqAt(i + 1)
  BY <1>1, <1>2, TurnTakesFirst DEF ItemType
<1>4. e.live <=> live'
  BY <1>1, <1>2, HeadShape
<1>5. m.live = e.live /\ m.seq = e.seq /\ out'[1] = m
  BY DEF Message
<1>6. live => live'
  BY <1>1, Zenon DEF Turn
<1>7. UnderWay' > 0 => SeqAt(1)' <= highestSeq' + 1
  <2>1. UnderWay' > 0 => 1 \in 1..(UnderWay - 1)
    BY <1>2, <1>3
  <2>2. UnderWay' > 0 => SeqAt(1)' = SeqAt(1 + 1) /\ SeqAt(1 + 1) <= SeqAt(1) + 1
    BY <1>2, <1>3, <2>1 DEF NoGapInv
  <2> QED BY <1>1, <1>3, <2>2
<1> DEFINE Kept(v) == (IF r THEN {s \in DOMAIN v : s < e.seq} ELSE DOMAIN v) \cup {e.seq}
<1>8. ASSUME NEW v \in PartialFunctions(Seqs, Hashes \cup {NoHash})
      PROVE  LET w == Absorbed(v, m) IN
             /\ w \in PartialFunctions(Seqs, Hashes \cup {NoHash})
             /\ DOMAIN w = Kept(v)
             /\ \A s \in DOMAIN w : w[s] = IF s = e.seq THEN e.hash ELSE v[s]
  BY <1>3, AbsorbedMessage
<1>9. DOMAIN view \subseteq Seqs /\ DOMAIN liveView \subseteq Seqs
  BY <1>2, PartialFunctionElim
<1>10. CASE ~e.live
  <2>1. UNCHANGED <<liveView, liveFrom>> /\ ~live
    BY <1>4, <1>5, <1>6, <1>10, Zenon DEF PassOn
  <2>2. liveFrom = 0
    BY <1>1, <2>1, Zenon DEF ReaderInv
  <2> QED BY <1>2, <2>1, <2>2 DEF ReaderInv
<1>11. CASE e.live
  <2>1. /\ liveView' = Absorbed(liveView, m)
        /\ liveFrom' = IF liveFrom = 0 \/ e.seq < liveFrom THEN e.seq ELSE liveFrom
    BY <1>5, <1>11, Zenon DEF PassOn
  <2> HIDE DEF e, m
  <2>2. /\ liveView' \in PartialFunctions(Seqs, Hashes \cup {NoHash})
        /\ DOMAIN liveView' = Kept(liveView) /\ DOMAIN view' = Kept(view)
        /\ \A s \in DOMAIN liveView' :
              liveView'[s] = IF s = e.seq THEN e.hash ELSE liveView[s]
        /\ \A s \in DOMAIN view' : view'[s] = IF s = e.seq THEN e.hash ELSE view[s]
    BY <1>1, <1>2, <1>8, <2>1
  <2>3. liveFrom' \in Nat /\ liveFrom' <= e.seq
    BY <1>2, <1>3, <2>1
  <2>4. ASSUME NEW s \in liveFrom'..e.seq
        PROVE  /\ s \in DOMAIN liveView' <=> s \in DOMAIN view'
               /\ s \in DOMAIN view' => liveView'[s] = view'[s]
    <3>1. s \in Int /\ e.seq \in Nat
      BY <1>2, <1>3, <2>3
    <3>2. CASE s = e.seq
      BY <2>2, <3>2
    <3>3. CASE s # e.seq
      <4>1. s < e.seq /\ liveFrom # 0 /\ s >= liveFrom
        BY <1>2, <2>1, <2>3, <3>1, <3>3
      <4>2. /\ liveFrom <= highestSeq /\ SeqAt(1) <= highestSeq + 1
            /\ \A t \in liveFrom..highestSeq :
                  /\ t \in DOMAIN liveView <=> t \in DOMAIN view
                  /\ t \in DOMAIN view => liveView[t] = view[t]
        BY <1>1, <1>2, <1>3, <4>1 DEF ReaderInv
      <4>3. s \in liveFrom..highestSeq
        BY <1>2, <1>3, <3>1, <4>1, <4>2
      <4>4. /\ s \in Kept(liveView) <=> s \in DOMAIN liveView
            /\ s \in Kept(view) <=> s \in DOMAIN view
        BY <3>3, <4>1
      <4> QED BY <2>2, <3>3, <4>2, <4>3, <4>4
    <3> QED BY <3>2, <3>3
  <2>5. live'
    BY <1>4, <1>11 DEF e
  <2> QED BY <1>1, <1>7, <2>2, <2>3, <2>4, <2>5 DEF ReaderInv
<1> QED BY <1>10, <1>11

\* An entry dropped as a duplicate leaves no gap behind it.
LEMMA NotPassedOn ==
    ASSUME SystemInv, ReaderInv, SystemStep, Duplicate, UNCHANGED readers
    PROVE  ReaderInv'
<1>1. /\ Turn /\ UNCHANGED pipe /\ phase = "open" /\ phase' = "open"
      /\ UNCHANGED <<highestSeq, view, liveView, liveFrom>>
      /\ Head(frame).seq <= highestSeq
  BY TurnHolds DEF Turn, Duplicate, core, history, readers
<1>2. /\ TypeOK /\ PipeInv /\ NoGapInv /\ UnderWay \in Nat /\ highestSeq \in Int
      /\ \A i \in 1..UnderWay : SeqAt(i) \in Int
  BY SystemNumbers DEF SystemInv
<1>3. /\ SeqAt(1) = Head(frame).seq /\ UnderWay >= 1 /\ UnderWay' = UnderWay - 1
      /\ \A i \in 1..(UnderWay - 1) : SeqAt(i)' = SeqAt(i + 1)
  BY <1>1, <1>2, TurnTakesFirst
<1>4. UnderWay' > 0 => SeqAt(1)' <= highestSeq' + 1
  <2> SUFFICES ASSUME UnderWay' > 0 PROVE SeqAt(1)' <= highestSeq + 1
    BY <1>1
  <2>1. 1 \in 1..(UnderWay - 1) /\ 1 \in 1..UnderWay /\ 1 + 1 \in 1..UnderWay
    BY <1>2, <1>3
  <2>2. SeqAt(1)' = SeqAt(1 + 1) /\ SeqAt(1 + 1) <= SeqAt(1) + 1
    BY <1>2, <1>3, <2>1 DEF NoGapInv
  <2> QED BY <1>1, <1>2, <1>3, <2>1, <2>2
<1>5. live => live'
  BY <1>1, Zenon DEF Turn
<1> QED BY <1>1, <1>4, <1>5 DEF ReaderInv

LEMMA ReaderNextInv ==
    ASSUME SystemInv, ReaderInv, [ReaderNext]_readerVars
    PROVE  ReaderInv'
<1>1. CASE ReaderStep
  <2>1. SystemStep /\ (IF out' # <<>> THEN PassOn(out'[1]) ELSE UNCHANGED readers)
    BY <1>1 DEF ReaderStep
  <2>2. Head(frame).accepted
    BY <2>1, TurnHolds, TurnTakesFirst, SystemNumbers
  <2>3. CASE Duplicate
    <3>1. UNCHANGED readers
      BY <2>1, <2>3 DEF Duplicate
    <3> QED BY <2>1, <2>3, <3>1, NotPassedOn
  <2>4. CASE Reorg
    <3>1. /\ Yield(Head(frame), TRUE) /\ Head(frame).seq <= highestSeq
          /\ out' = <<Message(Head(frame), TRUE)>>
      BY <2>4 DEF Reorg, Yield
    <3>2. PassOn(out'[1])
      BY <2>1, <3>1
    <3> QED BY <2>1, <3>1, <3>2, PassedOn
  <2>5. CASE Deliver
    <3>1. /\ Yield(Head(frame), FALSE) /\ Head(frame).seq > highestSeq
          /\ out' = <<Message(Head(frame), FALSE)>>
      BY <2>5 DEF Deliver, Yield
    <3>2. PassOn(out'[1])
      BY <2>1, <3>1
    <3> QED BY <2>1, <3>1, <3>2, PassedOn
  <2>6. ~Reject
    BY <2>2, Zenon DEF Reject
  <2> QED BY <2>1, <2>3, <2>4, <2>5, <2>6 DEF SystemStep, Step
<1>2. CASE ReaderOpen
  BY <1>2 DEF ReaderOpen, ReaderInv
<1>3. CASE SystemReceive /\ UNCHANGED readers
  <2>1. /\ phase = "open" /\ UNCHANGED <<phase, highestSeq, live, view, liveView, liveFrom>>
        /\ UnderWay' = UnderWay
        /\ \A i \in 1..UnderWay : SeqAt(i)' = SeqAt(i)
        /\ UnderWay \in Nat
    BY <1>3, ReadInPlace, SystemNumbers DEF readers
  <2>2. UnderWay' > 0 => SeqAt(1)' = SeqAt(1)
    BY <2>1
  <2> QED BY <2>1, <2>2 DEF ReaderInv
<1>4. CASE (FeedAppend \/ \E s \in DOMAIN chain : FeedReorg(s)) /\ UNCHANGED readers
  <2> DEFINE tip == Len(chain')
  <2>1. /\ UNCHANGED <<phase, frame, highestSeq, live, view, liveView, liveFrom>>
        /\ tip <= Len(chain) + 1 /\ tip \in Int
        /\ Wire(chain', tip) \in Blocks
        /\ pipe' = IF phase = "open" THEN Append(pipe, Wire(chain', tip)) ELSE pipe
    BY <1>4, BlockBuilt, FeedAssumption DEF readers, vars, core, history
  <2>2. /\ TypeOK /\ PipeInv /\ NoGapInv
        /\ UnderWay \in Nat /\ Len(chain) \in Nat /\ highestSeq \in Int
    BY SystemNumbers DEF SystemInv
  <2>3. CASE phase = "open"
    <3>1. /\ UnderWay' = UnderWay + 1
          /\ \A i \in 1..UnderWay : SeqAt(i)' = SeqAt(i)
          /\ \A i : i = UnderWay + 1 => SeqAt(i)' = tip
      BY <2>1, <2>2, <2>3, SentBehind DEF Wire
    <3>2. CASE UnderWay = 0
      <4>1. SeqAt(1)' <= highestSeq + 1
        BY <2>1, <2>2, <2>3, <3>1, <3>2 DEF NoGapInv
      <4> QED BY <2>1, <4>1 DEF ReaderInv
    <3>3. CASE UnderWay # 0
      <4>1. SeqAt(1)' = SeqAt(1) /\ UnderWay > 0
        BY <2>2, <3>1, <3>3
      <4> QED BY <2>1, <4>1 DEF ReaderInv
    <3> QED BY <3>2, <3>3
  <2>4. CASE phase # "open"
    BY <2>1, <2>4 DEF ReaderInv
  <2> QED BY <2>3, <2>4
<1>5. CASE (SystemRetry \/ SystemFault) /\ UNCHANGED readers
  <2>1. phase' # "open" /\ UNCHANGED <<liveView, liveFrom>>
    BY <1>5, FaultLoses DEF SystemRetry, Call, Wake, readers
  <2> QED BY <2>1 DEF ReaderInv
<1>6. CASE (FeedTrim /\ UNCHANGED readers) \/ UNCHANGED readerVars
  <2>1. UNCHANGED <<phase, frame, pipe, highestSeq, live, view, liveView, liveFrom>>
    BY <1>6 DEF FeedTrim, readerVars, systemVars, readers, vars, core, history
  <2>2. UnderWay' = UnderWay /\ SeqAt(1)' = SeqAt(1)
    BY <2>1 DEF UnderWay, SeqAt
  <2> QED BY <2>1, <2>2 DEF ReaderInv
<1> QED BY <1>1, <1>2, <1>3, <1>4, <1>5, <1>6 DEF ReaderNext, Environment

\* From the block at which a connection went live up to the watermark, the caller of live()
\* holds what the caller of messages() holds (consume.py:366-395, 472-476).
THEOREM LiveReaderCorrect == ReaderSpec => []LiveReaderAgrees
<1>1. ReaderInv => LiveReaderAgrees
  <2> SUFFICES ASSUME ReaderInv, phase = "open", liveFrom # 0
               PROVE  Between(liveView, liveFrom, highestSeq) = Between(view, liveFrom, highestSeq)
    BY DEF LiveReaderAgrees
  <2>1. \A s \in liveFrom..highestSeq :
           /\ s \in DOMAIN liveView <=> s \in DOMAIN view
           /\ s \in DOMAIN view => liveView[s] = view[s]
    BY DEF ReaderInv
  <2>2. DOMAIN liveView \cap (liveFrom..highestSeq) = DOMAIN view \cap (liveFrom..highestSeq)
    BY <2>1
  <2>3. \A s \in DOMAIN view \cap (liveFrom..highestSeq) : liveView[s] = view[s]
    BY <2>1
  <2> QED BY <2>2, <2>3, Zenon DEF Between
<1>2. SystemInv /\ ReaderInv /\ [ReaderNext]_readerVars => ReaderInv'
  BY ReaderNextInv
<1> QED BY <1>1, <1>2, ReaderInitInv, ReadersRunSystem, SystemInvCorrect, PTL DEF ReaderSpec

-----------------------------------------------------------------------------
(* The picture to come                                                     *)

IsEntry(e) == e.seq \in Seqs /\ e.hash \in Hashes

AreEntries(entries) ==
    Len(entries) \in Nat /\ \A i \in 1..Len(entries) : IsEntry(entries[i])

\* What SafetyInv says of the consumer as it is, said of the consumer c.
Sane(c) ==
    /\ c \in Consumers
    /\ IF DOMAIN c.view = {} THEN c.highestSeq = -1
       ELSE c.highestSeq \in DOMAIN c.view /\ \A s \in DOMAIN c.view : s <= c.highestSeq
    /\ \A s \in DOMAIN c.view \cap DOMAIN c.hashes : c.view[s] = c.hashes[s]
    /\ \A s \in DOMAIN c.view : s > c.peak - ReorgWindow => s \in DOMAIN c.hashes
    /\ c.highestSeq <= c.peak

\* The consumer c has passed e over, or delivered it and become d.
Passed(c, e) == e.seq <= c.highestSeq /\ ~Contradicts(c, e)

Took(c, e, d) ==
    /\ d.highestSeq = e.seq
    /\ d.view = View!Replaced(c.view, e.seq, e.hash)
    /\ d.peak = IF e.seq > c.peak THEN e.seq ELSE c.peak
    /\ DOMAIN d.hashes \subseteq DOMAIN c.hashes \cup {e.seq}
    /\ \A s \in DOMAIN d.hashes : d.hashes[s] = IF s = e.seq THEN e.hash ELSE c.hashes[s]
    /\ \A s \in DOMAIN c.hashes \cup {e.seq} : s > e.seq - ReorgWindow => s \in DOMAIN d.hashes

\* What a consumer is made of.
LEMMA ConsumerIs ==
    ASSUME NEW c \in Consumers
    PROVE  /\ c.view \in PartialFunctions(Seqs, Hashes) /\ c.hashes \in PartialFunctions(Seqs, Hashes)
           /\ DOMAIN c.view \subseteq Seqs /\ c.view \in [DOMAIN c.view -> Hashes]
           /\ DOMAIN c.hashes \subseteq Seqs /\ c.hashes \in [DOMAIN c.hashes -> Hashes]
           /\ c.highestSeq \in Seqs \cup {-1} /\ c.peak \in Seqs \cup {-1}
           /\ c.highestSeq \in Int /\ c.peak \in Int
           /\ c = [view |-> c.view, hashes |-> c.hashes, highestSeq |-> c.highestSeq,
                   peak |-> c.peak]
<1>1. /\ c.view \in PartialFunctions(Seqs, Hashes) /\ c.hashes \in PartialFunctions(Seqs, Hashes)
      /\ c.highestSeq \in Seqs \cup {-1} /\ c.peak \in Seqs \cup {-1}
      /\ c = [view |-> c.view, hashes |-> c.hashes, highestSeq |-> c.highestSeq, peak |-> c.peak]
  BY DEF Consumers
<1> QED BY <1>1, PartialFunctionElim, SeqsAreIntegers

\* What c remembers when it has delivered e.
LEMMA RecalledIs ==
    ASSUME NEW c \in Consumers, NEW e, IsEntry(e)
    PROVE  /\ Recalled(c, e) \in PartialFunctions(Seqs, Hashes)
           /\ DOMAIN Recalled(c, e) \subseteq DOMAIN c.hashes \cup {e.seq}
           /\ \A s \in DOMAIN Recalled(c, e) :
                 Recalled(c, e)[s] = IF s = e.seq THEN e.hash ELSE c.hashes[s]
           /\ \A s \in DOMAIN c.hashes \cup {e.seq} :
                 s > e.seq - ReorgWindow => s \in DOMAIN Recalled(c, e)
<1> DEFINE known == Put(c.hashes, e.seq, e.hash)
           recent == {s \in DOMAIN known : s > e.seq - ReorgWindow}
           kept == [s \in recent |-> known[s]]
<1>1. DOMAIN c.hashes \subseteq Seqs /\ c.hashes \in [DOMAIN c.hashes -> Hashes]
  BY ConsumerIs
<1>2. e.seq \in Seqs /\ e.hash \in Hashes
  BY DEF IsEntry
<1>3. /\ known \in [DOMAIN c.hashes \cup {e.seq} -> Hashes]
      /\ \A s \in DOMAIN c.hashes \cup {e.seq} :
            known[s] = IF s = e.seq THEN e.hash ELSE c.hashes[s]
  BY <1>1, <1>2 DEF Put
<1>4. kept \in [recent -> Hashes] /\ recent \subseteq Seqs
  BY <1>1, <1>2, <1>3
<1>5. known \in PartialFunctions(Seqs, Hashes)
  BY <1>1, <1>2, <1>3, PartialFunctionIntro
<1>6. kept \in PartialFunctions(Seqs, Hashes)
  BY <1>4, PartialFunctionIntro
<1>7. Recalled(c, e) = known \/ Recalled(c, e) = kept
  BY DEF Recalled
<1>8. CASE Recalled(c, e) = known
  BY <1>3, <1>5, <1>8
<1>9. CASE Recalled(c, e) = kept
  <2>1. DOMAIN kept = recent /\ \A s \in recent : kept[s] = known[s]
    OBVIOUS
  <2> QED BY <1>3, <1>6, <1>9, <2>1
<1> QED BY <1>7, <1>8, <1>9

\* The picture with block s replaced.
LEMMA ReplacedIs ==
    ASSUME NEW v \in PartialFunctions(Seqs, Hashes), NEW s \in Seqs, NEW g \in Hashes
    PROVE  LET w == View!Replaced(v, s, g) IN
           /\ w \in PartialFunctions(Seqs, Hashes)
           /\ DOMAIN w = {t \in DOMAIN v : t < s} \cup {s}
           /\ w[s] = g /\ \A t \in DOMAIN v : t < s => w[t] = v[t]
<1> DEFINE D == {t \in DOMAIN v : t < s} \cup {s}
           w == [t \in D |-> IF t = s THEN g ELSE v[t]]
<1>1. DOMAIN v \subseteq Seqs /\ v \in [DOMAIN v -> Hashes]
  BY PartialFunctionElim
<1>2. View!Replaced(v, s, g) = w
  BY DEF View!Replaced, View!Below
<1>3. D \subseteq Seqs /\ w \in [D -> Hashes]
  BY <1>1
<1>4. w \in PartialFunctions(Seqs, Hashes)
  BY <1>3, PartialFunctionIntro
<1>5. s \in Int /\ \A t \in DOMAIN v : t \in Int
  BY <1>1, SeqsAreIntegers
<1>6. w[s] = g /\ \A t \in DOMAIN v : t < s => w[t] = v[t]
  BY <1>5
<1> QED BY <1>2, <1>4, <1>6

\* A sane consumer is left as it is by what it passes over, and takes everything else for a
\* replacement or a new block; it is sane again.
LEMMA HandledIs ==
    ASSUME NEW c, Sane(c), NEW e, IsEntry(e)
    PROVE  /\ Sane(Handled(c, e))
           /\ \/ Passed(c, e) /\ Handled(c, e) = c
              \/ ~Passed(c, e) /\ Took(c, e, Handled(c, e))
<1>1. /\ c \in Consumers /\ c.view \in PartialFunctions(Seqs, Hashes)
      /\ DOMAIN c.view \subseteq Seqs /\ c.view \in [DOMAIN c.view -> Hashes]
      /\ DOMAIN c.hashes \subseteq Seqs /\ c.hashes \in [DOMAIN c.hashes -> Hashes]
      /\ c.highestSeq \in Int /\ c.peak \in Seqs \cup {-1} /\ c.peak \in Int
  BY ConsumerIs DEF Sane
<1>2. /\ e.seq \in Seqs /\ e.hash \in Hashes /\ e.seq \in Int /\ e.seq >= 1
      /\ ReorgWindow \in Nat
  BY FeedAssumption, SizesAssumption, SeqsAreIntegers DEF IsEntry
<1>3. CASE Passed(c, e)
  BY <1>3 DEF Passed, Handled
<1>4. CASE ~Passed(c, e)
  <2> DEFINE old == e.seq <= c.highestSeq
             d == [view |-> IF old THEN View!Replaced(c.view, e.seq, e.hash)
                            ELSE View!Extended(c.view, e.seq, e.hash),
                   hashes |-> Recalled(c, e), highestSeq |-> e.seq,
                   peak |-> IF e.seq > c.peak THEN e.seq ELSE c.peak]
  <2>1. Handled(c, e) = d
    BY <1>4 DEF Passed, Handled
  <2>2. d.view = View!Replaced(c.view, e.seq, e.hash)
    <3>1. CASE old
      BY <3>1
    <3>2. CASE ~old
      <4>1. \A t \in DOMAIN c.view : t < e.seq
        BY <1>1, <1>2, <3>2, SeqsAreIntegers DEF Sane
      <4>2. View!Below(c.view, e.seq) = DOMAIN c.view
        BY <4>1 DEF View!Below
      <4>3. View!Replaced(c.view, e.seq, e.hash) = View!Extended(c.view, e.seq, e.hash)
        BY <4>2, Zenon DEF View!Replaced, View!Extended
      <4> QED BY <3>2, <4>3
    <3> QED BY <3>1, <3>2
  <2>3. Took(c, e, d)
    BY <1>1, <1>2, <2>2, RecalledIs DEF Took
  <2>4. /\ d.highestSeq = e.seq /\ d.peak \in Int /\ d.peak >= e.seq /\ d.peak >= c.peak
        /\ d.peak \in Seqs \cup {-1}
        /\ d.hashes \in PartialFunctions(Seqs, Hashes)
        /\ d.view \in PartialFunctions(Seqs, Hashes)
        /\ DOMAIN d.view = {t \in DOMAIN c.view : t < e.seq} \cup {e.seq}
        /\ d.view[e.seq] = e.hash /\ \A t \in DOMAIN c.view : t < e.seq => d.view[t] = c.view[t]
    <3>1. /\ d.highestSeq = e.seq /\ d.peak = (IF e.seq > c.peak THEN e.seq ELSE c.peak)
          /\ d.hashes = Recalled(c, e)
      OBVIOUS
    <3>2. d.hashes \in PartialFunctions(Seqs, Hashes)
      BY <1>1, <3>1, RecalledIs
    <3> HIDE DEF d
    <3>3. /\ d.view \in PartialFunctions(Seqs, Hashes)
          /\ DOMAIN d.view = {t \in DOMAIN c.view : t < e.seq} \cup {e.seq}
          /\ d.view[e.seq] = e.hash
          /\ \A t \in DOMAIN c.view : t < e.seq => d.view[t] = c.view[t]
      <4>1. PICK v \in PartialFunctions(Seqs, Hashes), s \in Seqs, g \in Hashes :
                v = c.view /\ s = e.seq /\ g = e.hash
        BY <1>1, <1>2
      <4>2. d.view = View!Replaced(v, s, g)
        BY <2>2, <4>1
      <4>3. /\ d.view \in PartialFunctions(Seqs, Hashes)
            /\ DOMAIN d.view = {t \in DOMAIN v : t < s} \cup {s}
            /\ d.view[s] = g /\ \A t \in DOMAIN v : t < s => d.view[t] = v[t]
        BY <4>2, ReplacedIs
      <4> QED BY <4>1, <4>3
    <3> QED BY <1>1, <1>2, <3>1, <3>2, <3>3
  <2>5. d \in Consumers
    BY <1>2, <2>4 DEF Consumers
  <2> HIDE DEF d
  <2>6. DOMAIN c.view \subseteq Int
    BY <1>1, SeqsAreIntegers
  <2>7. d.highestSeq \in DOMAIN d.view /\ \A s \in DOMAIN d.view : s <= d.highestSeq
    BY <1>2, <2>4, <2>6
  <2>8. ASSUME NEW s \in DOMAIN d.view, s \in DOMAIN d.hashes
        PROVE  d.view[s] = d.hashes[s]
    <3>1. CASE s = e.seq
      BY <2>3, <2>4, <2>8, <3>1 DEF Took
    <3>2. CASE s # e.seq
      <4>1. s \in DOMAIN c.view /\ s < e.seq /\ d.view[s] = c.view[s]
        BY <2>4, <3>2
      <4>2. s \in DOMAIN c.hashes /\ d.hashes[s] = c.hashes[s]
        BY <2>3, <2>8, <3>2 DEF Took
      <4> QED BY <4>1, <4>2 DEF Sane
    <3> QED BY <3>1, <3>2
  <2>9. ASSUME NEW s \in DOMAIN d.view, s > d.peak - ReorgWindow
        PROVE  s \in DOMAIN d.hashes
    <3>1. s \in Int
      BY <1>2, <2>4, <2>6
    <3>2. s > e.seq - ReorgWindow /\ s > c.peak - ReorgWindow
      BY <1>1, <1>2, <2>4, <2>9, <3>1
    <3>3. s \in DOMAIN c.hashes \cup {e.seq}
      BY <2>4, <3>2 DEF Sane
    <3> QED BY <2>3, <3>2, <3>3 DEF Took
  <2>10. d.highestSeq <= d.peak
    BY <1>2, <2>4
  <2>11. Sane(d)
    BY <2>5, <2>7, <2>8, <2>9, <2>10 DEF Sane
  <2> QED BY <1>4, <2>1, <2>3, <2>11
<1> QED BY <1>3, <1>4

\* Handling an entry makes a consumer of a consumer.
LEMMA HandledType ==
    ASSUME NEW c \in Consumers, NEW e, IsEntry(e)
    PROVE  Handled(c, e) \in Consumers
<1>1. /\ c.view \in PartialFunctions(Seqs, Hashes)
      /\ DOMAIN c.view \subseteq Seqs /\ c.view \in [DOMAIN c.view -> Hashes]
      /\ e.seq \in Seqs /\ e.hash \in Hashes /\ c.peak \in Seqs \cup {-1}
      /\ Recalled(c, e) \in PartialFunctions(Seqs, Hashes)
  BY ConsumerIs, RecalledIs DEF IsEntry
<1>2. View!Replaced(c.view, e.seq, e.hash) \in PartialFunctions(Seqs, Hashes)
  BY <1>1, ReplacedIs
<1>3. View!Extended(c.view, e.seq, e.hash) \in PartialFunctions(Seqs, Hashes)
  <2>1. View!Extended(c.view, e.seq, e.hash) \in [DOMAIN c.view \cup {e.seq} -> Hashes]
    BY <1>1 DEF View!Extended
  <2>2. DOMAIN c.view \cup {e.seq} \subseteq Seqs
    BY <1>1
  <2> QED BY <2>1, <2>2, PartialFunctionIntro
<1> QED BY <1>1, <1>2, <1>3 DEF Handled, Consumers

\* The consumers between c and what it is when it has handled the entries.
Runs(c, entries) ==
    {r \in [0..Len(entries) -> Consumers] :
        r[0] = c /\ \A k \in 0..Len(entries) - 1 : r[k + 1] = Handled(r[k], entries[k + 1])}

\* The consumer can be followed through any entries, one by one.
LEMMA RunsExist ==
    ASSUME NEW c \in Consumers, NEW entries, AreEntries(entries)
    PROVE  \E r : r \in Runs(c, entries)
<1> DEFINE n == Len(entries)
           g == [p \in Nat \X Consumers |->
                    IF p[1] < n THEN Handled(p[2], entries[p[1] + 1]) ELSE p[2]]
<1>1. n \in Nat
  BY DEF AreEntries
<1>2. g \in [Nat \X Consumers -> Consumers]
  <2>1. ASSUME NEW k \in Nat, NEW d \in Consumers, k < n
        PROVE  Handled(d, entries[k + 1]) \in Consumers
    <3>1. k + 1 \in 1..n
      BY <1>1, <2>1
    <3> QED BY <3>1, HandledType DEF AreEntries
  <2> QED BY <2>1
<1>3. PICK r \in Steps(Consumers, c, g, n) : TRUE
  <2> HIDE DEF g, n
  <2> QED BY <1>1, <1>2, StepsExist
<1>4. r \in [0..n -> Consumers] /\ r[0] = c /\ \A k \in 0..n - 1 : r[k + 1] = g[<<k, r[k]>>]
  BY <1>3 DEF Steps
<1>5. ASSUME NEW k \in 0..n - 1 PROVE r[k + 1] = Handled(r[k], entries[k + 1])
  <2>1. k \in Nat /\ k < n /\ r[k] \in Consumers
    BY <1>1, <1>4
  <2> QED BY <1>4, <2>1
<1> QED BY <1>4, <1>5 DEF Runs

\* AfterAll is where a run ends.
LEMMA AfterAllIs ==
    ASSUME NEW c \in Consumers, NEW entries, AreEntries(entries), NEW r \in Runs(c, entries)
    PROVE  AfterAll(c, entries) = r[Len(entries)]
<1> DEFINE n == Len(entries)
           Unfolded(f) == [k \in 0..Len(entries) |->
                          IF k = 0 THEN c ELSE Handling(entries[k])[f[k - 1]]]
           after == CHOOSE f : f = Unfolded(f)
<1>1. n \in Nat /\ r \in [0..n -> Consumers] /\ r[0] = c
  BY DEF AreEntries, Runs
<1>2. r = Unfolded(r)
  <2>1. ASSUME NEW k \in 0..n, k # 0 PROVE r[k] = Handling(entries[k])[r[k - 1]]
    <3>1. k - 1 \in 0..n - 1 /\ (k - 1) + 1 = k /\ r[k - 1] \in Consumers
      BY <1>1, <2>1
    <3>2. r[(k - 1) + 1] = Handled(r[k - 1], entries[(k - 1) + 1])
      BY <3>1 DEF Runs
    <3> QED BY <3>1, <3>2 DEF Handling
  <2> QED BY <1>1, <2>1
<1>3. after = Unfolded(after)
  <2> HIDE DEF Unfolded
  <2> QED BY <1>2
<1>4. AfterAll(c, entries) = after[n]
  BY DEF AfterAll
<1> DEFINE T == {k \in 0..n : after[k] # r[k]}
<1>5. ASSUME T # {} PROVE FALSE
  <2>1. T \subseteq Nat
    BY <1>1
  <2>2. PICK k \in T : \A j \in T : k <= j
    <3> HIDE DEF T
    <3> QED BY <1>5, <2>1, LeastOf
  <2> HIDE DEF after
  <2>3. k \in 0..n /\ after[k] # r[k]
    OBVIOUS
  <2>4. after[k] = Unfolded(after)[k] /\ r[k] = Unfolded(r)[k]
    <3> HIDE DEF Unfolded
    <3> QED BY <1>2, <1>3
  <2>5. k # 0
    BY <2>3, <2>4
  <2>6. after[k - 1] = r[k - 1]
    BY <2>2, <2>5
  <2> QED BY <2>3, <2>4, <2>5, <2>6
<1> HIDE DEF after
<1> QED BY <1>1, <1>4, <1>5

\* Entries of the same number and hash are handled alike.
LEMMA HandledAlike ==
    ASSUME NEW c, NEW e, NEW f, e.seq = f.seq, e.hash = f.hash
    PROVE  Handled(c, e) = Handled(c, f)
BY DEF Handled, Contradicts, Recalled

\* The same entries leave the same consumer.
LEMMA SameEntries ==
    ASSUME NEW c \in Consumers, NEW entries, NEW others, AreEntries(entries), AreEntries(others),
           Len(entries) = Len(others),
           \A i \in 1..Len(entries) :
              entries[i].seq = others[i].seq /\ entries[i].hash = others[i].hash
    PROVE  AfterAll(c, entries) = AfterAll(c, others)
<1>1. PICK r : r \in Runs(c, entries)
  BY RunsExist
<1>2. r \in Runs(c, others)
  <2>1. ASSUME NEW k \in 0..Len(entries) - 1
        PROVE  r[k + 1] = Handled(r[k], others[k + 1])
    <3>1. k + 1 \in 1..Len(entries)
      BY DEF AreEntries
    <3> QED BY <1>1, <3>1, HandledAlike DEF Runs
  <2> QED BY <1>1, <2>1 DEF Runs
<1> QED BY <1>1, <1>2, AfterAllIs

\* One more entry is handled last.
LEMMA AfterOneMore ==
    ASSUME NEW c \in Consumers, NEW entries, NEW more, NEW e, AreEntries(entries), IsEntry(e),
           Len(more) = Len(entries) + 1,
           \A i \in 1..Len(entries) :
              more[i].seq = entries[i].seq /\ more[i].hash = entries[i].hash,
           more[Len(entries) + 1].seq = e.seq, more[Len(entries) + 1].hash = e.hash
    PROVE  AfterAll(c, more) = Handled(AfterAll(c, entries), e)
<1> DEFINE n == Len(entries)
<1>1. n \in Nat
  BY DEF AreEntries
<1>2. AreEntries(more)
  <2>1. ASSUME NEW i \in 1..n + 1 PROVE IsEntry(more[i])
    <3>1. CASE i = n + 1
      BY <3>1 DEF IsEntry
    <3>2. CASE i # n + 1
      <4>1. i \in 1..n
        BY <1>1, <3>2
      <4> QED BY <4>1 DEF AreEntries, IsEntry
    <3> QED BY <3>1, <3>2
  <2> QED BY <1>1, <2>1 DEF AreEntries
<1>3. PICK r : r \in Runs(c, more)
  BY <1>2, RunsExist
<1>4. r \in [0..n + 1 -> Consumers] /\ r[0] = c
      /\ \A k \in 0..n : r[k + 1] = Handled(r[k], more[k + 1])
  BY <1>1, <1>3 DEF Runs
<1> DEFINE q == [k \in 0..n |-> r[k]]
<1>5. q \in Runs(c, entries)
  <2>1. ASSUME NEW k \in 0..n - 1 PROVE q[k + 1] = Handled(q[k], entries[k + 1])
    <3>1. k \in 0..n /\ k + 1 \in 0..n /\ k + 1 \in 1..n
      BY <1>1
    <3>2. Handled(r[k], more[k + 1]) = Handled(r[k], entries[k + 1])
      BY <3>1, HandledAlike
    <3> QED BY <1>4, <3>1, <3>2
  <2>2. q \in [0..n -> Consumers] /\ q[0] = c
    BY <1>1, <1>4
  <2> HIDE DEF q
  <2> QED BY <2>1, <2>2 DEF Runs
<1>6. AfterAll(c, entries) = q[n]
  <2> HIDE DEF q
  <2> QED BY <1>5, AfterAllIs
<1>7. AfterAll(c, more) = r[n + 1]
  BY <1>2, <1>3, AfterAllIs
<1>8. r[n + 1] = Handled(r[n], more[n + 1]) /\ q[n] = r[n]
  BY <1>1, <1>4
<1>9. Handled(r[n], more[n + 1]) = Handled(r[n], e)
  BY HandledAlike
<1> QED BY <1>6, <1>7, <1>8, <1>9

\* The first entry is handled first.
LEMMA AfterFirst ==
    ASSUME NEW c \in Consumers, NEW entries, NEW rest, NEW e, AreEntries(entries), IsEntry(e),
           AreEntries(rest), Len(entries) = Len(rest) + 1,
           entries[1].seq = e.seq, entries[1].hash = e.hash,
           \A i \in 1..Len(rest) :
              rest[i].seq = entries[i + 1].seq /\ rest[i].hash = entries[i + 1].hash
    PROVE  AfterAll(c, entries) = AfterAll(Handled(c, e), rest)
<1> DEFINE n == Len(rest)
<1>1. n \in Nat
  BY DEF AreEntries
<1>2. PICK r : r \in Runs(c, entries)
  BY RunsExist
<1>3. r \in [0..n + 1 -> Consumers] /\ r[0] = c
      /\ \A k \in 0..n : r[k + 1] = Handled(r[k], entries[k + 1])
  BY <1>1, <1>2 DEF Runs
<1> DEFINE q == [k \in 0..n |-> r[k + 1]]
<1>4. r[1] = Handled(c, e)
  <2>1. r[0 + 1] = Handled(r[0], entries[0 + 1])
    BY <1>1, <1>3
  <2> QED BY <1>3, <2>1, HandledAlike
<1>5. q \in [0..n -> Consumers] /\ q[0] = Handled(c, e) /\ q[n] = r[n + 1]
  BY <1>1, <1>3, <1>4
<1>6. q \in Runs(Handled(c, e), rest)
  <2>1. ASSUME NEW k \in 0..n - 1 PROVE q[k + 1] = Handled(q[k], rest[k + 1])
    <3>1. k \in 0..n /\ k + 1 \in 0..n /\ k + 1 \in 1..n
      BY <1>1
    <3>2. r[(k + 1) + 1] = Handled(r[k + 1], entries[(k + 1) + 1])
      BY <1>3, <3>1
    <3>3. Handled(r[k + 1], entries[(k + 1) + 1]) = Handled(r[k + 1], rest[k + 1])
      BY <3>1, HandledAlike
    <3> QED BY <3>1, <3>2, <3>3
  <2> HIDE DEF q
  <2> QED BY <1>5, <2>1 DEF Runs
<1>7. Handled(c, e) \in Consumers
  BY HandledType
<1>8. AfterAll(Handled(c, e), rest) = q[n]
  <2> HIDE DEF q
  <2> QED BY <1>6, <1>7, AfterAllIs
<1>9. AfterAll(c, entries) = r[n + 1]
  BY <1>2, AfterAllIs
<1> QED BY <1>5, <1>8, <1>9

\* No entries leave the consumer as it is.
LEMMA AfterNothing ==
    ASSUME NEW c \in Consumers, NEW entries, Len(entries) = 0
    PROVE  AfterAll(c, entries) = c
<1>1. AreEntries(entries)
  BY DEF AreEntries
<1>2. PICK r : r \in Runs(c, entries)
  BY <1>1, RunsExist
<1>3. AfterAll(c, entries) = r[Len(entries)]
  BY <1>1, <1>2, AfterAllIs
<1> QED BY <1>2, <1>3 DEF Runs

-----------------------------------------------------------------------------
\* The entries under way, in one sequence.
Way == frame \o pipe

\* The rest of the frame and then the connection, as one sequence.
LEMMA OneAfterTheOther ==
    ASSUME NEW f \in Seq(ItemType), NEW p \in Seq(Blocks), \A i \in DOMAIN f : f[i].hash \in Hashes,
           NEW n, n = Len(f) + Len(p)
    PROVE  \E j :
           /\ j = f \o p /\ AreEntries(j) /\ Len(j) = n
           /\ \A i \in 1..n :
                 /\ j[i].seq = IF i <= Len(f) THEN f[i].seq ELSE p[i - Len(f)].seq
                 /\ j[i].hash = IF i <= Len(f) THEN f[i].hash ELSE p[i - Len(f)].hash
<1>1. /\ Len(f) \in Nat /\ Len(p) \in Nat /\ DOMAIN f = 1..Len(f)
      /\ \A i \in 1..Len(f) : f[i] \in ItemType /\ f[i].hash \in Hashes
      /\ \A i \in 1..Len(p) : p[i] \in Blocks
  <2>1. Len(f) \in Nat /\ DOMAIN f = 1..Len(f) /\ \A i \in 1..Len(f) : f[i] \in ItemType
    OBVIOUS
  <2>2. Len(p) \in Nat /\ \A i \in 1..Len(p) : p[i] \in Blocks
    OBVIOUS
  <2> QED BY <2>1, <2>2
<1>2. PICK j : j = f \o p
  OBVIOUS
<1>3. Len(j) = n /\ \A i \in 1..n : j[i] = IF i <= Len(f) THEN f[i] ELSE p[i - Len(f)]
  BY <1>2, ConcatProperties
<1>4. ASSUME NEW i \in 1..n PROVE IsEntry(j[i])
  <2>1. CASE i <= Len(f)
    <3>1. i \in 1..Len(f) /\ j[i] = f[i]
      BY <1>1, <1>3, <2>1
    <3> QED BY <1>1, <3>1 DEF IsEntry, ItemType
  <2>2. CASE ~(i <= Len(f))
    <3>1. i - Len(f) \in 1..Len(p) /\ j[i] = p[i - Len(f)]
      BY <1>1, <1>3, <2>2
    <3> QED BY <1>1, <3>1 DEF IsEntry, Blocks
  <2> QED BY <2>1, <2>2
<1>5. AreEntries(j)
  BY <1>1, <1>3, <1>4 DEF AreEntries
<1>6. \A i \in 1..n :
         /\ j[i].seq = IF i <= Len(f) THEN f[i].seq ELSE p[i - Len(f)].seq
         /\ j[i].hash = IF i <= Len(f) THEN f[i].hash ELSE p[i - Len(f)].hash
  BY <1>3
<1> QED BY <1>2, <1>3, <1>5, <1>6

\* What is under way are entries, by number and fork.
LEMMA WayIs ==
    ASSUME TypeOK, PipeInv
    PROVE  /\ AreEntries(Way) /\ Len(Way) = UnderWay
           /\ \A i \in 1..UnderWay : Way[i].seq = SeqAt(i) /\ Way[i].hash = HashAt(i)
<1>1. PICK f \in Seq(ItemType), p \in Seq(Blocks) : f = frame /\ p = pipe
  BY DEF TypeOK, PipeInv
<1>2. \A i \in DOMAIN f : f[i].hash \in Hashes
  BY <1>1 DEF PipeInv
<1>3. PICK n : n = Len(f) + Len(p)
  OBVIOUS
<1>4. PICK j :
         /\ j = f \o p /\ AreEntries(j) /\ Len(j) = n
         /\ \A i \in 1..n :
               /\ j[i].seq = IF i <= Len(f) THEN f[i].seq ELSE p[i - Len(f)].seq
               /\ j[i].hash = IF i <= Len(f) THEN f[i].hash ELSE p[i - Len(f)].hash
  BY <1>2, <1>3, OneAfterTheOther
<1>5. j = Way /\ n = UnderWay
  BY <1>1, <1>3, <1>4 DEF Way, UnderWay
<1> QED BY <1>1, <1>4, <1>5 DEF SeqAt, HashAt

\* The same of the next state.
LEMMA WayWillBe ==
    ASSUME TypeOK', PipeInv'
    PROVE  /\ AreEntries(Way') /\ Len(Way') = UnderWay'
           /\ \A i \in 1..UnderWay' : Way'[i].seq = SeqAt(i)' /\ Way'[i].hash = HashAt(i)'
<1>1. PICK f \in Seq(ItemType), p \in Seq(Blocks) : f = frame' /\ p = pipe'
  BY DEF TypeOK, PipeInv
<1>2. \A i \in DOMAIN f : f[i].hash \in Hashes
  BY <1>1 DEF PipeInv
<1>3. PICK n : n = Len(f) + Len(p)
  OBVIOUS
<1>4. PICK j :
         /\ j = f \o p /\ AreEntries(j) /\ Len(j) = n
         /\ \A i \in 1..n :
               /\ j[i].seq = IF i <= Len(f) THEN f[i].seq ELSE p[i - Len(f)].seq
               /\ j[i].hash = IF i <= Len(f) THEN f[i].hash ELSE p[i - Len(f)].hash
  BY <1>2, <1>3, OneAfterTheOther
<1>5. j = Way' /\ n = UnderWay'
  BY <1>1, <1>3, <1>4 DEF Way, UnderWay
<1> QED BY <1>1, <1>4, <1>5 DEF SeqAt, HashAt

\* The consumer as it is is sane.
LEMMA NowIsSane ==
    ASSUME SystemInv
    PROVE  Sane(Now)
<1>1. /\ view \in PartialFunctions(Seqs, Hashes \cup {NoHash})
      /\ hashes \in PartialFunctions(Seqs, Hashes)
      /\ highestSeq \in Seqs \cup {-1} /\ peak \in Seqs \cup {-1}
      /\ WatermarkIsTip /\ HashesMatchView /\ WindowRemembered /\ PeakIsGreatest
      /\ fork \in Hashes /\ \A t \in DOMAIN view : WasSent(t, view[t])
  BY DEF SystemInv, SystemTypeOK, SafetyInv, TypeOK, SentInv
<1>2. 0..fork \subseteq Hashes
  BY <1>1, FeedAssumption
<1>3. DOMAIN view \subseteq Seqs /\ \A t \in DOMAIN view : view[t] \in Hashes
  BY <1>1, <1>2, PartialFunctionElim DEF WasSent
<1>4. \A t \in DOMAIN view : view[t] # NoHash
  BY <1>3, HashesAssumption
<1>5. view \in PartialFunctions(Seqs, Hashes)
  <2>1. view \in [DOMAIN view -> Hashes]
    BY <1>1, <1>3, PartialFunctionElim
  <2> QED BY <1>3, <2>1, PartialFunctionIntro
<1>6. Now \in Consumers
  BY <1>1, <1>5 DEF Now, Consumers
<1>7. /\ Now.view = view /\ Now.hashes = hashes /\ Now.highestSeq = highestSeq /\ Now.peak = peak
  BY DEF Now
<1>8. \A s \in DOMAIN view \cap DOMAIN hashes : view[s] = hashes[s]
  BY <1>1, <1>4 DEF HashesMatchView
<1>9. \A s \in DOMAIN view : s > peak - ReorgWindow => s \in DOMAIN hashes
  BY <1>1, <1>4 DEF WindowRemembered
<1> QED BY <1>1, <1>6, <1>7, <1>8, <1>9 DEF Sane, WatermarkIsTip, PeakIsGreatest

\* So is every consumer that it becomes.
LEMMA RunsAreSane ==
    ASSUME NEW c, Sane(c), NEW entries, AreEntries(entries), NEW r \in Runs(c, entries)
    PROVE  /\ \A k \in 0..Len(entries) : Sane(r[k])
           /\ \A k \in 0..Len(entries) - 1 :
                 \/ Passed(r[k], entries[k + 1]) /\ r[k + 1] = r[k]
                 \/ ~Passed(r[k], entries[k + 1]) /\ Took(r[k], entries[k + 1], r[k + 1])
<1> DEFINE n == Len(entries)
           T == {k \in 0..n : ~Sane(r[k])}
<1>1. n \in Nat /\ r[0] = c /\ \A k \in 0..n - 1 : r[k + 1] = Handled(r[k], entries[k + 1])
  BY DEF AreEntries, Runs
<1>2. ASSUME NEW k \in 0..n - 1, Sane(r[k])
      PROVE  /\ Sane(r[k + 1])
             /\ \/ Passed(r[k], entries[k + 1]) /\ r[k + 1] = r[k]
                \/ ~Passed(r[k], entries[k + 1]) /\ Took(r[k], entries[k + 1], r[k + 1])
  <2>1. PICK d, e : d = r[k] /\ e = entries[k + 1]
    OBVIOUS
  <2>2. k + 1 \in 1..n
    BY <1>1
  <2>3. Sane(d) /\ IsEntry(e) /\ r[k + 1] = Handled(d, e)
    BY <1>1, <1>2, <2>1, <2>2 DEF AreEntries
  <2>4. /\ Sane(Handled(d, e))
        /\ \/ Passed(d, e) /\ Handled(d, e) = d
           \/ ~Passed(d, e) /\ Took(d, e, Handled(d, e))
    BY <2>3, HandledIs
  <2> QED BY <2>1, <2>3, <2>4
<1>3. ASSUME T # {} PROVE FALSE
  <2>1. T \subseteq Nat
    BY <1>1
  <2>2. PICK k \in T : \A j \in T : k <= j
    <3> HIDE DEF T
    <3> QED BY <1>3, <2>1, LeastOf
  <2>3. k # 0
    BY <1>1, <2>2
  <2>4. k - 1 \in 0..n - 1 /\ Sane(r[k - 1]) /\ (k - 1) + 1 = k
    BY <1>1, <2>2, <2>3
  <2>5. Sane(r[(k - 1) + 1])
    BY <1>2, <2>4
  <2> QED BY <2>2, <2>4, <2>5
<1>4. \A k \in 0..n : Sane(r[k])
  BY <1>3
<1>5. \A k \in 0..n - 1 : k \in 0..n
  BY <1>1
<1> QED BY <1>2, <1>4, <1>5

\* The greatest watermark only grows, and what is remembered came from somewhere.
LEMMA RunsGrow ==
    ASSUME NEW c, Sane(c), NEW entries, AreEntries(entries), NEW r \in Runs(c, entries),
           NEW k \in 0..Len(entries)
    PROVE  /\ c.peak <= r[k].peak
           /\ \A t \in DOMAIN r[k].hashes :
                 \/ t \in DOMAIN c.hashes /\ r[k].hashes[t] = c.hashes[t]
                 \/ \E i \in 1..Len(entries) :
                       t = entries[i].seq /\ r[k].hashes[t] = entries[i].hash
<1> DEFINE n == Len(entries)
           Known(h, t) == \/ t \in DOMAIN c.hashes /\ h[t] = c.hashes[t]
                          \/ \E i \in 1..n : t = entries[i].seq /\ h[t] = entries[i].hash
           Good(j) == c.peak <= r[j].peak /\ \A t \in DOMAIN r[j].hashes : Known(r[j].hashes, t)
           T == {j \in 0..n : ~Good(j)}
<1>1. n \in Nat /\ r[0] = c
  BY DEF AreEntries, Runs
<1>2. Good(0)
  <2>1. c.peak \in Int
    BY ConsumerIs DEF Sane
  <2> QED BY <1>1, <2>1
<1>3. ASSUME NEW j \in 0..n - 1, Good(j)
      PROVE  Good(j + 1)
  <2>1. PICK d, e, f : d = r[j] /\ e = entries[j + 1] /\ f = r[j + 1]
    OBVIOUS
  <2>2. j + 1 \in 1..n /\ j \in 0..n /\ j + 1 \in 0..n
    BY <1>1
  <2>3. Sane(d) /\ Sane(f) /\ IsEntry(e) /\ (f = d \/ Took(d, e, f))
    BY <2>1, <2>2, RunsAreSane DEF AreEntries
  <2>4. c.peak \in Int /\ d.peak \in Int /\ f.peak \in Int /\ e.seq \in Int
    BY <2>3, ConsumerIs, SeqsAreIntegers DEF Sane, IsEntry
  <2>5. CASE f = d
    BY <1>3, <2>1, <2>5
  <2>6. CASE Took(d, e, f)
    <3>1. c.peak <= f.peak
      BY <1>3, <2>1, <2>4, <2>6 DEF Took
    <3>2. ASSUME NEW t \in DOMAIN f.hashes
          PROVE  Known(f.hashes, t)
      <4>1. CASE t = e.seq
        <5>1. f.hashes[t] = e.hash
          BY <2>6, <4>1 DEF Took
        <5> QED BY <2>1, <2>2, <4>1, <5>1
      <4>2. CASE t # e.seq
        <5>1. t \in DOMAIN d.hashes /\ f.hashes[t] = d.hashes[t]
          BY <2>6, <4>2 DEF Took
        <5> QED BY <1>3, <2>1, <5>1
      <4> QED BY <4>1, <4>2
    <3> QED BY <2>1, <3>1, <3>2
  <2> QED BY <2>3, <2>5, <2>6
<1> HIDE DEF Good
<1>4. ASSUME T # {} PROVE FALSE
  <2>1. T \subseteq Nat
    BY <1>1
  <2>2. PICK j \in T : \A i \in T : j <= i
    <3> HIDE DEF T
    <3> QED BY <1>4, <2>1, LeastOf
  <2>3. j # 0
    BY <1>2, <2>2
  <2>4. j - 1 \in 0..n - 1 /\ Good(j - 1) /\ (j - 1) + 1 = j
    BY <1>1, <2>2, <2>3
  <2>5. Good((j - 1) + 1)
    BY <1>3, <2>4
  <2> QED BY <2>2, <2>4, <2>5
<1>5. Good(k)
  BY <1>4
<1> QED BY <1>5 DEF Good

\* What the consumer will have become once everything under way is read.
LEMMA ComingIs ==
    ASSUME SystemInv
    PROVE  /\ Sane(Coming) /\ Now \in Consumers /\ Coming \in Consumers
           /\ peak <= Coming.peak
           /\ \A t \in DOMAIN Coming.hashes :
                 \/ t \in DOMAIN hashes /\ Coming.hashes[t] = hashes[t]
                 \/ \E i \in 1..UnderWay : t = SeqAt(i) /\ Coming.hashes[t] = HashAt(i)
<1>1. TypeOK /\ PipeInv
  BY DEF SystemInv, SafetyInv
<1>2. /\ AreEntries(Way) /\ Len(Way) = UnderWay
      /\ \A i \in 1..UnderWay : Way[i].seq = SeqAt(i) /\ Way[i].hash = HashAt(i)
  BY <1>1, WayIs
<1>3. PICK c : c = Now
  OBVIOUS
<1>4. Sane(c) /\ c \in Consumers
  BY <1>3, NowIsSane DEF Sane
<1>5. PICK w : w = Way
  OBVIOUS
<1>6. PICK r : r \in Runs(c, w)
  BY <1>2, <1>4, <1>5, RunsExist
<1>7. Coming = r[Len(w)]
  BY <1>2, <1>3, <1>4, <1>5, <1>6, AfterAllIs DEF Coming, Way
<1>8. Len(w) \in 0..Len(w)
  BY <1>2, <1>5 DEF AreEntries
<1>9. Sane(r[Len(w)])
  BY <1>2, <1>4, <1>5, <1>6, <1>8, RunsAreSane
<1>10. /\ c.peak <= r[Len(w)].peak
       /\ \A t \in DOMAIN r[Len(w)].hashes :
             \/ t \in DOMAIN c.hashes /\ r[Len(w)].hashes[t] = c.hashes[t]
             \/ \E i \in 1..Len(w) : t = w[i].seq /\ r[Len(w)].hashes[t] = w[i].hash
  BY <1>2, <1>4, <1>5, <1>6, <1>8, RunsGrow
<1>11. c.peak = peak /\ c.hashes = hashes
  BY <1>3 DEF Now
<1> QED BY <1>2, <1>3, <1>4, <1>5, <1>7, <1>9, <1>10, <1>11 DEF Sane

-----------------------------------------------------------------------------
(* Each step of the system is one of Replica, or none                      *)

\* With nothing under way the consumer stays as it is.
LEMMA NothingComing == SystemInv /\ UnderWay = 0 => Coming = Now
<1> SUFFICES ASSUME SystemInv, UnderWay = 0 PROVE Coming = Now
  OBVIOUS
<1>1. TypeOK /\ PipeInv
  BY DEF SystemInv, SafetyInv
<1>2. PICK w : w = Way
  OBVIOUS
<1>3. PICK c : c = Now
  OBVIOUS
<1>4. Len(w) = 0 /\ c \in Consumers
  BY <1>1, <1>2, <1>3, WayIs, ComingIs
<1>5. AfterAll(c, w) = c
  BY <1>4, AfterNothing
<1> QED BY <1>2, <1>3, <1>5 DEF Coming, Way

\* At first the picture, and the one to come, are empty.
LEMMA ReplicaInitially == SystemInit => Followed!ReplicaInit
<1> SUFFICES ASSUME SystemInit PROVE Followed!ReplicaInit
  OBVIOUS
<1>1. /\ frame = <<>> /\ pipe = <<>> /\ chain = <<0>> /\ floor = 1 /\ phase = "closed"
      /\ view = View!EmptyView /\ peak = -1
  BY DEF SystemInit, Init
<1>2. SystemInv /\ UnderWay = 0
  BY <1>1, SystemInitInv DEF UnderWay
<1>3. Coming.view = view /\ Coming.peak = peak
  BY <1>2, NothingComing DEF Now
<1>4. 0 \in Hashes
  BY FeedAssumption
<1>5. view = Followed!EmptyView
  BY <1>1 DEF View!EmptyView, Followed!EmptyView
<1>6. (phase = "open") = FALSE
  BY <1>1
<1> QED BY <1>1, <1>3, <1>4, <1>5, <1>6 DEF Followed!ReplicaInit, Followed!Init

\* Reading a frame changes nothing of what is to come.
LEMMA ReadingKeepsComing ==
    ASSUME SystemInv, SystemInv', SystemReceive
    PROVE  Coming' = Coming
<1>1. /\ TypeOK /\ PipeInv /\ TypeOK' /\ PipeInv'
  BY DEF SystemInv, SafetyInv
<1>2. UNCHANGED <<view, hashes, highestSeq, peak>>
  BY DEF SystemReceive, Receive, core, history
<1>3. PICK c, w, x : c = Now /\ w = Way /\ x = Way'
  OBVIOUS
<1>4. Now' = c
  BY <1>2, <1>3 DEF Now
<1>5. /\ AreEntries(w) /\ AreEntries(x) /\ Len(w) = UnderWay /\ Len(x) = UnderWay
      /\ \A i \in 1..UnderWay : w[i].seq = SeqAt(i) /\ w[i].hash = HashAt(i)
      /\ \A i \in 1..UnderWay : x[i].seq = SeqAt(i) /\ x[i].hash = HashAt(i)
  <2>1. AreEntries(w) /\ Len(w) = UnderWay
        /\ \A i \in 1..UnderWay : w[i].seq = SeqAt(i) /\ w[i].hash = HashAt(i)
    BY <1>1, <1>3, WayIs
  <2>2. AreEntries(x) /\ Len(x) = UnderWay'
        /\ \A i \in 1..UnderWay' : x[i].seq = SeqAt(i)' /\ x[i].hash = HashAt(i)'
    BY <1>1, <1>3, WayWillBe
  <2>3. UnderWay' = UnderWay
        /\ \A i \in 1..UnderWay : SeqAt(i)' = SeqAt(i) /\ HashAt(i)' = HashAt(i)
    BY <1>1, ReadInPlace
  <2> QED BY <2>1, <2>2, <2>3
<1>6. c \in Consumers
  BY <1>3, ComingIs
<1>7. AfterAll(c, w) = AfterAll(c, x)
  BY <1>5, <1>6, SameEntries
<1> QED BY <1>3, <1>4, <1>7 DEF Coming, Way

\* A turn of the loop makes of the consumer what the first entry under way makes of it.
LEMMA TurnHandles ==
    ASSUME SystemInv, SystemStep
    PROVE  Now' = Handled(Now, Head(frame))
<1>0. PICK e : e = Head(frame)
  OBVIOUS
<1>1. /\ Turn /\ Step /\ UNCHANGED pipe /\ TypeOK /\ PipeInv
  BY DEF SystemStep, Step, Reject, Duplicate, Reorg, Deliver, SystemInv, SafetyInv
<1>2. e \in ItemType /\ e.accepted /\ e.hash \in Hashes
  <2>1. UnderWay >= 1 /\ UnderWay \in Nat /\ HashAt(1) = e.hash
        /\ e \in ItemType /\ e.accepted
    BY <1>0, <1>1, TurnTakesFirst, UnderWayType
  <2>2. HashAt(1) \in Hashes
    BY <1>1, <2>1, UnderWayType
  <2> QED BY <2>1, <2>2
<1>3. e.hash # NoHash
  BY <1>2, HashesAssumption
<1>4. /\ Now.view = view /\ Now.hashes = hashes /\ Now.highestSeq = highestSeq /\ Now.peak = peak
  BY DEF Now
<1>5. IsReorg(e) <=> Contradicts(Now, e)
  BY <1>3, <1>4 DEF IsReorg, Contradicts
<1>6. Remembered(e) = Recalled(Now, e)
  BY <1>3, <1>4 DEF Remembered, Recalled
<1>7. CASE Duplicate
  <2>1. Now' = Now
    BY <1>7 DEF Duplicate, core, history, Now
  <2>2. e.seq <= highestSeq /\ ~IsReorg(e)
    BY <1>0, <1>7 DEF Duplicate
  <2>3. Handled(Now, e) = Now
    BY <1>4, <1>5, <2>2 DEF Handled
  <2> QED BY <1>0, <2>1, <2>3
<1>8. CASE Reorg
  <2>1. e.seq <= highestSeq /\ IsReorg(e) /\ Yield(e, TRUE)
    BY <1>0, <1>8 DEF Reorg
  <2>2. /\ highestSeq' = e.seq /\ hashes' = Remembered(e)
        /\ view' = View!Replaced(view, e.seq, e.hash)
        /\ peak' = IF e.seq > peak THEN e.seq ELSE peak
    BY <2>1 DEF Yield, Absorbed, Message
  <2> QED BY <1>0, <1>4, <1>5, <1>6, <2>1, <2>2 DEF Now, Handled
<1>9. CASE Deliver
  <2>1. e.seq > highestSeq /\ Yield(e, FALSE)
    BY <1>0, <1>9 DEF Deliver
  <2>2. /\ highestSeq' = e.seq /\ hashes' = Remembered(e)
        /\ view' = View!Extended(view, e.seq, e.hash)
        /\ peak' = IF e.seq > peak THEN e.seq ELSE peak
    BY <2>1 DEF Yield, Absorbed, Message
  <2>3. ~(e.seq <= highestSeq)
    <3>1. e.seq \in Int /\ highestSeq \in Int
      BY <1>1, <1>2, SeqsAreIntegers DEF TypeOK, ItemType
    <3> QED BY <2>1, <3>1
  <2> QED BY <1>0, <1>4, <1>6, <2>2, <2>3 DEF Now, Handled
<1>10. ~Reject
  BY <1>0, <1>2, Zenon DEF Reject
<1> QED BY <1>1, <1>7, <1>8, <1>9, <1>10 DEF Step

\* So that a turn changes nothing of what is to come.
LEMMA TurnKeepsComing ==
    ASSUME SystemInv, SystemInv', SystemStep
    PROVE  Coming' = Coming
<1>1. /\ TypeOK /\ PipeInv /\ TypeOK' /\ PipeInv' /\ Turn /\ UNCHANGED pipe
  BY DEF SystemInv, SafetyInv, SystemStep, Step, Reject, Duplicate, Reorg, Deliver
<1>2. PICK c, w, x, e : c = Now /\ w = Way /\ x = Way' /\ e = Head(frame)
  OBVIOUS
<1>3. Now' = Handled(c, e)
  BY <1>2, TurnHandles
<1>4. /\ UnderWay \in Nat /\ UnderWay >= 1 /\ UnderWay' = UnderWay - 1
      /\ \A i \in 1..(UnderWay - 1) : SeqAt(i)' = SeqAt(i + 1) /\ HashAt(i)' = HashAt(i + 1)
      /\ SeqAt(1) = e.seq /\ HashAt(1) = e.hash
  BY <1>1, <1>2, TurnTakesFirst, UnderWayType
<1>5. AreEntries(w) /\ Len(w) = UnderWay
      /\ \A i \in 1..UnderWay : w[i].seq = SeqAt(i) /\ w[i].hash = HashAt(i)
  BY <1>1, <1>2, WayIs
<1>6. AreEntries(x) /\ Len(x) = UnderWay'
      /\ \A i \in 1..UnderWay' : x[i].seq = SeqAt(i)' /\ x[i].hash = HashAt(i)'
  BY <1>1, <1>2, WayWillBe
<1>7. PICK n \in Nat : n = UnderWay
  BY <1>4
<1>8. Len(w) = Len(x) + 1 /\ w[1].seq = e.seq /\ w[1].hash = e.hash
  BY <1>4, <1>5, <1>6, <1>7
<1>9. ASSUME NEW i \in 1..Len(x)
      PROVE  x[i].seq = w[i + 1].seq /\ x[i].hash = w[i + 1].hash
  <2>1. i \in 1..(UnderWay - 1) /\ i + 1 \in 1..UnderWay /\ i \in 1..UnderWay'
    BY <1>4, <1>6, <1>7
  <2> QED BY <1>4, <1>5, <1>6, <2>1
<1>10. IsEntry(e)
  BY <1>4, <1>5, <1>7, <1>8 DEF AreEntries, IsEntry
<1>11. c \in Consumers
  BY <1>2, ComingIs
<1>12. AfterAll(c, w) = AfterAll(Handled(c, e), x)
  BY <1>5, <1>6, <1>8, <1>9, <1>10, <1>11, AfterFirst
<1> QED BY <1>2, <1>3, <1>12 DEF Coming, Way

\* What is neither read nor sent changes nothing of what is to come.
LEMMA StillComing == UNCHANGED <<view, hashes, highestSeq, peak, frame, pipe>> => Coming' = Coming
<1> SUFFICES ASSUME UNCHANGED <<view, hashes, highestSeq, peak, frame, pipe>>
             PROVE  Coming' = Coming
  OBVIOUS
<1>1. UNCHANGED <<Now, frame, pipe>>
  BY DEF Now
<1> QED BY <1>1 DEF Coming

\* A block put at the tip is the last of what is to come, or it is passed over as Replica
\* allows: a block that was never sent before is passed over only where no hash of the block
\* that it replaces is kept.
LEMMA BlockIsSent ==
    ASSUME MissedInv, SystemInv', FeedAppend \/ \E s \in DOMAIN chain : FeedReorg(s)
    PROVE  Followed!Sent(Len(chain'))
<1>0. PICK tip, g : tip = Len(chain') /\ g = chain'[tip]
  OBVIOUS
<1>1. SystemInv /\ TypeOK /\ PipeInv /\ TypeOK' /\ PipeInv'
      /\ \A t \in DOMAIN hashes : WasSent(t, hashes[t])
  BY DEF MissedInv, ForkInv, SystemInv, SafetyInv
<1>2. /\ tip \in Seqs /\ g \in Hashes /\ g = fork' /\ Wire(chain', tip) \in Blocks
      /\ pipe' = IF phase = "open" THEN Append(pipe, Wire(chain', tip)) ELSE pipe
      /\ \A t \in Int : \A h : WasSent(t, h) => ~(t = tip /\ h = g)
      /\ UNCHANGED <<phase, frame, view, hashes, highestSeq, peak>>
  <2>1. /\ chain'[tip] = fork' /\ tip \in 1..MaxTail /\ fork' \in Hashes
        /\ Wire(chain', tip) \in Blocks
        /\ pipe' = IF phase = "open" THEN Append(pipe, Wire(chain', tip)) ELSE pipe
        /\ \A t \in Int : \A h : WasSent(t, h) => ~(t = tip /\ h = fork')
        /\ UNCHANGED <<vars, faults, ghosts>>
    BY <1>0, <1>1, BlockBuilt
  <2> QED BY <1>0, <2>1, FeedAssumption DEF vars, core, history
<1>3. CASE phase # "open"
  <2>1. UNCHANGED pipe
    BY <1>2, <1>3
  <2>2. Coming' = Coming
    BY <1>2, <2>1, StillComing
  <2> QED BY <1>0, <1>3, <2>2 DEF Followed!Sent
<1>4. CASE phase = "open"
  <2> DEFINE e == Wire(chain', tip)
  <2>1. /\ UnderWay' = UnderWay + 1
        /\ \A i \in 1..UnderWay : SeqAt(i)' = SeqAt(i) /\ HashAt(i)' = HashAt(i)
        /\ \A i : i = UnderWay + 1 => SeqAt(i)' = tip /\ HashAt(i)' = g
    BY <1>0, <1>1, <1>2, <1>4, SentBehind DEF Wire
  <2>2. PICK c, w, x, d : c = Now /\ w = Way /\ x = Way' /\ d = Coming
    OBVIOUS
  <2>3. PICK a : a = [seq |-> tip, hash |-> g]
    OBVIOUS
  <2>4. IsEntry(a) /\ a.seq = tip /\ a.hash = g
    BY <1>2, <2>3 DEF IsEntry
  <2>5. AreEntries(w) /\ Len(w) = UnderWay /\ UnderWay \in Nat
        /\ \A i \in 1..UnderWay : w[i].seq = SeqAt(i) /\ w[i].hash = HashAt(i)
    BY <1>1, <2>2, WayIs, UnderWayType
  <2>6. AreEntries(x) /\ Len(x) = UnderWay'
        /\ \A i \in 1..UnderWay' : x[i].seq = SeqAt(i)' /\ x[i].hash = HashAt(i)'
    BY <1>1, <2>2, WayWillBe
  <2>7. PICK n \in Nat : n = UnderWay
    BY <2>5
  <2>8. /\ Len(w) = n /\ Len(x) = n + 1
        /\ \A i \in 1..n : x[i].seq = w[i].seq /\ x[i].hash = w[i].hash
        /\ x[n + 1].seq = tip /\ x[n + 1].hash = g
    BY <2>1, <2>5, <2>6, <2>7
  <2>9. Sane(d) /\ c \in Consumers
        /\ \A t \in DOMAIN d.hashes :
              \/ t \in DOMAIN hashes /\ d.hashes[t] = hashes[t]
              \/ \E i \in 1..UnderWay : t = SeqAt(i) /\ d.hashes[t] = HashAt(i)
    BY <1>1, <2>2, ComingIs
  <2>10. AfterAll(c, x) = Handled(AfterAll(c, w), a)
    BY <2>4, <2>5, <2>8, <2>9, AfterOneMore
  <2>11. d = AfterAll(c, w)
    BY <2>2 DEF Coming, Way
  <2>12. Coming' = AfterAll(c, x)
    <3>1. Now' = c
      BY <1>2, <2>2 DEF Now
    <3> QED BY <2>2, <3>1 DEF Coming, Way
  <2>13. Coming' = Handled(d, a)
    BY <2>10, <2>11, <2>12
  <2>14. PICK f : f = Handled(d, a)
    OBVIOUS
  <2>15. \/ Passed(d, a) /\ f = d
         \/ Took(d, a, f)
    BY <2>4, <2>9, <2>14, HandledIs
  <2>16. /\ tip \in Int /\ tip >= 1 /\ d.peak \in Int /\ d.highestSeq \in Int
         /\ ReorgWindow \in Nat
    BY <1>2, <2>9, ConsumerIs, SeqsAreIntegers, SizesAssumption, FeedAssumption DEF Sane
  <2>17. CASE Passed(d, a) /\ f = d
    <3>1. tip <= d.highestSeq /\ ~(tip \in DOMAIN d.hashes /\ d.hashes[tip] # g)
      BY <2>4, <2>17 DEF Passed, Contradicts
    <3>2. ASSUME tip \in DOMAIN d.hashes PROVE FALSE
      <4>1. d.hashes[tip] = g
        BY <3>1, <3>2
      <4>2. \/ tip \in DOMAIN hashes /\ g = hashes[tip]
            \/ \E i \in 1..UnderWay : tip = SeqAt(i) /\ g = HashAt(i)
        BY <2>9, <3>2, <4>1
      <4>3. WasSent(tip, g)
        BY <1>1, <4>2 DEF SystemInv, SentInv
      <4> QED BY <1>2, <2>16, <4>3
    <3>3. CASE tip \in DOMAIN d.view
      <4>1. tip <= d.peak - ReorgWindow
        BY <2>9, <2>16, <3>2, <3>3 DEF Sane
      <4> QED BY <1>0, <1>4, <2>2, <2>13, <2>14, <2>17, <3>3, <4>1
              DEF Followed!Sent, Followed!MayMiss, Followed!Deep
    <3>4. CASE tip \notin DOMAIN d.view
      <4>1. d.highestSeq \in DOMAIN d.view
        BY <2>9, <2>16, <3>1 DEF Sane
      <4>2. tip < d.highestSeq
        BY <2>16, <3>1, <3>4, <4>1
      <4>3. \E t \in DOMAIN d.view : tip < t
        BY <4>1, <4>2
      <4> QED BY <1>0, <1>4, <2>2, <2>13, <2>14, <2>17, <3>4, <4>3
              DEF Followed!Sent, Followed!MayMiss, Followed!InGap
    <3> QED BY <3>3, <3>4
  <2>18. CASE Took(d, a, f)
    <3>1. f.view = View!Replaced(d.view, tip, g)
      BY <2>4, <2>18 DEF Took
    <3>2. View!Replaced(d.view, tip, g) = Followed!Replaced(d.view, tip, g)
      BY DEF View!Replaced, View!Below, Followed!Replaced, Followed!Below
    <3>3. f.peak = IF tip > d.peak THEN tip ELSE d.peak
      BY <2>4, <2>18 DEF Took
    <3>4. Followed!IsGreatest(f.peak, {d.peak, tip})
      BY <2>16, <3>3 DEF Followed!IsGreatest
    <3> QED BY <1>0, <1>4, <2>2, <2>13, <2>14, <3>1, <3>2, <3>4 DEF Followed!Sent
  <2> QED BY <2>15, <2>17, <2>18
<1> QED BY <1>3, <1>4

\* A block that the feed builds comes on top of the picture to come.
LEMMA AppendGrows ==
    ASSUME MissedInv, SystemInv', FeedAppend
    PROVE  Followed!Grow
<1>1. Followed!Sent(Len(chain'))
  BY BlockIsSent
<1>2. /\ chain \in Seq(Hashes) /\ fork \in Hashes
      /\ chain' = Append(chain, fork) /\ UNCHANGED <<view, floor, phase>>
  BY DEF FeedAppend, vars, history, MissedInv, SystemInv, SystemTypeOK
<1>3. Len(chain') = Len(chain) + 1
  BY <1>2
<1> QED BY <1>1, <1>2, <1>3 DEF Followed!Grow

\* A block that replaces others takes their place in the picture to come.
LEMMA ReorgReorganises ==
    ASSUME MissedInv, SystemInv', NEW s \in DOMAIN chain, FeedReorg(s)
    PROVE  Followed!Reorganise(s)
<1>1. Followed!Sent(Len(chain'))
  BY BlockIsSent
<1>2. /\ chain \in Seq(Hashes) /\ fork \in Hashes /\ chain[s] \in 0..fork /\ s \in 1..Len(chain)
      /\ Len(chain) \in Nat
      /\ chain' = Append(SubSeq(chain, 1, s - 1), fork + 1) /\ fork < MaxReorgs
      /\ floor' = IF s < floor THEN s ELSE floor
      /\ UNCHANGED <<view, phase>>
  BY DEF FeedReorg, vars, history, MissedInv, SystemInv, SystemTypeOK, ChainInv
<1>3. fork \in Nat /\ fork + 1 \in Hashes \ {chain[s]}
  BY <1>2, FeedAssumption
<1>4. SubSeq(chain, 1, s - 1) \in Seq(Hashes) /\ Len(SubSeq(chain, 1, s - 1)) = s - 1
  BY <1>2
<1>5. Len(chain') = s
  BY <1>2, <1>3, <1>4
<1> QED BY <1>1, <1>2, <1>3, <1>5 DEF Followed!Reorganise

\* What the feed drops from its backlog changes neither picture.
LEMMA TrimTrims ==
    ASSUME SystemInv, FeedTrim
    PROVE  Followed!Trim
<1>1. /\ floor < Len(chain) /\ floor' = floor + 1
      /\ UNCHANGED <<view, hashes, highestSeq, peak, phase, frame, pipe, chain>>
  BY DEF FeedTrim, vars, core, history
<1>2. Coming' = Coming
  BY <1>1, StillComing
<1>3. floor \in Nat /\ Len(chain) \in Nat
  BY FeedAssumption DEF SystemInv, SystemTypeOK
<1>4. floor' \in floor + 1..Len(chain)
  BY <1>1, <1>3
<1> QED BY <1>1, <1>2, <1>4 DEF Followed!Trim

\* A fault leaves the picture as it is, and takes what was under way.
LEMMA FaultFollows ==
    ASSUME SystemInv, SystemInv', SystemFault
    PROVE  Followed!Lose \/ UNCHANGED <<view, chain, floor, phase = "open", Coming>>
<1>1. /\ phase' # "open" /\ UnderWay' = 0
      /\ UNCHANGED <<view, highestSeq, hashes, peak, chain, floor>>
  BY FaultLoses DEF SystemFault, ConnectFails, Drop, CleanClose, Close, core, history, feed
<1>2. Now' = Now /\ Now.view = view /\ Now.peak = peak
  BY <1>1 DEF Now
<1>3. Coming' = Now
  <2>1. (SystemInv /\ UnderWay = 0 => Coming = Now)'
    BY NothingComing, PTL
  <2> QED BY <1>1, <1>2, <2>1
<1>4. CASE phase = "open"
  <2>1. Coming'.view = view /\ Coming'.peak = peak
    BY <1>2, <1>3
  <2>2. peak <= Coming.peak
    BY ComingIs
  <2>3. \A s \in DOMAIN view : s <= peak
    <3>1. /\ DOMAIN view \subseteq Int /\ highestSeq \in Int /\ peak \in Int
      BY SystemNumbers, MissedNumbers
    <3>2. \A s \in DOMAIN view : s <= highestSeq
      BY DEF SystemInv, SafetyInv, WatermarkIsTip
    <3> QED BY <3>1, <3>2 DEF SystemInv, SafetyInv, PeakIsGreatest
  <2> QED BY <1>1, <1>4, <2>1, <2>2, <2>3 DEF Followed!Lose
<1>5. CASE phase # "open"
  <2>1. UnderWay = 0
    BY <1>5 DEF SystemInv, LiveInv, OnlyOpenReads, PipeInv, UnderWay
  <2>2. Coming = Now
    BY <2>1, NothingComing
  <2> QED BY <1>1, <1>3, <1>5, <2>2
<1> QED BY <1>4, <1>5

\* A turn hands the reader a message, as FeedView has it, or none.
LEMMA TurnReads ==
    ASSUME SystemInv, SystemInv', SystemStep
    PROVE  Followed!Read \/ UNCHANGED <<view, chain, floor, phase = "open", Coming>>
<1>1. Coming' = Coming
  BY TurnKeepsComing
<1>2. /\ phase = "open" /\ phase' = "open" /\ UNCHANGED <<chain, floor>>
  BY TurnHolds DEF Turn
<1>3. CASE view' = view
  BY <1>1, <1>2, <1>3
<1>4. CASE view' # view
  <2>1. [SystemNext]_systemVars
    BY DEF SystemNext
  <2>2. [Next]_vars
    BY <2>1, SystemStepIsConsumers DEF SystemInv, PipeInv
  <2>3. View!Next
    BY <1>4, <2>2, ViewNext DEF SystemInv
  <2>4. Followed!Next
    BY <2>3 DEF View!Next, View!Extend, View!Extended, View!Replace, View!Replaced, View!Below,
                Followed!Next, Followed!Extend, Followed!Extended, Followed!Replace,
                Followed!Replaced, Followed!Below
  <2> QED BY <1>1, <1>2, <1>4, <2>4 DEF Followed!Read
<1> QED BY <1>3, <1>4

-----------------------------------------------------------------------------
(* A connection                                                            *)

\* Once the picture has a block of the newest fork, its last block is one, and only such
\* blocks are under way.
PictureInv ==
    (\E t \in DOMAIN view : view[t] = fork) =>
        /\ Has(highestSeq, fork)
        /\ \A i \in 1..UnderWay : HashAt(i) = fork

\* PictureInv holds at first.
LEMMA PictureInitInv == SystemInit => PictureInv
BY EmptyViewIsPartial DEF SystemInit, Init, PictureInv

\* Every step keeps PictureInv.
LEMMA PictureNextInv ==
    ASSUME MissedInv, PictureInv, [SystemNext]_systemVars
    PROVE  PictureInv'
<1>1. /\ SystemInv /\ ForkInv /\ OrderInv /\ TypeOK /\ PipeInv
      /\ UnderWay \in Nat /\ Len(chain) \in Nat /\ highestSeq \in Int
      /\ DOMAIN view \subseteq Int /\ fork \in Nat /\ DOMAIN chain = 1..Len(chain)
      /\ \A s \in DOMAIN chain : chain[s] \in 0..fork
      /\ \A i \in 1..UnderWay : HashAt(i) \in 0..fork
      /\ \A t \in DOMAIN view : view[t] \in 0..fork
  BY SystemNumbers, MissedNumbers DEF MissedInv
<1>2. CASE SystemOpen
  <2>0. PICK from, count : from = ReplayFrom /\ count = Len(chain) - from + 1
    OBVIOUS
  <2>1. /\ UNCHANGED <<highestSeq, view, chain, fork>>
        /\ from \in floor..Len(chain) /\ UnderWay' = count
        /\ \A i \in 1..count : SeqAt(i)' = from + i - 1 /\ HashAt(i)' = chain[from + i - 1]
        /\ floor \in Nat /\ floor >= 1
    BY <1>1, <1>2, <2>0, OpenBrings, FeedAssumption
       DEF SystemOpen, feed, SystemInv, SystemTypeOK
  <2>2. from = highestSeq \/ highestSeq \notin floor..Len(chain)
    BY <2>0 DEF ReplayFrom, InBacklog, Requested
  <2> SUFFICES ASSUME NEW t \in DOMAIN view, view[t] = fork
               PROVE  Has(highestSeq, fork)' /\ \A i \in 1..count : HashAt(i)' = fork
    BY <2>1 DEF PictureInv
  <2>3. Has(highestSeq, fork)
    BY DEF PictureInv
  <2>4. /\ highestSeq <= Len(chain)
        /\ \A s \in DOMAIN chain : highestSeq <= s => fork <= chain[s]
    BY <1>1, <2>3 DEF Has, SystemInv, SentInv, WasSent, ForkInv, NoneOlder
  <2>5. highestSeq <= from /\ from \in Int /\ count \in Int
    BY <1>1, <2>0, <2>1, <2>2, <2>4
  <2>6. ASSUME NEW i \in 1..count PROVE HashAt(i)' = fork
    <3>1. PICK s \in DOMAIN chain : s = from + i - 1
      BY <1>1, <2>0, <2>1, <2>5
    <3>2. highestSeq <= s
      BY <1>1, <2>5, <3>1
    <3>3. fork <= chain[s] /\ chain[s] \in 0..fork
      BY <1>1, <2>4, <3>2
    <3> QED BY <1>1, <2>1, <3>1, <3>3
  <2> QED BY <2>1, <2>3, <2>6 DEF Has
<1>3. CASE SystemStep
  <2>0. PICK e : e = Head(frame)
    OBVIOUS
  <2>1. /\ Turn /\ UNCHANGED <<pipe, chain, fork>>
        /\ \A t \in DOMAIN view' :
              \/ t = e.seq /\ view'[t] = e.hash
              \/ t \in DOMAIN view /\ view'[t] = view[t]
    BY <1>1, <1>3, <2>0, TurnHolds
  <2>2. /\ UnderWay >= 1 /\ UnderWay' = UnderWay - 1
        /\ \A i \in 1..(UnderWay - 1) : HashAt(i)' = HashAt(i + 1)
        /\ SeqAt(1) = e.seq /\ HashAt(1) = e.hash
    BY <1>1, <2>0, <2>1, TurnTakesFirst
  <2>3. \/ UNCHANGED <<view, highestSeq>>
        \/ highestSeq' = e.seq /\ e.seq \in DOMAIN view' /\ view'[e.seq] = e.hash
    BY <1>1, <1>3, <2>0, TurnRemembers
  <2>4. /\ \A i \in 1..UnderWay' : i + 1 \in 1..UnderWay /\ i \in 1..(UnderWay - 1)
        /\ 1 \in 1..UnderWay
    BY <1>1, <2>2
  <2> SUFFICES ASSUME NEW t \in DOMAIN view', view'[t] = fork
               PROVE  Has(highestSeq, fork)' /\ \A i \in 1..UnderWay' : HashAt(i)' = fork
    BY <2>1 DEF PictureInv
  <2>5. e.hash = fork
    BY <2>1, <2>2, <2>4 DEF PictureInv
  <2>6. \A i \in 1..UnderWay' : HashAt(i)' = fork
    <3> SUFFICES ASSUME NEW i \in 1..UnderWay' PROVE HashAt(i + 1) = fork
      BY <2>2, <2>4
    <3>1. 1 < i + 1 /\ i + 1 \in 1..UnderWay /\ HashAt(1) = fork
      BY <2>2, <2>4, <2>5
    <3>2. HashAt(1) <= HashAt(i + 1) /\ HashAt(i + 1) \in 0..fork
      BY <1>1, <2>4, <3>1 DEF OrderInv
    <3> QED BY <1>1, <3>1, <3>2
  <2>7. Has(highestSeq, fork)'
    <3>1. CASE highestSeq' = e.seq /\ e.seq \in DOMAIN view' /\ view'[e.seq] = e.hash
      BY <2>1, <2>5, <3>1 DEF Has
    <3>2. CASE UNCHANGED <<view, highestSeq>>
      BY <2>1, <3>2 DEF PictureInv, Has
    <3> QED BY <2>3, <3>1, <3>2
  <2> QED BY <2>6, <2>7
<1>4. CASE FeedAppend \/ \E s \in DOMAIN chain : FeedReorg(s)
  <2>0. PICK tip : tip = Len(chain')
    OBVIOUS
  <2>1. /\ fork' \in Nat /\ fork <= fork' /\ chain'[tip] = fork'
        /\ pipe' = IF phase = "open" THEN Append(pipe, Wire(chain', tip)) ELSE pipe
        /\ Wire(chain', tip) \in Blocks
        /\ UNCHANGED <<phase, frame, view, highestSeq>>
    <3>1. /\ fork' \in Hashes /\ fork <= fork' /\ chain'[tip] = fork'
          /\ pipe' = IF phase = "open" THEN Append(pipe, Wire(chain', tip)) ELSE pipe
          /\ Wire(chain', tip) \in Blocks
          /\ UNCHANGED <<vars, ghosts>>
      BY <1>1, <1>4, <2>0, BlockBuilt
    <3> QED BY <3>1, FeedAssumption DEF vars, core, history
  <2> SUFFICES ASSUME NEW t \in DOMAIN view, view[t] = fork'
               PROVE  Has(highestSeq, fork)' /\ \A i \in 1..UnderWay' : HashAt(i)' = fork'
    BY <2>1 DEF PictureInv
  <2>2. fork' = fork
    BY <1>1, <2>1
  <2>3. Has(highestSeq, fork) /\ \A i \in 1..UnderWay : HashAt(i) = fork
    BY <2>2 DEF PictureInv
  <2>4. Has(highestSeq, fork)'
    BY <2>1, <2>2, <2>3 DEF Has
  <2>5. CASE phase = "open"
    <3>1. /\ UnderWay' = UnderWay + 1
          /\ \A i \in 1..UnderWay : HashAt(i)' = HashAt(i)
          /\ \A i : i = UnderWay + 1 => HashAt(i)' = fork'
      BY <1>1, <2>0, <2>1, <2>5, SentBehind DEF Wire
    <3>2. \A i \in 1..UnderWay' : i \in 1..UnderWay \/ i = UnderWay + 1
      BY <1>1, <3>1
    <3> QED BY <2>2, <2>3, <2>4, <3>1, <3>2
  <2>6. CASE phase # "open"
    <3>1. UnderWay = 0 /\ UnderWay' = UnderWay
      BY <1>1, <2>1, <2>6 DEF SystemInv, LiveInv, OnlyOpenReads, PipeInv, UnderWay
    <3> QED BY <2>4, <3>1
  <2> QED BY <2>5, <2>6
<1>5. CASE SystemReceive
  <2>1. UNCHANGED <<highestSeq, view, fork>>
    BY <1>5 DEF SystemReceive, Receive, core, history, feed
  <2>2. UnderWay' = UnderWay /\ \A i \in 1..UnderWay : HashAt(i)' = HashAt(i)
    BY <1>1, <1>5, ReadInPlace
  <2> QED BY <2>1, <2>2 DEF PictureInv, Has
<1>6. CASE SystemRetry \/ FeedTrim \/ UNCHANGED systemVars
  <2>1. UNCHANGED <<frame, pipe, view, highestSeq, fork>>
    BY <1>6 DEF SystemRetry, Call, Wake, FeedTrim, systemVars, vars, core, history, feed
  <2>2. UnderWay' = UnderWay /\ \A i \in 1..UnderWay : HashAt(i)' = HashAt(i)
    BY <2>1 DEF UnderWay, HashAt
  <2> QED BY <2>1, <2>2 DEF PictureInv, Has
<1>7. CASE SystemFault
  <2>1. UnderWay' = 0 /\ UNCHANGED <<view, highestSeq, fork>>
    BY <1>1, <1>7, FaultLoses DEF SystemFault, feed
  <2> QED BY <2>1 DEF PictureInv, Has
<1> QED BY <1>2, <1>3, <1>4, <1>5, <1>6, <1>7 DEF SystemNext, Environment

\* The consumer c0 has become c with what the feed sent of the chain ch from block `from` up to
\* block `to`, not included.
Joins(ch, c0, c, from, to) ==
    /\ c = c0 \/ c.highestSeq < to
    /\ \A s \in DOMAIN c0.view : s < from => s \in DOMAIN c.view
    /\ \A s \in DOMAIN c.view :
          \/ s \in DOMAIN c0.view /\ c.view[s] = c0.view[s]
          \/ from <= s /\ s < to /\ c.view[s] = ch[s]
    /\ \A s \in from..to - 1 :
          IF s \in DOMAIN c.view THEN c.view[s] = ch[s] \/ Followed!Deep(s, c.peak)
          ELSE Followed!InGap(c0.view, s)
    /\ c.peak = c0.peak \/ c.peak \in DOMAIN c.view

\* One block more of the chain.
LEMMA OneMoreJoins ==
    ASSUME NEW ch, NEW c0, Sane(c0), NEW c, Sane(c), NEW d, Sane(d), NEW e, IsEntry(e),
           NEW from \in Int, NEW to \in Int, from <= to, e.seq = to, e.hash = ch[to],
           Joins(ch, c0, c, from, to),
           \/ Passed(c, e) /\ d = c
           \/ ~Passed(c, e) /\ Took(c, e, d)
    PROVE  Joins(ch, c0, d, from, to + 1)
<1>1. /\ c0.view \in PartialFunctions(Seqs, Hashes) /\ DOMAIN c0.view \subseteq Int
      /\ c.view \in PartialFunctions(Seqs, Hashes) /\ DOMAIN c.view \subseteq Int
      /\ c.highestSeq \in Int /\ c.peak \in Int /\ c0.peak \in Int /\ d.peak \in Int
      /\ c0.highestSeq \in Int
      /\ to \in Seqs /\ e.hash \in Hashes /\ to >= 1 /\ ReorgWindow \in Nat
  BY ConsumerIs, SeqsAreIntegers, SizesAssumption, FeedAssumption DEF Sane, IsEntry
<1>2. \A s \in from..to : s \in from..to - 1 \/ s = to
  OBVIOUS
<1>3. CASE Passed(c, e) /\ d = c
  <2>1. to <= c.highestSeq /\ ~(to \in DOMAIN c.hashes /\ c.hashes[to] # ch[to])
    BY <1>3 DEF Passed, Contradicts
  <2>2. c = c0
    BY <1>1, <2>1 DEF Joins
  <2>3. IF to \in DOMAIN c.view THEN c.view[to] = ch[to] \/ Followed!Deep(to, c.peak)
        ELSE Followed!InGap(c0.view, to)
    <3>1. CASE to \in DOMAIN c.view
      <4>1. CASE to \in DOMAIN c.hashes
        BY <2>1, <3>1, <4>1 DEF Sane
      <4>2. CASE to \notin DOMAIN c.hashes
        BY <1>1, <3>1, <4>2 DEF Sane, Followed!Deep
      <4> QED BY <3>1, <4>1, <4>2
    <3>2. CASE to \notin DOMAIN c.view
      <4>1. c.highestSeq \in DOMAIN c.view
        BY <1>1, <2>1 DEF Sane
      <4>2. to < c.highestSeq
        BY <1>1, <2>1, <3>2, <4>1
      <4>3. Followed!InGap(c0.view, to)
        BY <2>2, <3>2, <4>1, <4>2 DEF Followed!InGap
      <4> QED BY <3>2, <4>3
    <3> QED BY <3>1, <3>2
  <2>4. ASSUME NEW s \in from..(to + 1) - 1
        PROVE  IF s \in DOMAIN c.view THEN c.view[s] = ch[s] \/ Followed!Deep(s, c.peak)
               ELSE Followed!InGap(c0.view, s)
    <3>1. s \in from..to - 1 \/ s = to
      BY <1>2
    <3> QED BY <2>3, <3>1 DEF Joins
  <2>5. \A s \in DOMAIN c.view : s < to => s < to + 1
    BY <1>1
  <2> QED BY <1>3, <2>2, <2>4, <2>5 DEF Joins
<1>4. CASE ~Passed(c, e) /\ Took(c, e, d)
  <2>1. /\ DOMAIN d.view = {t \in DOMAIN c.view : t < to} \cup {to}
        /\ d.view[to] = ch[to] /\ \A t \in DOMAIN c.view : t < to => d.view[t] = c.view[t]
    <3>1. PICK v \in PartialFunctions(Seqs, Hashes), s \in Seqs, g \in Hashes :
              v = c.view /\ s = to /\ g = e.hash
      BY <1>1
    <3>2. d.view = View!Replaced(v, s, g)
      BY <1>4, <3>1 DEF Took
    <3>3. /\ DOMAIN d.view = {t \in DOMAIN v : t < s} \cup {s}
          /\ d.view[s] = g /\ \A t \in DOMAIN v : t < s => d.view[t] = v[t]
      BY <3>2, ReplacedIs
    <3> QED BY <3>1, <3>3
  <2>2. /\ d.highestSeq = to /\ d.peak = IF to > c.peak THEN to ELSE c.peak
    BY <1>4 DEF Took
  <2>3. d.highestSeq < to + 1
    BY <2>2
  <2>4. ASSUME NEW s \in DOMAIN c0.view, s < from
        PROVE  s \in DOMAIN d.view
    <3>1. s \in DOMAIN c.view /\ s \in Int
      BY <1>1, <2>4 DEF Joins
    <3> QED BY <2>1, <2>4, <3>1
  <2>5. ASSUME NEW s \in DOMAIN d.view
        PROVE  \/ s \in DOMAIN c0.view /\ d.view[s] = c0.view[s]
               \/ from <= s /\ s < to + 1 /\ d.view[s] = ch[s]
    <3>1. CASE s = to
      BY <2>1, <3>1
    <3>2. CASE s # to
      <4>1. s \in DOMAIN c.view /\ s < to /\ d.view[s] = c.view[s] /\ s \in Int
        BY <1>1, <2>1, <3>2
      <4>2. \/ s \in DOMAIN c0.view /\ c.view[s] = c0.view[s]
            \/ from <= s /\ s < to /\ c.view[s] = ch[s]
        BY <4>1 DEF Joins
      <4> QED BY <4>1, <4>2
    <3> QED BY <3>1, <3>2
  <2>6. ASSUME NEW s \in from..(to + 1) - 1
        PROVE  IF s \in DOMAIN d.view THEN d.view[s] = ch[s] \/ Followed!Deep(s, d.peak)
               ELSE Followed!InGap(c0.view, s)
    <3>1. CASE s = to
      BY <2>1, <3>1
    <3>2. CASE s # to
      <4>1. s \in from..to - 1 /\ s < to
        BY <1>2, <3>2
      <4>2. s \in DOMAIN d.view <=> s \in DOMAIN c.view
        BY <2>1, <4>1
      <4>3. CASE s \in DOMAIN c.view
        <5>1. c.view[s] = ch[s] \/ Followed!Deep(s, c.peak)
          BY <4>1, <4>3 DEF Joins
        <5>2. Followed!Deep(s, c.peak) => Followed!Deep(s, d.peak)
          BY <1>1, <2>2 DEF Followed!Deep
        <5> QED BY <2>1, <4>1, <4>2, <4>3, <5>1, <5>2
      <4>4. CASE s \notin DOMAIN c.view
        BY <4>1, <4>2, <4>4 DEF Joins
      <4> QED BY <4>3, <4>4
    <3> QED BY <3>1, <3>2
  <2>7. d.peak = c0.peak \/ d.peak \in DOMAIN d.view
    <3>1. CASE to > c.peak
      BY <2>1, <2>2, <3>1
    <3>2. CASE ~(to > c.peak)
      <4>1. d.peak = c.peak
        BY <2>2, <3>2
      <4>2. CASE c.peak = c0.peak
        BY <4>1, <4>2
      <4>3. CASE c.peak # c0.peak
        <5>1. c.peak \in DOMAIN c.view /\ c # c0
          BY <4>3 DEF Joins
        <5>2. c.highestSeq < to
          BY <5>1 DEF Joins
        <5>3. c.peak <= c.highestSeq
          BY <5>1 DEF Sane
        <5> QED BY <1>1, <3>2, <5>2, <5>3
      <4> QED BY <4>2, <4>3
    <3> QED BY <3>1, <3>2
  <2> QED BY <2>3, <2>4, <2>5, <2>6, <2>7 DEF Joins
<1> QED BY <1>3, <1>4

\* Entry by entry, the blocks that a connection brings join what the consumer had.
LEMMA RunJoins ==
    ASSUME NEW ch, NEW c, Sane(c), NEW entries, AreEntries(entries), NEW r \in Runs(c, entries),
           NEW from \in Int, NEW n, n = Len(entries),
           \A i \in 1..n : entries[i].seq = from + i - 1 /\ entries[i].hash = ch[from + i - 1]
    PROVE  Joins(ch, c, r[n], from, from + n)
<1> DEFINE Good(k) == Joins(ch, c, r[k], from, from + k)
           T == {k \in 0..n : ~Good(k)}
<1>1. n \in Nat /\ r[0] = c
  BY DEF AreEntries, Runs
<1>2. Good(0)
  <2>1. Joins(ch, c, c, from, from)
    <3>1. from..from - 1 = {}
      OBVIOUS
    <3> QED BY <3>1 DEF Joins
  <2>2. from + 0 = from
    OBVIOUS
  <2> QED BY <1>1, <2>1, <2>2
<1>3. ASSUME NEW k \in 0..n - 1, Good(k)
      PROVE  Good(k + 1)
  <2>1. PICK b, e, d : b = r[k] /\ e = entries[k + 1] /\ d = r[k + 1]
    OBVIOUS
  <2>2. k + 1 \in 1..n /\ k \in 0..n /\ k + 1 \in 0..n
    BY <1>1
  <2>3. Sane(b) /\ Sane(d) /\ IsEntry(e)
        /\ \/ Passed(b, e) /\ d = b
           \/ ~Passed(b, e) /\ Took(b, e, d)
    BY <2>1, <2>2, RunsAreSane DEF AreEntries
  <2>4. PICK to \in Int : to = from + k
    BY <1>1
  <2>5. from <= to /\ from + (k + 1) - 1 = to /\ from + (k + 1) = to + 1
    BY <1>1, <2>4
  <2>6. e.seq = to /\ e.hash = ch[to]
    BY <2>1, <2>2, <2>5
  <2>7. Joins(ch, c, b, from, to)
    BY <1>3, <2>1, <2>4
  <2>8. Joins(ch, c, d, from, to + 1)
    BY <2>3, <2>5, <2>6, <2>7, OneMoreJoins
  <2> QED BY <2>1, <2>5, <2>8
<1> HIDE DEF Good
<1>4. ASSUME T # {} PROVE FALSE
  <2>1. T \subseteq Nat
    BY <1>1
  <2>2. PICK k \in T : \A j \in T : k <= j
    <3> HIDE DEF T
    <3> QED BY <1>4, <2>1, LeastOf
  <2>3. k # 0
    BY <1>2, <2>2
  <2>4. k - 1 \in 0..n - 1 /\ Good(k - 1) /\ (k - 1) + 1 = k
    BY <1>1, <2>2, <2>3
  <2>5. Good((k - 1) + 1)
    BY <1>3, <2>4
  <2> QED BY <2>2, <2>4, <2>5
<1>5. Good(n)
  BY <1>1, <1>4
<1> QED BY <1>5 DEF Good

\* What a connection brings joins what the picture has, as Replica promises.
LEMMA OpenConnects ==
    ASSUME MissedInv, PictureInv, SystemInv', SystemOpen
    PROVE  ReplayFrom \in floor..Len(chain) /\ Followed!Connect(ReplayFrom)
<1>0. PICK from : from = ReplayFrom
  OBVIOUS
<1>1. /\ SystemInv /\ TypeOK /\ PipeInv /\ TypeOK' /\ PipeInv'
      /\ floor \in Nat /\ floor >= 1 /\ Len(chain) \in Nat /\ DOMAIN chain = 1..Len(chain)
      /\ DOMAIN view \subseteq Int /\ highestSeq \in Int /\ WatermarkIsTip
      /\ fork \in Nat /\ chain[Len(chain)] = fork
  <2>1. SystemInv /\ chain[Len(chain)] = fork
    BY DEF MissedInv, ForkInv
  <2>2. TypeOK' /\ PipeInv'
    BY DEF SystemInv, SafetyInv
  <2>3. TypeOK /\ PipeInv /\ WatermarkIsTip
    BY <2>1 DEF SystemInv, SafetyInv
  <2>4. chain \in Seq(Hashes) /\ Len(chain) \in 1..MaxTail /\ floor \in 1..MaxTail /\ fork \in Hashes
    BY <2>1 DEF SystemInv, SystemTypeOK
  <2>5. Len(chain) \in Nat /\ floor \in Nat /\ floor >= 1 /\ fork \in Nat
        /\ DOMAIN chain = 1..Len(chain)
    BY <2>4, FeedAssumption
  <2>6. DOMAIN view \subseteq Int /\ highestSeq \in Int
    BY <2>1, <2>3, SystemNumbers, SeqsAreIntegers, PartialFunctionElim DEF TypeOK
  <2> QED BY <2>1, <2>2, <2>3, <2>5, <2>6
<1>2. /\ phase = "connecting" /\ phase' = "open"
      /\ UNCHANGED <<highestSeq, view, hashes, peak, chain, floor>>
      /\ from \in floor..Len(chain) /\ UnderWay' = Len(chain) - from + 1
      /\ \A i \in 1..(Len(chain) - from + 1) :
            SeqAt(i)' = from + i - 1 /\ HashAt(i)' = chain[from + i - 1]
  BY <1>0, <1>1, OpenBrings DEF SystemOpen, Open, core, history, feed
<1>3. PICK n \in Nat : n = Len(chain) - from + 1 /\ from \in Int /\ from + n = Len(chain) + 1
  <2>1. from \in Int /\ from <= Len(chain) /\ Len(chain) \in Int
    BY <1>1, <1>2
  <2>2. Len(chain) - from + 1 \in Nat /\ from + (Len(chain) - from + 1) = Len(chain) + 1
    BY <2>1
  <2> QED BY <2>1, <2>2
<1>4. PICK c, x, d : c = Now /\ x = Way' /\ d = Coming'
  OBVIOUS
<1>5. /\ AreEntries(x) /\ n = Len(x)
      /\ \A i \in 1..n : x[i].seq = from + i - 1 /\ x[i].hash = chain[from + i - 1]
  <2>1. AreEntries(x) /\ Len(x) = UnderWay'
        /\ \A i \in 1..UnderWay' : x[i].seq = SeqAt(i)' /\ x[i].hash = HashAt(i)'
    BY <1>1, <1>4, WayWillBe
  <2> QED BY <1>2, <1>3, <2>1
<1>6. /\ Coming = c /\ Sane(c) /\ c \in Consumers /\ Now' = c
      /\ c.view = view /\ c.peak = peak /\ c.highestSeq = highestSeq
  <2>1. UnderWay = 0
    BY <1>1, <1>2 DEF SystemInv, LiveInv, OnlyOpenReads, PipeInv, UnderWay
  <2>2. Coming = Now
    BY <1>1, <2>1, NothingComing
  <2>3. Now' = Now
    BY <1>2 DEF Now
  <2>4. Sane(c) /\ c \in Consumers
    BY <1>1, <1>4, NowIsSane, ComingIs
  <2> QED BY <1>4, <2>2, <2>3, <2>4 DEF Now
<1>7. d = AfterAll(c, x)
  BY <1>4, <1>6 DEF Coming, Way
<1>8. PICK r : r \in Runs(c, x)
  BY <1>5, <1>6, RunsExist
<1>9. d = r[n]
  BY <1>5, <1>6, <1>7, <1>8, AfterAllIs
<1>10. Joins(chain, c, d, from, from + n)
  BY <1>3, <1>5, <1>6, <1>8, <1>9, RunJoins
<1>11. Sane(d) /\ peak <= d.peak
  <2>1. n \in 0..Len(x)
    BY <1>5
  <2> QED BY <1>5, <1>6, <1>8, <1>9, <2>1, RunsAreSane, RunsGrow
<1>12. /\ DOMAIN d.view \subseteq Int /\ d.peak \in Int /\ peak \in Int /\ d.highestSeq \in Int
       /\ \A s \in DOMAIN d.view : s <= d.highestSeq /\ s <= d.peak
  <2>1. /\ DOMAIN d.view \subseteq Seqs /\ d.peak \in Int /\ c.peak \in Int /\ d.highestSeq \in Int
    BY <1>6, <1>11, ConsumerIs DEF Sane
  <2>2. DOMAIN d.view \subseteq Int
    BY <2>1, SeqsAreIntegers
  <2>3. \A s \in DOMAIN d.view : s <= d.highestSeq
    BY <1>11 DEF Sane
  <2>4. d.highestSeq <= d.peak
    BY <1>11 DEF Sane
  <2> QED BY <1>6, <2>1, <2>2, <2>3, <2>4
\* It asks for its last block, and gets it if the feed has it.
<1>13. IF \E s \in floor..Len(chain) : Followed!IsLast(s) THEN Followed!IsLast(from)
       ELSE from = floor
  <2>1. from = IF highestSeq \in floor..Len(chain) THEN highestSeq ELSE floor
    BY <1>0 DEF ReplayFrom, InBacklog, Requested
  <2>2. CASE \E s \in floor..Len(chain) : Followed!IsLast(s)
    <3>1. PICK s \in floor..Len(chain) : Followed!IsLast(s)
      BY <2>2
    <3>2. s \in DOMAIN view /\ \A t \in DOMAIN view : t <= s
      BY <3>1 DEF Followed!IsLast
    <3>3. highestSeq \in DOMAIN view /\ s <= highestSeq
      BY <1>1, <3>2 DEF WatermarkIsTip
    <3>4. s = highestSeq
      BY <1>1, <3>2, <3>3
    <3> QED BY <2>1, <2>2, <3>1, <3>4
  <2>3. CASE ~\E s \in floor..Len(chain) : Followed!IsLast(s)
    <3>1. ASSUME highestSeq \in floor..Len(chain) PROVE FALSE
      <4>1. highestSeq # -1
        BY <1>1, <3>1
      <4>2. highestSeq \in DOMAIN view /\ \A s \in DOMAIN view : s <= highestSeq
        BY <1>1, <4>1 DEF WatermarkIsTip
      <4>3. Followed!IsLast(highestSeq)
        BY <4>2 DEF Followed!IsLast
      <4> QED BY <2>3, <3>1, <4>3
    <3> QED BY <2>1, <2>3, <3>1
  <2> QED BY <2>2, <2>3
<1>14. Followed!Below(d.view, from) = Followed!Below(view, from)
  <2>1. ASSUME NEW s \in DOMAIN d.view, s < from PROVE s \in DOMAIN view
    <3>1. \/ s \in DOMAIN view
          \/ from <= s
      BY <1>6, <1>10 DEF Joins
    <3> QED BY <1>3, <1>12, <2>1, <3>1
  <2>2. \A s \in DOMAIN view : s < from => s \in DOMAIN d.view
    BY <1>6, <1>10 DEF Joins
  <2> QED BY <2>1, <2>2 DEF Followed!Below
<1>15. ASSUME NEW s \in DOMAIN d.view \ (from..Len(chain))
       PROVE  s \in DOMAIN view /\ d.view[s] = view[s]
  <2>1. \/ s \in DOMAIN view /\ d.view[s] = view[s]
        \/ from <= s /\ s < Len(chain) + 1
    BY <1>3, <1>6, <1>10 DEF Joins
  <2>2. s \in Int
    BY <1>12
  <2> QED BY <1>1, <1>3, <1>15, <2>1, <2>2
<1>16. \A s \in from..Len(chain) :
          IF s \in DOMAIN d.view THEN d.view[s] = chain[s] \/ Followed!Deep(s, d.peak)
          ELSE Followed!InGap(view, s)
  <2>1. (from + n) - 1 = Len(chain)
    BY <1>1, <1>3
  <2> QED BY <1>6, <1>10, <2>1 DEF Joins
\* If it ends up with the chain's last block, it has nothing above.
<1>17. ASSUME Len(chain) \in DOMAIN d.view, d.view[Len(chain)] = chain[Len(chain)],
              NEW s \in DOMAIN d.view
       PROVE  s <= Len(chain)
  <2>1. CASE d.highestSeq < from + n
    BY <1>1, <1>3, <1>12, <2>1
  <2>2. CASE d = c
    <3>1. view[Len(chain)] = fork /\ Len(chain) \in DOMAIN view
      BY <1>1, <1>6, <1>17, <2>2
    <3>2. Has(highestSeq, fork)
      BY <3>1 DEF PictureInv
    <3>3. highestSeq <= Len(chain)
      BY <1>1, <3>2 DEF Has, SystemInv, SentInv, WasSent
    <3>4. s <= highestSeq /\ s \in Int
      BY <1>6, <1>12, <2>2
    <3> QED BY <1>1, <3>3, <3>4
  <2> QED BY <1>10, <2>1, <2>2 DEF Joins
<1>18. Followed!Follows(d.view, d.peak, from)
  <2> DEFINE right == {s \in from..Len(chain) : s \in DOMAIN d.view /\ d.view[s] = chain[s]}
  <2>1. \A s \in from..Len(chain) : s \in DOMAIN d.view => s \in right \/ Followed!Deep(s, d.peak)
    BY <1>16
  <2>2. Len(chain) \in right => \A s \in DOMAIN d.view : s <= Len(chain)
    BY <1>17
  <2> QED BY <2>1, <2>2 DEF Followed!Follows
<1>19. Followed!IsGreatest(d.peak, {peak} \cup DOMAIN d.view)
  <2>1. d.peak = peak \/ d.peak \in DOMAIN d.view
    BY <1>6, <1>10 DEF Joins
  <2> QED BY <1>11, <1>12, <2>1 DEF Followed!IsGreatest
<1>20. \A s \in from..Len(chain) : s \in DOMAIN d.view \/ Followed!InGap(view, s)
  BY <1>16
<1>21. Followed!Connect(from)
  BY <1>2, <1>4, <1>6, <1>13, <1>14, <1>15, <1>18, <1>19, <1>20 DEF Followed!Connect
<1> QED BY <1>0, <1>2, <1>21

-----------------------------------------------------------------------------
(* The refinement                                                          *)

FollowInv == MissedInv /\ PictureInv

\* Every step of the system is one of Replica, or changes nothing that Replica sees.
LEMMA FollowsNext ==
    ASSUME FollowInv, FollowInv', [SystemNext]_systemVars
    PROVE  [Followed!ReplicaNext]_<<view, chain, floor, phase = "open", Coming.view, Coming.peak>>
<1> DEFINE Idles == UNCHANGED <<view, chain, floor, phase = "open", Coming>>
<1>0. MissedInv /\ PictureInv /\ SystemInv /\ SystemInv'
  BY DEF FollowInv, MissedInv
<1>1. Idles => UNCHANGED <<view, chain, floor, phase = "open", Coming.view, Coming.peak>>
  OBVIOUS
<1>2. CASE SystemOpen
  BY <1>0, <1>2, OpenConnects DEF Followed!ReplicaNext
<1>3. CASE SystemReceive
  <2>1. UNCHANGED <<view, chain, floor, phase>>
    BY <1>3 DEF SystemReceive, Receive, history, feed
  <2> QED BY <1>0, <1>1, <1>3, <2>1, ReadingKeepsComing
<1>4. CASE SystemStep
  BY <1>0, <1>1, <1>4, TurnReads DEF Followed!ReplicaNext
<1>5. CASE SystemRetry \/ UNCHANGED systemVars
  <2>1. UNCHANGED <<view, hashes, highestSeq, peak, frame, pipe, chain, floor, phase = "open">>
    BY <1>5 DEF SystemRetry, Call, Wake, systemVars, vars, core, history, feed
  <2> QED BY <1>1, <2>1, StillComing
<1>6. CASE FeedAppend
  BY <1>0, <1>6, AppendGrows DEF Followed!ReplicaNext
<1>7. CASE \E s \in DOMAIN chain : FeedReorg(s)
  BY <1>0, <1>7, ReorgReorganises DEF Followed!ReplicaNext
<1>8. CASE FeedTrim
  BY <1>0, <1>8, TrimTrims DEF Followed!ReplicaNext
<1>9. CASE SystemFault
  BY <1>0, <1>1, <1>9, FaultFollows DEF Followed!ReplicaNext
<1> QED BY <1>2, <1>3, <1>4, <1>5, <1>6, <1>7, <1>8, <1>9 DEF SystemNext, Environment

\* Whatever the feed builds, replaces and drops, however often the connection is lost and
\* wherever in a frame the caller is, the system only takes the steps of Replica: the caller's
\* picture follows the chain, in its window (consume.py:190-195, 402-446).
THEOREM FollowsCorrect == SystemSpec => FollowsTheChain
<1>1. SystemInit => FollowInv
  BY MissedInitInv, PictureInitInv DEF FollowInv
<1>2. FollowInv /\ [SystemNext]_systemVars => FollowInv'
  BY MissedNextInv, PictureNextInv DEF FollowInv
<1>3. FollowInv /\ FollowInv' /\ [SystemNext]_systemVars
      => [Followed!ReplicaNext]_<<view, chain, floor, phase = "open", Coming.view, Coming.peak>>
  BY FollowsNext
<1> QED BY <1>1, <1>2, <1>3, ReplicaInitially, PTL
        DEF SystemSpec, FollowsTheChain, Followed!ReplicaSpec

\* The caller of messages() has the same promise when the caller of live() reads along
\* (consume.py:366-395, 472-476).
THEOREM ReadersFollowCorrect == ReaderSpec => FollowsTheChain
BY ReadersRunSystem, FollowsCorrect, PTL
=============================================================================
