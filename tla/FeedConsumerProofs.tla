------------------------- MODULE FeedConsumerProofs -------------------------
(***************************************************************************)
(* Theorems about FeedConsumer, for every feed, frame size, hash window,   *)
(* delay and chain.                                                        *)
(***************************************************************************)
EXTENDS FeedConsumer, SequenceTheorems, WellFoundedInduction, TLAPS

-----------------------------------------------------------------------------
(* Operators                                                               *)

LEMMA PartialFunctionIntro ==
    ASSUME NEW S, NEW T, NEW f, NEW D, D \subseteq S, f \in [D -> T]
    PROVE  f \in PartialFunctions(S, T)
  BY DEF PartialFunctions

LEMMA PartialFunctionElim ==
    ASSUME NEW S, NEW T, NEW f \in PartialFunctions(S, T)
    PROVE  DOMAIN f \subseteq S /\ f \in [DOMAIN f -> T]
  BY DEF PartialFunctions

LEMMA EmptyViewIsPartial ==
    ASSUME NEW S, NEW T
    PROVE  View!EmptyView \in PartialFunctions(S, T) /\ DOMAIN View!EmptyView = {}
  <1>1. View!EmptyView \in [{} -> T]
    BY DEF View!EmptyView
  <1>2. QED
    BY <1>1, PartialFunctionIntro DEF View!EmptyView

\* Sequence numbers can be compared.
LEMMA SeqsAreIntegers == \A s \in Seqs \cup {-1} : s \in Int
  BY SeqsAssumption

\* What a turn leaves of a frame.
LEMMA RestOfFrame ==
    ASSUME frame \in Seq(ItemType), frame # <<>>
    PROVE  /\ Head(frame) \in ItemType
           /\ Head(frame) = frame[1]
           /\ Tail(frame) \in Seq(ItemType)
           /\ Len(Tail(frame)) = Len(frame) - 1
           /\ \A i \in 1..Len(Tail(frame)) : Tail(frame)[i] = frame[i + 1]
           /\ Len(frame) \in Nat \ {0}
  BY HeadTailProperties, EmptySeq, SMT

\* What _remember keeps: it adds the new hash and forgets nothing in the window.
LEMMA RememberedKeeps ==
    ASSUME NEW e \in ItemType, hashes \in PartialFunctions(Seqs, Hashes), e.hash # NoHash
    PROVE  /\ Remembered(e) \in PartialFunctions(Seqs, Hashes)
           /\ \A s \in DOMAIN Remembered(e) :
                 Remembered(e)[s] = IF s = e.seq THEN e.hash ELSE hashes[s]
           /\ DOMAIN Remembered(e) \subseteq DOMAIN hashes \cup {e.seq}
           /\ \A s \in DOMAIN hashes \cup {e.seq} :
                 s > e.seq - ReorgWindow => s \in DOMAIN Remembered(e)
  <1> DEFINE known == Put(hashes, e.seq, e.hash)
             recent == {s \in DOMAIN known : s > e.seq - ReorgWindow}
             kept == [s \in recent |-> known[s]]
  <1>1. DOMAIN hashes \subseteq Seqs /\ hashes \in [DOMAIN hashes -> Hashes]
    BY PartialFunctionElim
  <1>2. e.seq \in Seqs /\ e.hash \in Hashes
    BY DEF ItemType
  <1>3. /\ known \in [DOMAIN hashes \cup {e.seq} -> Hashes]
        /\ \A s \in DOMAIN hashes \cup {e.seq} :
              known[s] = IF s = e.seq THEN e.hash ELSE hashes[s]
    BY <1>1, <1>2 DEF Put
  <1>4. kept \in [recent -> Hashes] /\ recent \subseteq Seqs
    BY <1>1, <1>2, <1>3
  <1>5. known \in PartialFunctions(Seqs, Hashes)
    BY <1>1, <1>2, <1>3, PartialFunctionIntro
  <1>6. kept \in PartialFunctions(Seqs, Hashes)
    BY <1>4, PartialFunctionIntro
  <1>7. Remembered(e) = known \/ Remembered(e) = kept
    BY DEF Remembered
  <1>8. CASE Remembered(e) = known
    BY <1>3, <1>5, <1>8
  <1>9. CASE Remembered(e) = kept
    <2>1. DOMAIN kept = recent /\ \A s \in recent : kept[s] = known[s]
      OBVIOUS
    <2>2. QED
      BY <1>3, <1>6, <1>9, <2>1
  <1>10. QED
    BY <1>7, <1>8, <1>9

\* The caller's bookkeeping, position by position.
LEMMA AbsorbedMessage ==
    ASSUME NEW e \in ItemType, NEW r \in BOOLEAN,
           NEW v \in PartialFunctions(Seqs, Hashes \cup {NoHash})
    PROVE  LET w == Absorbed(v, Message(e, r)) IN
           /\ w \in PartialFunctions(Seqs, Hashes \cup {NoHash})
           /\ DOMAIN w = (IF r THEN {s \in DOMAIN v : s < e.seq} ELSE DOMAIN v)
                         \cup {e.seq}
           /\ \A s \in DOMAIN w : w[s] = IF s = e.seq THEN e.hash ELSE v[s]
  <1> DEFINE D == (IF r THEN {s \in DOMAIN v : s < e.seq} ELSE DOMAIN v) \cup {e.seq}
             w == [s \in D |-> IF s = e.seq THEN e.hash ELSE v[s]]
  <1>1. DOMAIN v \subseteq Seqs /\ v \in [DOMAIN v -> Hashes \cup {NoHash}]
    BY PartialFunctionElim
  <1>2. e.seq \in Seqs /\ e.hash \in Hashes \cup {NoHash}
    BY DEF ItemType
  <1>3. Absorbed(v, Message(e, r)) = w
    BY DEF Absorbed, Message, View!Replaced, View!Extended, View!Below
  <1>4. D \subseteq Seqs /\ w \in [D -> Hashes \cup {NoHash}]
    BY <1>1, <1>2
  <1>5. w \in PartialFunctions(Seqs, Hashes \cup {NoHash})
    BY <1>4, PartialFunctionIntro
  <1>6. QED
    BY <1>3, <1>5

\* A nonempty set of positions has a first one.
LEMMA FirstIsLeast ==
    ASSUME NEW T, T \subseteq Nat, T # {}
    PROVE  First(T) \in T /\ \A j \in T : First(T) <= j
  <1>1. PICK i \in T : \A j \in T : ~(<<j, i>> \in OpToRel(<, Nat))
    BY WFMin, NatLessThanWellFounded
  <1>2. ASSUME NEW j \in T PROVE i <= j
    <2>1. i \in Nat /\ j \in Nat
      OBVIOUS
    <2>2. ~(j < i)
      BY <1>1, <2>1 DEF OpToRel
    <2>3. QED
      BY <2>1, <2>2
  <1>3. \E k \in T : \A j \in T : k <= j
    BY <1>2
  <1>4. QED
    BY <1>3 DEF First

\* Where the backlog of a frame ends.
LEMMA FirstLiveBounds ==
    ASSUME NEW n \in Nat, NEW entries \in [1..n -> Entries], NEW fresh,
           Len(entries) = n
    PROVE  /\ FirstLive(entries, fresh) \in 1..(n + 1)
           /\ live => FirstLive(entries, fresh) = 1
           /\ ~live /\ FirstLive(entries, fresh) \in 1..n
                 => Accepted(entries[FirstLive(entries, fresh)])
  <1> DEFINE current == {i \in DOMAIN entries :
                            Accepted(entries[i]) /\ (waited \/ i \in fresh)}
  <1>1. current \subseteq 1..n
    OBVIOUS
  <1>2. CASE live
    BY <1>2 DEF FirstLive
  <1>3. CASE ~live /\ current = {}
    BY <1>3 DEF FirstLive
  <1>4. CASE ~live /\ current # {}
    <2>1. First(current) \in current
      <3>1. current \subseteq Nat
        BY <1>1
      <3> HIDE DEF current
      <3>2. QED
        BY <3>1, <1>4, FirstIsLeast
    <2>2. FirstLive(entries, fresh) = First(current)
      BY <1>4 DEF FirstLive
    <2>3. \A i \in current : i \in 1..n /\ Accepted(entries[i])
      BY <1>1
    <2>4. QED
      BY <1>4, <2>1, <2>2, <2>3
  <1>5. QED
    BY <1>2, <1>3, <1>4

\* A frame as it is read.
LEMMA AnnotatedFrame ==
    ASSUME NEW n \in 0..MaxFrame, NEW entries \in [1..n -> Entries], NEW fresh,
           live \in BOOLEAN
    PROVE  LET first == FirstLive(entries, fresh)
               items == Annotated(entries, first)
           IN  /\ items \in Seq(ItemType)
               /\ Len(items) = n
               /\ first \in 1..(n + 1)
               /\ live => first = 1
               /\ \A i \in 1..n : /\ items[i].live = (i >= first)
                                  /\ items[i].goesLive = (i = first /\ ~live)
                                  /\ items[i].goesLive => items[i].accepted
  <1> DEFINE first == FirstLive(entries, fresh)
             items == Annotated(entries, first)
  <1>1. n \in Nat
    BY SizesAssumption
  <1>2. Len(entries) = n /\ DOMAIN entries = 1..n
    BY <1>1
  <1>3. /\ first \in 1..(n + 1)
        /\ live => first = 1
        /\ ~live /\ first \in 1..n => Accepted(entries[first])
    BY <1>1, <1>2, FirstLiveBounds
  <1>4. ASSUME NEW i \in 1..n
        PROVE  /\ items[i] \in ItemType
               /\ items[i].live = (i >= first)
               /\ items[i].goesLive = (i = first /\ ~live)
               /\ items[i].goesLive => items[i].accepted
    <2>1. entries[i] \in EntryType
      BY EntriesAssumption
    <2>2. Accepted(entries[i]) \in BOOLEAN
      BY <2>1, FlagsAssumption DEF Accepted, EntryType
    <2>3. (i >= first) \in BOOLEAN /\ (i = first /\ ~live) \in BOOLEAN
      BY <1>3
    <2>4. items[i] = [seq      |-> entries[i].seq,
                      hash     |-> entries[i].hash,
                      accepted |-> Accepted(entries[i]),
                      live     |-> i >= first,
                      goesLive |-> i = first /\ ~live]
      BY <1>2 DEF Annotated
    <2>5. items[i].goesLive => items[i].accepted
      <3>0. items[i].goesLive = (i = first /\ ~live)
        BY <2>3, <2>4
      <3>1. items[i].goesLive => i = first /\ ~live
        BY <3>0, Zenon
      <3>2. items[i].accepted = Accepted(entries[i])
        BY <2>4
      <3>3. i = first /\ ~live => Accepted(entries[i])
        BY <1>3
      <3>4. QED
        BY <3>1, <3>2, <3>3
    <2>6. QED
      BY <2>1, <2>2, <2>3, <2>4, <2>5 DEF ItemType, EntryType
  <1>5. items \in [1..n -> ItemType]
    BY <1>2, <1>4 DEF Annotated
  <1>6. items \in Seq(ItemType) /\ Len(items) = n
    BY <1>1, <1>5
  <1>7. QED
    BY <1>3, <1>4, <1>6

\* The chain id a handshake settles on.
LEMMA FindChainIdType ==
    ASSUME NEW ann \in Announcements
    PROVE  FindChainId(ann) \in Chains \cup {Unknown}
  <1>1. ann \in Seq(Chains \cup {Unknown})
    BY ChainsAssumption
  <1>2. CASE Readable(ann) # {}
    <2>1. Readable(ann) \subseteq DOMAIN ann /\ Readable(ann) \subseteq Nat
      BY <1>1 DEF Readable
    <2>2. First(Readable(ann)) \in DOMAIN ann
      BY <1>2, <2>1, FirstIsLeast
    <2>3. QED
      BY <1>1, <1>2, <2>2 DEF FindChainId
  <1>3. CASE Readable(ann) = {}
    BY <1>3, ChainsAssumption DEF FindChainId
  <1>4. QED
    BY <1>2, <1>3

-----------------------------------------------------------------------------
(* Type correctness                                                        *)

\* A step of _frame that yields: the state it leaves, part by part.
LEMMA YieldType ==
    ASSUME TypeOK, NEW r \in BOOLEAN, frame # <<>>, Yield(Head(frame), r)
    PROVE  /\ highestSeq' \in Seqs \cup {-1}
           /\ hashes' \in PartialFunctions(Seqs, Hashes)
           /\ out' \in {<<m>> : m \in MessageType}
           /\ view' \in PartialFunctions(Seqs, Hashes \cup {NoHash})
           /\ peak' \in Seqs \cup {-1}
  <1> DEFINE e == Head(frame)
  <1>1. e \in ItemType
    BY RestOfFrame DEF TypeOK
  <1>2. hashes' \in PartialFunctions(Seqs, Hashes)
    <2>1. CASE e.hash = NoHash
      BY <2>1 DEF Yield, Remembered, TypeOK
    <2>2. CASE e.hash # NoHash
      BY <1>1, <2>2, RememberedKeeps DEF Yield, TypeOK
    <2>3. QED
      BY <2>1, <2>2
  <1>3. Message(e, r) \in MessageType
    BY <1>1 DEF Message, MessageType, ItemType
  <1>4. view' \in PartialFunctions(Seqs, Hashes \cup {NoHash})
    BY <1>1, AbsorbedMessage DEF Yield, TypeOK
  <1>5. highestSeq' \in Seqs \cup {-1} /\ peak' \in Seqs \cup {-1}
    BY <1>1 DEF Yield, ItemType, TypeOK
  <1>6. QED
    BY <1>2, <1>3, <1>4, <1>5 DEF Yield

LEMMA TypeInit == Init => TypeOK
  <1> SUFFICES ASSUME Init PROVE TypeOK
    OBVIOUS
  <1>1. hashes \in PartialFunctions(Seqs, Hashes)
    BY EmptyViewIsPartial DEF Init
  <1>2. view \in PartialFunctions(Seqs, Hashes \cup {NoHash})
    BY EmptyViewIsPartial DEF Init
  <1>3. frame \in Seq(ItemType)
    BY EmptySeq DEF Init
  <1>4. delay \in BaseDelay..MaxDelay
    BY DelaysAssumption DEF Init
  <1>5. chainId \in Chains \cup {Unknown}
    BY ChainsAssumption DEF Init
  <1>6. QED
    BY <1>1, <1>2, <1>3, <1>4, <1>5 DEF Init, TypeOK, Phases

LEMMA TypeNext == TypeOK /\ [Next]_vars => TypeOK'
  <1> SUFFICES ASSUME TypeOK, [Next]_vars PROVE TypeOK'
    OBVIOUS
  <1>1. CASE Call
    BY <1>1, DelaysAssumption DEF Call, TypeOK, core, history, Phases
  <1>2. ASSUME NEW ann \in Announcements, Open(ann) PROVE TypeOK'
    <2>1. chainId' \in Chains \cup {Unknown}
      BY <1>2, FindChainIdType DEF Open, TypeOK
    <2>2. live' = FALSE /\ waited' = FALSE
      BY <1>2 DEF Open
    <2>3. {live', waited'} \subseteq BOOLEAN
      BY <2>2
    <2>4. delay' \in BaseDelay..MaxDelay
      BY <1>2, DelaysAssumption DEF Open
    <2>5. QED
      BY <1>2, <2>1, <2>3, <2>4 DEF Open, TypeOK, core, history, Phases
  <1>3. ASSUME NEW ann \in Announcements, Refuse(ann) PROVE TypeOK'
    BY <1>3 DEF Refuse, TypeOK, core, history, Phases
  <1>4. CASE ConnectFails
    BY <1>4 DEF ConnectFails, TypeOK, core, history, Phases
  <1>5. CASE Wake
    <2>1. delay' \in BaseDelay..MaxDelay
      BY <1>5, DelaysAssumption DEF Wake, TypeOK
    <2>2. QED
      BY <1>5, <2>1 DEF Wake, TypeOK, core, history, Phases
  <1>6. CASE Drop
    BY <1>6 DEF Drop, Idle, TypeOK, core, history, Phases
  <1>7. CASE CleanClose
    BY <1>7 DEF CleanClose, Idle, TypeOK, core, history, Phases
  <1>8. CASE WaitOut
    BY <1>8 DEF WaitOut, TypeOK, core, history, Phases
  <1>9. ASSUME NEW n \in 0..MaxFrame, NEW entries \in [1..n -> Entries],
               NEW fresh \in SUBSET (1..n), Receive(entries, fresh)
        PROVE  TypeOK'
    <2>1. live \in BOOLEAN
      BY DEF TypeOK
    <2>2. frame' \in Seq(ItemType)
      BY <1>9, <2>1, AnnotatedFrame DEF Receive
    <2>3. QED
      BY <1>9, <2>2 DEF Receive, TypeOK, core, history
  <1>10. ASSUME NEW n \in 0..MaxFrame, NEW entries \in [1..n -> Entries],
                NEW fresh \in SUBSET (1..n), Choke(entries, fresh)
         PROVE  TypeOK'
    BY <1>10 DEF Choke, TypeOK, core, history, Phases
  <1>11. CASE Step
    <2>1. Turn
      BY <1>11 DEF Step, Reject, Duplicate, Reorg, Deliver
    <2>2. /\ phase' \in Phases /\ delay' \in BaseDelay..MaxDelay
          /\ chainId' \in Chains \cup {Unknown}
          /\ {live', waited'} \subseteq BOOLEAN /\ frame' \in Seq(ItemType)
      BY <2>1, RestOfFrame DEF Turn, TypeOK, ItemType
    <2>3. CASE Reject
      BY <2>2, <2>3 DEF Reject, TypeOK, core, history
    <2>4. CASE Duplicate
      BY <2>2, <2>4 DEF Duplicate, TypeOK, core, history
    <2>5. CASE Reorg
      BY <2>1, <2>2, <2>5, YieldType DEF Reorg, Turn, TypeOK
    <2>6. CASE Deliver
      BY <2>1, <2>2, <2>6, YieldType DEF Deliver, Turn, TypeOK
    <2>7. QED
      BY <1>11, <2>3, <2>4, <2>5, <2>6 DEF Step
  <1>12. CASE Close
    BY <1>12, EmptySeq DEF Close, TypeOK, core, history, Phases
  <1>13. CASE UNCHANGED vars
    BY <1>13 DEF vars, TypeOK, core, history
  <1>14. QED
    BY <1>1, <1>2, <1>3, <1>4, <1>5, <1>6, <1>7, <1>8, <1>9, <1>10, <1>11, <1>12, <1>13
    DEF Next

\* Every reachable state is well typed, and the retry delay keeps to its bounds.
THEOREM TypeCorrect == Spec => []TypeOK
  BY TypeInit, TypeNext, PTL DEF Spec

-----------------------------------------------------------------------------
(* The watermark, the hashes and the caller's picture                      *)

\* Only a yield moves the watermark, the hashes or the picture.
LEMMA OnlyYieldsMove ==
    ASSUME [Next]_vars
    PROVE  UNCHANGED <<core, history>> \/ Reorg \/ Deliver
  BY DEF Next, vars, Call, Open, Refuse, ConnectFails, Wake, Drop, CleanClose, WaitOut,
         Receive, Choke, Step, Reject, Duplicate, Close

\* A replacement lies at or below the tip of the picture, and differs from what the
\* picture has there.
LEMMA ReorgReplaces ==
    ASSUME SafetyInv, Reorg
    PROVE  LET e == Head(frame) IN
           /\ e.hash \in Hashes
           /\ highestSeq \in DOMAIN view
           /\ e.seq <= highestSeq
           /\ e.seq \in DOMAIN view => view[e.seq] # e.hash
  <1> DEFINE e == Head(frame)
  <1>1. e \in ItemType
    BY RestOfFrame DEF SafetyInv, TypeOK, Reorg, Turn
  <1>2. /\ e.seq <= highestSeq
        /\ e.seq \in DOMAIN hashes
        /\ e.hash # NoHash
        /\ hashes[e.seq] # e.hash
    BY DEF Reorg, IsReorg
  <1>3. DOMAIN view # {}
    BY <1>2 DEF SafetyInv, NothingRememberedUnseen
  <1>4. highestSeq \in DOMAIN view
    BY <1>3 DEF SafetyInv, WatermarkIsTip
  <1>5. e.seq \in DOMAIN view => view[e.seq] # e.hash
    BY <1>2 DEF SafetyInv, HashesMatchView
  <1>6. QED
    BY <1>1, <1>2, <1>4, <1>5 DEF ItemType

\* A yield, new or replacing, keeps the parts of SafetyInv together.
LEMMA YieldSafe ==
    ASSUME SafetyInv, TypeOK', NEW r \in BOOLEAN, frame # <<>>, Yield(Head(frame), r),
           r => Head(frame).seq <= highestSeq,
           ~r => Head(frame).seq > highestSeq
    PROVE  SafetyInv'
  <1> DEFINE e == Head(frame)
  <1>1. e \in ItemType /\ e.seq \in Seqs /\ e.seq \in Int
    <2>1. e \in ItemType
      BY RestOfFrame DEF SafetyInv, TypeOK
    <2>2. QED
      BY <2>1, SeqsAreIntegers DEF ItemType
  <1>2. /\ highestSeq \in Int /\ peak \in Int
        /\ DOMAIN view \subseteq Int /\ DOMAIN hashes \subseteq Int
        /\ ReorgWindow \in Nat
    BY SeqsAreIntegers, SizesAssumption, PartialFunctionElim DEF SafetyInv, TypeOK
  <1>3. /\ DOMAIN view' = (IF r THEN {s \in DOMAIN view : s < e.seq} ELSE DOMAIN view)
                          \cup {e.seq}
        /\ \A s \in DOMAIN view' : view'[s] = IF s = e.seq THEN e.hash ELSE view[s]
    <2>1. view \in PartialFunctions(Seqs, Hashes \cup {NoHash})
      BY DEF SafetyInv, TypeOK
    <2>2. view' = Absorbed(view, Message(e, r))
      BY DEF Yield
    <2> HIDE DEF e
    <2>3. QED
      BY <1>1, <2>1, <2>2, AbsorbedMessage
  <1>4. highestSeq' = e.seq /\ peak' = (IF e.seq > peak THEN e.seq ELSE peak)
    BY DEF Yield
  <1>5. \A s \in DOMAIN view : s <= highestSeq
    BY DEF SafetyInv, WatermarkIsTip
  <1>6. \A s \in DOMAIN view' : s <= e.seq
    BY <1>1, <1>2, <1>3, <1>5
  <1>7. WatermarkIsTip'
    BY <1>3, <1>4, <1>6 DEF WatermarkIsTip
  <1>8. PeakIsGreatest'
    BY <1>1, <1>2, <1>4 DEF PeakIsGreatest
  <1>9. NothingRememberedUnseen'
    BY <1>3 DEF NothingRememberedUnseen
  <1>10. CASE e.hash = NoHash
    <2>1. hashes' = hashes
      BY <1>10 DEF Yield, Remembered
    <2>2. HashesMatchView'
      BY <1>3, <1>10, <2>1 DEF HashesMatchView, SafetyInv
    <2>3. WindowRemembered'
      <3> SUFFICES ASSUME NEW s \in DOMAIN view', view'[s] # NoHash,
                          s > peak' - ReorgWindow
                   PROVE  s \in DOMAIN hashes
        BY <2>1 DEF WindowRemembered
      <3>1. s # e.seq /\ s \in DOMAIN view /\ view[s] # NoHash
        BY <1>3, <1>10
      <3>2. s > peak - ReorgWindow
        BY <1>1, <1>2, <1>4, <3>1
      <3>3. QED
        BY <3>1, <3>2 DEF SafetyInv, WindowRemembered
    <2>4. QED
      BY <1>7, <1>8, <1>9, <2>2, <2>3 DEF SafetyInv
  <1>11. CASE e.hash # NoHash
    <2>1. /\ \A s \in DOMAIN hashes' :
                hashes'[s] = IF s = e.seq THEN e.hash ELSE hashes[s]
          /\ DOMAIN hashes' \subseteq DOMAIN hashes \cup {e.seq}
          /\ \A s \in DOMAIN hashes \cup {e.seq} :
                s > e.seq - ReorgWindow => s \in DOMAIN hashes'
      BY <1>1, <1>11, RememberedKeeps DEF Yield, SafetyInv, TypeOK
    <2>2. HashesMatchView'
      <3> SUFFICES ASSUME NEW s \in DOMAIN view', s \in DOMAIN hashes'
                   PROVE  view'[s] \in {NoHash, hashes'[s]}
        BY DEF HashesMatchView
      <3>1. CASE s = e.seq
        BY <1>3, <2>1, <3>1
      <3>2. CASE s # e.seq
        <4>1. /\ s \in DOMAIN view /\ s \in DOMAIN hashes
              /\ view'[s] = view[s] /\ hashes'[s] = hashes[s]
          BY <1>3, <2>1, <3>2
        <4>2. QED
          BY <4>1 DEF SafetyInv, HashesMatchView
      <3>3. QED
        BY <3>1, <3>2
    <2>3. WindowRemembered'
      <3> SUFFICES ASSUME NEW s \in DOMAIN view', view'[s] # NoHash,
                          s > peak' - ReorgWindow
                   PROVE  s \in DOMAIN hashes'
        BY DEF WindowRemembered
      <3>1. s \in Int /\ e.seq <= peak'
        BY <1>1, <1>2, <1>3, <1>4
      <3>2. s > e.seq - ReorgWindow /\ s > peak - ReorgWindow
        BY <1>1, <1>2, <1>4, <3>1
      <3>3. CASE s = e.seq
        BY <2>1, <3>2, <3>3
      <3>4. CASE s # e.seq
        <4>1. s \in DOMAIN view /\ view[s] # NoHash
          BY <1>3, <3>4
        <4>2. s \in DOMAIN hashes
          BY <3>2, <4>1 DEF SafetyInv, WindowRemembered
        <4>3. QED
          BY <2>1, <3>2, <4>2
      <3>5. QED
        BY <3>3, <3>4
    <2>4. QED
      BY <1>7, <1>8, <1>9, <2>2, <2>3 DEF SafetyInv
  <1>12. QED
    BY <1>10, <1>11

LEMMA SafetyInit == Init => SafetyInv
  <1> SUFFICES ASSUME Init PROVE SafetyInv
    OBVIOUS
  <1>1. DOMAIN view = {} /\ DOMAIN hashes = {} /\ highestSeq = -1 /\ peak = -1
    BY EmptyViewIsPartial DEF Init
  <1>2. QED
    BY <1>1, TypeInit DEF SafetyInv, WatermarkIsTip, HashesMatchView, WindowRemembered,
                          PeakIsGreatest, NothingRememberedUnseen

LEMMA SafetyNext == SafetyInv /\ [Next]_vars => SafetyInv'
  <1> SUFFICES ASSUME SafetyInv, [Next]_vars PROVE SafetyInv'
    OBVIOUS
  <1>1. TypeOK'
    BY TypeNext DEF SafetyInv
  <1>2. CASE UNCHANGED <<core, history>>
    BY <1>1, <1>2 DEF core, history, SafetyInv, WatermarkIsTip, HashesMatchView,
                      WindowRemembered, PeakIsGreatest, NothingRememberedUnseen
  <1>3. CASE Reorg
    BY <1>1, <1>3, YieldSafe DEF Reorg, Turn
  <1>4. CASE Deliver
    BY <1>1, <1>4, YieldSafe DEF Deliver, Turn
  <1>5. QED
    BY <1>2, <1>3, <1>4, OnlyYieldsMove

\* The watermark is the tip of what the caller holds, remembered hashes are the
\* caller's, and the window is covered, in every reachable state.
THEOREM SafetyCorrect == Spec => []SafetyInv
  BY SafetyInit, SafetyNext, PTL DEF Spec

\* A reconnect resumes exactly from the last block the caller holds.
THEOREM WatermarkCorrect == Spec => []WatermarkIsTip
  <1>1. SafetyInv => WatermarkIsTip
    BY DEF SafetyInv
  <1>2. QED
    BY <1>1, SafetyCorrect, PTL

\* No remembered hash contradicts what the caller holds.
THEOREM HashesCorrect == Spec => []HashesMatchView
  <1>1. SafetyInv => HashesMatchView
    BY DEF SafetyInv
  <1>2. QED
    BY <1>1, SafetyCorrect, PTL

\* No block of the caller's picture within the window has lost its hash.
THEOREM WindowCorrect == Spec => []WindowRemembered
  <1>1. SafetyInv => WindowRemembered
    BY DEF SafetyInv
  <1>2. QED
    BY <1>1, SafetyCorrect, PTL

-----------------------------------------------------------------------------
(* Refinement and reorgs                                                   *)

LEMMA ViewInit == Init => View!Init
  BY DEF Init, View!Init

LEMMA ViewNext == SafetyInv /\ [Next]_vars => [View!Next]_view
  <1> SUFFICES ASSUME SafetyInv, [Next]_vars PROVE [View!Next]_view
    OBVIOUS
  <1> DEFINE e == Head(frame)
  <1>1. CASE UNCHANGED <<core, history>>
    BY <1>1 DEF history
  <1>2. CASE Reorg
    <2>1. e \in ItemType
      BY <1>2, RestOfFrame DEF SafetyInv, TypeOK, Reorg, Turn
    <2>2. view' = View!Replaced(view, e.seq, e.hash)
      BY <1>2 DEF Reorg, Yield, Absorbed, Message
    <2>3. View!Replace(e.seq, e.hash)
      BY <1>2, <2>2, ReorgReplaces DEF View!Replace
    <2>4. QED
      BY <1>2, <2>1, <2>3, ReorgReplaces DEF View!Next, ItemType
  <1>3. CASE Deliver
    <2>1. e \in ItemType /\ e.seq \in Int
      <3>1. e \in ItemType
        BY <1>3, RestOfFrame DEF SafetyInv, TypeOK, Deliver, Turn
      <3>2. QED
        BY <3>1, SeqsAreIntegers DEF ItemType
    <2>2. view' = View!Extended(view, e.seq, e.hash)
      BY <1>3 DEF Deliver, Yield, Absorbed, Message
    <2>3. \A t \in DOMAIN view : t < e.seq
      <3>1. e.seq > highestSeq
        BY <1>3 DEF Deliver
      <3>2. \A t \in DOMAIN view : t <= highestSeq /\ t \in Int
        BY SeqsAreIntegers, PartialFunctionElim DEF SafetyInv, WatermarkIsTip, TypeOK
      <3>3. highestSeq \in Int
        BY SeqsAreIntegers DEF SafetyInv, TypeOK
      <3>4. QED
        BY <2>1, <3>1, <3>2, <3>3
    <2>4. View!Extend(e.seq, e.hash)
      BY <2>2, <2>3 DEF View!Extend
    <2>5. QED
      BY <2>1, <2>4 DEF View!Next, ItemType
  <1>4. QED
    BY <1>1, <1>2, <1>3, OnlyYieldsMove

\* The caller's picture changes only as FeedView allows, whatever the feed sends.
THEOREM ImplementsFeedView == Spec => ViewSpec
  BY ViewInit, ViewNext, SafetyCorrect, PTL DEF Spec, ViewSpec, View!Spec

\* A turn of the loop is one of its four branches.
LEMMA TurnIsStep ==
    ASSUME TypeOK, [Next]_vars, Turn
    PROVE  Step
  <1>1. phase = "open" /\ phase' = "open" /\ frame # <<>> /\ frame' = Tail(frame)
    BY DEF Turn
  <1>2. frame' # frame
    <2>1. Len(Tail(frame)) = Len(frame) - 1 /\ Len(frame) \in Nat
      BY <1>1, RestOfFrame DEF TypeOK
    <2>2. Len(frame') = Len(frame) - 1
      BY <1>1, <2>1, Zenon
    <2>3. Len(frame') # Len(frame)
      BY <2>1, <2>2
    <2>4. QED
      BY <2>3, Zenon
  <1>3. QED
    BY <1>1, <1>2 DEF Next, vars, Call, Open, Refuse, ConnectFails, Wake, Drop, CleanClose,
                      WaitOut, Receive, Choke, Idle, Close

\* A replacement of a block the caller holds within the window is always delivered,
\* flagged, and takes that block's place.
THEOREM ReorgsCorrect == Spec => ReorgsAreDelivered
  <1> DEFINE e == Head(frame)
             Due == /\ Turn
                    /\ e.accepted
                    /\ e.seq \in DOMAIN view
                    /\ e.seq > peak - ReorgWindow
                    /\ NoHash \notin {e.hash, view[e.seq]}
                    /\ view[e.seq] # e.hash
             Done == out' = <<Message(e, TRUE)>> /\ view'[e.seq] = e.hash
  <1>1. SafetyInv /\ [Next]_vars => [Due => Done]_vars
    <2> SUFFICES ASSUME SafetyInv, [Next]_vars, Due PROVE Done
      OBVIOUS
    <2>1. Step
      BY TurnIsStep DEF SafetyInv
    <2>2. e \in ItemType /\ e.seq \in Int /\ highestSeq \in Int
      <3>1. e \in ItemType
        BY RestOfFrame DEF SafetyInv, TypeOK, Turn
      <3>2. QED
        BY <3>1, SeqsAreIntegers DEF ItemType, SafetyInv, TypeOK
    <2>3. e.seq <= highestSeq
      BY DEF SafetyInv, WatermarkIsTip
    <2>4. e.seq \in DOMAIN hashes /\ hashes[e.seq] = view[e.seq]
      BY DEF SafetyInv, WindowRemembered, HashesMatchView
    <2>5. IsReorg(e)
      BY <2>4 DEF IsReorg
    <2>6. Reorg
      <3>1. ~Reject
        BY Zenon DEF Reject
      <3>2. ~Duplicate
        BY <2>5, Zenon DEF Duplicate
      <3>3. ~Deliver
        <4>1. Deliver => e.seq > highestSeq
          BY Zenon DEF Deliver
        <4>2. ~(e.seq > highestSeq)
          BY <2>2, <2>3
        <4>3. QED
          BY <4>1, <4>2, Zenon
      <3>4. QED
        BY <2>1, <3>1, <3>2, <3>3 DEF Step
    <2>7. view'[e.seq] = e.hash
      BY <2>2, <2>6, AbsorbedMessage DEF Reorg, Yield, SafetyInv, TypeOK
    <2>8. QED
      BY <2>6, <2>7 DEF Reorg, Yield
  <1>2. QED
    BY <1>1, SafetyCorrect, PTL DEF Spec, ReorgsAreDelivered

-----------------------------------------------------------------------------
(* The live flag                                                           *)

\* A frame just read has the shape, whatever is fresh in it.
LEMMA ReceivedShape ==
    ASSUME LiveInv, NEW n \in 0..MaxFrame, NEW entries \in [1..n -> Entries], NEW fresh,
           Receive(entries, fresh)
    PROVE  FrameShape'
  <1> DEFINE first == FirstLive(entries, fresh)
             items == Annotated(entries, first)
  <1>1. live \in BOOLEAN
    BY DEF LiveInv, TypeOK
  <1>2. /\ items \in Seq(ItemType) /\ Len(items) = n
        /\ first \in 1..(n + 1)
        /\ live => first = 1
        /\ \A i \in 1..n : /\ items[i].live = (i >= first)
                           /\ items[i].goesLive = (i = first /\ ~live)
                           /\ items[i].goesLive => items[i].accepted
    BY <1>1, AnnotatedFrame
  <1>3. frame' = items /\ live' = live
    BY DEF Receive
  <1>4. DOMAIN items = 1..n /\ n \in Nat
    BY <1>2
  <1> HIDE DEF items, first
  <1>5. ASSUME NEW i \in 1..n
        PROVE  /\ items[i].live <=> live \/ \E j \in 1..i : items[j].goesLive
               /\ items[i].goesLive => items[i].accepted
    <2>1. items[i].goesLive => items[i].accepted
      BY <1>2
    <2>2. items[i].live <=> i >= first
      BY <1>2
    <2>3. \A j \in 1..i : j \in 1..n
      BY <1>4
    <2>4. \A j \in 1..i : items[j].goesLive = (j = first /\ ~live)
      BY <1>2, <2>3
    <2>5. \A j \in 1..i : items[j].goesLive <=> (j = first /\ ~live)
      BY <2>4, Zenon
    <2>6. CASE live
      <3>1. i >= first
        BY <1>2, <1>4, <2>6
      <3>2. QED
        BY <2>1, <2>2, <2>6, <3>1, Zenon
    <2>7. CASE ~live
      <3>1. (\E j \in 1..i : items[j].goesLive) <=> first \in 1..i
        BY <2>5, <2>7, Zenon
      <3>2. first \in 1..i <=> i >= first
        BY <1>2, <1>4
      <3>3. QED
        BY <2>1, <2>2, <2>7, <3>1, <3>2, Zenon
    <2>8. QED
      BY <2>6, <2>7
  <1>6. QED
    BY <1>3, <1>4, <1>5, Zenon DEF FrameShape

\* The first entry of a frame is live just when the flag is up after its turn.
LEMMA HeadShape ==
    ASSUME LiveInv, Turn
    PROVE  Head(frame).live <=> live'
  <1>1. frame # <<>> /\ live' = (live \/ Head(frame).goesLive)
    BY DEF Turn
  <1>2. Head(frame) = frame[1] /\ 1 \in DOMAIN frame
    BY <1>1, RestOfFrame, LenProperties DEF LiveInv, TypeOK
  <1>3. frame[1].live <=> live \/ \E j \in 1..1 : frame[j].goesLive
    BY <1>2 DEF LiveInv, FrameShape
  <1>4. \A j \in 1..1 : j = 1
    OBVIOUS
  <1>5. 1 \in 1..1
    OBVIOUS
  <1>6. QED
    BY <1>1, <1>2, <1>3, <1>4, <1>5, Zenon

\* What is left of a frame after a turn has the shape, with the flag as the turn
\* leaves it.
LEMMA TurnShape ==
    ASSUME LiveInv, Turn
    PROVE  FrameShape'
  <1>1. frame # <<>> /\ frame' = Tail(frame) /\ live' = (live \/ Head(frame).goesLive)
    BY DEF Turn
  <1>2. /\ Head(frame) = frame[1]
        /\ Tail(frame) \in Seq(ItemType)
        /\ Len(Tail(frame)) = Len(frame) - 1
        /\ \A i \in 1..Len(Tail(frame)) : Tail(frame)[i] = frame[i + 1]
        /\ Len(frame) \in Nat \ {0}
        /\ DOMAIN frame = 1..Len(frame)
        /\ DOMAIN Tail(frame) = 1..Len(Tail(frame))
    BY <1>1, RestOfFrame, LenProperties DEF LiveInv, TypeOK
  <1>3. ASSUME NEW i \in DOMAIN Tail(frame)
        PROVE  /\ Tail(frame)[i].live
                    <=> (live \/ Head(frame).goesLive)
                         \/ \E j \in 1..i : Tail(frame)[j].goesLive
               /\ Tail(frame)[i].goesLive => Tail(frame)[i].accepted
    <2>1. /\ i \in Nat /\ i + 1 \in DOMAIN frame
          /\ Tail(frame)[i] = frame[i + 1]
          /\ \A j \in 1..i : Tail(frame)[j] = frame[j + 1]
      BY <1>2
    <2>2. /\ frame[i + 1].live <=> live \/ \E j \in 1..(i + 1) : frame[j].goesLive
          /\ frame[i + 1].goesLive => frame[i + 1].accepted
      BY <2>1 DEF LiveInv, FrameShape
    <2>3. (\E j \in 1..(i + 1) : frame[j].goesLive)
            <=> frame[1].goesLive \/ \E j \in 1..i : frame[j + 1].goesLive
      <3>1. \A j \in 1..(i + 1) : j = 1 \/ (j - 1 \in 1..i /\ (j - 1) + 1 = j)
        BY <2>1
      <3>2. 1 \in 1..(i + 1) /\ \A j \in 1..i : j + 1 \in 1..(i + 1)
        BY <2>1
      <3>3. QED
        BY <3>1, <3>2
    <2>4. QED
      BY <1>2, <2>1, <2>2, <2>3, Zenon
  <1>4. QED
    BY <1>1, <1>3, Zenon DEF FrameShape

LEMMA LiveNext == LiveInv /\ [Next]_vars => LiveInv'
  <1> SUFFICES ASSUME LiveInv, [Next]_vars PROVE LiveInv'
    OBVIOUS
  <1>1. TypeOK'
    BY TypeNext DEF LiveInv
  <1>2. CASE frame' = <<>> /\ out' = <<>>
    <2>1. DOMAIN frame' = {}
      BY <1>2
    <2>2. QED
      BY <1>1, <1>2, <2>1 DEF LiveInv, FrameShape, OnlyOpenReads, LiveFlagMatchesMessage
  <1>3. CASE UNCHANGED <<phase, live, frame, out>>
    BY <1>1, <1>3 DEF LiveInv, FrameShape, OnlyOpenReads, LiveFlagMatchesMessage
  <1>4. ASSUME NEW n \in 0..MaxFrame, NEW entries \in [1..n -> Entries],
               NEW fresh \in SUBSET (1..n), Receive(entries, fresh)
        PROVE  LiveInv'
    BY <1>1, <1>4, ReceivedShape
    DEF Receive, Idle, LiveInv, OnlyOpenReads, LiveFlagMatchesMessage
  <1>5. CASE Step
    <2>1. Turn
      BY <1>5 DEF Step, Reject, Duplicate, Reorg, Deliver
    <2>2. FrameShape'
      BY <2>1, TurnShape
    <2>3. out' = <<>> \/ \E r \in BOOLEAN : out' = <<Message(Head(frame), r)>>
      BY <1>5 DEF Step, Reject, Duplicate, Reorg, Deliver, Yield
    <2>4. Head(frame).live <=> live'
      BY <2>1, HeadShape
    <2>5. out' # <<>> => (out'[1].live <=> live')
      <3>1. CASE out' = <<>>
        BY <3>1
      <3>2. ASSUME NEW r \in BOOLEAN, out' = <<Message(Head(frame), r)>>
            PROVE  out'[1].live <=> live'
        <4>1. out'[1] = Message(Head(frame), r)
          BY <3>2
        <4>2. out'[1].live = Head(frame).live
          BY <4>1 DEF Message
        <4>3. QED
          BY <2>4, <4>2, Zenon
      <3>3. QED
        BY <2>3, <3>1, <3>2
    <2>6. phase' = "open"
      BY <2>1 DEF Turn
    <2>7. QED
      BY <1>1, <2>2, <2>5, <2>6, Zenon
      DEF LiveInv, OnlyOpenReads, LiveFlagMatchesMessage
  <1>6. \/ frame' = <<>> /\ out' = <<>>
        \/ UNCHANGED <<phase, live, frame, out>>
        \/ \E n \in 0..MaxFrame : \E entries \in [1..n -> Entries] :
             \E fresh \in SUBSET (1..n) : Receive(entries, fresh)
        \/ Step
    BY DEF LiveInv, OnlyOpenReads, Next, vars, Call, Open, Refuse, ConnectFails, Wake,
           Drop, CleanClose, WaitOut, Idle, Choke, Close
  <1>7. QED
    BY <1>2, <1>3, <1>4, <1>5, <1>6

LEMMA LiveInit == Init => LiveInv
  <1> SUFFICES ASSUME Init PROVE LiveInv
    OBVIOUS
  <1>1. frame = <<>> /\ out = <<>> /\ DOMAIN frame = {}
    BY DEF Init
  <1>2. QED
    BY <1>1, TypeInit DEF LiveInv, FrameShape, OnlyOpenReads, LiveFlagMatchesMessage

\* The strengthened invariant of the live flag.
THEOREM LiveInvCorrect == Spec => []LiveInv
  BY LiveInit, LiveNext, PTL DEF Spec

\* is_live agrees with the message the generator is suspended on.
THEOREM LiveFlagCorrect == Spec => []LiveFlagMatchesMessage
  <1>1. LiveInv => LiveFlagMatchesMessage
    BY DEF LiveInv
  <1>2. QED
    BY <1>1, LiveInvCorrect, PTL

\* An entry that fails verification is inert.
THEOREM ForgedCorrect == Spec => ForgedEntriesAreInert
  <1> DEFINE Forged == Turn /\ ~Head(frame).accepted
             Inert == UNCHANGED <<core, live, view>> /\ out' = <<>>
  <1>1. LiveInv /\ [Next]_vars => [Forged => Inert]_vars
    <2> SUFFICES ASSUME LiveInv, [Next]_vars, Forged PROVE Inert
      OBVIOUS
    <2>1. Step
      BY TurnIsStep DEF LiveInv
    <2>2. Reject
      BY <2>1, Zenon DEF Step, Duplicate, Reorg, Deliver
    <2>3. Head(frame) = frame[1] /\ 1 \in DOMAIN frame /\ live \in BOOLEAN
      BY RestOfFrame, LenProperties DEF LiveInv, TypeOK, Turn
    <2>4. ~Head(frame).goesLive
      BY <2>3, Zenon DEF LiveInv, FrameShape
    <2>5. live' = (live \/ Head(frame).goesLive)
      BY DEF Turn
    <2>6. live' = live
      BY <2>3, <2>4, <2>5
    <2>7. QED
      BY <2>2, <2>6 DEF Reject, history
  <1>2. QED
    BY <1>1, LiveInvCorrect, PTL DEF Spec, ForgedEntriesAreInert

\* A connection that went live stays live until another one opens.
THEOREM LiveUntilReconnectCorrect == Spec => LiveUntilReconnect
  <1> DEFINE Falls == live /\ ~live' => phase = "connecting" /\ phase' = "open"
             Marked == live /\ phase = "open" /\ out' # <<>> => out'[1].live
  <1>1. LiveInv /\ LiveInv' /\ [Next]_vars => [Falls /\ Marked]_vars
    <2> SUFFICES ASSUME LiveInv, LiveInv', Next PROVE Falls /\ Marked
      BY DEF vars
    <2>1. \/ live' = FALSE /\ phase = "connecting" /\ phase' = "open"
          \/ live' = live
          \/ Turn
      BY DEF Next, Call, Open, Refuse, ConnectFails, Wake, Drop, CleanClose, WaitOut,
             Receive, Choke, Step, Reject, Duplicate, Reorg, Deliver, Close
    <2>2. Turn => (live => live')
      BY Zenon DEF Turn
    <2>3. Falls
      BY <2>1, <2>2, Zenon
    <2>4. Marked
      <3> SUFFICES ASSUME live, phase = "open", out' # <<>> PROVE out'[1].live
        OBVIOUS
      <3>1. live'
        BY <2>3, Zenon
      <3>2. phase' = "open"
        BY DEF LiveInv, OnlyOpenReads
      <3>3. QED
        BY <3>1, <3>2, Zenon DEF LiveInv, LiveFlagMatchesMessage
    <2>5. QED
      BY <2>3, <2>4
  <1>2. QED
    BY <1>1, LiveInvCorrect, PTL DEF Spec, LiveUntilReconnect
=============================================================================
