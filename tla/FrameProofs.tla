---------------------------- MODULE FrameProofs -----------------------------
(***************************************************************************)
(* The walk of an l2Msg stays inside the payload, takes every byte under   *)
(* one meaning only and moves on, and returns what the entries of the      *)
(* message are worth, for every message and every size; what is proved of  *)
(* the walk holds of every walk that a frame starts; a frame comes to one  *)
(* message per entry, each worth its own entry, or to none; and what is    *)
(* built from a ticket or a deposit reads back as what the message held.   *)
(***************************************************************************)
EXTENDS FrameReading, ByteStringsProofs, SequenceTheorems, FiniteSetTheorems, TLAPS

-----------------------------------------------------------------------------
(* The walk                                                                *)

\* The next entry of a batch starts behind its length and ends behind its start.
LEMMA EntryShape ==
    ASSUME TypeOK, stack # <<>>
    PROVE  /\ Top \in IntervalType
           /\ EntryStart \in Nat /\ Top.from < EntryStart
           /\ EntryEnd \in Nat /\ EntryStart <= EntryEnd
<1>1. Top \in IntervalType
  BY DEF TypeOK, Top
<1>2. LengthSize \in Nat \ {0}
  BY SizesAssumption
<1>3. EntryStart \in Nat /\ Top.from < EntryStart
  BY <1>1, <1>2 DEF EntryStart, IntervalType
<1>4. Top.from \in Nat /\ payload \in Seq(Byte)
  BY <1>1 DEF TypeOK, IntervalType
<1>5. BigEndian(Slice(payload, Top.from, EntryStart)) \in Nat
  BY <1>3, <1>4, LengthNat
<1> QED BY <1>1, <1>3, <1>5 DEF EntryEnd

\* A stack without its top.
LEMMA Popped ==
    ASSUME NEW S, NEW s \in Seq(S), s # <<>>
    PROVE  LET rest == SubSeq(s, 1, Len(s) - 1)
           IN  /\ rest \in Seq(S)
               /\ Len(rest) = Len(s) - 1
               /\ \A k \in 1..Len(s) - 1 : rest[k] = s[k]
<1> DEFINE n == Len(s) - 1
<1>1. n \in Nat
  OBVIOUS
<1>2. \A k \in 1..n : s[k] \in S
  OBVIOUS
<1> HIDE DEF n
<1>3. /\ SubSeq(s, 1, n) \in Seq(S)
      /\ Len(SubSeq(s, 1, n)) = IF 1 <= n THEN n - 1 + 1 ELSE 0
      /\ \A k \in 1..n - 1 + 1 : SubSeq(s, 1, n)[k] = s[1 + k - 1]
  <2>1. 1 \in Int /\ n \in Int
    BY <1>1
  <2> QED BY <1>2, <2>1, SubSeqProperties
<1>4. /\ Len(SubSeq(s, 1, n)) = n
      /\ \A k \in 1..n : SubSeq(s, 1, n)[k] = s[k]
  BY <1>1, <1>3
<1> QED BY <1>3, <1>4 DEF n

LEMMA TypePreserved ==
    ASSUME WalkInv, [Next]_vars
    PROVE  TypeOK'
<1> USE DEF WalkInv, TypeOK
<1>1. CASE Ignore
  BY <1>1 DEF Ignore
<1>2. CASE Start
  BY <1>2 DEF Start, Interval, IntervalType
<1>3. CASE SignedTx
  <2>1. Interval(entry.from + 1, entry.to) \in IntervalType
    BY DEF Interval, IntervalType
  <2> QED BY <1>3, <2>1 DEF SignedTx
<1>4. CASE Batch
  <2>1. Interval(entry.from + 1, entry.to) \in IntervalType
    BY DEF Interval, IntervalType
  <2>2. MaxDepth \in Nat /\ Len(stack) < MaxDepth
    BY <1>4, SizesAssumption DEF Batch, IsBatch
  <2> QED BY <1>4, <2>1, <2>2 DEF Batch
<1>5. CASE UnsignedTx
  BY <1>5 DEF UnsignedTx
<1>6. CASE Reject
  BY <1>6 DEF Reject
<1>7. CASE NextEntry
  <2>1. /\ Interval(EntryStart, EntryEnd) \in IntervalType
        /\ Interval(EntryEnd, Top.to) \in IntervalType
    BY <1>7, EntryShape DEF NextEntry, Interval, IntervalType
  <2>2. stack' \in Seq(IntervalType) /\ Len(stack') = Len(stack)
    BY <1>7, <2>1, ExceptSeq DEF NextEntry
  <2> QED BY <1>7, <2>1, <2>2 DEF NextEntry
<1>8. CASE EndBatch
  <2>1. stack' \in Seq(IntervalType) /\ Len(stack') = Len(stack) - 1
    BY <1>8, Popped DEF EndBatch
  <2>2. MaxDepth \in Nat
    BY SizesAssumption
  <2> QED BY <1>8, <2>1, <2>2 DEF EndBatch
<1>9. CASE Finish
  BY <1>9 DEF Finish
<1>10. CASE UNCHANGED vars
  BY <1>10 DEF vars
<1> QED BY <1>1, <1>2, <1>3, <1>4, <1>5, <1>6, <1>7, <1>8, <1>9, <1>10 DEF Next

LEMMA NestingPreserved ==
    ASSUME WalkInv, [Next]_vars
    PROVE  SlicesNest'
<1> USE DEF SlicesNest
<1>0. TypeOK /\ SlicesNest /\ TypeOK'
  BY TypePreserved DEF WalkInv
<1>1. CASE Ignore
  BY <1>0, <1>1 DEF Ignore
<1>2. CASE Start
  BY <1>0, <1>2 DEF Start, Interval, WalkInv, TypeOK
<1>3. CASE SignedTx
  BY <1>0, <1>3 DEF SignedTx
<1>4. CASE Batch
  <2> DEFINE top == Interval(entry.from + 1, entry.to)
  <2>1. /\ stack \in Seq(IntervalType) /\ stack' = Append(stack, top)
        /\ entry \in IntervalType /\ entry.from < entry.to
        /\ phase = "parse" /\ phase' = "split" /\ entry' = entry /\ payload' = payload
    BY <1>0, <1>4 DEF Batch, IsBatch, Empty, TypeOK, IntervalType
  <2>2. top.from = entry.from + 1 /\ top.to = entry.to
    BY DEF Interval
  <2> HIDE DEF top
  <2>3. \A k \in DOMAIN stack' : stack'[k].from <= stack'[k].to /\ stack'[k].to <= Len(payload)
    BY <1>0, <2>1, <2>2 DEF IntervalType
  <2>4. \A k \in 1..Len(stack') - 1 : stack'[k + 1].to <= stack'[k].from
    BY <1>0, <2>1, <2>2 DEF Top
  <2> QED BY <1>0, <2>1, <2>3, <2>4
<1>5. CASE UnsignedTx
  BY <1>0, <1>5 DEF UnsignedTx
<1>6. CASE Reject
  BY <1>0, <1>6 DEF Reject
<1>7. CASE NextEntry
  <2> DEFINE top == Interval(EntryEnd, Top.to)
  <2>1. /\ stack \in Seq(IntervalType) /\ stack # <<>> /\ Len(stack) \in 1..Len(stack)
        /\ phase' = "parse" /\ payload' = payload
        /\ stack' = [stack EXCEPT ![Len(stack)] = top]
        /\ entry' = Interval(EntryStart, EntryEnd)
    BY <1>0, <1>7 DEF NextEntry, TypeOK
  <2>2. /\ Top \in IntervalType
        /\ EntryStart \in Nat /\ EntryEnd \in Nat
        /\ Top.from < EntryStart /\ EntryStart <= EntryEnd /\ EntryEnd <= Top.to
    BY <1>0, <1>7, EntryShape DEF NextEntry, HasEntry
  <2>3. top \in IntervalType /\ top.from = EntryEnd /\ top.to = Top.to
    BY <2>2 DEF Interval, IntervalType
  <2> HIDE DEF top
  <2>4. /\ Len(stack') = Len(stack)
        /\ \A k \in 1..Len(stack) : stack'[k] = IF k = Len(stack) THEN top ELSE stack[k]
    BY <2>1, <2>3, ExceptSeq
  <2>5. \A k \in DOMAIN stack' : stack'[k].from <= stack'[k].to /\ stack'[k].to <= Len(payload)
    BY <1>0, <2>1, <2>2, <2>3, <2>4 DEF TypeOK, Top
  <2>6. \A k \in 1..Len(stack') - 1 : stack'[k + 1].to <= stack'[k].from
    <3>1. SUFFICES ASSUME NEW k \in 1..Len(stack) - 1
                   PROVE  stack'[k + 1].to <= stack'[k].from
      BY <2>4
    <3>2. /\ k \in 1..Len(stack) /\ k # Len(stack) /\ k + 1 \in 1..Len(stack)
      BY <2>1
    <3>3. stack'[k] = stack[k]
      BY <2>4, <3>2
    <3>4. stack'[k + 1].to = stack[k + 1].to
      BY <2>3, <2>4, <3>2 DEF Top
    <3>5. stack[k + 1].to <= stack[k].from
      BY <1>0
    <3> QED BY <3>3, <3>4, <3>5
  <2>7. entry'.from = EntryStart /\ entry'.to = EntryEnd
    BY <2>1 DEF Interval
  <2>8. Top.to <= Len(payload) /\ Len(payload) \in Nat
    BY <1>0, <2>1 DEF Top, TypeOK
  <2>9. entry'.from <= entry'.to /\ entry'.to <= Len(payload')
    BY <2>1, <2>2, <2>7, <2>8 DEF IntervalType
  <2>10. entry'.to <= Top'.from
    BY <2>1, <2>2, <2>3, <2>4, <2>7 DEF Top
  <2> QED BY <1>0, <2>1, <2>5, <2>6, <2>9, <2>10 DEF TypeOK
<1>8. CASE EndBatch
  <2>1. /\ Len(stack') = Len(stack) - 1
        /\ \A k \in 1..Len(stack) - 1 : stack'[k] = stack[k]
        /\ stack \in Seq(IntervalType)
        /\ phase' = "split" /\ payload' = payload /\ entry' = entry
    BY <1>0, <1>8, Popped DEF EndBatch, TypeOK
  <2>2. Len(stack) \in Nat
    BY <2>1
  <2>3. \A k \in DOMAIN stack' : k \in DOMAIN stack /\ k \in 1..Len(stack) - 1
    BY <1>0, <2>1, <2>2 DEF TypeOK
  <2>4. \A k \in DOMAIN stack' : stack'[k].from <= stack'[k].to /\ stack'[k].to <= Len(payload)
    BY <1>0, <2>1, <2>3
  <2>5. \A k \in 1..Len(stack') - 1 : stack'[k + 1].to <= stack'[k].from
    BY <1>0, <2>1, <2>2
  <2> QED BY <1>0, <2>1, <2>4, <2>5
<1>9. CASE Finish
  BY <1>0, <1>9 DEF Finish
<1>10. CASE UNCHANGED vars
  BY <1>0, <1>10 DEF vars, Top
<1> QED BY <1>1, <1>2, <1>3, <1>4, <1>5, <1>6, <1>7, <1>8, <1>9, <1>10 DEF Next

\* Frontier, one equation for each place the walk can be at.
LEMMA FrontierCases ==
    /\ phase = "start" => Frontier = 0
    /\ phase = "parse" => Frontier = entry.from
    /\ phase = "split" /\ stack # <<>> => Frontier = Top.from
    /\ phase = "split" /\ stack = <<>> => Frontier = Len(payload)
    /\ phase \in {"done", "void"} => Frontier = Len(payload)
BY DEF Frontier

\* The same after the step.
LEMMA FrontierCasesNext ==
    /\ phase' = "start" => Frontier' = 0
    /\ phase' = "parse" => Frontier' = entry'.from
    /\ phase' = "split" /\ stack' # <<>> => Frontier' = Top'.from
    /\ phase' = "split" /\ stack' = <<>> => Frontier' = Len(payload')
    /\ phase' \in {"done", "void"} => Frontier' = Len(payload')
BY DEF Frontier

\* The walk is never outside the payload.
LEMMA FrontierInside ==
    TypeOK /\ SlicesNest => Frontier \in Nat /\ Frontier <= Len(payload)
<1> SUFFICES ASSUME TypeOK, SlicesNest
             PROVE  Frontier \in Nat /\ Frontier <= Len(payload)
  OBVIOUS
<1>1. Len(payload) \in Nat /\ entry \in IntervalType /\ phase \in {"start", "parse", "split", "done", "void"}
  BY DEF TypeOK
<1>2. ASSUME stack # <<>>
      PROVE  Top.from \in Nat /\ Top.from <= Len(payload)
  <2>1. Len(stack) \in DOMAIN stack /\ Top \in IntervalType
    BY <1>2 DEF TypeOK, Top
  <2>2. Top.from <= Top.to /\ Top.to <= Len(payload)
    BY <2>1 DEF SlicesNest, Top
  <2>3. Top.from \in Nat /\ Top.to \in Nat
    BY <2>1 DEF IntervalType
  <2> QED BY <1>1, <2>2, <2>3
<1>3. entry.from \in Nat /\ entry.to \in Nat /\ entry.from <= Len(payload)
  BY <1>1 DEF SlicesNest, IntervalType
<1> QED BY <1>1, <1>2, <1>3, FrontierCases

\* The same after the step.
LEMMA FrontierInsideNext ==
    (TypeOK /\ SlicesNest => Frontier \in Nat /\ Frontier <= Len(payload))'
BY FrontierInside, PTL

\* The step ends the walk.
Over == phase' \in {"done", "void"}

\* Every step is the last one, or moves the walk on, or leaves a batch behind.
LEMMA StepMoves ==
    ASSUME WalkInv, Next
    PROVE  /\ Frontier <= Frontier'
           /\ phase # "start"
                => Over \/ Frontier < Frontier' \/ Len(stack') < Len(stack)
<1>0. TypeOK /\ SlicesNest /\ TypeOK' /\ SlicesNest'
  BY TypePreserved, NestingPreserved DEF WalkInv
<1>1. /\ Frontier \in Nat /\ Frontier <= Len(payload)
      /\ Frontier' \in Nat /\ Len(payload) \in Nat /\ payload' = payload
  <2>1. Frontier \in Nat /\ Frontier <= Len(payload)
    BY <1>0, FrontierInside
  <2>2. Frontier' \in Nat
    BY <1>0, FrontierInsideNext
  <2>3. payload' = payload
    BY DEF Next, Ignore, Start, SignedTx, Batch, UnsignedTx, Reject, NextEntry, EndBatch, Finish
  <2> QED BY <1>0, <2>1, <2>2, <2>3 DEF TypeOK
<1>2. CASE phase = "start"
  BY <1>1, <1>2, FrontierCases
<1>3. CASE phase' \in {"done", "void"}
  BY <1>1, <1>3, FrontierCasesNext DEF Over
<1>4. ASSUME phase = "parse", phase' = "split", entry.from < entry.to,
             stack' = stack \/ stack' = Append(stack, Interval(entry.from + 1, entry.to))
      PROVE  Frontier < Frontier'
  <2>1. Frontier = entry.from /\ entry \in IntervalType
    BY <1>0, <1>4, FrontierCases DEF TypeOK
  <2>2. CASE stack' # <<>>
    <3>1. Frontier' = Top'.from
      BY <1>4, <2>2, FrontierCasesNext
    <3>2. CASE stack' = stack
      <4>1. Top' = Top /\ entry.to <= Top.from /\ Top \in IntervalType
        BY <1>0, <1>4, <2>2, <3>2 DEF SlicesNest, Top, TypeOK
      <4> QED BY <1>4, <2>1, <3>1, <4>1 DEF IntervalType
    <3>3. CASE stack' = Append(stack, Interval(entry.from + 1, entry.to))
      <4>1. Top' = Interval(entry.from + 1, entry.to)
        BY <1>0, <3>3 DEF Top, TypeOK
      <4>2. Top'.from = entry.from + 1
        BY <4>1 DEF Interval
      <4> QED BY <2>1, <3>1, <4>2 DEF IntervalType
    <3> QED BY <1>4, <3>2, <3>3
  <2>3. CASE stack' = <<>>
    <3>1. Frontier' = Len(payload')
      BY <1>4, <2>3, FrontierCasesNext
    <3> QED BY <1>0, <1>1, <1>4, <2>1, <3>1 DEF SlicesNest, IntervalType
  <2> QED BY <2>2, <2>3
<1>5. CASE SignedTx \/ Batch \/ UnsignedTx
  <2>1. phase = "parse" /\ phase' = "split" /\ entry.from # entry.to
    BY <1>5 DEF SignedTx, IsSigned, Batch, IsBatch, UnsignedTx, IsUnsigned, Empty
  <2>2. stack' = stack \/ stack' = Append(stack, Interval(entry.from + 1, entry.to))
    BY <1>5 DEF SignedTx, Batch, UnsignedTx
  <2>3. entry.from < entry.to
    BY <1>0, <2>1 DEF TypeOK, SlicesNest, IntervalType
  <2>4. Frontier < Frontier'
    BY <1>4, <2>1, <2>2, <2>3
  <2> QED BY <1>1, <2>4
<1>6. CASE NextEntry
  <2>1. Frontier = Top.from /\ Top \in IntervalType /\ Top.from < EntryStart
    BY <1>0, <1>6, FrontierCases, EntryShape DEF NextEntry
  <2>2. Frontier' = EntryStart
    BY <1>6, FrontierCasesNext DEF NextEntry, Interval
  <2>3. Frontier < Frontier'
    BY <2>1, <2>2
  <2> QED BY <1>1, <2>3
<1>7. CASE EndBatch
  <2>1. /\ Len(stack') = Len(stack) - 1 /\ Len(stack) \in Nat \ {0}
        /\ \A k \in 1..Len(stack) - 1 : stack'[k] = stack[k]
    BY <1>0, <1>7, Popped DEF EndBatch, TypeOK
  <2>2. Frontier = Top.from /\ Top \in IntervalType
    BY <1>0, <1>7, FrontierCases DEF EndBatch, TypeOK, Top
  <2>3. CASE stack' # <<>>
    <3>1. Frontier' = Top'.from /\ Top' = stack[Len(stack) - 1]
      BY <1>0, <1>7, <2>1, <2>3, FrontierCasesNext DEF EndBatch, Top, TypeOK
    <3>2. Len(stack) - 1 \in 1..Len(stack) - 1
      BY <1>0, <2>1, <2>3 DEF TypeOK
    <3>3. Top.from <= Top.to /\ Top.to <= stack[Len(stack) - 1].from
      BY <1>0, <2>1, <3>2 DEF SlicesNest, Top
    <3>4. stack[Len(stack) - 1] \in IntervalType
      BY <1>0, <2>1, <3>2 DEF TypeOK
    <3>5. Top.from \in Nat /\ Top.to \in Nat /\ stack[Len(stack) - 1].from \in Nat
      BY <2>2, <3>4 DEF IntervalType
    <3> QED BY <2>1, <2>2, <3>1, <3>3, <3>5
  <2>4. CASE stack' = <<>>
    BY <1>1, <1>7, <2>1, <2>4, FrontierCasesNext DEF EndBatch
  <2> QED BY <2>3, <2>4
<1> QED BY <1>2, <1>3, <1>5, <1>6, <1>7
         DEF Next, Ignore, Start, Reject, Finish

\* A transaction is found at the walk, and none is found again.
LEMMA OrderPreserved ==
    ASSUME WalkInv, [Next]_vars
    PROVE  TxsInOrder'
<1>0. TypeOK /\ SlicesNest /\ TxsInOrder /\ TypeOK' /\ SlicesNest'
  BY TypePreserved, NestingPreserved DEF WalkInv
<1>1. Frontier \in Nat /\ Frontier' \in Nat
  BY <1>0, FrontierInside, FrontierInsideNext
<1>2. CASE UNCHANGED vars
  BY <1>0, <1>2 DEF TxsInOrder, Frontier, Top, vars
<1>3. ASSUME Next PROVE Frontier <= Frontier'
  BY <1>3, StepMoves
<1>4. ASSUME Next, txs' = txs PROVE TxsInOrder'
  <2>1. Frontier <= Frontier'
    BY <1>3, <1>4
  <2>2. \A k \in DOMAIN txs : txs[k].to \in Nat
    <3>1. \A k \in DOMAIN txs : txs[k] \in IntervalType
      BY <1>0 DEF TypeOK
    <3> QED BY <3>1 DEF IntervalType
  <2> QED BY <1>0, <1>1, <1>4, <2>1, <2>2 DEF TxsInOrder
<1>5. CASE SignedTx
  <2> DEFINE tx == Interval(entry.from + 1, entry.to)
  <2>1. /\ txs' = Append(txs, tx) /\ txs \in Seq(IntervalType)
        /\ entry.from \in Nat /\ entry.to \in Nat /\ entry.from < entry.to
        /\ Frontier = entry.from
    BY <1>0, <1>5, FrontierCases
       DEF SignedTx, IsSigned, Empty, TypeOK, SlicesNest, IntervalType
  <2>2. tx.from = entry.from + 1 /\ tx.to = entry.to
    BY DEF Interval
  <2>3. entry.to <= Frontier'
    <3>1. CASE stack = <<>>
      <4>1. Frontier' = Len(payload)
        BY <1>5, <3>1, FrontierCasesNext DEF SignedTx
      <4> QED BY <1>0, <4>1 DEF SlicesNest
    <3>2. CASE stack # <<>>
      <4>1. Frontier' = Top.from
        BY <1>5, <3>2, FrontierCasesNext DEF SignedTx, Top
      <4> QED BY <1>0, <1>5, <3>2, <4>1 DEF SlicesNest, SignedTx
    <3> QED BY <3>1, <3>2
  <2> HIDE DEF tx
  <2>4. Frontier <= Frontier'
    BY <1>1, <2>1, <2>3
  <2>5. \A k \in DOMAIN txs : txs[k].from \in Nat /\ txs[k].to \in Nat
    <3>1. \A k \in DOMAIN txs : txs[k] \in IntervalType
      BY <2>1
    <3> QED BY <3>1 DEF IntervalType
  <2>6. /\ Len(txs) \in Nat /\ Len(txs') = Len(txs) + 1
        /\ \A k \in 1..Len(txs) : txs'[k] = txs[k]
        /\ txs'[Len(txs) + 1] = tx
    BY <2>1
  <2>7. \A k \in 1..Len(txs) : txs[k].from <= txs[k].to /\ txs[k].to <= entry.from
    BY <1>0, <2>1 DEF TxsInOrder
  <2>8. \A k \in 1..Len(txs) : txs[k].to <= Frontier'
    BY <1>1, <2>1, <2>4, <2>5, <2>7
  <2>9. \A k \in DOMAIN txs' : txs'[k].from <= txs'[k].to /\ txs'[k].to <= Frontier'
    <3>1. DOMAIN txs' = 1..Len(txs) + 1
      BY <1>0, <2>6 DEF TypeOK
    <3>2. tx.from <= tx.to /\ tx.to <= Frontier'
      BY <2>1, <2>2, <2>3
    <3> QED BY <2>6, <2>7, <2>8, <3>1, <3>2
  <2>10. \A k \in 1..Len(txs') - 1 : txs'[k].to <= txs'[k + 1].from
    <3>1. SUFFICES ASSUME NEW k \in 1..Len(txs)
                   PROVE  txs'[k].to <= txs'[k + 1].from
      BY <2>6
    <3>2. CASE k = Len(txs)
      BY <2>1, <2>2, <2>5, <2>6, <2>7, <3>2
    <3>3. CASE k \in 1..Len(txs) - 1
      <4>1. k + 1 \in 1..Len(txs)
        BY <2>6, <3>3
      <4>2. txs[k].to <= txs[k + 1].from
        BY <1>0, <3>3 DEF TxsInOrder
      <4> QED BY <2>6, <4>1, <4>2
    <3> QED BY <2>6, <3>2, <3>3
  <2> QED BY <2>9, <2>10 DEF TxsInOrder
<1>6. CASE Reject
  BY <1>6 DEF Reject, TxsInOrder
<1> QED BY <1>2, <1>4, <1>5, <1>6
         DEF Next, Ignore, Start, Batch, UnsignedTx, NextEntry, EndBatch, Finish

\* Every step of the walk, whoever started it, keeps to the invariant.
LEMMA WalkPreserved ==
    ASSUME WalkInv, [Next]_vars
    PROVE  WalkInv'
<1>1. (phase = "start" => stack = <<>> /\ txs = <<>>)'
  BY DEF WalkInv, Next, vars, Ignore, Start, SignedTx, Batch, UnsignedTx, Reject,
         NextEntry, EndBatch, Finish
<1> QED BY <1>1, TypePreserved, NestingPreserved, OrderPreserved DEF WalkInv

\* For every message, cap on its size and cap on its nesting, the walk keeps what the
\* next step needs: nested batches within their parents, transactions behind the walk.
THEOREM WalkCorrect == Spec => []WalkInv
<1>1. Init => WalkInv
  <2> SUFFICES ASSUME Init PROVE WalkInv
    OBVIOUS
  <2>1. MaxDepth \in Nat /\ payload \in Seq(Byte)
    BY PayloadsAssumption, SizesAssumption DEF Init
  <2>2. TypeOK
    BY <2>1 DEF Init, TypeOK, Interval, IntervalType
  <2>3. SlicesNest /\ TxsInOrder
    BY <2>1 DEF Init, SlicesNest, TxsInOrder, Interval
  <2> QED BY <2>2, <2>3 DEF Init, WalkInv
<1>2. WalkInv /\ [Next]_vars => WalkInv'
  BY WalkPreserved
<1> QED BY <1>1, <1>2, PTL DEF Spec

\* No byte of a message is read under two meanings, whatever the lengths in it say.
THEOREM SlicesNestCorrect == Spec => []SlicesNest
<1>1. WalkInv => SlicesNest
  BY DEF WalkInv
<1> QED BY <1>1, WalkCorrect, PTL

\* The transactions of a message are in the order of its bytes, apart, and found once.
THEOREM TxsInOrderCorrect == Spec => []TxsInOrder
<1>1. WalkInv => TxsInOrder
  BY DEF WalkInv
<1> QED BY <1>1, WalkCorrect, PTL

\* Every step of the walk after the first ends it, gets further into the message, or is
\* done with a batch: with an unchanged Frontier only as many more as batches are open.
THEOREM MovesOnCorrect == Spec => MovesOn
<1> DEFINE Moves == \/ phase' \in {"done", "void"}
                    \/ Frontier < Frontier'
                    \/ Frontier <= Frontier' /\ Len(stack') < Len(stack)
<1>1. WalkInv /\ [Next]_vars => [phase # "start" => Moves]_vars
  <2> SUFFICES ASSUME WalkInv, Next, phase # "start" PROVE Moves
    BY DEF vars
  <2> QED BY StepMoves DEF Over
<1> QED BY <1>1, WalkCorrect, PTL DEF Spec, MovesOn

-----------------------------------------------------------------------------
(* What the message is worth                                               *)

\* What is left of a batch, from its end back: a length that is there in full is shorter.
Left == [r \in Nodes |-> IF r.from <= r.to THEN r.to - r.from ELSE 0]

\* The next entry is an entry, and what is left behind it and inside it is less.
LEMMA NextIsLess ==
    ASSUME NEW p \in Seq(Byte), NEW r \in Nodes, HasNode(p, r)
    PROVE  /\ NextNode(p, r) \in Nodes
           /\ Behind(p, r) \in Nodes /\ Left[Behind(p, r)] < Left[r]
           /\ IsBatchNode(p, NextNode(p, r))
                => Inside(NextNode(p, r)) \in Nodes /\ Left[Inside(NextNode(p, r))] < Left[r]
<1>1. r.from \in Nat /\ r.to \in Nat /\ r.depth \in Nat /\ LengthSize \in Nat \ {0}
  BY SizesAssumption DEF Nodes
<1>2. PICK start \in Nat : start = r.from + LengthSize
  BY <1>1
<1>3. PICK n \in Nat : n = BigEndian(Slice(p, r.from, start))
  BY <1>1, LengthNat
<1>4. PICK to \in Nat : to = start + n
  OBVIOUS
<1>5. NextNode(p, r) = Node(start, to, r.depth)
  BY <1>2, <1>3, <1>4 DEF NextNode
<1>6. r.from < start /\ start <= to /\ to <= r.to
  <2>1. NextNode(p, r).to = to
    BY <1>5 DEF Node
  <2>2. r.from + LengthSize <= r.to /\ to <= r.to
    BY <2>1 DEF HasNode
  <2>3. r.from < start
    BY <1>1, <1>2
  <2>4. start <= to
    BY <1>4
  <2> QED BY <2>2, <2>3, <2>4
<1>7. Behind(p, r) = Node(to, r.to, r.depth)
  BY <1>5 DEF Behind, Node
<1>8. /\ Node(start, to, r.depth) \in Nodes /\ Node(to, r.to, r.depth) \in Nodes
      /\ Node(start + 1, to, r.depth + 1) \in Nodes
  BY <1>1 DEF Node, Nodes
<1>9. /\ Left[r] = r.to - r.from
      /\ Left[Node(to, r.to, r.depth)] = r.to - to
  <2>1. \A m \in Nodes : m.from <= m.to => Left[m] = m.to - m.from
    BY DEF Left
  <2>2. Node(to, r.to, r.depth).from = to /\ Node(to, r.to, r.depth).to = r.to
    BY DEF Node
  <2>3. r.from <= r.to /\ to <= r.to
    BY <1>1, <1>6
  <2> QED BY <1>8, <2>1, <2>2, <2>3
<1>10. ASSUME IsBatchNode(p, NextNode(p, r))
       PROVE  /\ Inside(NextNode(p, r)) = Node(start + 1, to, r.depth + 1)
              /\ Left[Node(start + 1, to, r.depth + 1)] = to - (start + 1)
  <2>1. start < to /\ start + 1 <= to
    BY <1>5, <1>10 DEF IsBatchNode, Node
  <2> QED BY <1>5, <1>8, <2>1 DEF Inside, Node, Left
<1>11. Behind(p, r) \in Nodes /\ Left[Behind(p, r)] < Left[r]
  <2>1. r.to - to < r.to - r.from
    BY <1>1, <1>6
  <2> QED BY <1>7, <1>8, <1>9, <2>1
<1>12. ASSUME IsBatchNode(p, NextNode(p, r))
       PROVE  Inside(NextNode(p, r)) \in Nodes /\ Left[Inside(NextNode(p, r))] < Left[r]
  <2>1. to - (start + 1) < r.to - r.from
    BY <1>1, <1>6
  <2> QED BY <1>8, <1>9, <1>10, <1>12, <2>1
<1> QED BY <1>5, <1>8, <1>11, <1>12

\* One step of the definition of Contents, from what `in` has for less.
Unfolded(p, in, r) ==
    IF ~HasNode(p, r) THEN {}
    ELSE {NextNode(p, r)} \cup in[Behind(p, r)]
         \cup IF IsBatchNode(p, NextNode(p, r)) THEN in[Inside(NextNode(p, r))] ELSE {}

\* The entries in what is left of a batch are as they are defined: the definition ends.
LEMMA ContentsIs ==
    ASSUME NEW p \in Seq(Byte)
    PROVE  /\ Contents(p) \in [Nodes -> SUBSET Nodes]
           /\ \A r \in Nodes : Contents(p)[r] = Unfolded(p, Contents(p), r)
<1> DEFINE S == SUBSET Nodes
           F == [Nodes -> S]
           Step(in) == [r \in Nodes |-> Unfolded(p, in, r)]
           g == [in \in F |-> Step(in)]
<1>1. ASSUME NEW in \in F, NEW r \in Nodes
      PROVE  Unfolded(p, in, r) \in S
  BY NextIsLess DEF Unfolded
<1>2. g \in [F -> F]
  BY <1>1
<1>3. ASSUME NEW in \in F, NEW of \in F, NEW r \in Nodes,
             \A e \in Nodes : Left[e] < Left[r] => in[e] = of[e]
      PROVE  g[in][r] = g[of][r]
  <2>1. g[in][r] = Unfolded(p, in, r) /\ g[of][r] = Unfolded(p, of, r)
    OBVIOUS
  <2>2. Unfolded(p, in, r) = Unfolded(p, of, r)
    <3>1. CASE HasNode(p, r)
      BY <1>3, <3>1, NextIsLess DEF Unfolded
    <3>2. CASE ~HasNode(p, r)
      BY <3>2 DEF Unfolded
    <3> QED BY <3>1, <3>2
  <2> QED BY <2>1, <2>2
<1>4. Left \in [Nodes -> Nat]
  BY DEF Left, Nodes
<1>5. PICK f \in F : f = g[f]
  <2>1. {} \in S
    OBVIOUS
  <2>2. Contracts(Nodes, S, Left, g)
    BY <1>2, <1>3, <1>4 DEF Contracts
  <2> HIDE DEF g, S
  <2> QED BY <2>1, <2>2, MeasuredRecursion DEF Fixed
<1>6. f = Step(f)
  BY <1>5
<1>7. Contents(p) = CHOOSE in : in = Step(in)
  BY DEF Contents, Unfolded
<1>8. Contents(p) = Step(Contents(p))
  <2> HIDE DEF Step
  <2> QED BY <1>6, <1>7
<1>9. Contents(p) = [r \in Nodes |-> Unfolded(p, Contents(p), r)]
  BY <1>8
<1> DEFINE c == Contents(p)
           T == {n \in Nat : \E r \in Nodes : n = Left[r] /\ c[r] \notin S}
<1> HIDE DEF c, Step, g
<1>10. ASSUME T # {} PROVE FALSE
  <2>1. T \subseteq Nat
    OBVIOUS
  <2>2. PICK n \in T : \A k \in T : n <= k
    <3> HIDE DEF T
    <3> QED BY <1>10, <2>1, LeastOf
  <2>3. PICK r \in Nodes : n = Left[r] /\ c[r] \notin S
    OBVIOUS
  <2>4. \A e \in Nodes : Left[e] < Left[r] => c[e] \in S
    <3> SUFFICES ASSUME NEW e \in Nodes, Left[e] < Left[r], c[e] \notin S PROVE FALSE
      OBVIOUS
    <3>1. Left[e] \in Nat /\ Left[r] \in Nat
      BY <1>4
    <3>2. Left[e] \in T
      BY <3>1
    <3> HIDE DEF T
    <3> QED BY <2>2, <2>3, <3>1, <3>2
  <2>5. Unfolded(p, c, r) \in S
    <3>1. CASE HasNode(p, r)
      BY <2>4, <3>1, NextIsLess DEF Unfolded
    <3>2. CASE ~HasNode(p, r)
      BY <3>2 DEF Unfolded
    <3> QED BY <3>1, <3>2
  <2>6. c[r] = Unfolded(p, c, r)
    BY <1>9 DEF c
  <2> QED BY <2>3, <2>5, <2>6
<1>11. \A r \in Nodes : c[r] \in S
  <2> SUFFICES ASSUME NEW r \in Nodes PROVE c[r] \in S
    OBVIOUS
  <2>1. Left[r] \in Nat
    BY <1>4
  <2> QED BY <1>10, <2>1
<1> QED BY <1>9, <1>11 DEF c

\* The entries in all batches of s: those of the innermost, and those of the others.
Rests(s, p) == UNION {Contents(p)[Node(s[k].from, s[k].to, k)] : k \in DOMAIN s}

LEMMA RestsGrow ==
    ASSUME NEW p, NEW s \in Seq(IntervalType), NEW t \in Seq(IntervalType),
           Len(t) = Len(s) + 1, \A k \in 1..Len(s) : t[k] = s[k]
    PROVE  LET top == t[Len(t)]
           IN  Rests(t, p) = Rests(s, p) \cup Contents(p)[Node(top.from, top.to, Len(t))]
<1> DEFINE C(x, k) == Contents(p)[Node(x[k].from, x[k].to, k)]
<1>1. DOMAIN s = 1..Len(s) /\ DOMAIN t = 1..Len(s) \cup {Len(t)}
  OBVIOUS
<1>2. \A k \in 1..Len(s) : C(t, k) = C(s, k)
  OBVIOUS
<1>3. Rests(t, p) = UNION {C(t, k) : k \in DOMAIN t} /\ Rests(s, p) = UNION {C(s, k) : k \in DOMAIN s}
  BY DEF Rests
<1> HIDE DEF C
<1>4. Rests(t, p) = Rests(s, p) \cup C(t, Len(t))
  <2>1. \A x : x \in Rests(t, p) <=> x \in Rests(s, p) \cup C(t, Len(t))
    BY <1>1, <1>2, <1>3
  <2> QED BY <2>1, Zenon
<1> QED BY <1>4 DEF C

\* What is still to be read: the entry at hand, what is in it, and what is left of the
\* batches it is in.
EntryNode == Node(entry.from, entry.to, Len(stack))

Pending ==
    (IF phase = "parse" THEN Tree(payload, EntryNode) ELSE {}) \cup Rests(stack, payload)

\* An entry is refused where the walk says so.
LEMMA RefusedHere ==
    ASSUME TypeOK, SlicesNest
    PROVE  /\ Refused(payload, EntryNode) <=> ~(IsSigned \/ IsBatch \/ IsUnsigned)
           /\ ~Empty => Kind = payload[EntryNode.from + 1]
           /\ IsBatchNode(payload, EntryNode) <=> ~Empty /\ Kind = L2_BATCH
<1>1. /\ entry.from \in Nat /\ entry.to \in Nat /\ payload \in Seq(Byte)
      /\ entry.from <= entry.to /\ entry.to <= Len(payload)
      /\ Len(stack) \in Nat /\ MaxDepth \in Nat
  BY SizesAssumption DEF TypeOK, SlicesNest, IntervalType
<1>2. EntryNode.from = entry.from /\ EntryNode.to = entry.to /\ EntryNode.depth = Len(stack)
  BY DEF EntryNode, Node
<1> DEFINE b == Slice(payload, entry.from, entry.to)
<1>3. IsSlice(b, payload, entry.from, entry.to)
  BY <1>1, SliceIs
<1> HIDE DEF b
<1>4. b = <<>> <=> Empty
  BY <1>1, <1>3 DEF IsSlice, Empty
<1>5. ASSUME ~Empty PROVE Head(b) = Kind /\ Tail(b) = Body /\ entry.from < entry.to
  <2>1. entry.from < entry.to
    BY <1>1, <1>5 DEF Empty
  <2>2. b \in Seq(Byte) /\ Len(b) = entry.to - entry.from /\ b # <<>>
        /\ \A k \in 1..entry.to - entry.from : b[k] = payload[entry.from + k]
    BY <1>3, <1>4, <1>5 DEF IsSlice
  <2>3. Head(b) = Kind
    BY <1>1, <2>1, <2>2 DEF Kind
  <2>4. IsSlice(Body, payload, entry.from + 1, entry.to)
    <3>1. entry.from + 1 \in Nat /\ entry.from + 1 <= entry.to
      BY <1>1, <2>1
    <3> QED BY <1>1, <3>1, SliceIs DEF Body
  <2>5. PICK n \in Nat : n = entry.to - (entry.from + 1) /\ entry.to - entry.from = n + 1
    <3>1. entry.to - (entry.from + 1) \in Nat
          /\ entry.to - entry.from = (entry.to - (entry.from + 1)) + 1
      BY <1>1, <2>1
    <3> QED BY <3>1
  <2>6. /\ Tail(b) \in Seq(Byte) /\ Len(Tail(b)) = n
        /\ \A k \in 1..n : Tail(b)[k] = b[k + 1]
    BY <2>2, <2>5
  <2>7. /\ Body \in Seq(Byte) /\ Len(Body) = n
        /\ \A k \in 1..n : Body[k] = payload[(entry.from + 1) + k]
    BY <2>4, <2>5 DEF IsSlice
  <2>8. \A k \in 1..n : Tail(b)[k] = Body[k]
    <3> TAKE k \in 1..n
    <3>1. k + 1 \in 1..entry.to - entry.from /\ entry.from + (k + 1) = (entry.from + 1) + k
      <4>1. entry.from \in Int /\ k \in Int
        BY <1>1
      <4> QED BY <2>5, <4>1
    <3> QED BY <2>2, <2>6, <2>7, <3>1
  <2>9. Tail(b) = Body
    BY <2>6, <2>7, <2>8, SameBytes
  <2> QED BY <2>1, <2>3, <2>9
<1>6. Refused(payload, EntryNode) <=> ~(IsSigned \/ IsBatch \/ IsUnsigned)
  <2>1. Refused(payload, EntryNode) <=>
           \/ b = <<>>
           \/ /\ b # <<>>
              /\ \/ Head(b) \notin {0, 1, 3, 4}
                 \/ Head(b) = 4 /\ Tail(b) \notin SignedBodies
                 \/ Head(b) = 3 /\ Len(stack) >= MaxDepth
                 \/ Head(b) \in {0, 1} /\ ~UnsignedFits(Head(b), Tail(b))
    BY <1>2 DEF Refused, b
  <2>2. CASE Empty
    BY <1>4, <2>1, <2>2 DEF IsSigned, IsBatch, IsUnsigned
  <2>3. CASE ~Empty
    <3>1. b # <<>> /\ Head(b) = Kind /\ Tail(b) = Body
      BY <1>4, <1>5, <2>3
    <3>2. Len(stack) >= MaxDepth <=> ~(Len(stack) < MaxDepth)
      BY <1>1
    <3>3. Refused(payload, EntryNode) <=>
             \/ Kind \notin {0, 1, 3, 4}
             \/ Kind = 4 /\ Body \notin SignedBodies
             \/ Kind = 3 /\ ~(Len(stack) < MaxDepth)
             \/ Kind \in {0, 1} /\ ~UnsignedFits(Kind, Body)
      BY <2>1, <3>1, <3>2
    <3>4. IsSigned <=> Kind = 4 /\ Body \in SignedBodies
      BY <2>3 DEF IsSigned, L2_SIGNED_TX
    <3>5. IsBatch <=> Kind = 3 /\ Len(stack) < MaxDepth
      BY <2>3 DEF IsBatch, L2_BATCH
    <3>6. IsUnsigned <=> Kind \in {0, 1} /\ UnsignedFits(Kind, Body)
      BY <2>3 DEF IsUnsigned, L2_CONTRACT_TX, L2_UNSIGNED_USER_TX
    <3>7. CASE Kind = 4
      BY <3>3, <3>4, <3>5, <3>6, <3>7
    <3>8. CASE Kind = 3
      BY <3>3, <3>4, <3>5, <3>6, <3>8
    <3>9. CASE Kind \in {0, 1}
      BY <3>3, <3>4, <3>5, <3>6, <3>9
    <3>10. CASE Kind \notin {0, 1, 3, 4}
      BY <3>3, <3>4, <3>5, <3>6, <3>10
    <3> QED BY <3>7, <3>8, <3>9, <3>10
  <2> QED BY <2>2, <2>3
<1>7. ~Empty => Kind = payload[EntryNode.from + 1]
  BY <1>2 DEF Kind
<1>8. EntryNode.from < EntryNode.to <=> ~Empty
  BY <1>1, <1>2 DEF Empty
<1> QED BY <1>6, <1>7, <1>8 DEF IsBatchNode

\* An entry that is read is no longer to be read; what is in it still is.
LEMMA EntryRead ==
    ASSUME TypeOK, SlicesNest, TypeOK', SignedTx \/ Batch \/ UnsignedTx
    PROVE  Pending = {EntryNode} \cup Pending' /\ ~Refused(payload, EntryNode)
<1>1. ~Refused(payload, EntryNode)
  BY RefusedHere DEF SignedTx, Batch, UnsignedTx
<1>2. Pending = Tree(payload, EntryNode) \cup Rests(stack, payload)
  BY DEF Pending, SignedTx, Batch, UnsignedTx
<1>3. Pending' = Rests(stack', payload)
  <2>1. phase' # "parse" /\ payload' = payload
    BY DEF SignedTx, Batch, UnsignedTx
  <2> QED BY <2>1 DEF Pending
<1>4. CASE SignedTx \/ UnsignedTx
  <2>1. ~Empty /\ Kind # L2_BATCH /\ stack' = stack
    BY <1>4 DEF SignedTx, UnsignedTx, IsSigned, IsUnsigned, L2_BATCH, L2_SIGNED_TX,
                L2_UNSIGNED_USER_TX, L2_CONTRACT_TX
  <2>2. ~IsBatchNode(payload, EntryNode)
    BY <2>1, RefusedHere
  <2>3. Tree(payload, EntryNode) = {EntryNode}
    BY <2>2 DEF Tree
  <2> QED BY <1>1, <1>2, <1>3, <2>1, <2>3
<1>5. CASE Batch
  <2>1. /\ ~Empty /\ Kind = L2_BATCH
        /\ stack' = Append(stack, Interval(entry.from + 1, entry.to))
    BY <1>5 DEF Batch, IsBatch
  <2>2. IsBatchNode(payload, EntryNode)
    BY <2>1, RefusedHere
  <2>3. Tree(payload, EntryNode) = {EntryNode} \cup Contents(payload)[Inside(EntryNode)]
    BY <2>2 DEF Tree
  <2>4. /\ stack \in Seq(IntervalType) /\ stack' \in Seq(IntervalType)
        /\ Len(stack') = Len(stack) + 1
        /\ \A k \in 1..Len(stack) : stack'[k] = stack[k]
        /\ stack'[Len(stack')] = Interval(entry.from + 1, entry.to)
    BY <2>1 DEF TypeOK
  <2>5. Inside(EntryNode) = Node(entry.from + 1, entry.to, Len(stack'))
    BY <2>4 DEF Inside, EntryNode, Node
  <2>6. Rests(stack', payload) = Rests(stack, payload) \cup Contents(payload)[Inside(EntryNode)]
    <3>1. Interval(entry.from + 1, entry.to).from = entry.from + 1
          /\ Interval(entry.from + 1, entry.to).to = entry.to
      BY DEF Interval
    <3> QED BY <2>4, <2>5, <3>1, RestsGrow
  <2> QED BY <1>1, <1>2, <1>3, <2>3, <2>6
<1> QED BY <1>4, <1>5

\* To go on to the next entry of a batch, or to its end, leaves as much to be read.
LEMMA BatchMoved ==
    ASSUME TypeOK, SlicesNest, TypeOK', NextEntry \/ EndBatch
    PROVE  Pending' = Pending
<1> DEFINE n == Len(stack)
           rest == SubSeq(stack, 1, n - 1)
           top == Node(Top.from, Top.to, n)
           C == Contents(payload)
<1>1. stack # <<>> /\ phase = "split" /\ payload' = payload
  BY DEF NextEntry, EndBatch
<1>2. /\ stack \in Seq(IntervalType) /\ payload \in Seq(Byte) /\ n \in Nat \ {0}
      /\ Top \in IntervalType /\ Top.from \in Nat /\ Top.to \in Nat
      /\ EntryStart \in Nat /\ EntryEnd \in Nat
  BY <1>1, EntryShape DEF TypeOK, IntervalType
<1>3. rest \in Seq(IntervalType) /\ Len(rest) = n - 1 /\ \A k \in 1..n - 1 : rest[k] = stack[k]
  BY <1>1, <1>2, Popped
<1> HIDE DEF rest
<1>4. Pending = Rests(rest, payload) \cup C[top]
  <2>1. Len(stack) = Len(rest) + 1 /\ \A k \in 1..Len(rest) : stack[k] = rest[k]
    BY <1>2, <1>3
  <2>2. Rests(stack, payload) = Rests(rest, payload) \cup C[top]
    BY <1>2, <1>3, <2>1, RestsGrow DEF Top
  <2> QED BY <1>1, <2>2 DEF Pending
<1>5. top \in Nodes /\ top.from = Top.from /\ top.to = Top.to /\ top.depth = n
  BY <1>2 DEF Node, Nodes
<1>6. C[top] = Unfolded(payload, C, top)
  BY <1>2, <1>5, ContentsIs
<1>7. NextNode(payload, top) = Node(EntryStart, EntryEnd, n)
  BY <1>5 DEF NextNode, EntryStart, EntryEnd
<1>8. HasNode(payload, top) <=> HasEntry
  <2>1. NextNode(payload, top).to = EntryEnd
    BY <1>7 DEF Node
  <2> QED BY <1>5, <2>1 DEF HasNode, HasEntry, EntryStart
<1>9. CASE EndBatch
  <2>1. C[top] = {}
    BY <1>6, <1>8, <1>9 DEF EndBatch, Unfolded
  <2>2. stack' = rest /\ phase' # "parse"
    BY <1>1, <1>9 DEF EndBatch, rest
  <2> QED BY <1>1, <1>4, <2>1, <2>2 DEF Pending
<1>10. CASE NextEntry
  <2> DEFINE left == Interval(EntryEnd, Top.to)
             next == Node(EntryStart, EntryEnd, n)
  <2>1. left \in IntervalType /\ left.from = EntryEnd /\ left.to = Top.to
    BY <1>2 DEF Interval, IntervalType
  <2>2. /\ stack' = [stack EXCEPT ![n] = left] /\ phase' = "parse"
        /\ entry' = Interval(EntryStart, EntryEnd)
    BY <1>10 DEF NextEntry
  <2> HIDE DEF left
  <2>3. /\ stack' \in Seq(IntervalType) /\ Len(stack') = n
        /\ \A k \in 1..n : stack'[k] = IF k = n THEN left ELSE stack[k]
    BY <1>2, <2>1, <2>2, ExceptSeq
  <2>4. Behind(payload, top) = Node(left.from, left.to, n)
    <3>1. NextNode(payload, top).to = EntryEnd
      BY <1>7 DEF Node
    <3> QED BY <1>5, <2>1, <3>1 DEF Behind
  <2>5. Rests(stack', payload) = Rests(rest, payload) \cup C[Behind(payload, top)]
    <3> DEFINE s == stack'
    <3> HIDE DEF s
    <3>1. /\ s \in Seq(IntervalType) /\ Len(s) = n /\ n \in Nat \ {0}
          /\ \A k \in 1..n : s[k] = IF k = n THEN left ELSE stack[k]
      BY <1>2, <2>3 DEF s
    <3> HIDE DEF n, C
    <3>2. Len(s) = Len(rest) + 1 /\ \A k \in 1..Len(rest) : s[k] = rest[k]
      BY <1>3, <3>1
    <3>3. s[Len(s)] = left
      BY <3>1
    <3>4. Rests(s, payload) = Rests(rest, payload) \cup Contents(payload)[Node(left.from, left.to, n)]
      BY <1>3, <3>1, <3>2, <3>3, RestsGrow
    <3> QED BY <2>4, <3>4 DEF s, C
  <2>6. C[top] = Tree(payload, next) \cup C[Behind(payload, top)]
    <3>1. HasNode(payload, top)
      BY <1>8, <1>10 DEF NextEntry
    <3> QED BY <1>6, <1>7, <3>1 DEF Unfolded, Tree
  <2>7. EntryNode' = next
    BY <2>2, <2>3 DEF EntryNode, Interval, Node
  <2>8. Pending' = Tree(payload, next) \cup Rests(stack', payload)
    BY <1>1, <2>2, <2>7 DEF Pending
  <2> QED BY <1>4, <2>5, <2>6, <2>8
<1> QED BY <1>9, <1>10

-----------------------------------------------------------------------------
(* What is read is accounted for                                           *)

Found == {txs[k] : k \in DOMAIN txs}

\* Where the signed transactions among E are.
SignedIn(p, E) == {Interval(e.from + 1, e.to) : e \in {m \in E : p[m.from + 1] = L2_SIGNED_TX}}

\* What is still to be read is of the message, what has been was not refused, and its
\* signed transactions are those found.
SoFar ==
    LET read == Entries(payload) \ Pending
    IN  /\ payload # <<>> /\ Len(payload) <= MaxSize
        /\ Pending \subseteq Entries(payload)
        /\ \A e \in read : ~Refused(payload, e)
        /\ SignedIn(payload, read) \subseteq Found
        /\ Found \subseteq SignedIn(payload, Entries(payload))

Rising == \A j, k \in DOMAIN txs : j < k => txs[j].from < txs[k].from

\* What the walk has found, on its way and at its end.
Account ==
    /\ Rising
    /\ phase \in {"parse", "split"} => SoFar
    /\ phase \in {"done", "void"} => Found = Bodies(payload)

\* The transactions found go on rising.
LEMMA RisingPreserved ==
    ASSUME WalkInv, Rising, [Next]_vars
    PROVE  Rising'
<1>1. CASE SignedTx
  <2> DEFINE new == Interval(entry.from + 1, entry.to)
  <2>1. /\ txs \in Seq(IntervalType) /\ new \in IntervalType /\ new.from = entry.from + 1
        /\ entry.from \in Nat /\ txs' = Append(txs, new)
    BY <1>1 DEF SignedTx, WalkInv, TypeOK, Interval, IntervalType
  <2>2. \A k \in DOMAIN txs : txs[k].from < new.from
    <3> HIDE DEF new
    <3> SUFFICES ASSUME NEW k \in DOMAIN txs PROVE txs[k].from < new.from
      OBVIOUS
    <3>1. Frontier = entry.from
      BY <1>1, FrontierCases DEF SignedTx
    <3>2. txs[k].from <= txs[k].to /\ txs[k].to <= entry.from
      BY <3>1 DEF WalkInv, TxsInOrder
    <3>3. txs[k] \in IntervalType
      BY <2>1
    <3>4. txs[k].from \in Nat /\ txs[k].to \in Nat
      BY <3>3 DEF IntervalType
    <3> QED BY <2>1, <3>2, <3>4
  <2> HIDE DEF new
  <2>3. /\ DOMAIN txs = 1..Len(txs) /\ Len(txs) \in Nat /\ DOMAIN txs' = 1..Len(txs) + 1
        /\ \A k \in 1..Len(txs) : txs'[k] = txs[k]
        /\ txs'[Len(txs) + 1] = new
    BY <2>1
  <2>4. ASSUME NEW j \in DOMAIN txs', NEW k \in DOMAIN txs', j < k
        PROVE  txs'[j].from < txs'[k].from
    <3>1. j \in 1..Len(txs) /\ txs'[j] = txs[j]
      BY <2>3, <2>4
    <3>2. CASE k \in 1..Len(txs)
      BY <2>3, <2>4, <3>1, <3>2 DEF Rising
    <3>3. CASE k = Len(txs) + 1
      BY <2>2, <2>3, <3>1, <3>3
    <3> QED BY <2>3, <3>2, <3>3
  <2> QED BY <2>4 DEF Rising
<1>2. CASE txs' = txs \/ txs' = <<>>
  BY <1>2 DEF Rising
<1> QED BY <1>1, <1>2 DEF Next, vars, Ignore, Start, Batch, UnsignedTx, Reject, NextEntry,
                         EndBatch, Finish

\* What has been read is read, and what is found is in the message.
LEMMA SoFarPreserved ==
    ASSUME WalkInv, TypeOK', SoFar, SignedTx \/ Batch \/ UnsignedTx \/ NextEntry \/ EndBatch
    PROVE  SoFar'
<1> DEFINE E == Entries(payload)
           N == EntryNode
<1>1. TypeOK /\ SlicesNest /\ payload' = payload
  BY DEF WalkInv, SignedTx, Batch, UnsignedTx, NextEntry, EndBatch
<1>2. /\ payload # <<>> /\ Len(payload) <= MaxSize /\ Pending \subseteq E
      /\ \A e \in E \ Pending : ~Refused(payload, e)
      /\ SignedIn(payload, E \ Pending) \subseteq Found
      /\ Found \subseteq SignedIn(payload, E)
  BY DEF SoFar
<1>3. SUFFICES /\ Pending' \subseteq E
               /\ \A e \in E \ Pending' : ~Refused(payload, e)
               /\ SignedIn(payload, E \ Pending') \subseteq Found'
               /\ Found' \subseteq SignedIn(payload, E)
  <2>1. Entries(payload') = E
    BY <1>1
  <2> HIDE DEF E
  <2> QED BY <1>1, <1>2, <2>1 DEF SoFar
<1> HIDE DEF E, N
<1>4. CASE NextEntry \/ EndBatch
  <2>1. Pending' = Pending
    BY <1>1, <1>4, BatchMoved
  <2>2. Found' = Found
    BY <1>4 DEF NextEntry, EndBatch, Found
  <2> QED BY <1>2, <2>1, <2>2
<1>5. CASE SignedTx \/ Batch \/ UnsignedTx
  <2>1. Pending = {N} \cup Pending' /\ ~Refused(payload, N)
    BY <1>1, <1>5, EntryRead DEF N
  <2>2. Pending' \subseteq E /\ N \in E
    BY <1>2, <2>1
  <2>3. \A e \in E \ Pending' : ~Refused(payload, e)
    BY <1>2, <2>1
  <2>4. N.from = entry.from /\ N.to = entry.to /\ (~Empty => Kind = payload[N.from + 1])
    BY <1>1, RefusedHere DEF N, EntryNode, Node
  <2>5. ASSUME NEW S, SignedIn(payload, E \ Pending) \subseteq S,
               payload[N.from + 1] = L2_SIGNED_TX => Interval(N.from + 1, N.to) \in S
        PROVE  SignedIn(payload, E \ Pending') \subseteq S
    BY <2>1, <2>5 DEF SignedIn
  <2>6. CASE SignedTx
    <3>1. txs \in Seq(IntervalType) /\ txs' = Append(txs, Interval(N.from + 1, N.to))
      BY <1>1, <2>4, <2>6 DEF TypeOK, SignedTx
    <3>2. Found' = Found \cup {Interval(N.from + 1, N.to)}
      <4> DEFINE new == Interval(N.from + 1, N.to)
      <4> HIDE DEF new
      <4>1. txs \in Seq(IntervalType) /\ txs' = Append(txs, new)
        BY <3>1 DEF new
      <4>2. DOMAIN txs' = DOMAIN txs \cup {Len(txs) + 1} /\ txs'[Len(txs) + 1] = new
            /\ \A k \in DOMAIN txs : txs'[k] = txs[k]
        BY <4>1
      <4>3. \A x : x \in Found' <=> x \in Found \cup {new}
        BY <4>2 DEF Found
      <4> QED BY <4>3, Zenon DEF new
    <3>3. payload[N.from + 1] = L2_SIGNED_TX
      BY <2>4, <2>6 DEF SignedTx, IsSigned
    <3>4. Interval(N.from + 1, N.to) \in SignedIn(payload, E)
      BY <2>2, <3>3 DEF SignedIn
    <3> QED BY <1>2, <2>2, <2>3, <2>5, <3>2, <3>4
  <2>7. CASE Batch \/ UnsignedTx
    <3>1. Found' = Found
      BY <2>7 DEF Batch, UnsignedTx, Found
    <3>2. payload[N.from + 1] # L2_SIGNED_TX
      BY <2>4, <2>7 DEF Batch, UnsignedTx, IsBatch, IsUnsigned, L2_BATCH, L2_SIGNED_TX,
                        L2_UNSIGNED_USER_TX, L2_CONTRACT_TX
    <3> QED BY <1>2, <2>2, <2>3, <2>5, <3>1, <3>2
  <2> QED BY <1>5, <2>6, <2>7
<1> QED BY <1>4, <1>5

\* Every step of the walk accounts for what it reads.
LEMMA AccountPreserved ==
    ASSUME WalkInv, Account, [Next]_vars
    PROVE  Account'
<1>1. TypeOK /\ SlicesNest /\ TypeOK' /\ Rising'
  BY WalkPreserved, RisingPreserved DEF WalkInv, Account
<1>2. CASE Ignore
  <2>1. txs' = <<>> /\ payload' = payload /\ phase' = "done"
    BY <1>2 DEF Ignore, WalkInv
  <2>2. Found' = {} /\ Bodies(payload') = {}
    BY <1>2, <2>1 DEF Ignore, Found, Bodies
  <2> QED BY <1>1, <2>1, <2>2 DEF Account
<1>3. CASE Start
  <2> DEFINE N == Node(0, Len(payload), 0)
  <2>1. /\ txs' = <<>> /\ stack' = <<>> /\ payload' = payload /\ phase' = "parse"
        /\ entry' = Interval(0, Len(payload))
    BY <1>3 DEF Start, WalkInv
  <2>2. Found' = {}
    BY <2>1 DEF Found
  <2>3. EntryNode' = N
    BY <2>1 DEF EntryNode, Interval, Node
  <2>4. Rests(stack', payload) = {}
    BY <2>1 DEF Rests
  <2>5. Pending' = Entries(payload)
    BY <2>1, <2>3, <2>4 DEF Pending, Entries
  <2>6. SignedIn(payload, {}) = {}
    BY DEF SignedIn
  <2>7. SoFar'
    <3>1. Entries(payload') = Entries(payload)
      BY <2>1
    <3>2. Entries(payload') \ Pending' = {}
      BY <2>5, <3>1
    <3>3. payload' # <<>> /\ Len(payload') <= MaxSize
      BY <1>3 DEF Start
    <3> QED BY <2>1, <2>2, <2>5, <2>6, <3>1, <3>2, <3>3 DEF SoFar
  <2> QED BY <1>1, <2>1, <2>7 DEF Account
<1>4. CASE SignedTx \/ Batch \/ UnsignedTx \/ NextEntry \/ EndBatch
  <2>1. phase \in {"parse", "split"} /\ phase' \in {"parse", "split"}
    BY <1>4 DEF SignedTx, Batch, UnsignedTx, NextEntry, EndBatch
  <2>2. SoFar'
    BY <1>1, <1>4, <2>1, SoFarPreserved DEF Account
  <2> QED BY <1>1, <2>1, <2>2 DEF Account
<1>5. CASE Reject
  <2>1. txs' = <<>> /\ payload' = payload /\ phase = "parse" /\ phase' = "void"
    BY <1>5 DEF Reject
  <2>2. Refused(payload, EntryNode)
    BY <1>1, <1>5, RefusedHere DEF Reject
  <2>3. EntryNode \in Entries(payload)
    <3>1. EntryNode \in Pending
      BY <2>1 DEF Pending, Tree
    <3> QED BY <2>1, <3>1 DEF Account, SoFar
  <2>4. Found' = {} /\ Bodies(payload') = {}
    BY <2>1, <2>2, <2>3 DEF Found, Bodies
  <2> QED BY <1>1, <2>1, <2>4 DEF Account
<1>6. CASE Finish
  <2>1. /\ stack = <<>> /\ phase = "split" /\ phase' = "done" /\ payload' = payload
        /\ Found' = Found
    BY <1>6 DEF Finish, Found
  <2>2. Pending = {}
    BY <2>1 DEF Pending, Rests
  <2>3. /\ payload # <<>> /\ Len(payload) <= MaxSize
        /\ \A e \in Entries(payload) : ~Refused(payload, e)
        /\ Found = SignedIn(payload, Entries(payload))
    <3>1. Entries(payload) \ Pending = Entries(payload)
      BY <2>2
    <3> QED BY <2>1, <3>1 DEF Account, SoFar
  <2>4. Bodies(payload) = SignedIn(payload, Entries(payload))
    <3>1. ~(Len(payload) > MaxSize)
      BY <1>1, <2>3, SizesAssumption DEF TypeOK
    <3> QED BY <2>3, <3>1 DEF Bodies, SignedIn
  <2> QED BY <1>1, <2>1, <2>3, <2>4 DEF Account
<1>7. CASE UNCHANGED vars
  <2>1. /\ Found' = Found /\ phase' = phase /\ payload' = payload /\ stack' = stack
        /\ entry' = entry /\ txs' = txs
    BY <1>7 DEF vars, Found
  <2>2. Pending' = Pending
    BY <2>1 DEF Pending, EntryNode
  <2> QED BY <1>1, <2>1, <2>2 DEF Account, SoFar
<1> QED BY <1>2, <1>3, <1>4, <1>5, <1>6, <1>7 DEF Next

\* What is found, in its order, is put in its place.
LEMMA PlacesAre ==
    ASSUME TypeOK, Rising
    PROVE  /\ Len(txs) = Cardinality(Found)
           /\ \A k \in DOMAIN txs : Place(Found, txs[k]) = k
<1> DEFINE L == Len(txs)
           Upto(n) == {txs[k] : k \in 1..n}
<1>1. L \in Nat /\ DOMAIN txs = 1..L /\ \A k \in 1..L : txs[k].from \in Nat
  <2>1. txs \in Seq(IntervalType)
    BY DEF TypeOK
  <2>2. \A i \in IntervalType : i.from \in Nat
    BY DEF IntervalType
  <2> QED BY <2>1, <2>2
<1>2. \A j, k \in 1..L : j < k => txs[j].from < txs[k].from
  BY <1>1 DEF Rising
<1> HIDE DEF L
<1> DEFINE Counted(n) == IsFiniteSet(Upto(n)) /\ Cardinality(Upto(n)) = n
           T == {n \in 0..L : ~Counted(n)}
<1>3. ASSUME T # {} PROVE FALSE
  <2>1. T \subseteq Nat
    OBVIOUS
  <2>2. PICK n \in T : \A i \in T : n <= i
    <3> HIDE DEF T
    <3> QED BY <1>3, <2>1, LeastOf
  <2>3. n \in 0..L /\ ~Counted(n)
    OBVIOUS
  <2>4. n # 0
    <3>1. Upto(0) = {}
      OBVIOUS
    <3>2. Counted(0)
      BY <3>1, FS_EmptySet
    <3> QED BY <2>3, <3>2
  <2>5. PICK m \in Nat : n = m + 1 /\ m \in 0..L /\ m \notin T
    <3>1. n - 1 \in Nat /\ n = (n - 1) + 1 /\ n - 1 \in 0..L /\ ~(n <= n - 1)
      BY <1>1, <2>3, <2>4
    <3> QED BY <2>2, <3>1
  <2>6. Counted(m)
    BY <2>5
  <2>7. txs[n] \notin Upto(m)
    <3> SUFFICES ASSUME NEW k \in 1..m, txs[n] = txs[k] PROVE FALSE
      OBVIOUS
    <3>1. k \in 1..L /\ n \in 1..L /\ k < n
      BY <1>1, <2>3, <2>5
    <3> QED BY <1>1, <1>2, <3>1
  <2>8. Upto(n) = Upto(m) \cup {txs[n]}
    <3>1. 1..n = 1..m \cup {n}
      BY <2>5
    <3>2. \A x : x \in Upto(n) <=> x \in Upto(m) \cup {txs[n]}
      BY <3>1
    <3> HIDE DEF Upto
    <3> QED BY <3>2, Zenon
  <2>9. Counted(n)
    <3> HIDE DEF Upto
    <3>1. IsFiniteSet(Upto(m)) /\ Cardinality(Upto(m)) = m
      BY <2>6
    <3>2. IsFiniteSet(Upto(m) \cup {txs[n]}) /\ Cardinality(Upto(m) \cup {txs[n]}) = m + 1
      BY <2>7, <3>1, FS_AddElement
    <3> QED BY <2>5, <2>8, <3>2
  <2> QED BY <2>3, <2>9
<1> HIDE DEF T
<1>4. ASSUME NEW n \in 0..L PROVE Cardinality(Upto(n)) = n
  <2>1. Counted(n)
    BY <1>3 DEF T
  <2> QED BY <2>1
<1>5. Found = Upto(L)
  BY <1>1 DEF Found
<1>6. ASSUME NEW k \in 1..L PROVE Place(Found, txs[k]) = k
  <2>1. k - 1 \in 0..L /\ k \in Nat
    BY <1>1
  <2>2. {c \in Found : c.from < txs[k].from} = Upto(k - 1)
    <3>1. ASSUME NEW j \in 1..L
          PROVE  txs[j].from < txs[k].from <=> j \in 1..k - 1
      <4>1. CASE j < k
        BY <1>1, <1>2, <4>1
      <4>2. CASE j = k
        BY <1>1, <4>2
      <4>3. CASE k < j
        BY <1>1, <1>2, <4>3
      <4> QED BY <1>1, <4>1, <4>2, <4>3
    <3>2. 1..k - 1 \subseteq 1..L
      BY <1>1
    <3>3. \A x : x \in {c \in Found : c.from < txs[k].from} <=> x \in Upto(k - 1)
      BY <1>5, <3>1, <3>2
    <3> HIDE DEF Upto
    <3> QED BY <3>3, Zenon
  <2>3. Cardinality(Upto(k - 1)) = k - 1
    BY <1>4, <2>1
  <2> HIDE DEF Upto
  <2>4. Place(Found, txs[k]) = 1 + Cardinality({c \in Found : c.from < txs[k].from})
    BY DEF Place
  <2>5. Place(Found, txs[k]) = 1 + (k - 1)
    BY <2>2, <2>3, <2>4
  <2> QED BY <2>1, <2>5
<1>7. Cardinality(Found) = L
  <2>1. L \in 0..L
    BY <1>1
  <2> QED BY <1>4, <1>5, <2>1
<1> QED BY <1>1, <1>6, <1>7 DEF L

LEMMA AccountIsSound ==
    ASSUME TypeOK, Account
    PROVE  Sound
<1> SUFFICES ASSUME phase \in {"done", "void"}
             PROVE  /\ Len(txs) = Cardinality(Bodies(payload))
                    /\ \A b \in Bodies(payload) : txs[Place(Bodies(payload), b)] = b
  BY DEF Sound
<1>1. Bodies(payload) = Found /\ Rising
  BY DEF Account
<1>2. /\ Len(txs) = Cardinality(Found)
      /\ \A k \in DOMAIN txs : Place(Found, txs[k]) = k
  BY <1>1, PlacesAre
<1>3. \A b \in Found : txs[Place(Found, b)] = b
  BY <1>2 DEF Found
<1> QED BY <1>1, <1>2, <1>3

\* Every message, of whatever length, however deep its batches and whatever is in them,
\* is worth its signed transactions in order, or nothing at all.
THEOREM SoundCorrect == Spec => []Sound
<1>1. Init => Account
  <2> SUFFICES ASSUME Init PROVE Account
    OBVIOUS
  <2> QED BY DEF Init, Account, Rising
<1>2. Account /\ WalkInv /\ [Next]_vars => Account'
  BY AccountPreserved
<1>3. WalkInv /\ Account => Sound
  BY AccountIsSound DEF WalkInv
<1> QED BY <1>1, <1>2, <1>3, WalkCorrect, PTL DEF Spec

-----------------------------------------------------------------------------
(* What is built from a message of the parent chain                        *)

IsWord(w) == w \in Seq(Byte) /\ Len(w) = Word

\* The sizes, once and for all.
LEMMA Sizes ==
    /\ Word \in Nat \ {0} /\ Address \in Nat \ {0} /\ Address <= Word
    /\ Word - Address \in Nat
BY AddressAssumption

LEMMA ZeroBytesIs ==
    ASSUME NEW n \in Nat
    PROVE  /\ ZeroBytes(n) \in Seq(Byte) /\ Len(ZeroBytes(n)) = n
           /\ \A k \in 1..n : ZeroBytes(n)[k] = 0
BY DEF ZeroBytes, Byte

\* A number that fits a word, written and read.
LEMMA WordOfIs ==
    ASSUME NEW n \in 0..Power[Word] - 1
    PROVE  IsWord(WordOf(n)) /\ BigEndian(WordOf(n)) = n
<1> DEFINE w == WordOf(n)
<1>0. Word \in Nat /\ n \in Nat
  BY Sizes, PowerIs
<1>1. \A k \in 1..Word : (n \div Power[Word - k]) % 256 \in Byte
  <2> TAKE k \in 1..Word
  <2>1. Word - k \in Nat
    BY <1>0
  <2>2. PICK q \in Nat : q = n \div Power[Word - k]
    BY <1>0, <2>1, ShiftShift
  <2>3. q % 256 \in Byte
    BY DEF Byte
  <2> QED BY <2>2, <2>3
<1>2. w \in [1..Word -> Byte] /\ \A k \in 1..Word : w[k] = (n \div Power[Word - k]) % 256
  BY <1>1 DEF WordOf
<1> HIDE DEF w
<1>3. w \in Seq(Byte) /\ Len(w) = Word
  BY <1>0, <1>2
<1>4. BigEndian(w) = n
  BY <1>2, <1>3, ReadAsWritten
<1> QED BY <1>3, <1>4 DEF w, IsWord

\* A word, read and written.
LEMMA WordOfRead ==
    ASSUME NEW w, IsWord(w)
    PROVE  WordOf(BigEndian(w)) = w
<1>1. w \in Seq(Byte) /\ Len(w) = Word /\ Word \in Nat
  BY Sizes DEF IsWord
<1>2. \A k \in 1..Word : (BigEndian(w) \div Power[Word - k]) % 256 = w[k]
  BY <1>1, WrittenAsRead
<1>3. WordOf(BigEndian(w)) = [k \in 1..Word |-> w[k]]
  BY <1>2 DEF WordOf
<1> QED BY <1>1, <1>3

\* The offset that a ticket's calldata holds fits its word.
LEMMA OffsetFits ==
    11 * Word \in 0..Power[Word] - 1
<1> DEFINE T == {n \in Nat : n > 0 /\ ~(11 * n < Power[n])}
<1>1. ASSUME T # {} PROVE FALSE
  <2>1. T \subseteq Nat
    OBVIOUS
  <2>2. PICK n \in T : \A m \in T : n <= m
    <3> HIDE DEF T
    <3> QED BY <1>1, <2>1, LeastOf
  <2>3. PICK m \in Nat : n = m + 1
    BY <2>2
  <2>4. Power[m] \in Nat \ {0} /\ Power[m + 1] = 256 * Power[m]
    BY PowerIs
  <2>5. CASE m = 0
    BY <2>2, <2>3, <2>4, <2>5, PowerIs
  <2>6. CASE m # 0
    <3>1. m \notin T
      BY <2>2, <2>3
    <3>2. 11 * m < Power[m]
      BY <2>6, <3>1
    <3> QED BY <2>2, <2>3, <2>4, <2>6, <3>2
  <2> QED BY <2>5, <2>6
<1>2. Word \notin T
  BY <1>1
<1>3. Power[Word] \in Nat /\ Word \in Nat \ {0}
  BY Sizes, PowerIs
<1> QED BY <1>2, <1>3

\* A message's words are there.
LEMMA WordsThere ==
    ASSUME NEW p \in Seq(Byte), Len(p) >= 9 * Word, NEW k \in 0..8
    PROVE  IsWord(W(p, k))
<1>1. Word \in Nat
  BY Sizes
<1>2. PICK f \in Nat : f = k * Word
  BY <1>1
<1>3. PICK t \in Nat : t = (k + 1) * Word
  BY <1>1
<1>4. t = f + Word /\ t <= 9 * Word
  BY <1>1, <1>2, <1>3
<1>5. f <= t /\ t <= Len(p)
  BY <1>1, <1>4
<1>6. IsSlice(Slice(p, f, t), p, f, t)
  BY <1>5, SliceIs
<1> QED BY <1>1, <1>2, <1>3, <1>4, <1>6 DEF W, IsWord, IsSlice

LEMMA LowBytesIs ==
    ASSUME NEW w, IsWord(w)
    PROVE  LowBytes(w) \in Seq(Byte) /\ Len(LowBytes(w)) = Address
<1>1. /\ w \in Seq(Byte) /\ Len(w) = Word /\ Word \in Nat /\ Word - Address \in Nat
      /\ Word - Address <= Word /\ Word - (Word - Address) = Address
  BY Sizes DEF IsWord
<1>2. PICK f \in Nat : f = Word - Address
  BY <1>1
<1>3. IsSlice(Slice(w, f, Word), w, f, Word)
  BY <1>1, <1>2, SliceIs
<1> QED BY <1>1, <1>2, <1>3 DEF LowBytes, IsSlice

\* A padded address is a word that reads as the address.
LEMMA PaddedIs ==
    ASSUME NEW w, IsWord(w)
    PROVE  /\ IsWord(Padded(w))
           /\ Zeros(Padded(w), 0, Word - Address)
           /\ LowBytes(Padded(w)) = LowBytes(w)
<1> DEFINE z == ZeroBytes(Word - Address)
           a == LowBytes(w)
<1>1. /\ z \in Seq(Byte) /\ Len(z) = Word - Address
      /\ \A k \in 1..Word - Address : z[k] = 0
  BY Sizes, ZeroBytesIs
<1>2. a \in Seq(Byte) /\ Len(a) = Address
  BY LowBytesIs
<1>3. Padded(w) = z \o a
  BY DEF Padded
<1> HIDE DEF z, a
<1>4. z \o a \in Seq(Byte) /\ Len(z \o a) = Len(z) + Len(a)
  BY <1>1, <1>2, Joined
<1>5. Len(z \o a) = Word /\ Len(z) + Len(a) = Word
  BY <1>1, <1>2, <1>4, Sizes
<1>6. Begins(z \o a, z \o a)
  BY <1>4 DEF Begins
<1>7. Begins(z \o a, z) /\ Slice(z \o a, Len(z), Len(z) + Len(a)) = a
  BY <1>1, <1>2, <1>4, <1>6, Placed
<1>8. LowBytes(Padded(w)) = a
  BY <1>1, <1>3, <1>5, <1>7 DEF LowBytes
<1>9. Zeros(Padded(w), 0, Word - Address)
  <2>1. PICK m \in Nat : m = Word - Address /\ m <= Len(z \o a) /\ 0 <= m /\ 0 \in Nat /\ m - 0 = m
    BY <1>5, Sizes
  <2>2. IsSlice(Slice(z \o a, 0, m), z \o a, 0, m)
    BY <1>4, <2>1, SliceIs
  <2>3. \A k \in 1..m : (z \o a)[k] = 0
    BY <1>1, <1>7, <2>1 DEF Begins
  <2>4. PICK x \in Seq(Byte) : x = Slice(z \o a, 0, m)
    BY <2>2 DEF IsSlice
  <2>5. Len(x) = m /\ \A k \in 1..m : x[k] = (z \o a)[0 + k]
    BY <2>1, <2>2, <2>4 DEF IsSlice
  <2>6. \A k \in DOMAIN x : x[k] = 0
    <3> TAKE k \in DOMAIN x
    <3>1. k \in 1..m /\ 0 + k = k
      BY <2>4, <2>5
    <3> QED BY <2>3, <2>5, <3>1
  <2> QED BY <1>3, <2>1, <2>4, <2>6 DEF Zeros
<1> QED BY <1>3, <1>4, <1>5, <1>8, <1>9 DEF IsWord, a

\* The data of a ticket: as long as it says, zeros where the message is short.
LEMMA RetryDataIs ==
    ASSUME NEW p \in Seq(Byte), Len(p) >= 9 * Word
    PROVE  /\ RetryData(p) \in Seq(Byte) /\ DataLength(p) \in Nat
           /\ Len(RetryData(p)) = DataLength(p)
           /\ \A b \in 1..DataLength(p) :
                RetryData(p)[b] = IF 9 * Word + b <= Len(p) THEN p[9 * Word + b] ELSE 0
<1> DEFINE n == DataLength(p)
           from == 9 * Word
           to == IF from + n < Len(p) THEN from + n ELSE Len(p)
           tail == Slice(p, from, from + n)
<1>1. n \in Nat
  <2>1. IsWord(W(p, 8))
    BY WordsThere
  <2> QED BY <2>1, BigEndianNat DEF DataLength, IsWord
<1>2. from \in Nat /\ to \in Nat /\ from <= to /\ to <= Len(p) /\ to - from <= n /\ to - from \in Nat
  <2>1. Word \in Nat /\ Len(p) \in Nat
    BY Sizes
  <2> HIDE DEF n
  <2> QED BY <1>1, <2>1
<1>3. tail = Slice(p, from, to)
  BY <1>1, <1>2 DEF Slice
<1>4. IsSlice(tail, p, from, to)
  <2> HIDE DEF from, to, tail
  <2> QED BY <1>2, <1>3, SliceIs
<1> DEFINE m == to - from
           z == ZeroBytes(n - m)
<1>5. tail \in Seq(Byte) /\ Len(tail) = m /\ \A k \in 1..m : tail[k] = p[from + k]
  <2> HIDE DEF from, to, tail
  <2> QED BY <1>4 DEF IsSlice
<1>6. n - m \in Nat
  <2> HIDE DEF from, to, n
  <2> QED BY <1>1, <1>2
<1>7. z \in Seq(Byte) /\ Len(z) = n - m /\ \A k \in 1..n - m : z[k] = 0
  <2> HIDE DEF n, m
  <2> QED BY <1>6, ZeroBytesIs
<1>8. RetryData(p) = tail \o z
  <2>1. RetryData(p) = tail \o ZeroBytes(n - Len(tail))
    BY DEF RetryData
  <2> HIDE DEF n, tail, m
  <2> QED BY <1>5, <2>1
<1>9. from + m = to
  <2> HIDE DEF from, to
  <2> QED BY <1>2
<1>10. m \in Nat
  BY <1>2
<1>11. m # n => to = Len(p)
  BY <1>1, <1>2
<1> HIDE DEF n, from, to, tail, z, m
<1>12. /\ tail \o z \in Seq(Byte) /\ Len(tail \o z) = n
       /\ \A k \in 1..n : (tail \o z)[k] = IF k <= m THEN tail[k] ELSE z[k - m]
  <2>1. /\ tail \o z \in Seq(Byte) /\ Len(tail \o z) = Len(tail) + Len(z)
        /\ \A k \in 1..Len(tail) + Len(z) :
             (tail \o z)[k] = IF k <= Len(tail) THEN tail[k] ELSE z[k - Len(tail)]
    <3>1. tail \in Seq(Byte) /\ z \in Seq(Byte)
      BY <1>5, <1>7
    <3> QED BY ONLY <3>1, Joined
  <2>2. Len(tail) = m /\ Len(tail) + Len(z) = n
    BY <1>1, <1>5, <1>7, <1>10
  <2> QED BY <2>1, <2>2
<1>13. ASSUME NEW b \in 1..n
       PROVE  (tail \o z)[b] = IF from + b <= Len(p) THEN p[from + b] ELSE 0
  <2>1. CASE b <= m
    <3>1. b \in 1..m /\ from + b <= Len(p)
      BY <1>2, <1>9, <1>10, <2>1
    <3> QED BY <1>5, <1>12, <2>1, <3>1
  <2>2. CASE ~(b <= m)
    <3>1. b - m \in 1..n - m /\ m # n
      BY <1>1, <1>10, <2>2
    <3>2. ~(from + b <= Len(p))
      BY <1>2, <1>9, <1>10, <1>11, <2>2, <3>1
    <3> QED BY <1>7, <1>12, <2>2, <3>1, <3>2
  <2> QED BY <2>1, <2>2
<1> QED BY <1>1, <1>8, <1>12, <1>13 DEF n, from

\* How the words of a ticket's calldata are put one behind the other.
LEMMA WordBehind ==
    ASSUME NEW a \in Seq(Byte), NEW j \in Nat, Len(a) = 4 + j * Word, NEW w, IsWord(w)
    PROVE  a \o w \in Seq(Byte) /\ Len(a \o w) = 4 + (j + 1) * Word
<1>1. w \in Seq(Byte) /\ Len(w) = Word /\ Word \in Nat
  BY Sizes DEF IsWord
<1>2. a \o w \in Seq(Byte) /\ Len(a \o w) = Len(a) + Len(w)
  BY <1>1, Joined
<1>3. (4 + j * Word) + Word = 4 + (j + 1) * Word
  BY <1>1
<1> QED BY <1>1, <1>2, <1>3

\* Word j of the calldata, without its selector.
WordAt(data, j) == Slice(data, 4 + j * Word, 4 + (j + 1) * Word)

LEMMA WordPlaced ==
    ASSUME NEW data \in Seq(Byte), NEW a \in Seq(Byte), NEW j \in Nat, Len(a) = 4 + j * Word,
           NEW w, IsWord(w), Begins(data, a \o w)
    PROVE  Begins(data, a) /\ WordAt(data, j) = w
<1>1. w \in Seq(Byte) /\ Len(w) = Word /\ Word \in Nat
  BY Sizes DEF IsWord
<1>2. Begins(data, a) /\ Slice(data, Len(a), Len(a) + Len(w)) = w
  BY <1>1, Placed
<1>3. (4 + j * Word) + Word = 4 + (j + 1) * Word
  BY <1>1
<1> QED BY <1>1, <1>2, <1>3 DEF WordAt

\* The bytes that make the data whole words.
LEMMA PaddingIs ==
    ASSUME NEW n \in Nat
    PROVE  LET m == (Word - (n % Word)) % Word
           IN  m \in 0..Word - 1 /\ (12 * Word + n + m) % Word = 0
<1>1. PICK w \in Nat \ {0} : w = Word
  BY Sizes
<1>2. PICK q \in Nat, r \in 0..w - 1 : q = n \div w /\ r = n % w /\ n = w * q + r
  OBVIOUS
<1> DEFINE m == (w - r) % w
<1>3. ASSUME NEW k \in Nat PROVE (w * k) % w = 0
  <2>1. w * k = w * k + 0 /\ 0 \in 0..w - 1
    OBVIOUS
  <2> QED BY <2>1
<1>4. CASE r = 0
  <2>1. m = 0
    <3>1. (w * 1) % w = 0 /\ w * 1 = w
      BY <1>3
    <3> QED BY <1>4, <3>1
  <2>2. 12 * w + n + 0 = w * (12 + q)
    BY <1>2, <1>4
  <2>3. (w * (12 + q)) % w = 0
    BY <1>3
  <2> QED BY <1>1, <1>2, <2>1, <2>2, <2>3
<1>5. CASE r # 0
  <2>1. m = w - r
    BY <1>5
  <2>2. 12 * w + n + (w - r) = w * (13 + q)
    BY <1>2
  <2>3. (w * (13 + q)) % w = 0
    BY <1>3
  <2> QED BY <1>1, <1>2, <1>5, <2>1, <2>2, <2>3
<1> QED BY <1>4, <1>5

\* Where everything is in a ticket's calldata.
LEMMA TicketLaidOut ==
    ASSUME NEW p \in Seq(Byte), NEW h, IsWord(h.requestId), Len(p) >= 9 * Word,
           BaseFee(h) \in 0..Power[Word] - 1
    PROVE  LET data == TicketData(h, p)
               n == DataLength(p)
               m == (Word - (n % Word)) % Word
           IN  /\ data \in Seq(Byte) /\ Len(data) = 4 + 12 * Word + n + m
               /\ WordAt(data, 0) = h.requestId
               /\ WordAt(data, 1) = WordOf(BaseFee(h))
               /\ WordAt(data, 2) = W(p, 2)
               /\ WordAt(data, 3) = W(p, 1)
               /\ WordAt(data, 4) = W(p, 7)
               /\ WordAt(data, 5) = W(p, 6)
               /\ WordAt(data, 6) = W(p, 3)
               /\ WordAt(data, 7) = Padded(W(p, 4))
               /\ WordAt(data, 8) = Padded(W(p, 5))
               /\ WordAt(data, 9) = Padded(W(p, 0))
               /\ WordAt(data, 10) = WordOf(11 * Word)
               /\ WordAt(data, 11) = W(p, 8)
               /\ Slice(data, 4 + 12 * Word, 4 + 12 * Word + n) = RetryData(p)
<1> DEFINE n == DataLength(p)
           m == (Word - (n % Word)) % Word
           w0 == h.requestId
           w1 == WordOf(BaseFee(h))
           w2 == W(p, 2)
           w3 == W(p, 1)
           w4 == W(p, 7)
           w5 == W(p, 6)
           w6 == W(p, 3)
           w7 == Padded(W(p, 4))
           w8 == Padded(W(p, 5))
           w9 == Padded(W(p, 0))
           w10 == WordOf(11 * Word)
           w11 == W(p, 8)
           q0 == SUBMIT_RETRYABLE_SELECTOR
           q1 == q0 \o w0
           q2 == q1 \o w1
           q3 == q2 \o w2
           q4 == q3 \o w3
           q5 == q4 \o w4
           q6 == q5 \o w5
           q7 == q6 \o w6
           q8 == q7 \o w7
           q9 == q8 \o w8
           q10 == q9 \o w9
           q11 == q10 \o w10
           q12 == q11 \o w11
           q13 == q12 \o RetryData(p)
           pad == ZeroBytes(m)
           data == q13 \o pad
<1>1. TicketData(h, p) = data
  BY DEF TicketData
<1>2. /\ IsWord(w0) /\ IsWord(w1) /\ IsWord(w2) /\ IsWord(w3) /\ IsWord(w4) /\ IsWord(w5)
      /\ IsWord(w6) /\ IsWord(w7) /\ IsWord(w8) /\ IsWord(w9) /\ IsWord(w10) /\ IsWord(w11)
  <2>1. \A k \in 0..8 : IsWord(W(p, k))
    BY WordsThere
  <2>2. IsWord(w1) /\ IsWord(w10)
    BY WordOfIs, OffsetFits
  <2>3. IsWord(w7) /\ IsWord(w8) /\ IsWord(w9)
    BY <2>1, PaddedIs
  <2> QED BY <2>1, <2>2, <2>3
<1>3. RetryData(p) \in Seq(Byte) /\ Len(RetryData(p)) = n /\ n \in Nat
  BY RetryDataIs
<1>4. pad \in Seq(Byte) /\ Len(pad) = m /\ m \in Nat
  <2>1. m \in 0..Word - 1 /\ Word \in Nat
    BY <1>3, PaddingIs, Sizes
  <2>2. m \in Nat
    <3> HIDE DEF m
    <3> QED BY <2>1
  <2> HIDE DEF m
  <2>3. ZeroBytes(m) \in Seq(Byte) /\ Len(ZeroBytes(m)) = m
    BY <2>2, ZeroBytesIs
  <2> QED BY <2>2, <2>3
<1>5. q0 \in Seq(Byte) /\ Len(q0) = 4 + 0 * Word
  <2>1. Word \in Nat
    BY Sizes
  <2> QED BY <2>1 DEF SUBMIT_RETRYABLE_SELECTOR, Byte
<1> HIDE DEF n, m, pad, w0, w1, w2, w3, w4, w5, w6, w7, w8, w9, w10, w11, q0
<1>6. q1 \in Seq(Byte) /\ Len(q1) = 4 + 1 * Word
  <2>1. q0 \o w0 \in Seq(Byte) /\ Len(q0 \o w0) = 4 + (0 + 1) * Word
    <3> QED BY <1>2, <1>5, WordBehind
  <2> QED BY <2>1
<1>7. q2 \in Seq(Byte) /\ Len(q2) = 4 + 2 * Word
  <2>1. q1 \o w1 \in Seq(Byte) /\ Len(q1 \o w1) = 4 + (1 + 1) * Word
    <3> HIDE DEF q1
    <3> QED BY <1>2, <1>6, WordBehind
  <2> QED BY <2>1
<1>8. q3 \in Seq(Byte) /\ Len(q3) = 4 + 3 * Word
  <2>1. q2 \o w2 \in Seq(Byte) /\ Len(q2 \o w2) = 4 + (2 + 1) * Word
    <3> HIDE DEF q2
    <3> QED BY <1>2, <1>7, WordBehind
  <2> QED BY <2>1
<1>9. q4 \in Seq(Byte) /\ Len(q4) = 4 + 4 * Word
  <2>1. q3 \o w3 \in Seq(Byte) /\ Len(q3 \o w3) = 4 + (3 + 1) * Word
    <3> HIDE DEF q3
    <3> QED BY <1>2, <1>8, WordBehind
  <2> QED BY <2>1
<1>10. q5 \in Seq(Byte) /\ Len(q5) = 4 + 5 * Word
  <2>1. q4 \o w4 \in Seq(Byte) /\ Len(q4 \o w4) = 4 + (4 + 1) * Word
    <3> HIDE DEF q4
    <3> QED BY <1>2, <1>9, WordBehind
  <2> QED BY <2>1
<1>11. q6 \in Seq(Byte) /\ Len(q6) = 4 + 6 * Word
  <2>1. q5 \o w5 \in Seq(Byte) /\ Len(q5 \o w5) = 4 + (5 + 1) * Word
    <3> HIDE DEF q5
    <3> QED BY <1>2, <1>10, WordBehind
  <2> QED BY <2>1
<1>12. q7 \in Seq(Byte) /\ Len(q7) = 4 + 7 * Word
  <2>1. q6 \o w6 \in Seq(Byte) /\ Len(q6 \o w6) = 4 + (6 + 1) * Word
    <3> HIDE DEF q6
    <3> QED BY <1>2, <1>11, WordBehind
  <2> QED BY <2>1
<1>13. q8 \in Seq(Byte) /\ Len(q8) = 4 + 8 * Word
  <2>1. q7 \o w7 \in Seq(Byte) /\ Len(q7 \o w7) = 4 + (7 + 1) * Word
    <3> HIDE DEF q7
    <3> QED BY <1>2, <1>12, WordBehind
  <2> QED BY <2>1
<1>14. q9 \in Seq(Byte) /\ Len(q9) = 4 + 9 * Word
  <2>1. q8 \o w8 \in Seq(Byte) /\ Len(q8 \o w8) = 4 + (8 + 1) * Word
    <3> HIDE DEF q8
    <3> QED BY <1>2, <1>13, WordBehind
  <2> QED BY <2>1
<1>15. q10 \in Seq(Byte) /\ Len(q10) = 4 + 10 * Word
  <2>1. q9 \o w9 \in Seq(Byte) /\ Len(q9 \o w9) = 4 + (9 + 1) * Word
    <3> HIDE DEF q9
    <3> QED BY <1>2, <1>14, WordBehind
  <2> QED BY <2>1
<1>16. q11 \in Seq(Byte) /\ Len(q11) = 4 + 11 * Word
  <2>1. q10 \o w10 \in Seq(Byte) /\ Len(q10 \o w10) = 4 + (10 + 1) * Word
    <3> HIDE DEF q10
    <3> QED BY <1>2, <1>15, WordBehind
  <2> QED BY <2>1
<1>17. q12 \in Seq(Byte) /\ Len(q12) = 4 + 12 * Word
  <2>1. q11 \o w11 \in Seq(Byte) /\ Len(q11 \o w11) = 4 + (11 + 1) * Word
    <3> HIDE DEF q11
    <3> QED BY <1>2, <1>16, WordBehind
  <2> QED BY <2>1
<1> HIDE DEF q1, q2, q3, q4, q5, q6, q7, q8, q9, q10, q11, q12
<1>18. q13 \in Seq(Byte) /\ Len(q13) = 4 + 12 * Word + n
  BY <1>17, <1>3, Joined
<1> HIDE DEF q13
<1>19. data \in Seq(Byte) /\ Len(data) = 4 + 12 * Word + n + m
  <2>1. Len(data) = Len(q13) + Len(pad) /\ data \in Seq(Byte)
    BY <1>4, <1>18, Joined
  <2> HIDE DEF data
  <2> QED BY <1>4, <1>18, <2>1
<1>20. Begins(data, q13)
  <2>1. Begins(data, data)
    <3> HIDE DEF data
    <3> QED BY <1>19 DEF Begins
  <2> QED BY <1>4, <1>18, <1>19, <2>1, Placed
<1> HIDE DEF data
<1>21. Begins(data, q12) /\ Slice(data, 4 + 12 * Word, 4 + 12 * Word + n) = RetryData(p)
  <2>1. Begins(data, q12 \o RetryData(p))
    BY <1>20 DEF q13
  <2>2. /\ Begins(data, q12)
        /\ Slice(data, Len(q12), Len(q12) + Len(RetryData(p))) = RetryData(p)
    BY <1>17, <1>3, <1>19, <2>1, Placed
  <2> QED BY <1>17, <1>3, <2>2
<1>22. Begins(data, q11) /\ WordAt(data, 11) = w11
  <2>1. Begins(data, q11 \o w11)
    BY <1>21 DEF q12
  <2> QED BY <1>2, <1>16, <1>19, <2>1, WordPlaced
<1>23. Begins(data, q10) /\ WordAt(data, 10) = w10
  <2>1. Begins(data, q10 \o w10)
    BY <1>22 DEF q11
  <2> QED BY <1>2, <1>15, <1>19, <2>1, WordPlaced
<1>24. Begins(data, q9) /\ WordAt(data, 9) = w9
  <2>1. Begins(data, q9 \o w9)
    BY <1>23 DEF q10
  <2> QED BY <1>2, <1>14, <1>19, <2>1, WordPlaced
<1>25. Begins(data, q8) /\ WordAt(data, 8) = w8
  <2>1. Begins(data, q8 \o w8)
    BY <1>24 DEF q9
  <2> QED BY <1>2, <1>13, <1>19, <2>1, WordPlaced
<1>26. Begins(data, q7) /\ WordAt(data, 7) = w7
  <2>1. Begins(data, q7 \o w7)
    BY <1>25 DEF q8
  <2> QED BY <1>2, <1>12, <1>19, <2>1, WordPlaced
<1>27. Begins(data, q6) /\ WordAt(data, 6) = w6
  <2>1. Begins(data, q6 \o w6)
    BY <1>26 DEF q7
  <2> QED BY <1>2, <1>11, <1>19, <2>1, WordPlaced
<1>28. Begins(data, q5) /\ WordAt(data, 5) = w5
  <2>1. Begins(data, q5 \o w5)
    BY <1>27 DEF q6
  <2> QED BY <1>2, <1>10, <1>19, <2>1, WordPlaced
<1>29. Begins(data, q4) /\ WordAt(data, 4) = w4
  <2>1. Begins(data, q4 \o w4)
    BY <1>28 DEF q5
  <2> QED BY <1>2, <1>9, <1>19, <2>1, WordPlaced
<1>30. Begins(data, q3) /\ WordAt(data, 3) = w3
  <2>1. Begins(data, q3 \o w3)
    BY <1>29 DEF q4
  <2> QED BY <1>2, <1>8, <1>19, <2>1, WordPlaced
<1>31. Begins(data, q2) /\ WordAt(data, 2) = w2
  <2>1. Begins(data, q2 \o w2)
    BY <1>30 DEF q3
  <2> QED BY <1>2, <1>7, <1>19, <2>1, WordPlaced
<1>32. Begins(data, q1) /\ WordAt(data, 1) = w1
  <2>1. Begins(data, q1 \o w1)
    BY <1>31 DEF q2
  <2> QED BY <1>2, <1>6, <1>19, <2>1, WordPlaced
<1>33. Begins(data, q0) /\ WordAt(data, 0) = w0
  <2>1. Begins(data, q0 \o w0)
    BY <1>32 DEF q1
  <2> QED BY <1>2, <1>5, <1>19, <2>1, WordPlaced
<1> QED BY <1>1, <1>19, <1>21, <1>22, <1>23, <1>24, <1>25, <1>26, <1>27, <1>28, <1>29, <1>30, <1>31, <1>32, <1>33
         DEF n, m, w0, w1, w2, w3, w4, w5, w6, w7, w8, w9, w10, w11

\* A decoder's word is the calldata's, behind the selector.
LEMMA CalldataWord ==
    ASSUME NEW data \in Seq(Byte), 4 + 12 * Word <= Len(data), NEW j \in 0..11
    PROVE  AbiWord(Slice(data, 4, Len(data)), j) = WordAt(data, j)
<1> DEFINE d == Slice(data, 4, Len(data))
<1>1. Word \in Nat /\ Len(data) \in Nat /\ 4 <= Len(data) /\ 4 \in Nat
  BY Sizes
<1>2. IsSlice(d, data, 4, Len(data))
  BY <1>1, SliceIs
<1>3. Len(d) = Len(data) - 4
  BY <1>2 DEF IsSlice
<1>4. PICK f \in Nat : f = j * Word
  BY <1>1
<1>5. PICK t \in Nat : t = (j + 1) * Word
  BY <1>1
<1>6. f <= t /\ t <= 12 * Word
  BY <1>1, <1>4, <1>5
<1>7. 4 + t <= Len(data) /\ ~(t > Len(d))
  BY <1>1, <1>3, <1>6
<1>8. Slice(d, f, t) = Slice(data, 4 + f, 4 + t)
  BY <1>1, <1>6, <1>7, SliceOfSlice
<1> HIDE DEF d
<1>9. AbiWord(d, j) = Slice(d, f, t)
  BY <1>4, <1>5, <1>7 DEF AbiWord, W
<1> QED BY <1>4, <1>5, <1>8, <1>9 DEF d, WordAt

LEMMA CalldataAddress ==
    ASSUME NEW d, NEW j, NEW w, IsWord(w), AbiWord(d, j) = Padded(w)
    PROVE  AbiAddress(d, j) = LowBytes(w)
<1>1. Padded(w) # Odd
  BY PaddedIs, OddAssumption DEF IsWord
<1> QED BY <1>1, PaddedIs DEF AbiAddress

\* A ticket's calldata gives back what the message held, whatever the message.
LEMMA TicketReads ==
    ASSUME NEW p \in Seq(Byte), NEW h, NEW chain, IsWord(h.requestId), TicketFits(h, p)
    PROVE  TicketReadsBack(h, p, chain, SubmitRetryable(h, p, chain))
<1> DEFINE t == SubmitRetryable(h, p, chain)
           data == TicketData(h, p)
           d == Slice(data, 4, Len(data))
           n == DataLength(p)
           m == (Word - (n % Word)) % Word
           sent == AbiDynamic(d, 10)
<1>1. Len(p) >= 9 * Word /\ BaseFee(h) \in 0..Power[Word] - 1
  BY DEF TicketFits
<1>2. t.data = data /\ t.gas = BigEndian(W(p, 6)) /\ t.raw = TicketRaw(h, p, chain)
  BY DEF SubmitRetryable
<1>3. data \in Seq(Byte) /\ Len(data) = 4 + 12 * Word + n + m
  BY <1>1, TicketLaidOut
<1>4. Word \in Nat \ {0} /\ n \in Nat /\ m \in 0..Word - 1 /\ (12 * Word + n + m) % Word = 0
  <2>1. n \in Nat
    BY <1>1, RetryDataIs
  <2> QED BY <2>1, Sizes, PaddingIs
<1> HIDE DEF data, d, n, m
<1>5. 4 + 12 * Word <= Len(data)
  BY <1>3, <1>4
<1>6. d \in Seq(Byte) /\ Len(d) = 12 * Word + n + m
  <2>1. IsSlice(d, data, 4, Len(data))
    <3>1. 4 \in Nat /\ Len(data) \in Nat /\ 4 <= Len(data)
      BY <1>3, <1>4
    <3> QED BY <1>3, <3>1, SliceIs DEF d
  <2> QED BY <1>3, <1>4, <2>1 DEF IsSlice
<1>7. \A j \in 0..11 : AbiWord(d, j) = WordAt(data, j)
  BY <1>3, <1>5, CalldataWord DEF d
<1>8. /\ AbiWord(d, 0) = h.requestId /\ AbiWord(d, 1) = WordOf(BaseFee(h))
      /\ AbiWord(d, 2) = W(p, 2) /\ AbiWord(d, 3) = W(p, 1) /\ AbiWord(d, 4) = W(p, 7)
      /\ AbiWord(d, 5) = W(p, 6) /\ AbiWord(d, 6) = W(p, 3)
      /\ AbiWord(d, 7) = Padded(W(p, 4)) /\ AbiWord(d, 8) = Padded(W(p, 5))
      /\ AbiWord(d, 9) = Padded(W(p, 0)) /\ AbiWord(d, 10) = WordOf(11 * Word)
      /\ AbiWord(d, 11) = W(p, 8)
  BY <1>1, <1>7, TicketLaidOut DEF data
<1>9. /\ AbiAddress(d, 7) = LowBytes(W(p, 4)) /\ AbiAddress(d, 8) = LowBytes(W(p, 5))
      /\ AbiAddress(d, 9) = LowBytes(W(p, 0))
  <2>1. IsWord(W(p, 4)) /\ IsWord(W(p, 5)) /\ IsWord(W(p, 0))
    BY <1>1, WordsThere
  <2> QED BY <1>8, <2>1, CalldataAddress
<1>10. BigEndian(AbiWord(d, 1)) = BaseFee(h)
  BY <1>1, <1>8, WordOfIs
<1>11. sent = RetryData(p)
  <2> DEFINE off == 11 * Word
             start == 12 * Word
  <2>1. BigEndian(AbiWord(d, 10)) = off /\ AbiWord(d, 10) # Odd
    BY <1>8, WordOfIs, OffsetFits, OddAssumption DEF IsWord
  <2>2. off \in Nat /\ start \in Nat /\ off + Word = start /\ off <= start
        /\ start <= Len(d) /\ start + n <= Len(d) /\ start + n \in Nat /\ start <= start + n
    BY <1>4, <1>6
  <2>3. off % Word = 0
    <3>1. PICK w \in Nat \ {0} : w = Word
      BY <1>4
    <3>2. (w * 11) % w = 0
      <4>1. w * 11 = w * 11 + 0 /\ 0 \in 0..w - 1
        OBVIOUS
      <4> QED BY <4>1
    <3> QED BY <3>1, <3>2
  <2>4. Slice(d, off, start) = W(p, 8)
    <3>1. AbiWord(d, 11) = W(d, 11)
      BY <1>4, <1>6 DEF AbiWord
    <3>2. 11 * Word = off /\ (11 + 1) * Word = start
      BY <1>4
    <3> QED BY <1>8, <3>1, <3>2 DEF W
  <2>5. BigEndian(Slice(d, off, start)) = n
    BY <2>4 DEF n, DataLength
  <2>6. sent = Slice(d, start, start + n)
    <3> HIDE DEF off, start
    <3> QED BY <2>1, <2>2, <2>3, <2>5 DEF AbiDynamic
  <2>7. Slice(d, start, start + n) = Slice(data, 4 + start, 4 + (start + n))
    <3>1. 4 + (start + n) <= Len(data) /\ 4 \in Nat
      BY <1>3, <1>4
    <3> HIDE DEF start
    <3> QED BY <1>3, <2>2, <3>1, SliceOfSlice DEF d
  <2>8. Slice(data, 4 + 12 * Word, 4 + 12 * Word + n) = RetryData(p)
    BY <1>1, TicketLaidOut DEF data, n
  <2>9. 4 + (start + n) = 4 + 12 * Word + n
    BY <1>4
  <2> QED BY <2>6, <2>7, <2>8, <2>9
<1>12. /\ RetryData(p) \in Seq(Byte) /\ Len(RetryData(p)) = n
       /\ \A b \in 1..n :
            RetryData(p)[b] = IF 9 * Word + b <= Len(p) THEN p[9 * Word + b] ELSE 0
  BY <1>1, RetryDataIs DEF n
<1>13. sent # Odd /\ Len(sent) = n
  BY <1>11, <1>12, OddAssumption
<1>14. Len(d) % Word = 0 /\ Len(d) - 12 * Word - n \in 0..Word - 1
  BY <1>4, <1>6
<1>15. /\ \A pair \in {<<2, 2>>, <<3, 1>>, <<4, 7>>, <<5, 6>>, <<6, 3>>} :
            AbiWord(d, pair[1]) = W(p, pair[2])
       /\ \A pair \in {<<7, 4>>, <<8, 5>>, <<9, 0>>} :
            AbiAddress(d, pair[1]) = LowBytes(W(p, pair[2]))
  BY <1>8, <1>9
<1> HIDE DEF sent, t
<1>16. t.raw = <<ARB_SUBMIT_RETRYABLE_TX>> \o
         RlpList(RlpUint(chain) \o RlpBytes(AbiWord(d, 0)) \o RlpBytes(h.sender)
                 \o RlpUint(BigEndian(AbiWord(d, 1))) \o RlpUint(BigEndian(AbiWord(d, 2)))
                 \o RlpUint(BigEndian(AbiWord(d, 4))) \o RlpUint(t.gas)
                 \o RlpBytes(Nil(AbiAddress(d, 9))) \o RlpUint(BigEndian(AbiWord(d, 3)))
                 \o RlpBytes(AbiAddress(d, 8)) \o RlpUint(BigEndian(AbiWord(d, 6)))
                 \o RlpBytes(AbiAddress(d, 7)) \o RlpBytes(sent))
  BY <1>2, <1>8, <1>9, <1>10, <1>11 DEF TicketRaw
<1>17. d = Slice(t.data, 4, Len(t.data))
  BY <1>2 DEF d
<1> QED BY <1>8, <1>11, <1>12, <1>13, <1>14, <1>15, <1>16, <1>17
         DEF TicketReadsBack, sent, n, t

\* So does a deposit.
LEMMA DepositReads ==
    ASSUME NEW p \in Seq(Byte), NEW h, NEW chain, DepositFits(p)
    PROVE  DepositReadsBack(p, Deposit(h, p, chain))
<1> DEFINE t == Deposit(h, p, chain)
           w == Slice(p, Address, Address + Word)
<1>1. /\ Address \in Nat /\ Address + Word \in Nat /\ Address <= Address + Word
      /\ Address + Word <= Len(p) /\ (Address + Word) - Address = Word
      /\ 0 \in Nat /\ 0 <= Address
  BY Sizes DEF DepositFits
<1>2. IsWord(w)
  <2>1. IsSlice(w, p, Address, Address + Word)
    BY <1>1, SliceIs
  <2> QED BY <1>1, <2>1 DEF IsSlice, IsWord
<1>3. t.to = Slice(p, 0, Address) /\ t.value = BigEndian(w)
  BY DEF Deposit
<1>4. WordOf(t.value) = w
  BY <1>2, <1>3, WordOfRead
<1>5. Slice(p, 0, Address) \o w = Slice(p, 0, Address + Word)
  BY <1>1, SlicesJoin
<1> QED BY <1>3, <1>4, <1>5 DEF DepositReadsBack

-----------------------------------------------------------------------------
(* The frame around it                                                     *)

Numbered ==
    \A k \in DOMAIN messages : messages[k].seq = call.frame[k].sequenceNumber

\* What a message of the parent chain brought is what is built from its entry.
BuiltFromEntry(e, chain, t) ==
    t # <<>> /\ e.header.kind \in {L1_SUBMIT_RETRYABLE, L1_ETH_DEPOSIT}
      => e.l2Msg \in Seq(Byte) /\ t = Built(e.header, e.l2Msg, chain)

Provenance ==
    \A k \in DOMAIN messages : BuiltFromEntry(call.frame[k], call.chain_id, messages[k].txs)

\* An L2Message to be walked, in the call c.
Walked(c, e) == c.decode_txs /\ e.l2Msg # None /\ e.header.kind = L1_L2_MESSAGE

\* What an entry is worth is its own.
OwnWorth(c, e, t) ==
    /\ Walked(c, e) => e.l2Msg # NotBase64 /\ IsWorth(e.l2Msg, t)
    /\ ~Walked(c, e) => /\ Len(t) <= 1
                        /\ t # <<>> => c.decode_txs /\ c.chain_id # None /\ FromParentChain(e)

Worths ==
    \A k \in DOMAIN messages :
      /\ OwnWorth(call, call.frame[k], messages[k].txs)
      /\ messages[k].from_parent_chain = FromParentChain(call.frame[k])

\* What every step of parse_frame preserves.
FrameInv ==
    /\ WalkInv
    /\ Account
    /\ call \in Calls
    /\ reading \in {"entry", "walk", "returned", "raised"}
    /\ at \in 1..Len(call.frame) + 1
    /\ reading = "walk" => /\ at <= Len(call.frame)
                           /\ Walked(call, Current) /\ Current.l2Msg # NotBase64
                           /\ payload = Current.l2Msg
    /\ reading = "returned" => at = Len(call.frame) + 1
    /\ \E S : messages \in Seq(S)
    /\ Len(messages) = IF reading = "raised" THEN 0 ELSE at - 1
    /\ Numbered
    /\ Provenance
    /\ Worths

\* A message that is added is the current entry's.
LEMMA Added ==
    ASSUME FrameInv, reading \in {"entry", "walk"}, at <= Len(call.frame),
           NEW t, Add(t),
           BuiltFromEntry(Current, call.chain_id, t),
           OwnWorth(call, Current, t)
    PROVE  FrameInv'
<1>1. call \in Calls /\ Len(call.frame) \in Nat /\ at \in 1..Len(call.frame)
  BY CallsAssumption DEF FrameInv
<1>2. WalkInv' /\ Account'
  <2>1. UNCHANGED vars
    BY DEF Add
  <2> QED BY <2>1, WalkPreserved, AccountPreserved DEF FrameInv
<1>3. PICK S : messages \in Seq(S)
  BY DEF FrameInv
<1> DEFINE m == Message(Current, t)
           T == S \cup {m}
<1>4. messages \in Seq(T) /\ m \in T
  BY <1>3
<1>5. messages' = Append(messages, m) /\ Len(messages) = at - 1
  BY DEF Add, FrameInv
<1> HIDE DEF m, T
<1>6. /\ messages' \in Seq(T)
      /\ Len(messages') = at
      /\ DOMAIN messages' = 1..at
      /\ messages'[at] = m
      /\ \A k \in 1..at - 1 : messages'[k] = messages[k]
  BY <1>1, <1>4, <1>5
<1>7. /\ m.seq = call.frame[at].sequenceNumber /\ m.txs = t
      /\ m.from_parent_chain = FromParentChain(call.frame[at])
  BY DEF m, Message, Current
<1>8. Numbered'
  <2>1. DOMAIN messages = 1..at - 1
    BY <1>3, <1>5
  <2>2. call' = call
    BY DEF Add
  <2> QED BY <1>1, <1>6, <1>7, <2>1, <2>2 DEF Numbered, FrameInv
<1>9. Provenance'
  <2>1. DOMAIN messages = 1..at - 1 /\ call' = call
    BY <1>3, <1>5 DEF Add
  <2>2. \A k \in 1..at - 1 :
          BuiltFromEntry(call.frame[k], call.chain_id, messages'[k].txs)
    BY <1>6, <2>1 DEF FrameInv, Provenance
  <2>3. BuiltFromEntry(call.frame[at], call.chain_id, messages'[at].txs)
    BY <1>6, <1>7 DEF Current
  <2>4. \A k \in 1..at : BuiltFromEntry(call.frame[k], call.chain_id, messages'[k].txs)
    BY <1>1, <2>2, <2>3
  <2> QED BY <1>6, <2>1, <2>4 DEF Provenance
<1>10. Worths'
  <2> DEFINE Own(k) == /\ OwnWorth(call, call.frame[k], messages'[k].txs)
                       /\ messages'[k].from_parent_chain = FromParentChain(call.frame[k])
  <2>1. DOMAIN messages = 1..at - 1 /\ call' = call
    BY <1>3, <1>5 DEF Add
  <2>2. \A k \in 1..at - 1 : Own(k)
    BY <1>6, <2>1 DEF FrameInv, Worths
  <2>3. Own(at)
    BY <1>6, <1>7 DEF Current
  <2> HIDE DEF Own
  <2>4. \A k \in 1..at : Own(k)
    BY <1>1, <2>2, <2>3
  <2> QED BY <1>6, <2>1, <2>4 DEF Worths, Own
<1> QED BY <1>1, <1>2, <1>6, <1>8, <1>9, <1>10 DEF FrameInv, Add

\* At its end a walk has what its l2Msg is worth.
LEMMA WalkIsWorth ==
    ASSUME TypeOK, Account, phase \in {"done", "void"}
    PROVE  IsWorth(payload, SignedTxs)
<1>1. Bodies(payload) = Found /\ Rising
  BY DEF Account
<1>2. /\ Len(txs) = Cardinality(Found)
      /\ \A k \in DOMAIN txs : Place(Found, txs[k]) = k
  BY <1>1, PlacesAre
<1>3. /\ Len(SignedTxs) = Len(txs)
      /\ \A k \in DOMAIN txs : SignedTxs[k] = Slice(payload, txs[k].from, txs[k].to)
  <2>1. Len(txs) \in Nat /\ DOMAIN txs = 1..Len(txs)
    BY DEF TypeOK
  <2> QED BY <2>1 DEF SignedTxs
<1>4. \A b \in Found : SignedTxs[Place(Found, b)] = Slice(payload, b.from, b.to)
  <2> SUFFICES ASSUME NEW k \in DOMAIN txs
               PROVE  SignedTxs[Place(Found, txs[k])] = Slice(payload, txs[k].from, txs[k].to)
    BY DEF Found
  <2> QED BY <1>2, <1>3
<1> QED BY <1>1, <1>2, <1>3, <1>4 DEF IsWorth

LEMMA FramePreserved ==
    ASSUME FrameInv, [FrameNext]_<<vars, frameVars>>
    PROVE  FrameInv'
<1>1. Len(call.frame) \in Nat /\ DOMAIN call.frame = 1..Len(call.frame)
  BY CallsAssumption DEF FrameInv
<1>2. CASE EnterL2Message
  <2>1. payload' \in Seq(Byte)
    BY <1>1, <1>2, CallsAssumption
       DEF EnterL2Message, HasEntryLeft, IsWalked, Current, FrameInv
  <2>2. TypeOK'
    BY <1>2, <2>1, SizesAssumption DEF EnterL2Message, TypeOK, Interval, IntervalType
  <2>3. SlicesNest' /\ TxsInOrder'
    BY <1>2, <2>1 DEF EnterL2Message, SlicesNest, TxsInOrder, Interval
  <2>4. WalkInv'
    BY <1>2, <2>2, <2>3 DEF EnterL2Message, WalkInv
  <2>5. Account'
    BY <1>2 DEF EnterL2Message, Account, Rising
  <2>6. Walked(call, Current) /\ Current.l2Msg # NotBase64 /\ Current' = Current
    BY <1>2 DEF EnterL2Message, IsWalked, Walked, Current
  <2>7. call' = call /\ messages' = messages /\ at' = at /\ payload' = Current.l2Msg
    BY <1>2 DEF EnterL2Message
  <2> QED BY <1>2, <2>4, <2>5, <2>6, <2>7
          DEF EnterL2Message, HasEntryLeft, FrameInv, Numbered, Provenance, Worths
<1>3. CASE Walk
  <2>1. WalkInv' /\ Account'
    BY <1>3, WalkPreserved, AccountPreserved DEF Walk, FrameInv
  <2>2. payload' = payload
    BY <1>3 DEF Walk, Next, Ignore, Start, SignedTx, Batch, UnsignedTx, Reject, NextEntry,
                EndBatch, Finish
  <2>3. call' = call /\ messages' = messages /\ Current' = Current
    BY <1>3 DEF Walk, frameVars, Current
  <2> QED BY <1>3, <2>1, <2>2, <2>3
          DEF Walk, frameVars, FrameInv, Numbered, Provenance, Worths
<1>4. CASE LeaveL2Message
  <2>1. /\ Walked(call, Current) /\ Current.l2Msg # NotBase64 /\ payload = Current.l2Msg
        /\ phase \in {"done", "void"} /\ TypeOK /\ Account
        /\ reading \in {"entry", "walk"} /\ at <= Len(call.frame)
    BY <1>4 DEF LeaveL2Message, FrameInv, WalkInv
  <2>2. OwnWorth(call, Current, SignedTxs)
    BY <2>1, WalkIsWorth DEF OwnWorth
  <2>3. BuiltFromEntry(Current, call.chain_id, SignedTxs)
    BY <2>1 DEF Walked, BuiltFromEntry, L1_L2_MESSAGE, L1_SUBMIT_RETRYABLE, L1_ETH_DEPOSIT
  <2>4. Add(SignedTxs)
    BY <1>4 DEF LeaveL2Message
  <2> QED BY <2>1, <2>2, <2>3, <2>4, Added
<1>5. CASE BadL2Message
  <2>1. WalkInv' /\ Account'
    BY <1>5, WalkPreserved, AccountPreserved DEF BadL2Message, FrameInv
  <2>2. messages' \in Seq({}) /\ Len(messages') = 0 /\ DOMAIN messages' = {}
    BY <1>5 DEF BadL2Message
  <2> QED BY <1>5, <2>1, <2>2 DEF BadL2Message, FrameInv, Numbered, Provenance, Worths
<1>6. CASE BuildParentChain
  <2>1. Current.l2Msg \in Seq(Byte)
    BY <1>1, <1>6, CallsAssumption
       DEF BuildParentChain, HasEntryLeft, IsBuilt, Current, FrameInv
  <2> DEFINE t == Built(Current.header, Current.l2Msg, call.chain_id)
  <2>2. BuiltFromEntry(Current, call.chain_id, t)
    BY <2>1 DEF BuiltFromEntry
  <2>3. t = <<>> \/ Len(t) = 1
    BY DEF Built
  <2>4. OwnWorth(call, Current, t)
    <3>1. /\ call.decode_txs /\ call.chain_id # None
          /\ Current.header.kind # L1_L2_MESSAGE
      BY <1>6 DEF BuildParentChain, IsBuilt, L1_L2_MESSAGE, L1_SUBMIT_RETRYABLE, L1_ETH_DEPOSIT
    <3>2. Len(t) <= 1
      BY <2>3
    <3> QED BY <3>1, <3>2 DEF OwnWorth, Walked, FromParentChain
  <2> HIDE DEF t
  <2>5. Add(t) /\ reading \in {"entry", "walk"} /\ at <= Len(call.frame)
    BY <1>6 DEF BuildParentChain, HasEntryLeft, t
  <2> QED BY <2>2, <2>4, <2>5, Added
<1>7. CASE ReadEnvelope
  <2>1. ~Walked(call, Current) /\ Len(<<>>) = 0
    BY <1>7 DEF ReadEnvelope, IsWalked, Walked
  <2>2. OwnWorth(call, Current, <<>>) /\ BuiltFromEntry(Current, call.chain_id, <<>>)
    BY <2>1 DEF OwnWorth, BuiltFromEntry
  <2>3. Add(<<>>) /\ reading \in {"entry", "walk"} /\ at <= Len(call.frame)
    BY <1>7 DEF ReadEnvelope, HasEntryLeft
  <2> QED BY <2>2, <2>3, Added
<1>8. CASE Return
  <2>1. WalkInv' /\ Account'
    BY <1>8, WalkPreserved, AccountPreserved DEF Return, FrameInv
  <2> QED BY <1>1, <1>8, <2>1 DEF Return, FrameInv, Numbered, Provenance, Worths
<1>9. CASE UNCHANGED <<vars, frameVars>>
  <2>1. WalkInv' /\ Account'
    BY <1>9, WalkPreserved, AccountPreserved DEF FrameInv
  <2>2. /\ call' = call /\ at' = at /\ reading' = reading /\ messages' = messages
        /\ payload' = payload /\ Current' = Current
    BY <1>9 DEF frameVars, vars, Current
  <2> QED BY <2>1, <2>2 DEF FrameInv, Numbered, Provenance, Worths
<1> QED BY <1>2, <1>3, <1>4, <1>5, <1>6, <1>7, <1>8, <1>9 DEF FrameNext

THEOREM FrameCorrect == FrameSpec => []FrameInv
<1>1. FrameInit => FrameInv
  <2> SUFFICES ASSUME FrameInit PROVE FrameInv
    OBVIOUS
  <2>1. Len(call.frame) \in Nat
    BY CallsAssumption DEF FrameInit
  <2>2. TypeOK
    BY SizesAssumption DEF FrameInit, TypeOK, Interval, IntervalType
  <2>3. SlicesNest /\ TxsInOrder
    BY DEF FrameInit, SlicesNest, TxsInOrder, Interval
  <2>4. messages \in Seq({}) /\ Len(messages) = 0 /\ DOMAIN messages = {}
    BY DEF FrameInit
  <2>5. Account
    <3>1. Found = {} /\ Bodies(payload) = {}
      BY DEF FrameInit, Found, Bodies
    <3> QED BY <3>1 DEF FrameInit, Account, Rising
  <2> QED BY <2>1, <2>2, <2>3, <2>4, <2>5
          DEF FrameInit, FrameInv, WalkInv, Numbered, Provenance, Worths
<1> QED BY <1>1, FramePreserved, PTL DEF FrameSpec

\* The walk's own types hold in whatever frame, and the entries read bound the messages.
THEOREM FrameTypeOKCorrect == FrameSpec => []FrameTypeOK
<1>1. FrameInv => FrameTypeOK
  <2> SUFFICES ASSUME FrameInv PROVE FrameTypeOK
    OBVIOUS
  <2>1. Len(call.frame) \in Nat
    BY CallsAssumption DEF FrameInv
  <2> QED BY <2>1 DEF FrameInv, WalkInv, FrameTypeOK
<1> QED BY <1>1, FrameCorrect, PTL

\* No byte of any l2Msg of a frame is read under two meanings.
THEOREM FrameSlicesNest == FrameSpec => []SlicesNest
<1>1. FrameInv => SlicesNest
  BY DEF FrameInv, WalkInv
<1> QED BY <1>1, FrameCorrect, PTL

\* The transactions of any l2Msg of a frame are in the order of its bytes and apart.
THEOREM FrameTxsInOrder == FrameSpec => []TxsInOrder
<1>1. FrameInv => TxsInOrder
  BY DEF FrameInv, WalkInv
<1> QED BY <1>1, FrameCorrect, PTL

\* A frame of whatever entries comes to one message for each, in order, or to none at all:
\* what lets the consumer pair messages with entries (consume.py:379-384).
THEOREM OnePerEntryCorrect == FrameSpec => []OnePerEntry
<1>1. FrameInv => OnePerEntry
  <2> SUFFICES ASSUME FrameInv PROVE OnePerEntry
    OBVIOUS
  <2>1. PICK S : messages \in Seq(S)
    BY DEF FrameInv
  <2>2. Len(call.frame) \in Nat
    BY CallsAssumption DEF FrameInv
  <2>3. reading = "raised" => messages = <<>>
    BY <2>1 DEF FrameInv
  <2> QED BY <2>2, <2>3 DEF FrameInv, Numbered, OnePerEntry
<1> QED BY <1>1, FrameCorrect, PTL

\* Whatever a frame brings from the parent chain, a decoder reads back from what is built
\* what the message held, and the transaction's hash covers the same.
THEOREM BuiltReadsBackCorrect == FrameSpec => []BuiltReadsBack
<1>1. FrameInv => BuiltReadsBack
  <2> SUFFICES ASSUME FrameInv PROVE BuiltReadsBack
    OBVIOUS
  <2> DEFINE e(k) == call.frame[k]
  <2>1. ASSUME NEW kind \in {L1_SUBMIT_RETRYABLE, L1_ETH_DEPOSIT}, NEW k \in BuiltFrom(kind)
        PROVE  /\ e(k).header.kind = kind /\ e(k).l2Msg \in Seq(Byte)
               /\ messages[k].txs = Built(e(k).header, e(k).l2Msg, call.chain_id)
               /\ messages[k].txs # <<>>
    BY <2>1 DEF FrameInv, Provenance, BuiltFromEntry, BuiltFrom
  <2>2. L1_SUBMIT_RETRYABLE # L1_ETH_DEPOSIT
    BY DEF L1_SUBMIT_RETRYABLE, L1_ETH_DEPOSIT
  <2>3. ASSUME NEW k \in BuiltFrom(L1_ETH_DEPOSIT)
        PROVE  DepositReadsBack(e(k).l2Msg, messages[k].txs[1])
    <3>1. /\ DepositFits(e(k).l2Msg)
          /\ messages[k].txs = <<Deposit(e(k).header, e(k).l2Msg, call.chain_id)>>
      BY <2>1, <2>2, <2>3 DEF Built
    <3>2. messages[k].txs[1] = Deposit(e(k).header, e(k).l2Msg, call.chain_id)
      BY <3>1
    <3>3. e(k).l2Msg \in Seq(Byte)
      BY <2>1, <2>3
    <3> HIDE DEF e
    <3> QED BY <3>1, <3>2, <3>3, DepositReads
  <2>4. ASSUME NEW k \in BuiltFrom(L1_SUBMIT_RETRYABLE)
        PROVE  TicketReadsBack(e(k).header, e(k).l2Msg, call.chain_id, messages[k].txs[1])
    <3>1. /\ HeaderFits(e(k).header) /\ TicketFits(e(k).header, e(k).l2Msg)
          /\ messages[k].txs = <<SubmitRetryable(e(k).header, e(k).l2Msg, call.chain_id)>>
      BY <2>1, <2>2, <2>4 DEF Built
    <3>2. messages[k].txs[1] = SubmitRetryable(e(k).header, e(k).l2Msg, call.chain_id)
      BY <3>1
    <3>3. IsWord(e(k).header.requestId)
      <4>1. k \in DOMAIN call.frame
        <5>1. Len(call.frame) \in Nat /\ DOMAIN call.frame = 1..Len(call.frame)
          BY CallsAssumption DEF FrameInv
        <5>2. k \in DOMAIN messages
          BY <2>4 DEF BuiltFrom
        <5>3. PICK S : messages \in Seq(S)
          BY DEF FrameInv
        <5>4. Len(messages) <= Len(call.frame)
          BY <5>1 DEF FrameInv
        <5> QED BY <5>1, <5>2, <5>3, <5>4
      <4> QED BY <3>1, <4>1, CallsAssumption, AddressAssumption DEF FrameInv, HeaderFits, IsWord
    <3>4. e(k).l2Msg \in Seq(Byte)
      BY <2>1, <2>4
    <3> HIDE DEF e
    <3> QED BY <3>1, <3>2, <3>3, <3>4, TicketReads
  <2> QED BY <2>3, <2>4 DEF BuiltReadsBack
<1> QED BY <1>1, FrameCorrect, PTL

\* Whatever l2Msg of a frame is walked, it is worth its signed transactions or nothing.
THEOREM FrameWalksAreSound == FrameSpec => []Sound
<1>1. FrameInv => Sound
  BY AccountIsSound DEF FrameInv, WalkInv
<1> QED BY <1>1, FrameCorrect, PTL

\* An entry's message is its own, whatever stands beside it in the frame: worth what its
\* l2Msg holds, nothing where it was not to be decoded, and one transaction at most where
\* it is of the parent chain.
THEOREM FrameSoundCorrect == FrameSpec => []FrameSound
<1>1. FrameInv /\ OnePerEntry => FrameSound
  <2> SUFFICES ASSUME FrameInv, OnePerEntry PROVE FrameSound
    OBVIOUS
  <2>1. ASSUME NEW k \in DOMAIN messages
        PROVE  LET e == call.frame[k]
                   walked == call.decode_txs /\ e.l2Msg # None /\ e.header.kind = L1_L2_MESSAGE
               IN  /\ walked => e.l2Msg # NotBase64 /\ IsWorth(e.l2Msg, messages[k].txs)
                   /\ ~walked => /\ Len(messages[k].txs) <= 1
                                 /\ messages[k].txs # <<>> => call.decode_txs /\ call.chain_id # None
                                 /\ messages[k].txs # <<>> => messages[k].from_parent_chain
    <3> DEFINE e == call.frame[k]
               t == messages[k].txs
    <3>1. OwnWorth(call, e, t) /\ messages[k].from_parent_chain = FromParentChain(e)
      BY DEF FrameInv, Worths
    <3>2. Walked(call, e) <=> call.decode_txs /\ e.l2Msg # None /\ e.header.kind = L1_L2_MESSAGE
      BY DEF Walked
    <3> HIDE DEF e, t
    <3>3. Walked(call, e) => e.l2Msg # NotBase64 /\ IsWorth(e.l2Msg, t)
      BY <3>1 DEF OwnWorth
    <3>4. ~Walked(call, e) => /\ Len(t) <= 1
                              /\ t # <<>> => call.decode_txs /\ call.chain_id # None
                              /\ t # <<>> => FromParentChain(e)
      BY <3>1 DEF OwnWorth
    <3>5. FromParentChain(e) => messages[k].from_parent_chain
      BY <3>1, Zenon
    <3> QED BY <3>2, <3>3, <3>4, <3>5 DEF e, t
  <2> QED BY <2>1 DEF FrameSound
<1> QED BY <1>1, FrameCorrect, OnePerEntryCorrect, PTL
=============================================================================
