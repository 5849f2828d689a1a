------------------------ MODULE LocalExecutionProofs ------------------------
(***************************************************************************)
(* For any number of accounts, of operations and of calls within calls:    *)
(* call depth alone tells whose storage a frame runs on, and what is       *)
(* recorded in one run is all that the next one needs.                     *)
(***************************************************************************)
EXTENDS LocalExecution, SequenceTheorems, TLAPS

\* What an operation is of.
LEMMA OpCases ==
    ASSUME NEW op \in Ops
    PROVE  \/ op.kind \in {"tx", "call", "delegate", "create", "probe"} /\ op.of \in Accounts
           \/ op.kind = "store" /\ op.of \in 0..1
           \/ op.kind \in {"load", "return", "revert"} /\ op.of = None
BY DEF Ops, Op

\* What an operation does to the stack of frames.
LEMMA AfterFrames ==
    ASSUME NEW e, NEW op \in Ops, e = [world |-> e.world, frames |-> e.frames]
    PROVE  LET f == After(e, op).frames IN
           /\ After(e, op) = [world |-> After(e, op).world, frames |-> f]
           /\ op.kind \in {"tx", "call"} => f \in {e.frames, Append(e.frames, Frame(op.of, None, e.world))}
           /\ op.kind = "delegate" => f \in {e.frames, Append(e.frames, Frame(Top(e).at, None, e.world))}
           /\ op.kind = "create" => f \in {e.frames, Append(e.frames, Frame(op.of, op.of, e.world))}
           /\ op.kind \in {"load", "store", "probe"} => f = e.frames
           /\ op.kind \in {"return", "revert"} => f = SubSeq(e.frames, 1, Depth(e) - 1)
<1>1. CASE op.kind \in {"tx", "call"}
  BY <1>1 DEF After, Entered
<1>2. CASE op.kind = "delegate"
  BY <1>2 DEF After, Entered
<1>3. CASE op.kind = "create"
  BY <1>3 DEF After, Entered
<1>4. CASE op.kind = "store"
  BY <1>4 DEF After
<1>5. CASE op.kind \in {"load", "probe"}
  BY <1>5 DEF After
<1>6. CASE op.kind \in {"return", "revert"}
  BY <1>6 DEF After, Left
<1> QED BY <1>1, <1>2, <1>3, <1>4, <1>5, <1>6, OpCases

\* A stack keeps its type, and what is below its top stays.
LEMMA StackType ==
    ASSUME NEW S, NEW stack \in Seq(S)
    PROVE  LET rest == SubSeq(stack, 1, Len(stack) - 1)
           IN  /\ \A x \in S : Append(stack, x) \in Seq(S)
               /\ Len(stack) > 0 =>
                    /\ stack[Len(stack)] \in S
                    /\ rest \in Seq(S) /\ Len(rest) = Len(stack) - 1
                    /\ \A k \in 1..Len(stack) - 1 : rest[k] = stack[k]
<1>1. \A x \in S : Append(stack, x) \in Seq(S)
  OBVIOUS
<1>2. ASSUME Len(stack) > 0
      PROVE  LET rest == SubSeq(stack, 1, Len(stack) - 1)
             IN  /\ stack[Len(stack)] \in S
                 /\ rest \in Seq(S) /\ Len(rest) = Len(stack) - 1
                 /\ \A k \in 1..Len(stack) - 1 : rest[k] = stack[k]
  <2> DEFINE n == Len(stack) - 1
  <2>1. n \in Nat /\ Len(stack) = n + 1 /\ \A k \in 1..n + 1 : stack[k] \in S
    BY <1>2
  <2> HIDE DEF n
  <2>2. /\ SubSeq(stack, 1, n) \in Seq(S)
        /\ Len(SubSeq(stack, 1, n)) = IF 1 <= n THEN n - 1 + 1 ELSE 0
        /\ \A k \in 1..n - 1 + 1 : SubSeq(stack, 1, n)[k] = stack[1 + k - 1]
    <3>1. 1 \in Int /\ n \in Int /\ \A k \in 1..n : stack[k] \in S
      BY <2>1
    <3> QED BY <3>1, SubSeqProperties
  <2>3. /\ Len(SubSeq(stack, 1, n)) = n
        /\ \A k \in 1..n : SubSeq(stack, 1, n)[k] = stack[k]
        /\ stack[n + 1] \in S
    BY <2>1, <2>2
  <2> QED BY <2>1, <2>2, <2>3 DEF n
<1> QED BY <1>1, <1>2

\* The EVM stays one.
LEMMA AfterType ==
    ASSUME NEW e \in EvmType, NEW op \in Ops, op.kind # "tx" => Depth(e) > 0
    PROVE  After(e, op) \in EvmType
<1> DEFINE F == [at : Accounts, makes : Accounts \cup {None}, saved : Worlds]
<1>1. e.world \in Worlds /\ e.frames \in Seq(F) /\ e = [world |-> e.world, frames |-> e.frames]
  BY DEF EvmType
<1>2. ASSUME op.kind # "tx" PROVE Top(e) \in F
  <2>1. Len(e.frames) > 0
    BY <1>2 DEF Depth
  <2> QED BY <1>1, <2>1, StackType DEF Top, Depth
<1>3. \A w \in Worlds, f \in Seq(F) : [world |-> w, frames |-> f] \in EvmType
  BY DEF EvmType
<1>4. \A at \in Accounts, makes \in Accounts \cup {None} : Entered(e, Frame(at, makes, e.world)) \in EvmType
  <2>1. \A at \in Accounts, makes \in Accounts \cup {None} : Frame(at, makes, e.world) \in F
    BY <1>1 DEF Frame
  <2>2. \A x \in F : Append(e.frames, x) \in Seq(F)
    BY <1>1, StackType
  <2>3. \A x : Entered(e, x) = [world |-> e.world, frames |-> Append(e.frames, x)]
    BY <1>1 DEF Entered
  <2> HIDE DEF F
  <2> QED BY <1>1, <1>3, <2>1, <2>2, <2>3
<1>5. \A w \in Worlds : op.kind # "tx" => Left(e, w) \in EvmType
  <2>1. op.kind # "tx" => SubSeq(e.frames, 1, Depth(e) - 1) \in Seq(F)
    BY <1>1, StackType DEF Depth
  <2> HIDE DEF F
  <2> QED BY <2>1, <1>3 DEF Left
<1>6. CASE op.kind \in {"tx", "call"}
  <2>1. After(e, op) \in {e, Entered(e, Frame(op.of, None, e.world))}
    BY <1>6 DEF After
  <2> QED BY <2>1, <1>4, <1>6, OpCases
<1>7. CASE op.kind = "delegate"
  <2>1. After(e, op) \in {e, Entered(e, Frame(Top(e).at, None, e.world))}
    BY <1>7 DEF After
  <2> QED BY <2>1, <1>2, <1>4, <1>7
<1>8. CASE op.kind = "create"
  <2>1. After(e, op) \in {e, Entered(e, Frame(op.of, op.of, e.world))}
    BY <1>8 DEF After
  <2> QED BY <2>1, <1>4, <1>8, OpCases
<1>9. CASE op.kind = "store"
  <2>1. After(e, op) = [e EXCEPT !.world.slot[Top(e).at] = op.of]
    BY <1>9 DEF After
  <2>2. op.of \in 0..1 /\ Top(e).at \in Accounts
    BY <1>2, <1>9, OpCases
  <2>3. [e.world EXCEPT !.slot[Top(e).at] = op.of] \in Worlds
    BY <1>1, <2>2 DEF Worlds
  <2>4. After(e, op) = [world |-> [e.world EXCEPT !.slot[Top(e).at] = op.of], frames |-> e.frames]
    BY <1>1, <2>1
  <2> QED BY <1>1, <1>3, <2>3, <2>4
<1>10. CASE op.kind \in {"load", "probe"}
  BY <1>10 DEF After
<1>11. CASE op.kind = "return"
  <2> DEFINE made == [e.world EXCEPT !.code = [a \in Accounts |-> e.world.code[a] \/ Top(e).makes = a]]
  <2>1. After(e, op) = Left(e, made)
    BY <1>11 DEF After
  <2>2. made \in Worlds
    BY <1>1 DEF Worlds
  <2> QED BY <2>1, <2>2, <1>5, <1>11
<1>12. CASE op.kind = "revert"
  BY <1>2, <1>5, <1>12 DEF After
<1> QED BY <1>6, <1>7, <1>8, <1>9, <1>10, <1>11, <1>12, OpCases

\* Once the trace has shown a step of the frame on top, the context is right at every depth
\* and what is pending is about no frame that is there.
LEMMA SettledKnows ==
    ASSUME ContextInv, stage = "forked"
    PROVE  /\ Settled \in TracerType
           /\ \A d \in 1..Depth(evm) : InCreation(d) \/ Settled.context[d] = evm.frames[d].at
           /\ Settled.pending # NoPending => Depth(evm) <= Settled.pending.depth
<1>1. /\ tracer \in TracerType
      /\ Depth(evm) \in 0..MaxDepth
      /\ tracer.pending # NoPending => Depth(evm) <= tracer.pending.depth + 1
      /\ \A d \in 1..Depth(evm) : InCreation(d) \/ Known(d) = evm.frames[d].at
  BY LocalAssumption DEF ContextInv, ContextIsKnown, EvmType, Depth
<1>2. CASE tracer.pending # NoPending /\ Depth(evm) = tracer.pending.depth + 1
  <2> DEFINE D == Depth(evm)
  <2>1. /\ D \in 1..MaxDepth
        /\ tracer.pending.target \in Accounts \cup {None}
    BY <1>1, <1>2 DEF TracerType
  <2>2. Settled = [tracer EXCEPT !.context[D] = tracer.pending.target, !.pending = NoPending]
    BY <1>2 DEF Settled
  <2>3. Settled \in TracerType /\ Settled.pending = NoPending
    BY <1>1, <2>1, <2>2 DEF TracerType, NoPending
  <2>4. Settled.context = [tracer.context EXCEPT ![D] = tracer.pending.target]
    BY <1>1, <2>1, <2>2 DEF TracerType
  <2>5. ASSUME NEW d \in 1..D PROVE Settled.context[d] = Known(d)
    <3>1. CASE d = D
      BY <1>1, <1>2, <2>1, <2>4, <3>1 DEF Known, TracerType
    <3>2. CASE d # D
      BY <1>1, <1>2, <2>1, <2>4, <3>2 DEF Known, TracerType
    <3> QED BY <3>1, <3>2
  <2> QED BY <1>1, <2>3, <2>5
<1>3. CASE ~(tracer.pending # NoPending /\ Depth(evm) = tracer.pending.depth + 1)
  <2>1. Settled = tracer
    BY <1>3 DEF Settled
  <2>2. \A d \in 1..Depth(evm) : Known(d) = tracer.context[d]
    BY <1>3 DEF Known
  <2>3. tracer.pending # NoPending => Depth(evm) <= tracer.pending.depth
    BY <1>1, <1>3 DEF TracerType
  <2> QED BY <1>1, <2>1, <2>2, <2>3
<1> QED BY <1>2, <1>3

\* What an operation does to the tracer.
LEMMA TracedParts ==
    ASSUME NEW op \in Ops, ContextInv, stage = "forked", CanDo(op)
    PROVE  /\ Traced(op) \in TracerType
           /\ op.kind \in {"load", "store", "probe", "create", "return", "revert"} =>
                Traced(op).context = Settled.context /\ Traced(op).pending = Settled.pending
           /\ op.kind = "call" =>
                /\ Traced(op).context = Settled.context
                /\ Traced(op).pending = [depth |-> Depth(evm), target |-> op.of]
           /\ op.kind = "delegate" =>
                /\ Traced(op).context = Settled.context
                /\ Traced(op).pending = [depth |-> Depth(evm), target |-> Here(Settled)]
           /\ op.kind = "tx" => Traced(op).context[1] = op.of /\ Traced(op).pending = NoPending
<1> DEFINE Maybe == Accounts \cup {None}
<1>1. /\ Settled \in TracerType
      /\ Depth(evm) \in 0..MaxDepth
      /\ tracer \in TracerType
  BY SettledKnows, LocalAssumption DEF ContextInv, EvmType, Depth
<1>2. \A t \in TracerType : t.context \in [1..MaxDepth -> Maybe] /\ t.slots \in SUBSET Maybe
  BY DEF TracerType
<1>3. op.kind # "tx" => Here(Settled) \in Maybe
  BY <1>1, <1>2, LocalAssumption DEF CanDo, Here
<1>4. \A t \in TracerType, a \in Accounts :
        /\ Reaching(t, a) \in TracerType
        /\ Reaching(t, a).context = t.context /\ Reaching(t, a).pending = t.pending
  BY DEF Reaching, TracerType
<1>5. \A t \in TracerType, a \in Maybe :
        /\ Pending(t, a) \in TracerType
        /\ Pending(t, a).context = t.context
        /\ Pending(t, a).pending = [depth |-> Depth(evm), target |-> a]
  <2> SUFFICES ASSUME NEW t \in TracerType, NEW a \in Maybe
               PROVE  /\ Pending(t, a) \in TracerType
                      /\ Pending(t, a).context = t.context
                      /\ Pending(t, a).pending = [depth |-> Depth(evm), target |-> a]
    OBVIOUS
  <2>1. [depth |-> Depth(evm), target |-> a] \in [depth : Nat, target : Maybe]
    BY <1>1, LocalAssumption
  <2> QED BY <2>1 DEF Pending, TracerType
<1>6. CASE op.kind = "tx"
  <2> DEFINE new == [tracer EXCEPT !.context = [d \in 1..MaxDepth |-> IF d = 1 THEN op.of ELSE None],
                                   !.pending = NoPending]
  <2>1. op.of \in Accounts
    BY <1>6, OpCases
  <2>2. /\ new \in TracerType
        /\ new.context = [d \in 1..MaxDepth |-> IF d = 1 THEN op.of ELSE None]
        /\ new.pending = NoPending
    BY <1>1, <2>1 DEF TracerType, NoPending
  <2>3. Traced(op) = Reaching(new, op.of)
    BY <1>6 DEF Traced
  <2>4. 1 \in 1..MaxDepth
    BY LocalAssumption
  <2> HIDE DEF new
  <2>5. /\ Traced(op) \in TracerType
        /\ Traced(op).context = new.context /\ Traced(op).pending = new.pending
    BY <1>4, <2>1, <2>2, <2>3
  <2>6. Traced(op).context[1] = op.of
    BY <2>2, <2>4, <2>5
  <2> QED BY <1>6, <2>2, <2>5, <2>6
<1>7. CASE op.kind \in {"load", "store"}
  <2>1. Traced(op) = [Settled EXCEPT !.slots = @ \cup {Here(Settled)}]
    BY <1>7 DEF Traced
  <2>2. /\ Traced(op) \in TracerType
        /\ Traced(op).context = Settled.context /\ Traced(op).pending = Settled.pending
    BY <1>1, <1>3, <1>7, <2>1 DEF TracerType
  <2> QED BY <1>7, <2>2
<1>8. CASE op.kind = "call"
  <2>1. Traced(op) = Pending(Reaching(Settled, op.of), op.of)
    BY <1>8 DEF Traced
  <2>2. op.of \in Accounts
    BY <1>8, OpCases
  <2>3. /\ Reaching(Settled, op.of) \in TracerType
        /\ Reaching(Settled, op.of).context = Settled.context
    BY <1>1, <1>4, <2>2
  <2>4. /\ Traced(op) \in TracerType
        /\ Traced(op).context = Settled.context
        /\ Traced(op).pending = [depth |-> Depth(evm), target |-> op.of]
    BY <1>3, <1>5, <1>8, <2>1, <2>2, <2>3
  <2> QED BY <1>8, <2>4
<1>9. CASE op.kind = "delegate"
  <2>1. Traced(op) = Pending(Reaching(Settled, op.of), Here(Settled))
    BY <1>9 DEF Traced
  <2>2. op.of \in Accounts
    BY <1>9, OpCases
  <2>3. /\ Reaching(Settled, op.of) \in TracerType
        /\ Reaching(Settled, op.of).context = Settled.context
    BY <1>1, <1>4, <2>2
  <2>4. /\ Traced(op) \in TracerType
        /\ Traced(op).context = Settled.context
        /\ Traced(op).pending = [depth |-> Depth(evm), target |-> Here(Settled)]
    BY <1>3, <1>5, <1>9, <2>1, <2>2, <2>3
  <2> QED BY <1>9, <2>4
<1>10. CASE op.kind = "probe"
  <2>1. Traced(op) = Reaching(Settled, op.of)
    BY <1>10 DEF Traced
  <2> QED BY <1>1, <1>4, <1>10, <2>1, OpCases
<1>11. CASE op.kind \in {"create", "return", "revert"}
  BY <1>1, <1>11 DEF Traced
<1> QED BY <1>6, <1>7, <1>8, <1>9, <1>10, <1>11, OpCases

\* An operation of the forked run keeps the invariant.
LEMMA ForkedKeeps ==
    ASSUME ContextInv, NEW op \in Ops, Forked(op)
    PROVE  ContextInv'
<1> DEFINE F == [at : Accounts, makes : Accounts \cup {None}, saved : Worlds]
<1>1. /\ stage = "forked" /\ stage' = "forked"
      /\ CanDo(op)
      /\ evm' = After(evm, op)
      /\ tracer' = Traced(op)
  BY DEF Forked
<1> PICK D \in 0..MaxDepth : D = Depth(evm)
  BY <1>1, LocalAssumption DEF ContextInv, EvmType, Depth
<1>2. /\ evm \in EvmType /\ D = Depth(evm) /\ D = Len(evm.frames) /\ evm.frames \in Seq(F)
      /\ evm = [world |-> evm.world, frames |-> evm.frames]
      /\ D \in Nat /\ D <= MaxDepth /\ MaxDepth \in Nat
  BY <1>1, LocalAssumption DEF ContextInv, EvmType, Depth
<1>3. D > 0 <=> op.kind # "tx"
  BY <1>1, <1>2 DEF CanDo
<1>4. evm' \in EvmType /\ tracer' \in TracerType
  BY <1>1, <1>2, <1>3, AfterType, TracedParts
<1>5. /\ \A d \in 1..D : InCreation(d) \/ Settled.context[d] = evm.frames[d].at
      /\ Settled.pending # NoPending => D <= Settled.pending.depth
      /\ Settled.context \in [1..MaxDepth -> Accounts \cup {None}]
      /\ Settled.pending \in [depth : Nat, target : Accounts \cup {None}]
  BY <1>1, SettledKnows DEF TracerType
<1>6. Depth(evm)' = Len(evm'.frames) /\ Depth(evm') = Len(evm'.frames)
  BY DEF Depth
<1> SUFFICES /\ tracer'.pending # NoPending => Len(evm'.frames) <= tracer'.pending.depth + 1
             /\ Len(evm'.frames) <= MaxDepth
             /\ \A d \in 1..Len(evm'.frames) : InCreation(d)' \/ Known(d)' = evm'.frames[d].at
  BY <1>4, <1>6 DEF ContextInv, ContextIsKnown
<1>7. ASSUME NEW m \in 0..D, m <= Len(evm'.frames),
             \A k \in 1..m : evm'.frames[k] = evm.frames[k],
             \A d \in 1..m : Known(d)' = Settled.context[d]
      PROVE  \A d \in 1..m : InCreation(d)' \/ Known(d)' = evm'.frames[d].at
  <2> SUFFICES ASSUME NEW d \in 1..m
               PROVE  InCreation(d)' \/ Known(d)' = evm'.frames[d].at
    OBVIOUS
  <2>1. d \in 1..D /\ \A k \in 1..d : k \in 1..m
    BY <1>2
  <2>2. InCreation(d) => InCreation(d)'
    BY <1>7, <2>1 DEF InCreation
  <2> QED BY <1>5, <1>7, <2>1, <2>2
\* The tracer has only settled, and nothing new is on the stack.
<1>8. ASSUME NEW m \in 0..D, Len(evm'.frames) = m,
             \A k \in 1..m : evm'.frames[k] = evm.frames[k],
             tracer'.context = Settled.context, tracer'.pending = Settled.pending
      PROVE  /\ tracer'.pending # NoPending => Len(evm'.frames) <= tracer'.pending.depth + 1
             /\ Len(evm'.frames) <= MaxDepth
             /\ \A d \in 1..Len(evm'.frames) : InCreation(d)' \/ Known(d)' = evm'.frames[d].at
  <2>1. \A d \in 1..m : Known(d)' = Settled.context[d]
    BY <1>2, <1>5, <1>6, <1>8 DEF Known
  <2>2. m <= MaxDepth
    BY <1>2, LocalAssumption
  <2> QED BY <1>2, <1>5, <1>7, <1>8, <2>1, <2>2
<1>9. CASE op.kind \in {"load", "store", "probe"}
  <2>1. evm'.frames = evm.frames
    BY <1>1, <1>2, <1>9, AfterFrames
  <2>2. tracer'.context = Settled.context /\ tracer'.pending = Settled.pending
    BY <1>1, <1>9, TracedParts
  <2>3. D \in 0..D
    BY <1>2
  <2> QED BY <1>2, <1>8, <2>1, <2>2, <2>3
<1>10. CASE op.kind \in {"return", "revert"}
  <2>1. evm'.frames = SubSeq(evm.frames, 1, D - 1)
    BY <1>1, <1>2, <1>10, AfterFrames
  <2>2. D > 0
    BY <1>3, <1>10
  <2>3. /\ D - 1 \in 0..D /\ Len(evm'.frames) = D - 1
        /\ \A k \in 1..D - 1 : evm'.frames[k] = evm.frames[k]
    <3> HIDE DEF F
    <3> QED BY <1>2, <2>1, <2>2, StackType
  <2>4. tracer'.context = Settled.context /\ tracer'.pending = Settled.pending
    BY <1>1, <1>10, TracedParts
  <2> QED BY <1>8, <2>3, <2>4
<1>11. CASE op.kind = "create"
  <2>1. evm'.frames \in {evm.frames, Append(evm.frames, Frame(op.of, op.of, evm.world))}
    BY <1>1, <1>2, <1>11, AfterFrames
  <2>2. tracer'.context = Settled.context /\ tracer'.pending = Settled.pending
    BY <1>1, <1>11, TracedParts
  <2>3. CASE evm'.frames = evm.frames
    <3>1. D \in 0..D
      BY <1>2
    <3> QED BY <1>2, <1>8, <2>2, <2>3, <3>1
  <2>4. CASE evm'.frames = Append(evm.frames, Frame(op.of, op.of, evm.world))
    <3>1. /\ Len(evm'.frames) = D + 1
          /\ \A k \in 1..D : evm'.frames[k] = evm.frames[k]
          /\ evm'.frames[D + 1] = Frame(op.of, op.of, evm.world)
      BY <1>2, <2>4
    <3>2. D < MaxDepth
      BY <1>1, <1>11 DEF CanDo
    <3>3. \A d \in 1..D : Known(d)' = Settled.context[d]
      BY <1>2, <1>6, <2>2, <3>1 DEF Known
    <3>4. InCreation(D + 1)'
      <4>1. D + 1 \in 1..D + 1
        BY <1>2
      <4> QED BY <3>1, <4>1 DEF InCreation, Frame
    <3>5. \A d \in 1..D : InCreation(d)' \/ Known(d)' = evm'.frames[d].at
      BY <1>2, <1>7, <3>1, <3>3
    <3>6. \A d \in 1..D + 1 : d \in 1..D \/ d = D + 1
      BY <1>2
    <3>7. \A d \in 1..D + 1 : InCreation(d)' \/ Known(d)' = evm'.frames[d].at
      BY <3>4, <3>5, <3>6
    <3> QED BY <1>2, <1>5, <2>2, <3>1, <3>2, <3>7, LocalAssumption
  <2> QED BY <2>1, <2>3, <2>4
\* A call of either kind: the new frame, if there is one, runs on what is pending, or inside
\* an account that is being created.
<1>12. ASSUME NEW at, NEW target, op.kind # "tx", D < MaxDepth,
              evm'.frames \in {evm.frames, Append(evm.frames, Frame(at, None, evm.world))},
              tracer'.context = Settled.context,
              tracer'.pending = [depth |-> D, target |-> target],
              target = at \/ (InCreation(D) /\ at = evm.frames[D].at)
       PROVE  /\ tracer'.pending # NoPending => Len(evm'.frames) <= tracer'.pending.depth + 1
              /\ Len(evm'.frames) <= MaxDepth
              /\ \A d \in 1..Len(evm'.frames) : InCreation(d)' \/ Known(d)' = evm'.frames[d].at
  <2>1. D \in 1..MaxDepth - 1 /\ MaxDepth \in Nat
    BY <1>2, <1>3, <1>12, LocalAssumption
  <2>2. tracer'.pending # NoPending /\ tracer'.pending.depth = D /\ tracer'.pending.target = target
    BY <1>12, <2>1 DEF NoPending
  <2>3. \A d \in 1..D : Known(d)' = Settled.context[d]
    BY <1>12, <2>1, <2>2 DEF Known
  <2>4. CASE evm'.frames = evm.frames
    BY <1>2, <1>7, <2>1, <2>2, <2>3, <2>4
  <2>5. CASE evm'.frames = Append(evm.frames, Frame(at, None, evm.world))
    <3>1. /\ Len(evm'.frames) = D + 1
          /\ \A k \in 1..D : evm'.frames[k] = evm.frames[k]
          /\ evm'.frames[D + 1].at = at
      BY <1>2, <2>5 DEF Frame
    <3>2. InCreation(D + 1)' \/ Known(D + 1)' = evm'.frames[D + 1].at
      <4>1. CASE target = at
        <5>1. Known(D + 1)' = target
          BY <1>6, <2>2, <3>1 DEF Known
        <5> QED BY <3>1, <4>1, <5>1
      <4>2. CASE InCreation(D) /\ at = evm.frames[D].at
        <5>1. PICK k \in 1..D : evm.frames[k].makes = evm.frames[D].at
          BY <4>2 DEF InCreation
        <5>2. k \in 1..D + 1 /\ evm'.frames[k].makes = evm'.frames[D + 1].at
          BY <2>1, <3>1, <4>2, <5>1
        <5> QED BY <5>2 DEF InCreation
      <4> QED BY <1>12, <4>1, <4>2
    <3>3. \A d \in 1..D : InCreation(d)' \/ Known(d)' = evm'.frames[d].at
      BY <1>2, <1>7, <2>1, <2>3, <3>1
    <3>4. \A d \in 1..D + 1 : d \in 1..D \/ d = D + 1
      BY <2>1
    <3>5. \A d \in 1..D + 1 : InCreation(d)' \/ Known(d)' = evm'.frames[d].at
      BY <3>2, <3>3, <3>4
    <3> QED BY <2>1, <2>2, <3>1, <3>5
  <2> QED BY <1>12, <2>4, <2>5
<1>13. CASE op.kind = "call"
  <2>1. D < MaxDepth
    BY <1>1, <1>13 DEF CanDo
  <2>2. evm'.frames \in {evm.frames, Append(evm.frames, Frame(op.of, None, evm.world))}
    BY <1>1, <1>2, <1>13, AfterFrames
  <2>3. tracer'.context = Settled.context /\ tracer'.pending = [depth |-> D, target |-> op.of]
    BY <1>1, <1>13, TracedParts
  <2> QED BY <1>12, <1>13, <2>1, <2>2, <2>3
<1>14. CASE op.kind = "delegate"
  <2>1. D < MaxDepth
    BY <1>1, <1>14 DEF CanDo
  <2>2. evm'.frames \in {evm.frames, Append(evm.frames, Frame(Top(evm).at, None, evm.world))}
    BY <1>1, <1>2, <1>14, AfterFrames
  <2>3. tracer'.context = Settled.context /\ tracer'.pending = [depth |-> D, target |-> Here(Settled)]
    BY <1>1, <1>14, TracedParts
  <2>4. D \in 1..D /\ Top(evm) = evm.frames[D]
    BY <1>2, <1>3, <1>14 DEF Top
  <2>5. Here(Settled) = Top(evm).at \/ (InCreation(D) /\ Top(evm).at = evm.frames[D].at)
    <3>1. evm.frames[D].at \in Accounts
      <4>1. evm.frames[D] \in F
        <5>1. Len(evm.frames) = D /\ D > 0
          BY <1>2, <2>4
        <5> HIDE DEF F
        <5> QED BY <1>2, <5>1, StackType
      <4> QED BY <4>1
    <3>2. Settled.context[D] = evm.frames[D].at => Here(Settled) = evm.frames[D].at
      BY <3>1, LocalAssumption DEF Here
    <3> QED BY <1>5, <2>4, <3>2
  <2> QED BY <1>12, <1>14, <2>1, <2>2, <2>3, <2>5
<1>15. CASE op.kind = "tx"
  <2>1. D = 0 /\ evm.frames = <<>>
    BY <1>2, <1>3, <1>15
  <2>2. evm'.frames \in {evm.frames, Append(evm.frames, Frame(op.of, None, evm.world))}
    BY <1>1, <1>2, <1>15, AfterFrames
  <2>3. tracer'.context[1] = op.of /\ tracer'.pending = NoPending
    BY <1>1, <1>15, TracedParts
  <2>4. Len(evm'.frames) \in 0..1 /\ \A d \in 1..Len(evm'.frames) : d = 1 /\ evm'.frames[d].at = op.of
    BY <2>1, <2>2 DEF Frame
  <2>5. \A d : Known(d)' = tracer'.context[d]
    BY <2>3 DEF Known
  <2> QED BY <2>3, <2>4, <2>5, LocalAssumption
<1> QED BY <1>9, <1>10, <1>11, <1>13, <1>14, <1>15, OpCases

\* For any accounts, programs and depth, the trace tells whose storage every frame of the
\* forked run is on, but inside an account that is being created (execute.py:164-189).
THEOREM ContextCorrect == Spec => []ContextIsKnown
<1>1. Init => ContextInv
  <2> SUFFICES ASSUME Init PROVE ContextInv
    OBVIOUS
  <2>1. /\ cut \in Worlds /\ evm = [world |-> cut, frames |-> <<>>]
        /\ tracer.pending = NoPending
    BY LocalAssumption DEF Init
  <2>2. Depth(evm) = 0
    BY <2>1 DEF Depth
  <2>3. evm \in EvmType
    BY <2>1 DEF EvmType
  <2>4. tracer \in TracerType
    BY DEF Init, TracerType, NoPending
  <2> QED BY <2>1, <2>2, <2>3, <2>4, LocalAssumption DEF ContextInv, ContextIsKnown
<1>2. ContextInv /\ [Next]_vars => ContextInv'
  <2> SUFFICES ASSUME ContextInv, [Next]_vars PROVE ContextInv'
    OBVIOUS
  <2>1. CASE \E op \in Ops : Forked(op)
    BY <2>1, ForkedKeeps
  <2>2. CASE Snapshot \/ Offline \/ Report
    BY <2>2 DEF Snapshot, Offline, Report, ContextInv
  <2>3. CASE UNCHANGED vars
    <3>1. UNCHANGED <<stage, evm, tracer>>
      BY <2>3 DEF vars
    <3> QED BY <3>1 DEF ContextInv, ContextIsKnown, InCreation, Known, Depth, EvmType, TracerType
  <2> QED BY <2>1, <2>2, <2>3 DEF Next
<1>3. ContextInv => ContextIsKnown
  BY DEF ContextInv, ContextIsKnown
<1> QED BY <1>1, <1>2, <1>3, PTL DEF Spec
-----------------------------------------------------------------------------
(* The run that holds nothing but the snapshot                             *)

\* Two worlds have the same code at the accounts of K and the same slots at those of S.
Alike(K, S, v, w) ==
    /\ \A a \in K : v.code[a] = w.code[a]
    /\ \A a \in S : v.slot[a] = w.slot[a]

\* Two EVMs are as deep in the same calls, and alike in what they hold and would go back to.
Similar(K, S, e, f) ==
    /\ Alike(K, S, e.world, f.world)
    /\ Depth(e) = Depth(f)
    /\ \A d \in 1..Depth(e) :
          /\ e.frames[d].at = f.frames[d].at
          /\ e.frames[d].makes = f.frames[d].makes
          /\ Alike(K, S, e.frames[d].saved, f.frames[d].saved)

\* Accounts whose code, and whose slot, the snapshot has as they were: the recorded ones, and
\* the ones that were not there.
CodeKept == tracer.reached \cup {a \in Accounts : ~cut.code[a]}

SlotKept == tracer.slots \cup {a \in Accounts : ~cut.code[a]}

\* An operation looks at nothing that the snapshot does not have.
Covered(e, op) ==
    /\ op.kind \in {"tx", "call", "delegate", "probe", "create"} => op.of \in CodeKept
    /\ op.kind = "load" => Top(e).at \in SlotKept

\* The world at depth m: the present one, or what the frame above goes back to.
WorldAt(e, m) == IF m = Depth(e) THEN e.world ELSE e.frames[m + 1].saved

\* Whatever is reverted, the frames that are left run on accounts that are there or are being
\* created.
Founded(e) ==
    \A m \in 0..Depth(e) : \A d \in 1..m :
        \/ WorldAt(e, m).code[e.frames[d].at]
        \/ \E k \in 1..m : e.frames[k].makes = e.frames[d].at

\* The tracer names accounts, whatever it takes a frame for.
TracerInv ==
    /\ tracer.slots \subseteq Accounts /\ tracer.reached \subseteq Accounts
    /\ tracer.pending.depth \in 0..MaxDepth
    /\ tracer.pending # NoPending => tracer.pending.depth > 0 /\ tracer.pending.target \in Accounts
    /\ stage = "forked" =>
          /\ Depth(evm) > 0 => tracer.context[1] \in Accounts
          /\ done = 0 /\ agrees
          /\ ~Collisions =>
                \A d \in 1..Depth(evm) :
                    evm.frames[d].makes # None => ~cut.code[evm.frames[d].makes]

\* p is what the forked run's EVM was before each operation and after the last, and the
\* offline run's is like the one it has got to.
Follows(p) ==
    /\ p[0] = [world |-> cut, frames |-> <<>>]
    /\ \A k \in 1..Len(script) :
          /\ script[k].op \in Ops
          /\ Depth(p[k - 1]) = 0 <=> script[k].op.kind = "tx"
          /\ script[k].op.kind \in {"call", "delegate", "create"} => Depth(p[k - 1]) < MaxDepth
          /\ ~Collisions => Covered(p[k - 1], script[k].op)
          /\ script[k].saw = Seen(p[k - 1], script[k].op)
          /\ p[k] = After(p[k - 1], script[k].op)
    /\ stage = "forked" => evm = p[Len(script)]
    /\ stage # "forked" /\ agrees => Similar(CodeKept, SlotKept, p[done], evm)

\* The strengthening of OfflineAgrees and of the type invariant, with a past of the forked run
\* in place of a history variable.
TrailInv ==
    /\ stage \in {"forked", "offline", "over"}
    /\ cut \in Nodes
    /\ evm \in EvmType /\ Founded(evm) /\ Depth(evm) <= MaxDepth
    /\ Len(script) \in Nat /\ done \in 0..Len(script)
    /\ agrees \in BOOLEAN
    /\ ~Collisions => agrees
    /\ stage = "over" /\ agrees => done = Len(script)
    /\ \E p \in [0..Len(script) -> EvmType] : Follows(p)

\* What entering a frame and leaving one do to the stack.
LEMMA EnteredLeft ==
    ASSUME NEW e \in EvmType
    PROVE  /\ \A x : /\ Entered(e, x).world = e.world /\ Depth(Entered(e, x)) = Depth(e) + 1
                     /\ Entered(e, x).frames[Depth(e) + 1] = x
                     /\ \A d \in 1..Depth(e) : Entered(e, x).frames[d] = e.frames[d]
           /\ Depth(e) > 0 =>
                \A w : /\ Left(e, w).world = w /\ Depth(Left(e, w)) = Depth(e) - 1
                       /\ \A d \in 1..Depth(e) - 1 : Left(e, w).frames[d] = e.frames[d]
<1> DEFINE D == Depth(e)
<1> DEFINE F == [at : Accounts, makes : Accounts \cup {None}, saved : Worlds]
<1>1. /\ e.frames \in Seq(F) /\ D = Len(e.frames)
      /\ e = [world |-> e.world, frames |-> e.frames]
  BY DEF EvmType, Depth
<1>2. \A x : Entered(e, x) = [world |-> e.world, frames |-> Append(e.frames, x)]
  BY <1>1 DEF Entered
<1>3. \A x : /\ Len(Append(e.frames, x)) = D + 1
             /\ Append(e.frames, x)[D + 1] = x
             /\ \A d \in 1..D : Append(e.frames, x)[d] = e.frames[d]
  BY <1>1
<1>4. ASSUME D > 0
      PROVE  /\ Len(SubSeq(e.frames, 1, D - 1)) = D - 1
             /\ \A d \in 1..D - 1 : SubSeq(e.frames, 1, D - 1)[d] = e.frames[d]
  <2> HIDE DEF F
  <2> QED BY <1>1, <1>4, StackType
<1> HIDE DEF F
<1>5. \A x : /\ Entered(e, x).world = e.world /\ Depth(Entered(e, x)) = D + 1
             /\ Entered(e, x).frames[D + 1] = x
             /\ \A d \in 1..D : Entered(e, x).frames[d] = e.frames[d]
  BY <1>2, <1>3 DEF Depth
<1>6. D > 0 => \A w : /\ Left(e, w).world = w /\ Depth(Left(e, w)) = D - 1
                      /\ \A d \in 1..D - 1 : Left(e, w).frames[d] = e.frames[d]
  BY <1>4 DEF Left, Depth
<1> QED BY <1>5, <1>6

Stored(e, a, v) == [e EXCEPT !.world.slot[a] = v]

Made(e) == [e.world EXCEPT !.code = [a \in Accounts |-> e.world.code[a] \/ Top(e).makes = a]]

\* What an operation comes to.
LEMMA AfterIs ==
    ASSUME NEW e, NEW op \in Ops
    PROVE  /\ op.kind \in {"tx", "call"} =>
                After(e, op) = IF e.world.code[op.of] THEN Entered(e, Frame(op.of, None, e.world)) ELSE e
           /\ op.kind = "delegate" =>
                After(e, op) = IF e.world.code[op.of] THEN Entered(e, Frame(Top(e).at, None, e.world)) ELSE e
           /\ op.kind = "create" =>
                After(e, op) = IF ~Taken(e, op.of) THEN Entered(e, Frame(op.of, op.of, e.world)) ELSE e
           /\ op.kind = "store" => After(e, op) = Stored(e, Top(e).at, op.of)
           /\ op.kind = "revert" => After(e, op) = Left(e, Top(e).saved)
           /\ op.kind = "return" => After(e, op) = Left(e, Made(e))
           /\ op.kind \in {"load", "probe"} => After(e, op) = e
<1>1. CASE op.kind \in {"tx", "call"}
  BY <1>1 DEF After
<1>2. CASE op.kind = "delegate"
  BY <1>2 DEF After
<1>3. CASE op.kind = "create"
  BY <1>3 DEF After
<1>4. CASE op.kind = "store"
  BY <1>4 DEF After, Stored
<1>5. CASE op.kind \in {"load", "probe"}
  BY <1>5 DEF After
<1>6. CASE op.kind = "revert"
  BY <1>6 DEF After
<1>7. CASE op.kind = "return"
  BY <1>7 DEF After, Made
<1> QED BY <1>1, <1>2, <1>3, <1>4, <1>5, <1>6, <1>7, OpCases

\* What a store does to the world.
LEMMA StoreIs ==
    ASSUME NEW e \in EvmType, NEW a \in Accounts, NEW v
    PROVE  /\ Stored(e, a, v).frames = e.frames /\ Stored(e, a, v).world.code = e.world.code
           /\ \A b \in Accounts :
                Stored(e, a, v).world.slot[b] = IF b = a THEN v ELSE e.world.slot[b]
BY DEF EvmType, Worlds, Stored

\* What a return does to the world.
LEMMA MadeIs ==
    ASSUME NEW e \in EvmType
    PROVE  \A a \in Accounts : /\ Made(e).code[a] = (e.world.code[a] \/ Top(e).makes = a)
                               /\ Made(e).slot[a] = e.world.slot[a]
BY DEF EvmType, Worlds, Made

\* How deep an operation leaves the EVM.
LEMMA AfterDepth ==
    ASSUME NEW e \in EvmType, NEW op \in Ops, op.kind # "tx" => Depth(e) > 0
    PROVE  /\ Depth(e) \in Nat /\ Depth(After(e, op)) \in Nat
           /\ Depth(After(e, op)) <= Depth(e) + 1
           /\ op.kind \notin {"tx", "call", "delegate", "create"} => Depth(After(e, op)) <= Depth(e)
<1>1. Depth(e) \in Nat
  BY DEF EvmType, Depth
<1> PICK D \in Nat : D = Depth(e)
  BY <1>1
<1>2. CASE op.kind \in {"tx", "call", "delegate", "create"}
  <2>1. \E x : After(e, op) \in {e, Entered(e, x)}
    BY <1>2, AfterIs
  <2> QED BY <1>2, <2>1, EnteredLeft
<1>3. CASE op.kind = "store"
  <2>1. Depth(After(e, op)) = Depth(e)
    <3>1. After(e, op).frames = e.frames
      BY <1>3, AfterFrames DEF EvmType
    <3> QED BY <3>1 DEF Depth
  <2> QED BY <1>3, <2>1
<1>4. CASE op.kind \in {"load", "probe"}
  BY <1>1, <1>4, AfterIs
<1>5. CASE op.kind \in {"return", "revert"}
  <2>1. \E w : After(e, op) = Left(e, w)
    BY <1>5, AfterIs
  <2> QED BY <1>5, <2>1, EnteredLeft
<1> QED BY <1>2, <1>3, <1>4, <1>5, OpCases

\* The frame on top is one.
LEMMA TopType ==
    ASSUME NEW e \in EvmType, Depth(e) > 0
    PROVE  /\ Top(e).at \in Accounts /\ Top(e).makes \in Accounts \cup {None} /\ Top(e).saved \in Worlds
           /\ Depth(e) \in 1..Depth(e) /\ Top(e) = e.frames[Depth(e)]
<1> DEFINE F == [at : Accounts, makes : Accounts \cup {None}, saved : Worlds]
<1>1. e.frames \in Seq(F) /\ Len(e.frames) > 0 /\ Depth(e) = Len(e.frames)
  BY DEF EvmType, Depth
<1>2. e.frames[Len(e.frames)] \in F
  <2> HIDE DEF F
  <2> QED BY <1>1, StackType
<1> QED BY <1>1, <1>2 DEF Top

\* EVMs that are alike show a program the same, where it looks at nothing but what they have
\* in common.
LEMMA SeenAlike ==
    ASSUME NEW e \in EvmType, NEW f \in EvmType, NEW op \in Ops,
           op.kind # "tx" => Depth(e) > 0,
           Similar(CodeKept, SlotKept, e, f), Covered(e, op)
    PROVE  Seen(e, op) = Seen(f, op)
<1>1. Depth(e) = Depth(f)
  BY DEF Similar
<1>2. CASE op.kind = "load"
  <2>1. Depth(e) \in 1..Depth(e) /\ Top(e) = e.frames[Depth(e)] /\ Top(f) = f.frames[Depth(f)]
    BY <1>2, TopType DEF Top
  <2>2. Top(e).at = Top(f).at
    BY <1>1, <2>1 DEF Similar
  <2>3. e.world.slot[Top(e).at] = f.world.slot[Top(e).at]
    BY <1>2 DEF Similar, Alike, Covered
  <2> QED BY <1>2, <2>2, <2>3 DEF Seen
<1>3. CASE op.kind \in {"tx", "call", "delegate", "probe"}
  BY <1>3 DEF Similar, Alike, Covered, Seen
<1>4. CASE op.kind = "create"
  <2>1. e.world.code[op.of] = f.world.code[op.of]
    BY <1>4 DEF Similar, Alike, Covered
  <2>2. \A d \in 1..Depth(e) : e.frames[d].makes = f.frames[d].makes
    BY DEF Similar
  <2>3. Taken(e, op.of) = Taken(f, op.of)
    BY <1>1, <2>1, <2>2 DEF Taken
  <2> QED BY <1>4, <2>3 DEF Seen
<1>5. CASE op.kind \in {"store", "return", "revert"}
  BY <1>5 DEF Seen
<1> QED BY <1>2, <1>3, <1>4, <1>5, OpCases


\* Like EVMs that enter like frames, or leave theirs for like worlds, are alike.
LEMMA SimilarPushPop ==
    ASSUME NEW K, NEW S, NEW e \in EvmType, NEW f \in EvmType, Similar(K, S, e, f)
    PROVE  /\ \A at, makes : Similar(K, S, Entered(e, Frame(at, makes, e.world)),
                                           Entered(f, Frame(at, makes, f.world)))
           /\ Depth(e) > 0 =>
                \A v, w : Alike(K, S, v, w) => Similar(K, S, Left(e, v), Left(f, w))
<1>1. Depth(e) \in Nat /\ Depth(f) = Depth(e) /\ Alike(K, S, e.world, f.world)
  BY DEF EvmType, Depth, Similar
<1> PICK D \in Nat : D = Depth(e) /\ D = Depth(f)
  BY <1>1
<1>2. \A d \in 1..D : /\ e.frames[d].at = f.frames[d].at
                      /\ e.frames[d].makes = f.frames[d].makes
                      /\ Alike(K, S, e.frames[d].saved, f.frames[d].saved)
  BY DEF Similar
<1>3. ASSUME NEW at, NEW makes
      PROVE  Similar(K, S, Entered(e, Frame(at, makes, e.world)), Entered(f, Frame(at, makes, f.world)))
  <2> PICK x : x = Frame(at, makes, e.world)
    OBVIOUS
  <2> PICK y : y = Frame(at, makes, f.world)
    OBVIOUS
  <2>1. x.at = y.at /\ x.makes = y.makes /\ Alike(K, S, x.saved, y.saved)
    BY <1>1 DEF Frame
  <2>2. /\ Entered(e, x).world = e.world /\ Depth(Entered(e, x)) = D + 1
        /\ Entered(e, x).frames[D + 1] = x
        /\ \A d \in 1..D : Entered(e, x).frames[d] = e.frames[d]
    <3>1. D = Depth(e)
      OBVIOUS
    <3> QED BY ONLY <3>1, e \in EvmType, EnteredLeft
  <2>3. /\ Entered(f, y).world = f.world /\ Depth(Entered(f, y)) = D + 1
        /\ Entered(f, y).frames[D + 1] = y
        /\ \A d \in 1..D : Entered(f, y).frames[d] = f.frames[d]
    BY EnteredLeft
  <2>4. \A d \in 1..D + 1 : d \in 1..D \/ d = D + 1
    OBVIOUS
  <2>5. Similar(K, S, Entered(e, x), Entered(f, y))
    BY <1>1, <1>2, <2>1, <2>2, <2>3, <2>4 DEF Similar
  <2> QED BY <2>5
<1>4. ASSUME D > 0, NEW v, NEW w, Alike(K, S, v, w)
      PROVE  Similar(K, S, Left(e, v), Left(f, w))
  <2>1. /\ Left(e, v).world = v /\ Depth(Left(e, v)) = D - 1
        /\ \A d \in 1..D - 1 : Left(e, v).frames[d] = e.frames[d]
    <3>1. D = Depth(e)
      OBVIOUS
    <3> QED BY ONLY <3>1, D > 0, e \in EvmType, EnteredLeft, <1>4
  <2>2. /\ Left(f, w).world = w /\ Depth(Left(f, w)) = D - 1
        /\ \A d \in 1..D - 1 : Left(f, w).frames[d] = f.frames[d]
    BY <1>4, EnteredLeft
  <2>3. \A d \in 1..D - 1 : d \in 1..D
    OBVIOUS
  <2> QED BY <1>2, <1>4, <2>1, <2>2, <2>3 DEF Similar
<1> QED BY <1>3, <1>4

\* Like EVMs to which an operation shows the same are alike after it.
LEMMA SimilarAfter ==
    ASSUME NEW K, NEW S, K \subseteq Accounts, S \subseteq Accounts,
           NEW e \in EvmType, NEW f \in EvmType, NEW op \in Ops,
           op.kind # "tx" => Depth(e) > 0,
           Similar(K, S, e, f), Seen(e, op) = Seen(f, op)
    PROVE  Similar(K, S, After(e, op), After(f, op))
<1>1. Depth(e) = Depth(f) /\ Alike(K, S, e.world, f.world)
  BY DEF Similar
<1>2. op.kind # "tx" =>
        /\ Top(e).at = Top(f).at /\ Top(e).at \in Accounts /\ Top(e).makes = Top(f).makes
        /\ Alike(K, S, Top(e).saved, Top(f).saved)
  BY <1>1, TopType DEF Similar
<1>3. CASE op.kind \in {"tx", "call"}
  <2>1. e.world.code[op.of] = f.world.code[op.of]
    BY <1>3 DEF Seen
  <2> QED BY <1>3, <2>1, AfterIs, SimilarPushPop
<1>4. CASE op.kind = "delegate"
  <2>1. e.world.code[op.of] = f.world.code[op.of]
    BY <1>4 DEF Seen
  <2> QED BY <1>2, <1>4, <2>1, AfterIs, SimilarPushPop
<1>5. CASE op.kind = "create"
  <2>1. Taken(e, op.of) = Taken(f, op.of)
    BY <1>5 DEF Seen
  <2> QED BY <1>5, <2>1, AfterIs, SimilarPushPop
<1>6. CASE op.kind \in {"load", "probe"}
  BY <1>6, AfterIs
<1>7. CASE op.kind = "store"
  <2> PICK a \in Accounts : a = Top(e).at
    BY <1>2, <1>7
  <2> PICK x : x = Stored(e, a, op.of)
    OBVIOUS
  <2> PICK y : y = Stored(f, a, op.of)
    OBVIOUS
  <2>1. After(e, op) = x /\ After(f, op) = y
    BY <1>2, <1>7, AfterIs
  <2>2. /\ x.frames = e.frames /\ x.world.code = e.world.code
        /\ \A b \in Accounts : x.world.slot[b] = IF b = a THEN op.of ELSE e.world.slot[b]
    BY StoreIs
  <2>3. /\ y.frames = f.frames /\ y.world.code = f.world.code
        /\ \A b \in Accounts : y.world.slot[b] = IF b = a THEN op.of ELSE f.world.slot[b]
    BY StoreIs
  <2>4. Alike(K, S, x.world, y.world)
    BY <1>1, <2>2, <2>3 DEF Alike
  <2> QED BY <2>1, <2>2, <2>3, <2>4 DEF Similar, Depth
<1>8. CASE op.kind = "revert"
  BY <1>2, <1>8, AfterIs, SimilarPushPop
<1>9. CASE op.kind = "return"
  <2>1. Alike(K, S, Made(e), Made(f))
    BY <1>1, <1>2, <1>9, MadeIs DEF Alike
  <2>2. After(e, op) = Left(e, Made(e)) /\ After(f, op) = Left(f, Made(f))
    BY <1>9, AfterIs
  <2> QED BY <1>9, <2>1, <2>2, SimilarPushPop
<1> QED BY <1>3, <1>4, <1>5, <1>6, <1>7, <1>8, <1>9, OpCases

\* Every operation leaves every frame on an account that is there or is being created, and so
\* would whatever reverts come next.
LEMMA FoundedAfter ==
    ASSUME NEW e \in EvmType, NEW op \in Ops, op.kind # "tx" => Depth(e) > 0, Founded(e)
    PROVE  Founded(After(e, op))
<1>1. Depth(e) \in Nat
  BY DEF EvmType, Depth
<1> PICK D \in Nat : D = Depth(e)
  BY <1>1
<1>2. \A m \in 0..D : \A d \in 1..m :
        WorldAt(e, m).code[e.frames[d].at] \/ \E k \in 1..m : e.frames[k].makes = e.frames[d].at
  BY DEF Founded
<1>3. ASSUME NEW at, NEW makes,
             e.world.code[at] \/ makes = at \/ \E k \in 1..D : e.frames[k].makes = at
      PROVE  Founded(Entered(e, Frame(at, makes, e.world)))
  <2> PICK x : x = Frame(at, makes, e.world)
    OBVIOUS
  <2> PICK g : g = Entered(e, x)
    OBVIOUS
  <2>1. x.at = at /\ x.makes = makes /\ x.saved = e.world
    BY DEF Frame
  <2>2. /\ g.world = e.world /\ Depth(g) = D + 1 /\ g.frames[D + 1] = x
        /\ \A d \in 1..D : g.frames[d] = e.frames[d]
    BY EnteredLeft
  <2>3. \A m \in 0..D : WorldAt(g, m) = WorldAt(e, m)
    <3> TAKE m \in 0..D
    <3>1. CASE m = D
      BY <2>1, <2>2, <3>1 DEF WorldAt
    <3>2. CASE m # D
      BY <2>2, <3>2 DEF WorldAt
    <3> QED BY <3>1, <3>2
  <2>4. WorldAt(g, D + 1) = e.world /\ WorldAt(e, D) = e.world
    BY <2>2 DEF WorldAt
  <2>5. ASSUME NEW m \in 0..D + 1, NEW d \in 1..m
        PROVE  WorldAt(g, m).code[g.frames[d].at] \/ \E k \in 1..m : g.frames[k].makes = g.frames[d].at
    <3>1. CASE m \in 0..D
      <4>1. d \in 1..D /\ \A k \in 1..m : k \in 1..D
        BY <3>1
      <4> QED BY <1>2, <2>2, <2>3, <3>1, <4>1
    <3>2. CASE m = D + 1 /\ d \in 1..D
      <4>1. e.world.code[e.frames[d].at] \/ \E k \in 1..D : e.frames[k].makes = e.frames[d].at
        BY <1>2, <2>4, <3>2
      <4>2. \A k \in 1..D : k \in 1..m
        BY <3>2
      <4> QED BY <2>2, <2>4, <3>2, <4>1, <4>2
    <3>3. CASE m = D + 1 /\ d = D + 1
      <4>1. \A k \in 1..D + 1 : k \in 1..m
        BY <3>3
      <4>2. D + 1 \in 1..D + 1 /\ \A k \in 1..D : k \in 1..D + 1
        OBVIOUS
      <4> QED BY <1>3, <2>1, <2>2, <2>4, <3>3, <4>1, <4>2
    <3> QED BY <3>1, <3>2, <3>3
  <2>6. Founded(g)
    BY <2>2, <2>5 DEF Founded
  <2> QED BY <2>6
<1>4. ASSUME D > 0, NEW w,
             \A d \in 1..D - 1 :
                w.code[e.frames[d].at] \/ \E k \in 1..D - 1 : e.frames[k].makes = e.frames[d].at
      PROVE  Founded(Left(e, w))
  <2> PICK g : g = Left(e, w)
    OBVIOUS
  <2>1. /\ g.world = w /\ Depth(g) = D - 1
        /\ \A d \in 1..D - 1 : g.frames[d] = e.frames[d]
    BY <1>4, EnteredLeft
  <2>2. ASSUME NEW m \in 0..D - 1, NEW d \in 1..m
        PROVE  WorldAt(g, m).code[g.frames[d].at] \/ \E k \in 1..m : g.frames[k].makes = g.frames[d].at
    <3>1. d \in 1..D - 1 /\ m \in 0..D /\ \A k \in 1..m : k \in 1..D - 1
      OBVIOUS
    <3>2. CASE m = D - 1
      <4>1. WorldAt(g, m) = w
        BY <2>1, <3>2 DEF WorldAt
      <4> QED BY <1>4, <2>1, <3>1, <3>2, <4>1
    <3>3. CASE m # D - 1
      <4>1. m + 1 \in 1..D - 1 /\ m # D
        BY <3>3
      <4>2. WorldAt(g, m) = WorldAt(e, m)
        BY <2>1, <3>3, <4>1 DEF WorldAt
      <4> QED BY <1>2, <2>1, <3>1, <4>2
    <3> QED BY <3>2, <3>3
  <2>3. Founded(g)
    BY <2>1, <2>2 DEF Founded
  <2> QED BY <2>3
<1>5. \A d \in 1..D : e.world.code[e.frames[d].at] \/ \E k \in 1..D : e.frames[k].makes = e.frames[d].at
  <2>1. WorldAt(e, D) = e.world /\ D \in 0..D
    BY DEF WorldAt
  <2> QED BY <1>2, <2>1
<1>6. op.kind # "tx" => D \in 1..D /\ D > 0 /\ Top(e) = e.frames[D]
  BY TopType
<1>7. CASE op.kind \in {"tx", "call"}
  BY <1>3, <1>7, AfterIs
<1>8. CASE op.kind = "delegate"
  BY <1>3, <1>5, <1>6, <1>8, AfterIs
<1>9. CASE op.kind = "create"
  BY <1>3, <1>9, AfterIs
<1>10. CASE op.kind \in {"load", "probe"}
  BY <1>10, AfterIs
<1>11. CASE op.kind = "store"
  <2> PICK g : g = After(e, op)
    OBVIOUS
  <2>1. g.frames = e.frames /\ g.world.code = e.world.code
    BY <1>11, AfterIs, StoreIs, TopType
  <2>2. Depth(g) = D
    BY <2>1 DEF Depth
  <2>3. \A m \in 0..D : WorldAt(g, m).code = WorldAt(e, m).code
    BY <2>1, <2>2 DEF WorldAt
  <2>4. Founded(g)
    BY <1>2, <2>1, <2>2, <2>3 DEF Founded
  <2> QED BY <2>4
<1>12. CASE op.kind = "revert"
  <2>1. D - 1 \in 0..D /\ WorldAt(e, D - 1) = Top(e).saved
    BY <1>6, <1>12 DEF WorldAt
  <2>2. \A d \in 1..D - 1 : Top(e).saved.code[e.frames[d].at]
                            \/ \E k \in 1..D - 1 : e.frames[k].makes = e.frames[d].at
    BY <1>2, <2>1
  <2> QED BY <1>4, <1>6, <1>12, <2>2, AfterIs
<1>13. CASE op.kind = "return"
  <2> PICK w : w = Made(e)
    OBVIOUS
  <2>1. \A a \in Accounts : w.code[a] = (e.world.code[a] \/ Top(e).makes = a)
    BY MadeIs
  <2>2. \A d \in 1..D : e.frames[d].at \in Accounts
    <3> DEFINE F == [at : Accounts, makes : Accounts \cup {None}, saved : Worlds]
    <3>1. e.frames \in Seq(F) /\ D = Len(e.frames)
      BY DEF EvmType, Depth
    <3>2. \A d \in 1..D : e.frames[d] \in F
      <4> HIDE DEF F
      <4> QED BY <3>1
    <3> QED BY <3>2
  <2>3. ASSUME NEW d \in 1..D - 1
        PROVE  w.code[e.frames[d].at] \/ \E k \in 1..D - 1 : e.frames[k].makes = e.frames[d].at
    <3>1. d \in 1..D
      OBVIOUS
    <3>2. CASE e.world.code[e.frames[d].at]
      BY <2>1, <2>2, <3>1, <3>2
    <3>3. CASE \E k \in 1..D : e.frames[k].makes = e.frames[d].at
      <4>1. PICK k \in 1..D : e.frames[k].makes = e.frames[d].at
        BY <3>3
      <4>2. CASE k = D
        BY <1>6, <1>13, <2>1, <2>2, <3>1, <4>1, <4>2
      <4>3. CASE k # D
        BY <4>1, <4>3
      <4> QED BY <4>2, <4>3
    <3> QED BY <1>5, <3>1, <3>2, <3>3
  <2>4. After(e, op) = Left(e, w)
    BY <1>13, AfterIs
  <2> QED BY <1>4, <1>6, <1>13, <2>3, <2>4
<1> QED BY <1>7, <1>8, <1>9, <1>10, <1>11, <1>12, <1>13, OpCases


\* The tracer names accounts, step by step.
LEMMA TracerKeeps ==
    ASSUME ContextInv, TracerInv, TrailInv, NEW op \in Ops, Forked(op)
    PROVE  TracerInv'
<1>1. /\ stage = "forked" /\ stage' = "forked" /\ CanDo(op) /\ cut' = cut /\ done' = done /\ agrees' = agrees
      /\ evm' = After(evm, op) /\ tracer' = Traced(op)
      /\ evm \in EvmType /\ tracer \in TracerType /\ Depth(evm) <= MaxDepth
  BY DEF Forked, ContextInv
<1>2. Depth(evm) \in Nat /\ MaxDepth \in Nat \ {0} /\ 1 \in 1..MaxDepth
  BY <1>1, LocalAssumption DEF EvmType, Depth
<1>3. Depth(evm) = 0 <=> op.kind = "tx"
  BY <1>1 DEF CanDo
<1> DEFINE Good(t) == /\ t \in TracerType
                      /\ t.slots \subseteq Accounts /\ t.reached \subseteq Accounts
                      /\ t.pending.depth \in 0..MaxDepth
                      /\ t.pending # NoPending => t.pending.depth > 0 /\ t.pending.target \in Accounts
<1>4. Good(tracer)
  BY <1>1 DEF TracerInv
<1>5. Good(Settled) /\ Settled.context[1] = tracer.context[1]
  <2>1. CASE tracer.pending # NoPending /\ Depth(evm) = tracer.pending.depth + 1
    <3>1. Depth(evm) \in 1..MaxDepth /\ Depth(evm) # 1
      BY <1>1, <1>2, <1>4, <2>1
    <3> PICK D \in 1..MaxDepth : D = Depth(evm)
      BY <3>1
    <3>2. Settled = [tracer EXCEPT !.context[D] = tracer.pending.target, !.pending = NoPending]
      BY <2>1 DEF Settled
    <3>3. /\ Settled \in TracerType /\ Settled.pending = NoPending
          /\ Settled.slots = tracer.slots /\ Settled.reached = tracer.reached
      BY <1>1, <1>4, <2>1, <3>2 DEF TracerType, NoPending
    <3>4. Settled.context[1] = tracer.context[1]
      BY <1>1, <1>2, <3>1, <3>2 DEF TracerType
    <3>5. NoPending.depth \in 0..MaxDepth
      BY <1>2 DEF NoPending
    <3> QED BY <1>4, <3>3, <3>4, <3>5
  <2>2. CASE ~(tracer.pending # NoPending /\ Depth(evm) = tracer.pending.depth + 1)
    BY <1>4, <2>2 DEF Settled
  <2> QED BY <2>1, <2>2
<1>6. ASSUME NEW t, Good(t), NEW a \in Accounts
      PROVE  Good(Reaching(t, a)) /\ Reaching(t, a).context = t.context
  <2>1. /\ Reaching(t, a) \in TracerType /\ Reaching(t, a).reached = t.reached \cup {a}
        /\ Reaching(t, a).slots = t.slots /\ Reaching(t, a).pending = t.pending
        /\ Reaching(t, a).context = t.context
    BY <1>6 DEF Reaching, TracerType
  <2> QED BY <1>6, <2>1
<1>7. ASSUME NEW t, Good(t), NEW a \in Accounts, Depth(evm) > 0
      PROVE  Good(Pending(t, a)) /\ Pending(t, a).context = t.context
  <2> PICK D \in 1..MaxDepth : D = Depth(evm)
    BY <1>1, <1>2, <1>7
  <2>1. Pending(t, a) = [t EXCEPT !.pending = [depth |-> D, target |-> a]]
    BY DEF Pending
  <2>2. /\ Pending(t, a) \in TracerType /\ Pending(t, a).context = t.context
        /\ Pending(t, a).slots = t.slots /\ Pending(t, a).reached = t.reached
        /\ Pending(t, a).pending = [depth |-> D, target |-> a]
    BY <1>7, <2>1 DEF TracerType
  <2> QED BY <1>7, <2>2
<1>8. op.kind # "tx" => Here(Settled) \in Accounts
  <2>1. op.kind # "tx" => Settled.context[1] \in Accounts
    BY <1>1, <1>2, <1>3, <1>5 DEF TracerInv
  <2>2. op.kind # "tx" => Depth(evm) \in 1..MaxDepth
    BY <1>1, <1>2, <1>3
  <2>3. Settled.context \in [1..MaxDepth -> Accounts \cup {None}]
    BY <1>5 DEF TracerType
  <2> QED BY <2>1, <2>2, <2>3 DEF Here
<1>9. Good(Traced(op)) /\ Traced(op).context[1] \in Accounts
  <2>1. op.kind # "tx" => Settled.context[1] \in Accounts /\ Depth(evm) > 0
    BY <1>1, <1>2, <1>3, <1>5 DEF TracerInv
  <2>2. CASE op.kind = "tx"
    <3> DEFINE new == [tracer EXCEPT !.context = [d \in 1..MaxDepth |-> IF d = 1 THEN op.of ELSE None],
                                     !.pending = NoPending]
    <3>1. op.of \in Accounts
      BY <2>2, OpCases
    <3>2. /\ new \in TracerType
          /\ new.context = [d \in 1..MaxDepth |-> IF d = 1 THEN op.of ELSE None]
          /\ new.pending = NoPending /\ new.slots = tracer.slots /\ new.reached = tracer.reached
      BY <1>1, <3>1 DEF TracerType, NoPending
    <3>3. Good(new) /\ new.context[1] \in Accounts
      <4>1. NoPending.depth \in 0..MaxDepth
        BY <1>2 DEF NoPending
      <4> HIDE DEF new
      <4> QED BY <1>2, <1>4, <3>1, <3>2, <4>1
    <3>4. Traced(op) = Reaching(new, op.of)
      BY <2>2 DEF Traced
    <3> HIDE DEF new, Good
    <3> QED BY <1>6, <3>1, <3>3, <3>4
  <2>3. CASE op.kind \in {"load", "store"}
    <3>1. Traced(op) = [Settled EXCEPT !.slots = @ \cup {Here(Settled)}]
      BY <2>3 DEF Traced
    <3> QED BY <1>5, <1>8, <2>1, <2>3, <3>1 DEF TracerType
  <2>4. CASE op.kind = "call"
    <3>1. Traced(op) = Pending(Reaching(Settled, op.of), op.of) /\ op.of \in Accounts
      BY <2>4, OpCases DEF Traced
    <3> PICK t : t = Reaching(Settled, op.of)
      OBVIOUS
    <3> HIDE DEF Good
    <3>2. Good(t) /\ t.context = Settled.context
      BY <1>5, <1>6, <3>1
    <3>3. Good(Pending(t, op.of)) /\ Pending(t, op.of).context = t.context
      BY <1>7, <2>1, <2>4, <3>1, <3>2
    <3> QED BY <1>5, <2>1, <2>4, <3>1, <3>2, <3>3
  <2>5. CASE op.kind = "probe"
    <3>1. Traced(op) = Reaching(Settled, op.of) /\ op.of \in Accounts
      BY <2>5, OpCases DEF Traced
    <3> HIDE DEF Good
    <3> QED BY <1>5, <1>6, <2>1, <2>5, <3>1
  <2>6. CASE op.kind = "delegate"
    <3>1. Traced(op) = Pending(Reaching(Settled, op.of), Here(Settled)) /\ op.of \in Accounts
      BY <2>6, OpCases DEF Traced
    <3> PICK t : t = Reaching(Settled, op.of)
      OBVIOUS
    <3> PICK a \in Accounts : a = Here(Settled)
      BY <1>8, <2>6
    <3> HIDE DEF Good
    <3>2. Good(t) /\ t.context = Settled.context
      BY <1>5, <1>6, <3>1
    <3>3. Good(Pending(t, a)) /\ Pending(t, a).context = t.context
      BY <1>7, <2>1, <2>6, <3>2
    <3> QED BY <1>5, <2>1, <2>6, <3>1, <3>2, <3>3
  <2>7. CASE op.kind \in {"create", "return", "revert"}
    <3>1. Traced(op) = Settled
      BY <2>7 DEF Traced
    <3> QED BY <1>5, <2>1, <2>7, <3>1
  <2> QED BY <2>2, <2>3, <2>4, <2>5, <2>6, <2>7, OpCases
<1>10. ASSUME ~Collisions, NEW d \in 1..Depth(evm'), evm'.frames[d].makes # None
       PROVE  ~cut.code[evm'.frames[d].makes]
  <2>1. Depth(evm) \in Nat
    BY <1>2
  <2> PICK D \in Nat : D = Depth(evm)
    BY <2>1
  <2>2. \A k \in 1..D : evm.frames[k].makes # None => ~cut.code[evm.frames[k].makes]
    BY <1>1, <1>10 DEF TracerInv
  <2>3. ASSUME NEW x, x.makes # None => ~cut.code[x.makes], evm' = Entered(evm, x)
        PROVE  ~cut.code[evm'.frames[d].makes]
    <3> PICK g : g = Entered(evm, x)
      OBVIOUS
    <3>1. Depth(g) = D + 1 /\ g.frames[D + 1] = x /\ \A k \in 1..D : g.frames[k] = evm.frames[k]
      BY <1>1, EnteredLeft
    <3>2. d \in 1..D \/ d = D + 1
      BY <2>3, <3>1
    <3> QED BY <1>10, <2>2, <2>3, <3>1, <3>2
  <2>4. CASE evm'.frames = evm.frames
    <3>1. d \in 1..D
      BY <2>4 DEF Depth
    <3> QED BY <1>10, <2>2, <2>4, <3>1
  <2>5. CASE op.kind \in {"tx", "call", "delegate"}
    <3>1. \E at : evm' \in {evm, Entered(evm, Frame(at, None, evm.world))}
      BY <1>1, <2>5, AfterIs
    <3>2. \A at : Frame(at, None, evm.world).makes = None
      BY DEF Frame
    <3> QED BY <2>3, <2>4, <3>1, <3>2
  <2>6. CASE op.kind = "create"
    <3>1. evm' \in {evm, Entered(evm, Frame(op.of, op.of, evm.world))}
      BY <1>1, <2>6, AfterIs
    <3>2. Frame(op.of, op.of, evm.world).makes = op.of /\ ~cut.code[op.of]
      BY <1>1, <1>10, <2>6 DEF Frame, CanDo
    <3> QED BY <2>3, <2>4, <3>1, <3>2
  <2>7. CASE op.kind \in {"load", "store", "probe"}
    <3>1. evm'.frames = evm.frames
      BY <1>1, <2>7, AfterFrames DEF EvmType
    <3> QED BY <2>4, <3>1
  <2>8. CASE op.kind \in {"return", "revert"}
    <3>1. \E w : evm' = Left(evm, w)
      BY <1>1, <2>8, AfterIs
    <3> PICK w : evm' = Left(evm, w)
      BY <3>1
    <3> PICK g : g = Left(evm, w)
      OBVIOUS
    <3>2. D > 0
      BY <1>2, <1>3, <2>8
    <3>3. Depth(g) = D - 1 /\ \A k \in 1..D - 1 : g.frames[k] = evm.frames[k]
      <4>1. D = Depth(evm)
        OBVIOUS
      <4> QED BY ONLY <4>1, <1>1, <3>2, EnteredLeft, g = Left(evm, w)
    <3>4. evm' = g
      OBVIOUS
    <3>5. d \in 1..D - 1 /\ d \in 1..D
      BY <3>3, <3>4
    <3> QED BY <1>10, <2>2, <3>3, <3>4, <3>5
  <2> QED BY <2>5, <2>6, <2>7, <2>8, OpCases
<1>11. \A e : Depth(e)' = Depth(e')
  BY DEF Depth
<1> QED BY <1>1, <1>9, <1>10, <1>11 DEF TracerInv


\* What is recorded stays recorded, and an operation records what it looks at.
LEMMA TracedRecords ==
    ASSUME ContextInv, stage = "forked", NEW op \in Ops, CanDo(op)
    PROVE  /\ tracer.slots \subseteq Traced(op).slots /\ tracer.reached \subseteq Traced(op).reached
           /\ op.kind \in {"tx", "call", "delegate", "probe"} => op.of \in Traced(op).reached
           /\ op.kind = "load" => Here(Settled) \in Traced(op).slots
<1>1. /\ tracer \in TracerType /\ Settled \in TracerType
      /\ Settled.slots = tracer.slots /\ Settled.reached = tracer.reached
  <2>1. tracer \in TracerType /\ Settled \in TracerType
    BY SettledKnows DEF ContextInv
  <2> QED BY <2>1 DEF Settled, TracerType
<1>2. ASSUME NEW t \in TracerType, NEW a
      PROVE  Reaching(t, a).slots = t.slots /\ Reaching(t, a).reached = t.reached \cup {a}
  BY DEF Reaching, TracerType
<1>3. \A t, a : Pending(t, a).slots = t.slots /\ Pending(t, a).reached = t.reached
  BY DEF Pending
<1>4. CASE op.kind = "tx"
  <2> DEFINE new == [tracer EXCEPT !.context = [d \in 1..MaxDepth |-> IF d = 1 THEN op.of ELSE None],
                                   !.pending = NoPending]
  <2>1. op.of \in Accounts
    BY <1>4, OpCases
  <2>2. new \in TracerType /\ new.slots = tracer.slots /\ new.reached = tracer.reached
    BY <1>1, <2>1 DEF TracerType, NoPending
  <2>3. Traced(op) = Reaching(new, op.of)
    BY <1>4 DEF Traced
  <2> HIDE DEF new
  <2> QED BY <1>2, <1>4, <2>2, <2>3
<1>5. CASE op.kind \in {"load", "store"}
  <2>1. Traced(op) = [Settled EXCEPT !.slots = @ \cup {Here(Settled)}]
    BY <1>5 DEF Traced
  <2>2. Traced(op).slots = Settled.slots \cup {Here(Settled)} /\ Traced(op).reached = Settled.reached
    BY <1>1, <2>1 DEF TracerType
  <2> QED BY <1>1, <1>5, <2>2
<1>6. CASE op.kind = "call"
  <2>1. Traced(op) = Pending(Reaching(Settled, op.of), op.of)
    BY <1>6 DEF Traced
  <2> QED BY <1>1, <1>2, <1>3, <1>6, <2>1
<1>7. CASE op.kind = "delegate"
  <2>1. Traced(op) = Pending(Reaching(Settled, op.of), Here(Settled))
    BY <1>7 DEF Traced
  <2> QED BY <1>1, <1>2, <1>3, <1>7, <2>1
<1>8. CASE op.kind = "probe"
  <2>1. Traced(op) = Reaching(Settled, op.of)
    BY <1>8 DEF Traced
  <2> QED BY <1>1, <1>2, <1>8, <2>1
<1>9. CASE op.kind \in {"create", "return", "revert"}
  BY <1>1, <1>9 DEF Traced
<1> QED BY <1>4, <1>5, <1>6, <1>7, <1>8, <1>9, OpCases

\* An operation of the forked run is one more step of its past, and looks at nothing that the
\* snapshot will not have.
LEMMA TrailForked ==
    ASSUME ContextInv, TracerInv, TrailInv, NEW op \in Ops, Forked(op)
    PROVE  TrailInv'
<1>1. /\ stage = "forked" /\ stage' = "forked" /\ CanDo(op) /\ cut' = cut /\ done' = done /\ agrees' = agrees
      /\ evm' = After(evm, op) /\ tracer' = Traced(op)
      /\ script' = Append(script, [op |-> op, saw |-> Seen(evm, op)])
      /\ evm \in EvmType /\ Founded(evm) /\ Depth(evm) <= MaxDepth /\ done = 0 /\ agrees
  BY DEF Forked, TrailInv, TracerInv
<1>2. Depth(evm) \in Nat /\ (Depth(evm) = 0 <=> op.kind = "tx") /\ MaxDepth \in Nat \ {0}
  BY <1>1, LocalAssumption DEF EvmType, Depth, CanDo
<1> PICK n \in Nat : n = Len(script)
  BY DEF TrailInv
<1> PICK p \in [0..n -> EvmType] : Follows(p)
  BY DEF TrailInv
<1> PICK e \in EvmType : e = evm
  BY <1>1
<1> PICK g : g = After(e, op)
  OBVIOUS
<1>3. /\ g \in EvmType /\ Founded(g) /\ Depth(g) \in Nat
      /\ Depth(g) <= MaxDepth
  <2>1. op.kind \in {"call", "delegate", "create"} => Depth(e) < MaxDepth
    BY <1>1 DEF CanDo
  <2>2. g \in EvmType
    BY <1>1, <1>2, AfterType
  <2>3. Founded(g)
    BY <1>1, <1>2, FoundedAfter
  <2>4. Depth(g) \in Nat /\ Depth(g) <= Depth(e) + 1
        /\ (op.kind \notin {"tx", "call", "delegate", "create"} => Depth(g) <= Depth(e))
    BY <1>1, <1>2, AfterDepth
  <2> QED BY <1>1, <1>2, <2>1, <2>2, <2>3, <2>4
<1> PICK q : q = [k \in 0..n + 1 |-> IF k = n + 1 THEN g ELSE p[k]]
  OBVIOUS
<1>4. /\ q \in [0..n + 1 -> EvmType]
      /\ q[n + 1] = g /\ \A k \in 0..n : q[k] = p[k]
  BY <1>3
<1>5. evm' = g
  BY <1>1
<1>7. /\ Len(script') = n + 1
      /\ \A k \in 1..n : script'[k] = script[k]
      /\ script'[n + 1] = [op |-> op, saw |-> Seen(e, op)]
  BY <1>1
<1>8. e = p[n] /\ p[0] = [world |-> cut, frames |-> <<>>]
  BY <1>1 DEF Follows
<1>9. CodeKept \subseteq CodeKept' /\ SlotKept \subseteq SlotKept'
  BY <1>1, TracedRecords DEF CodeKept, SlotKept
<1> DEFINE CoveredThen(x, o) ==
      /\ o.kind \in {"tx", "call", "delegate", "probe", "create"} => o.of \in CodeKept'
      /\ o.kind = "load" => Top(x).at \in SlotKept'
<1>10. ~Collisions => CoveredThen(e, op)
  <2>1. op.kind \in {"tx", "call", "delegate", "probe"} => op.of \in CodeKept'
    BY <1>1, TracedRecords DEF CodeKept
  <2>2. ~Collisions /\ op.kind = "create" => op.of \in CodeKept'
    BY <1>1, OpCases DEF CanDo, CodeKept
  <2>3. ASSUME ~Collisions, op.kind = "load" PROVE Top(e).at \in SlotKept'
    <3>1. Depth(e) > 0
      BY <1>2, <2>3
    <3>2. Depth(e) \in 1..Depth(e) /\ Top(e) = e.frames[Depth(e)] /\ Top(e).at \in Accounts
      BY <3>1, TopType
    <3>3. CASE InCreation(Depth(evm))
      <4>1. PICK k \in 1..Depth(evm) : evm.frames[k].makes = Top(e).at
        BY <3>2, <3>3 DEF InCreation
      <4>2. ~cut.code[Top(e).at]
        BY <1>1, <2>3, <3>2, <4>1, LocalAssumption DEF TracerInv
      <4> QED BY <1>1, <3>2, <4>2 DEF SlotKept
    <3>4. CASE Settled.context[Depth(evm)] = Top(e).at
      <4>1. Here(Settled) = Top(e).at
        BY <3>2, <3>4, LocalAssumption DEF Here
      <4> QED BY <1>1, <2>3, <4>1, TracedRecords DEF SlotKept
    <3> QED BY <1>1, <3>2, <3>3, <3>4, SettledKnows
  <2> QED BY <2>1, <2>2, <2>3
<1>11. ASSUME NEW k \in 1..n + 1
       PROVE  /\ script'[k].op \in Ops
              /\ Depth(q[k - 1]) = 0 <=> script'[k].op.kind = "tx"
              /\ script'[k].op.kind \in {"call", "delegate", "create"} => Depth(q[k - 1]) < MaxDepth
              /\ ~Collisions => CoveredThen(q[k - 1], script'[k].op)
              /\ script'[k].saw = Seen(q[k - 1], script'[k].op)
              /\ q[k] = After(q[k - 1], script'[k].op)
  <2>1. CASE k \in 1..n
    <3> PICK o : o = script[k].op
      OBVIOUS
    <3> PICK x : x = p[k - 1]
      OBVIOUS
    <3>1. /\ q[k - 1] = x /\ q[k] = p[k] /\ script'[k] = script[k]
      BY <1>4, <1>7, <2>1
    <3>2. /\ o \in Ops
          /\ Depth(x) = 0 <=> o.kind = "tx"
          /\ o.kind \in {"call", "delegate", "create"} => Depth(x) < MaxDepth
          /\ ~Collisions => Covered(x, o)
          /\ script[k].saw = Seen(x, o)
          /\ p[k] = After(x, o)
      BY <2>1 DEF Follows
    <3>3. Covered(x, o) => CoveredThen(x, o)
      BY <1>9 DEF Covered
    <3> HIDE DEF CoveredThen
    <3> QED BY <3>1, <3>2, <3>3
  <2>2. CASE k = n + 1
    <3>1. q[k - 1] = e /\ q[k] = g /\ script'[k].op = op /\ script'[k].saw = Seen(e, op)
      BY <1>4, <1>7, <1>8, <2>2
    <3>2. op.kind \in {"call", "delegate", "create"} => Depth(e) < MaxDepth
      BY <1>1 DEF CanDo
    <3> HIDE DEF CoveredThen
    <3> QED BY <1>2, <1>10, <3>1, <3>2
  <2> QED BY <2>1, <2>2
<1>12. Follows(q)'
  <2>1. q[0] = [world |-> cut', frames |-> <<>>]
    BY <1>1, <1>4, <1>8
  <2>2. \A k \in 1..Len(script') : ~Collisions => Covered(q[k - 1], script[k].op)'
    BY <1>7, <1>11 DEF Covered
  <2>3. \A k \in 1..Len(script') :
          /\ script'[k].op \in Ops
          /\ Depth(q[k - 1]) = 0 <=> script'[k].op.kind = "tx"
          /\ script'[k].op.kind \in {"call", "delegate", "create"} => Depth(q[k - 1]) < MaxDepth
          /\ script'[k].saw = Seen(q[k - 1], script'[k].op)
          /\ q[k] = After(q[k - 1], script'[k].op)
    BY <1>7, <1>11
  <2>4. evm' = q[Len(script')]
    BY <1>4, <1>5, <1>7
  <2> QED BY <1>1, <2>1, <2>2, <2>3, <2>4 DEF Follows
<1>13. Founded(g) = Founded(evm)' /\ Depth(evm)' = Depth(g)
  BY <1>5 DEF Founded, WorldAt, Depth
<1> QED BY <1>1, <1>3, <1>4, <1>5, <1>7, <1>12, <1>13 DEF TrailInv


\* The snapshot is like the world it was taken of, in everything that was looked at.
LEMMA TrailSnapshot ==
    ASSUME TracerInv, TrailInv, Snapshot
    PROVE  TrailInv'
<1>1. /\ stage = "forked" /\ stage' = "offline" /\ cut' = cut /\ tracer' = tracer /\ script' = script
      /\ done' = done /\ agrees' = agrees /\ done = 0 /\ agrees
      /\ evm' = [world |-> FromSnapshot, frames |-> <<>>]
  BY DEF Snapshot, TracerInv
<1>2. cut \in Worlds /\ \A a \in Accounts : cut.slot[a] # 0 => cut.code[a]
  BY LocalAssumption DEF TrailInv
<1>3. /\ tracer.slots \subseteq Accounts /\ tracer.reached \subseteq Accounts
      /\ \A a \in Accounts : cut.slot[a] \in 0..1 /\ cut.code[a] \in BOOLEAN
  BY <1>2 DEF TracerInv, Worlds
<1>4. FromSnapshot \in Worlds
  BY <1>3 DEF FromSnapshot, SnapshotAt, Worlds
<1>5. Alike(CodeKept, SlotKept, cut, FromSnapshot)
  <2>1. ASSUME NEW a \in CodeKept PROVE cut.code[a] = FromSnapshot.code[a]
    <3>1. a \in Accounts /\ (a \in tracer.reached \/ ~cut.code[a])
      BY <1>3 DEF CodeKept
    <3> QED BY <1>3, <3>1 DEF FromSnapshot, SnapshotAt
  <2>2. ASSUME NEW a \in SlotKept PROVE cut.slot[a] = FromSnapshot.slot[a]
    <3>1. a \in Accounts /\ (a \in tracer.slots \/ ~cut.code[a])
      BY <1>3 DEF SlotKept
    <3>2. FromSnapshot.slot[a] = IF a \in tracer.slots THEN cut.slot[a] ELSE 0
      BY <3>1 DEF FromSnapshot, SnapshotAt
    <3> QED BY <1>2, <3>1, <3>2
  <2> QED BY <2>1, <2>2 DEF Alike
<1> PICK p \in [0..Len(script) -> EvmType] : Follows(p)
  BY DEF TrailInv
<1>6. evm' \in EvmType /\ Depth(evm') = 0 /\ Depth(p[0]) = 0 /\ p[0].world = cut
  BY <1>1, <1>4 DEF EvmType, Depth, Follows
<1>7. Similar(CodeKept, SlotKept, p[0], evm')
  BY <1>1, <1>5, <1>6 DEF Similar
<1>8. Founded(evm)' /\ Depth(evm)' = 0
  <2>1. Depth(evm)' = 0
    BY <1>6 DEF Depth
  <2> QED BY <2>1 DEF Founded
<1>9. Follows(p)'
  <2>1. CodeKept' = CodeKept /\ SlotKept' = SlotKept
    BY <1>1 DEF CodeKept, SlotKept
  <2>2. \A e, o : Covered(e, o)' = Covered(e, o)
    BY <2>1 DEF Covered
  <2>3. Similar(CodeKept, SlotKept, p[done], evm)'
    <3>1. Similar(CodeKept', SlotKept', p[done'], evm')
      BY <1>1, <1>7, <2>1
    <3> QED BY <3>1 DEF Similar, Alike, Depth
  <2> QED BY <1>1, <2>2, <2>3 DEF Follows
<1> QED BY <1>1, <1>6, <1>8, <1>9, LocalAssumption DEF TrailInv

\* An operation of the offline run shows what it showed in the forked one, if it looks at
\* nothing the snapshot does not have; and while they agree the EVMs stay alike.
LEMMA TrailOffline ==
    ASSUME TracerInv, TrailInv, Offline
    PROVE  TrailInv'
<1> PICK n \in Nat : n = Len(script)
  BY DEF TrailInv
<1>1. /\ stage = "offline" /\ stage' = "offline" /\ agrees /\ done \in 0..n /\ done < n
      /\ cut' = cut /\ tracer' = tracer /\ script' = script /\ done' = done + 1
      /\ agrees' = (Seen(evm, script[done + 1].op) = script[done + 1].saw)
      /\ evm' = After(evm, script[done + 1].op)
      /\ evm \in EvmType /\ Founded(evm) /\ Depth(evm) <= MaxDepth
  BY DEF Offline, TrailInv
<1> PICK k \in 0..n - 1 : k = done
  BY <1>1
<1> PICK p \in [0..n -> EvmType] : Follows(p)
  BY DEF TrailInv
<1> PICK e \in EvmType : e = p[k]
  OBVIOUS
<1> PICK f \in EvmType : f = evm
  BY <1>1
<1> PICK op : op = script[k + 1].op
  OBVIOUS
<1>2. k + 1 \in 1..n /\ k + 1 - 1 = k
  OBVIOUS
<1>3. /\ op \in Ops /\ (Depth(e) = 0 <=> op.kind = "tx")
      /\ op.kind \in {"call", "delegate", "create"} => Depth(e) < MaxDepth
      /\ ~Collisions => Covered(e, op)
      /\ script[k + 1].saw = Seen(e, op)
      /\ p[k + 1] = After(e, op)
  BY <1>2 DEF Follows
<1>4. Similar(CodeKept, SlotKept, e, f) /\ Depth(f) = Depth(e) /\ Depth(e) \in Nat /\ MaxDepth \in Nat \ {0}
  BY <1>1, LocalAssumption DEF Follows, Similar, EvmType, Depth
<1> PICK g : g = After(f, op)
  OBVIOUS
<1>5. evm' = g /\ agrees' = (Seen(f, op) = Seen(e, op))
  BY <1>1, <1>3
<1>6. ~Collisions => Seen(e, op) = Seen(f, op)
  BY <1>3, <1>4, SeenAlike
<1>7. CodeKept \subseteq Accounts /\ SlotKept \subseteq Accounts
  BY DEF TracerInv, CodeKept, SlotKept
<1>8. Seen(e, op) = Seen(f, op) => Similar(CodeKept, SlotKept, After(e, op), g)
  BY <1>3, <1>4, <1>7, SimilarAfter
<1>9. g \in EvmType /\ Founded(g)
  BY <1>1, <1>3, <1>4, AfterType, FoundedAfter
<1>10. Depth(g) \in Nat /\ Depth(g) <= MaxDepth
  <2>1. Depth(g) \in Nat /\ Depth(g) <= Depth(f) + 1
        /\ (op.kind \notin {"tx", "call", "delegate", "create"} => Depth(g) <= Depth(f))
    BY <1>3, <1>4, AfterDepth
  <2> QED BY <1>1, <1>3, <1>4, <2>1
<1>11. Follows(p)'
  <2>1. CodeKept' = CodeKept /\ SlotKept' = SlotKept
    BY <1>1 DEF CodeKept, SlotKept
  <2>2. \A x, o : Covered(x, o)' = Covered(x, o)
    BY <2>1 DEF Covered
  <2>3. agrees' => Similar(CodeKept, SlotKept, p[done], evm)'
    <3>1. agrees' => Similar(CodeKept', SlotKept', p[done'], evm')
      BY <1>1, <1>3, <1>5, <1>8, <2>1
    <3> QED BY <3>1 DEF Similar, Alike, Depth
  <2> QED BY <1>1, <2>2, <2>3 DEF Follows
<1>12. Founded(evm)' /\ Depth(evm)' = Depth(g)
  <2>1. Founded(g) = Founded(evm)' /\ Depth(evm)' = Depth(g)
    BY <1>5 DEF Founded, WorldAt, Depth
  <2> QED BY <1>9, <2>1
<1>13. done' \in 0..n
  BY <1>1, <1>2
<1>14. agrees' \in BOOLEAN /\ (~Collisions => agrees')
  BY <1>5, <1>6
<1>15. stage' \in {"forked", "offline", "over"} /\ cut' \in Nodes /\ stage' # "over"
  BY <1>1 DEF TrailInv
<1> QED BY <1>1, <1>5, <1>9, <1>10, <1>11, <1>12, <1>13, <1>14, <1>15 DEF TrailInv

\* What holds of every run: the invariant of the trace, and the past that the offline run is in
\* step with.
RunsInv == ContextInv /\ TracerInv /\ TrailInv

LEMMA RunsCorrect == Spec => []RunsInv
<1>1. Init => RunsInv
  <2> SUFFICES ASSUME Init PROVE RunsInv
    OBVIOUS
  <2>1. /\ cut \in Worlds /\ cut \in Nodes /\ evm = [world |-> cut, frames |-> <<>>]
        /\ tracer.pending = NoPending /\ script = <<>> /\ done = 0 /\ stage = "forked" /\ agrees
        /\ agrees \in BOOLEAN /\ MaxDepth \in Nat
    BY LocalAssumption DEF Init
  <2>2. Depth(evm) = 0 /\ Len(script) = 0
    BY <2>1 DEF Depth
  <2>3. evm \in EvmType
    BY <2>1 DEF EvmType
  <2>4. tracer \in TracerType /\ tracer.slots = {} /\ tracer.reached = {} /\ tracer.pending.depth = 0
    BY <2>1 DEF Init, TracerType, NoPending
  <2>5. ContextInv
    BY <2>1, <2>2, <2>3, <2>4 DEF ContextInv, ContextIsKnown
  <2>6. TracerInv
    BY <2>1, <2>2, <2>4 DEF TracerInv
  <2>7. TrailInv
    <3> PICK q : q = [k \in 0..0 |-> evm]
      OBVIOUS
    <3>1. q \in [0..0 -> EvmType] /\ q[0] = evm
      BY <2>3
    <3>2. Follows(q)
      BY <2>1, <2>2, <3>1 DEF Follows
    <3>3. Founded(evm)
      BY <2>2 DEF Founded
    <3>4. q \in [0..Len(script) -> EvmType]
      BY <2>2, <3>1
    <3> QED BY <2>1, <2>2, <2>3, <3>2, <3>3, <3>4 DEF TrailInv
  <2> QED BY <2>5, <2>6, <2>7 DEF RunsInv
<1>2. RunsInv /\ [Next]_vars => RunsInv'
  <2> SUFFICES ASSUME RunsInv, [Next]_vars PROVE RunsInv'
    OBVIOUS
  <2>1. CASE \E op \in Ops : Forked(op)
    BY <2>1, ForkedKeeps, TracerKeeps, TrailForked DEF RunsInv
  <2>2. CASE Snapshot
    <3>1. ContextInv'
      BY <2>2 DEF Snapshot, ContextInv
    <3>2. TracerInv'
      BY <2>2 DEF Snapshot, TracerInv, RunsInv, NoPending
    <3> QED BY <2>2, <3>1, <3>2, TrailSnapshot DEF RunsInv
  <2>3. CASE Offline
    <3>1. ContextInv'
      BY <2>3 DEF Offline, ContextInv
    <3>2. TracerInv'
      BY <2>3 DEF Offline, TracerInv, RunsInv, NoPending
    <3> QED BY <2>3, <3>1, <3>2, TrailOffline DEF RunsInv
  <2>4. CASE Report
    <3>1. ContextInv'
      BY <2>4 DEF Report, ContextInv
    <3>2. TracerInv'
      BY <2>4 DEF Report, TracerInv, RunsInv, NoPending
    <3>3. /\ UNCHANGED <<cut, evm, tracer, script, done, agrees>>
          /\ stage = "offline" /\ stage' = "over" /\ (agrees => done = Len(script))
      BY <2>4 DEF Report
    <3>4. \A p : Follows(p) => Follows(p)'
      BY <3>3 DEF Follows, Covered, CodeKept, SlotKept, Similar, Alike, Depth
    <3>5. Founded(evm)' = Founded(evm) /\ Depth(evm)' = Depth(evm)
      BY <3>3 DEF Founded, WorldAt, Depth
    <3>6. TrailInv'
      BY <3>3, <3>4, <3>5 DEF TrailInv, RunsInv
    <3> QED BY <3>1, <3>2, <3>6 DEF RunsInv
  <2>5. CASE UNCHANGED vars
    <3>1. UNCHANGED <<stage, cut, evm, tracer, script, done, agrees>>
      BY <2>5 DEF vars
    <3>2. ContextInv'
      BY <3>1 DEF RunsInv, ContextInv, ContextIsKnown, InCreation, Known, Depth, EvmType, TracerType
    <3>3. TracerInv'
      BY <3>1 DEF RunsInv, TracerInv, NoPending, Depth
    <3>4. TrailInv'
      BY <3>1 DEF RunsInv, TrailInv, Follows, Covered, CodeKept, SlotKept, Similar, Alike, Depth, Founded, WorldAt
    <3> QED BY <3>2, <3>3, <3>4 DEF RunsInv
  <2> QED BY <2>1, <2>2, <2>3, <2>4, <2>5 DEF Next
<1> QED BY <1>1, <1>2, PTL DEF Spec

\* For any accounts, programs and depth: every frame of either run is on an account that is
\* there or is being created, also where the runs have come apart, the trace names accounts
\* only, and the report is of the whole script unless they differ.
THEOREM TypeOKCorrect == Spec => []TypeOK
<1>1. RunsInv => TypeOK
  <2> SUFFICES ASSUME RunsInv PROVE TypeOK
    OBVIOUS
  <2>1. \A d \in 1..Depth(evm) : Taken(evm, evm.frames[d].at)
    <3>1. Depth(evm) \in Nat
      BY DEF RunsInv, TrailInv, EvmType, Depth
    <3>2. Depth(evm) \in 0..Depth(evm) /\ WorldAt(evm, Depth(evm)) = evm.world
      BY <3>1 DEF WorldAt
    <3> QED BY <3>2 DEF RunsInv, TrailInv, Founded, Taken
  <2>2. evm.world \in Worlds
    BY DEF RunsInv, TrailInv, EvmType
  <2> QED BY <2>1, <2>2 DEF RunsInv, TrailInv, TracerInv, TypeOK
<1> QED BY <1>1, RunsCorrect, PTL

\* As long as no program creates an account that is there already, the opcode trace of one run
\* records everything the next one needs: each of its operations shows what it showed the first
\* time, after whatever was reverted or written between (execute.py:9-17, 145-212).
THEOREM OfflineCorrect == ASSUME ~Collisions PROVE Spec => []OfflineAgrees
<1>1. RunsInv => OfflineAgrees
  BY DEF RunsInv, TrailInv, OfflineAgrees
<1> QED BY <1>1, RunsCorrect, PTL

=============================================================================
