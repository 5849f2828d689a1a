--------------------------- MODULE LocalExecution ---------------------------
(***************************************************************************)
(* `examples/local_execution/execute.py`: blocks are executed in an EVM    *)
(* forked from a node at the block before the first one, while the opcode  *)
(* trace tells which accounts and slots they touch (`traced`); those are   *)
(* read from a fresh fork at that same block (`snapshot_at`), and a new    *)
(* EVM that holds nothing else executes the blocks again (`run_blocks`).   *)
(*                                                                         *)
(* What a program does is left open: any sequence of operations.  It goes  *)
(* by what it reads, so the second run takes the same operations for as    *)
(* long as each of them sees what it saw in the first.  An account is its  *)
(* code, or that it has none, and one slot.                                *)
(***************************************************************************)
EXTENDS Integers, Sequences, FiniteSets

CONSTANTS
    Accounts,
    Nodes,       \* the states the node may be in after the cut block
    Collisions,  \* whether a program may create an account that is there at the cut
    None,
    MaxOps,      \* bounds the operations of a run
    MaxDepth     \* bounds the calls within calls

Worlds == [code : [Accounts -> BOOLEAN], slot : [Accounts -> 0..1]]

ASSUME LocalAssumption ==
    /\ Nodes \subseteq Worlds
    /\ \A w \in Nodes : \A a \in Accounts : w.slot[a] # 0 => w.code[a]
    /\ Collisions \in BOOLEAN
    /\ None \notin Accounts
    /\ MaxOps \in Nat
    /\ MaxDepth \in Nat \ {0}

VARIABLES
    stage,    \* "forked", "offline", "over"
    cut,      \* the node's state after the cut block
    evm,      \* the EVM at work: world, frames
    tracer,   \* traced(): context, pending; and reads, of all transactions: slots, reached
    script,   \* the operations of the forked run, and what each of them saw
    done,     \* how many of them the offline run has repeated
    agrees    \* whether each saw the same

vars == <<stage, cut, evm, tracer, script, done, agrees>>

Op(kind, of) == [kind |-> kind, of |-> of]

\* A store's operand is the value, a transaction's the account it is sent to.
Ops == {Op(kind, a) : kind \in {"tx", "call", "delegate", "create", "probe"}, a \in Accounts}
       \cup {Op("store", v) : v \in 0..1}
       \cup {Op(kind, None) : kind \in {"load", "return", "revert"}}

-----------------------------------------------------------------------------
(* The EVM                                                                 *)

\* A frame runs on the storage of `at`; `makes` is the account it creates, if it does, and
\* `saved` what a revert goes back to.
Frame(at, makes, saved) == [at |-> at, makes |-> makes, saved |-> saved]

Depth(e) == Len(e.frames)
Top(e) == e.frames[Depth(e)]

\* There is an account, or there is going to be one.
Taken(e, a) == e.world.code[a] \/ \E d \in 1..Depth(e) : e.frames[d].makes = a

\* What an operation tells the program.
Seen(e, op) ==
    CASE op.kind = "load" -> e.world.slot[Top(e).at]
      [] op.kind \in {"tx", "call", "delegate", "probe"} -> e.world.code[op.of]
      [] op.kind = "create" -> Taken(e, op.of)
      [] op.kind \in {"store", "return", "revert"} -> None

Entered(e, frame) == [e EXCEPT !.frames = Append(e.frames, frame)]

Left(e, world) == [world |-> world, frames |-> SubSeq(e.frames, 1, Depth(e) - 1)]

\* What it does: an account without code is called and nothing runs.
After(e, op) ==
    LET w == e.world
    IN  CASE op.kind \in {"tx", "call"} /\ w.code[op.of] -> Entered(e, Frame(op.of, None, w))
          [] op.kind = "delegate" /\ w.code[op.of] -> Entered(e, Frame(Top(e).at, None, w))
          [] op.kind = "create" /\ ~Taken(e, op.of) -> Entered(e, Frame(op.of, op.of, w))
          [] op.kind = "store" -> [e EXCEPT !.world.slot[Top(e).at] = op.of]
          [] op.kind = "revert" -> Left(e, Top(e).saved)
          [] op.kind = "return" ->
                Left(e, [w EXCEPT !.code = [a \in Accounts |-> w.code[a] \/ Top(e).makes = a]])
          [] OTHER -> e

\* A transaction starts when none is running, and everything else is of a running one.
CanDo(op) ==
    /\ Depth(evm) = 0 <=> op.kind = "tx"
    /\ op.kind \in {"call", "delegate", "create"} => Depth(evm) < MaxDepth
    /\ op.kind = "create" => Collisions \/ ~cut.code[op.of]

-----------------------------------------------------------------------------
(* The tracer                                                              *)

NoPending == [depth |-> 0, target |-> None]

\* The step that shows a deeper frame settles whose storage it runs on.
Settled ==
    IF tracer.pending # NoPending /\ Depth(evm) = tracer.pending.depth + 1
    THEN [tracer EXCEPT !.context[Depth(evm)] = tracer.pending.target, !.pending = NoPending]
    ELSE tracer

\* Mutant of Here: context.get(depth).
Here_NoDefault(t) == t.context[Depth(evm)]

\* context.get(depth, tx.to)
Here(t) == IF t.context[Depth(evm)] = None THEN t.context[1] ELSE t.context[Depth(evm)]

Reaching(t, a) == [t EXCEPT !.reached = @ \cup {a}]

Pending(t, a) == [t EXCEPT !.pending = [depth |-> Depth(evm), target |-> a]]

\* Mutant of Traced: a delegate call is taken for a call.
Traced_Delegate(op) ==
    CASE op.kind = "tx" ->
            Reaching([tracer EXCEPT !.context = [d \in 1..MaxDepth |-> IF d = 1 THEN op.of ELSE None],
                                    !.pending = NoPending], op.of)
      [] op.kind \in {"load", "store"} -> [Settled EXCEPT !.slots = @ \cup {Here(Settled)}]
      [] op.kind \in {"call", "delegate"} -> Pending(Reaching(Settled, op.of), op.of)
      [] op.kind = "probe" -> Reaching(Settled, op.of)
      [] op.kind \in {"create", "return", "revert"} -> Settled

\* A creation is not looked at: its init code runs on whatever the depth ran on last.
Traced(op) ==
    CASE op.kind = "tx" ->
            Reaching([tracer EXCEPT !.context = [d \in 1..MaxDepth |-> IF d = 1 THEN op.of ELSE None],
                                    !.pending = NoPending], op.of)
      [] op.kind \in {"load", "store"} -> [Settled EXCEPT !.slots = @ \cup {Here(Settled)}]
      [] op.kind = "call" -> Pending(Reaching(Settled, op.of), op.of)
      [] op.kind = "probe" -> Reaching(Settled, op.of)
      [] op.kind = "delegate" -> Pending(Reaching(Settled, op.of), Here(Settled))
      [] op.kind \in {"create", "return", "revert"} -> Settled

-----------------------------------------------------------------------------
(* The two runs                                                            *)

Init ==
    /\ stage = "forked"
    /\ cut \in Nodes
    /\ evm = [world |-> cut, frames |-> <<>>]
    /\ tracer = [context |-> [d \in 1..MaxDepth |-> None], pending |-> NoPending,
                 slots |-> {}, reached |-> {}]
    /\ script = <<>>
    /\ done = 0
    /\ agrees = TRUE

Forked(op) ==
    /\ stage = "forked" /\ Len(script) < MaxOps
    /\ CanDo(op)
    /\ evm' = After(evm, op)
    /\ tracer' = Traced(op)
    /\ script' = Append(script, [op |-> op, saw |-> Seen(evm, op)])
    /\ UNCHANGED <<stage, cut, done, agrees>>

\* Mutant of SnapshotAt: read from the fork that the blocks ran on.
SnapshotAt_Same == evm.world

\* A fresh fork, not the one the blocks ran on.
SnapshotAt == cut

\* evm_from_snapshot: what was not recorded is not there.
FromSnapshot ==
    LET accounts == tracer.reached \cup tracer.slots
    IN  [code |-> [a \in Accounts |-> a \in accounts /\ SnapshotAt.code[a]],
         slot |-> [a \in Accounts |-> IF a \in tracer.slots THEN SnapshotAt.slot[a] ELSE 0]]

Snapshot ==
    /\ stage = "forked" /\ Depth(evm) = 0
    /\ stage' = "offline"
    /\ evm' = [world |-> FromSnapshot, frames |-> <<>>]
    /\ UNCHANGED <<cut, tracer, script, done, agrees>>

Offline ==
    /\ stage = "offline" /\ agrees /\ done < Len(script)
    /\ LET step == script[done + 1]
       IN  /\ agrees' = (Seen(evm, step.op) = step.saw)
           /\ evm' = After(evm, step.op)
    /\ done' = done + 1
    /\ UNCHANGED <<stage, cut, tracer, script>>

Report ==
    /\ stage = "offline" /\ (done = Len(script) \/ ~agrees)
    /\ stage' = "over"
    /\ UNCHANGED <<cut, evm, tracer, script, done, agrees>>

Next == (\E op \in Ops : Forked(op)) \/ Snapshot \/ Offline \/ Report

Spec == Init /\ [][Next]_vars

-----------------------------------------------------------------------------
(* Properties                                                              *)

\* A frame runs on the storage of an account that is there or is being created, a depth is
\* the tracer's whenever there is a frame for it, and the runs are in step.
TypeOK ==
    /\ stage \in {"forked", "offline", "over"}
    /\ evm.world \in Worlds
    /\ \A d \in 1..Depth(evm) : Taken(evm, evm.frames[d].at)
    /\ Depth(evm) <= MaxDepth
    /\ tracer.pending.depth \in 0..MaxDepth
    /\ tracer.slots \cup tracer.reached \subseteq Accounts
    /\ done <= Len(script) /\ (stage = "over" /\ agrees => done = Len(script))

\* Whose storage the tracer takes the frame at depth d for.
Known(d) ==
    CASE tracer.pending # NoPending /\ Depth(evm) = d /\ d = tracer.pending.depth + 1 ->
            tracer.pending.target
      [] OTHER -> tracer.context[d]

\* The account is being created by a frame no deeper than d.
InCreation(d) == \E k \in 1..d : evm.frames[k].makes = evm.frames[d].at

\* By call depth alone the trace tells whose storage every frame runs on, after whatever calls,
\* returns, reverts and calls that ran nothing, but inside an account that is being created
\* (execute.py:145-149, 164-189).
ContextIsKnown ==
    stage = "forked" =>
        \A d \in 1..Depth(evm) : InCreation(d) \/ Known(d) = evm.frames[d].at

EvmType ==
    [world : Worlds,
     frames : Seq([at : Accounts, makes : Accounts \cup {None}, saved : Worlds])]

TracerType ==
    [context : [1..MaxDepth -> Accounts \cup {None}],
     pending : [depth : Nat, target : Accounts \cup {None}],
     slots : SUBSET (Accounts \cup {None}),
     reached : SUBSET Accounts]

\* The strengthening of ContextIsKnown that every step of the forked run preserves: a call
\* that is pending is at most one frame behind, so it is settled by the first step that the
\* trace shows of the frame it is about (execute.py:164-189).
ContextInv ==
    stage = "forked" =>
        /\ evm \in EvmType
        /\ tracer \in TracerType
        /\ tracer.pending # NoPending => Depth(evm) <= tracer.pending.depth + 1
        /\ Depth(evm) <= MaxDepth
        /\ ContextIsKnown

\* What was recorded in one run is all that the next one needs: it sees in every operation
\* what the first saw, with what reverts undid and transactions before it wrote
\* (execute.py:9-17, 209-212).
OfflineAgrees == agrees

\* What execute.py:9-13 says of whatever blocks: "the opcode trace records every storage slot
\* and account the blocks touch", and the snapshot "is the flat state the blocks need".
SnapshotSuffices == stage = "over" => agrees
=============================================================================
