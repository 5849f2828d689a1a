------------------------------ MODULE Intents -------------------------------
(***************************************************************************)
(* `decode_intents` (src/src/rhfeed/intents.py:123-160) and the decoders it *)
(* dispatches to (src/src/rhfeed/decoders/): the walk from a transaction's *)
(* calldata into the calls nested in it, and what comes back up.           *)
(*                                                                         *)
(* The recursion of decode_call is a stack: one frame for every container  *)
(* whose elements are being gone through.  Calldata is what its decoder    *)
(* reads in it: `fn` is the function its selector names, `fits` whether    *)
(* the reads of a leaf succeed, `head` what the reads before a loop find,  *)
(* `tail` whether the reads after it succeed.  A read that fails raises    *)
(* Malformed, which the decode_call around that decoder turns into [].     *)
(***************************************************************************)
EXTENDS Naturals, Sequences

CONSTANTS
    None,                        \* Python's None
    Address,                     \* 20-byte strings
    MSG_SENDER, ADDRESS_THIS,    \* the Universal Router's stand-ins for a recipient
    Data,                        \* calldata, of transactions and of the calls nested in them
    Transactions,                \* to, value, data
    MaxDepth                     \* MAX_DEPTH, 8 in the code

Accounts == {"handleOps", "execute", "executeBatch", "executeBatchNoValues"}
Relays == {"fill", "sell"}
Containers == Accounts \cup Relays \cup {"multicall", "router"}
Leaves == {"transfer", "exec", "swap"}

\* "empty" is no calldata, "executor" a selector read by shape under a Relay router only,
\* "unknown" any other without a decoder.
Functions == Containers \cup Leaves \cup {"empty", "executor", "unknown"}

ASSUME AddressAssumption ==
    /\ None \notin Address
    /\ {MSG_SENDER, ADDRESS_THIS} \subseteq Address

ASSUME DepthAssumption == MaxDepth \in Nat

Nesting == Containers \ {"router"}

\* The calls that an element of calldata holds, and their calldata.
Held(d) == {d.items[k] : k \in DOMAIN d.items}

ASSUME DataAssumption ==
    /\ \A d \in Data :
         /\ d.fn \in Functions
         /\ d.fn \in Containers => d.head \in {"fits", "empty", "bad"} /\ d.tail \in BOOLEAN
         /\ d.fn \in Containers \ Relays => d.head # "empty" /\ d.tail
         /\ d.fn = "execute" /\ d.head = "fits" => Len(d.items) = 1
         /\ d.fn = "multicall" => \A item \in Held(d) : item.fits
         /\ d.fn \in Nesting => \A item \in Held(d) : item.to \in Address
    /\ UNION {{item.data : item \in Held(d)} : d \in {c \in Data : c.fn \in Nesting}} \subseteq Data
    /\ {t.data : t \in Transactions} \subseteq Data
    /\ \A t \in Transactions : t.to \in Address \cup {None} /\ t.value \in Nat

AddressOrNone == Address \cup {None}
AmountOrNone == Nat \cup {None}

\* What a decoder reads of a field that fits is an address or a number.
ASSUME FieldsAssumption ==
    \A d \in Data :
        /\ d.fn \in Containers => d.items \in Seq(Held(d))
        /\ d.fn \in Nesting => \A item \in Held(d) : item.fits => item.value \in Nat
        /\ d.fn \in Relays => \A item \in Held(d) :
              item.data.fn = "executor" => item.data.tokens \in Seq(Address) \cup {None}
        /\ d.fn \in Relays /\ d.head = "fits" => d.amount \in Nat /\ d.wallet \in Address
        /\ d.fn = "router" => \A item \in Held(d) : item.fits =>
              item.swaps \in Seq([amount : AmountOrNone, token_out : AddressOrNone,
                                  minimum : AmountOrNone, recipient : AddressOrNone])
        /\ d.fn = "transfer" /\ d.fits => d.amount \in Nat /\ d.recipient \in Address
        /\ d.fn = "exec" /\ d.fits =>
              /\ d.target \in Address /\ {d.recipient, d.token_out} \subseteq AddressOrNone
              /\ {d.amount, d.minimum} \subseteq Nat
        /\ d.fn = "swap" /\ d.fits => d.names \in BOOLEAN
        /\ d.fn = "swap" /\ d.fits /\ d.names =>
              /\ {d.recipient, d.token_out} \subseteq AddressOrNone
              /\ {d.amount, d.minimum} \subseteq AmountOrNone

VARIABLES
    phase,    \* "start", "call": decode_call, "loop" over a frame, "return", "done"
    tx,       \* the transaction
    call,     \* the call at hand: to, value, data, actor, via
    stack,    \* the containers being gone through, outermost first
    found     \* the intents being returned

vars == <<phase, tx, call, stack, found>>

-----------------------------------------------------------------------------
(* Calls                                                                   *)

Optional(a) == IF a = None THEN <<>> ELSE <<a>>

TopCall(t) ==
    [to |-> t.to, value |-> t.value, data |-> t.data, actor |-> None, via |-> Optional(t.to)]

\* inner(): `via` goes one contract further, the actor stays unless one is given.
Inner(c, to, value, data, actor) ==
    [to |-> to, value |-> value, data |-> data,
     actor |-> IF actor = None THEN c.actor ELSE actor,
     via |-> Append(c.via, to)]

\* The call that an element of a container holds.  A multicall is a delegatecall of the
\* contract to itself: same contract, same value, no further on the way.
Nested(c, item) ==
    CASE c.data.fn = "multicall" -> [c EXCEPT !.data = item.data]
      [] c.data.fn = "handleOps" -> Inner(c, item.to, 0, item.data, item.to)
      [] c.data.fn = "executeBatchNoValues" -> Inner(c, item.to, 0, item.data, None)
      [] c.data.fn \in {"execute", "executeBatch"} \cup Relays ->
            Inner(c, item.to, item.value, item.data, None)

-----------------------------------------------------------------------------
(* Intents                                                                 *)

\* The token sold is kept of transfers alone, where it is the contract called.
Blank(kind, c) ==
    [kind |-> kind, actor |-> c.actor, via |-> c.via, recipient |-> None,
     token_in |-> None, amount_in |-> None, token_out |-> None, amount_out |-> None]

\* erc20.transfer, transfer_from and approve: the token is the contract called.
Transfer(c) ==
    [Blank("transfer", c) EXCEPT !.token_in = c.to, !.amount_in = c.data.amount,
                                 !.recipient = c.data.recipient]

\* zerox.exec_: the target is the last stop of the way; a zero recipient says that the
\* Settler skips its check, and that nothing is known of the output.
Exec(c) ==
    LET sold == [Blank("swap", c) EXCEPT !.via = Append(c.via, c.data.target),
                                         !.amount_in = c.data.amount]
    IN  IF c.data.recipient = None THEN sold
        ELSE [sold EXCEPT !.recipient = c.data.recipient, !.token_out = c.data.token_out,
                          !.amount_out = c.data.minimum]

\* uniswap, pons and steps_router: a swap that spends what it says, or the call's value.
Swap(c) ==
    [Blank("swap", c) EXCEPT !.amount_in = IF c.data.amount = None THEN c.value
                                           ELSE c.data.amount,
                             !.token_out = c.data.token_out, !.amount_out = c.data.minimum,
                             !.recipient = c.data.recipient]

\* `names` is FALSE of a path without hops, of a swap without steps, and of a call with
\* Pons's selector that is not shaped like its buy.
LeafIntents(c) ==
    CASE ~c.data.fits -> <<>>
      [] c.data.fits /\ c.data.fn = "transfer" -> <<Transfer(c)>>
      [] c.data.fits /\ c.data.fn = "exec" -> <<Exec(c)>>
      [] c.data.fits /\ c.data.fn = "swap" -> IF c.data.names THEN <<Swap(c)>> ELSE <<>>

\* universal_router._recipient
Resolve(c, recipient) ==
    CASE recipient = MSG_SENDER -> c.actor
      [] recipient = ADDRESS_THIS -> c.to
      [] recipient \notin {MSG_SENDER, ADDRESS_THIS} -> recipient

\* What one command of a Universal Router asks for: nothing, one V2 or V3 swap, or those
\* of a V4 command, which name no recipient.
CommandIntents(c, item) ==
    [n \in DOMAIN item.swaps |->
        [Blank("swap", c) EXCEPT !.amount_in = item.swaps[n].amount,
                                 !.token_out = item.swaps[n].token_out,
                                 !.amount_out = item.swaps[n].minimum,
                                 !.recipient = Resolve(c, item.swaps[n].recipient)]]

\* relay._swap_out: the first swap that says what it buys.
SwapOut(intents) ==
    LET named == {n \in DOMAIN intents :
                     intents[n].kind = "swap" /\ intents[n].token_out # None}
        first == CHOOSE n \in named : \A m \in named : n <= m
    IN  IF named = {} THEN [token |-> None, amount |-> None]
        ELSE [token |-> intents[first].token_out, amount |-> intents[first].amount_out]

\* The one intent of a Relay fill or sell, whatever was found in it.
RelayIntent(c, intents, token) ==
    LET out  == SwapOut(intents)
        sold == [Blank("relay_sell", c) EXCEPT
                    !.amount_in = c.data.amount,
                    !.token_out = IF token = None THEN out.token ELSE token,
                    !.amount_out = out.amount]
    IN  IF c.data.fn = "sell" THEN sold
        ELSE [sold EXCEPT !.kind = "relay_fill", !.actor = c.data.wallet,
                          !.recipient = c.data.wallet]

-----------------------------------------------------------------------------
(* The walk                                                                *)

Frame(c) == [call |-> c, next |-> 1, found |-> <<>>, token |-> None]

Top == stack[Len(stack)]
Below == SubSeq(stack, 1, Len(stack) - 1)
WithTop(frame) == Append(Below, frame)

Items == Top.call.data.items
AtItem == phase = "loop" /\ Top.next <= Len(Items)
Element == Items[Top.next]

Init ==
    /\ phase = "start"
    /\ tx \in Transactions
    /\ call = TopCall(tx)
    /\ stack = <<>>
    /\ found = <<>>

IsPlain(t) == t.to # None /\ t.data.fn = "empty" /\ t.value > 0

\* No calldata, but value: a transfer of ETH.
PlainTransfer ==
    /\ phase = "start"
    /\ IsPlain(tx)
    /\ phase' = "done"
    /\ found' = <<[Blank("transfer", call) EXCEPT !.amount_in = tx.value, !.recipient = tx.to]>>
    /\ UNCHANGED <<tx, call, stack>>

Dispatch ==
    /\ phase = "start"
    /\ ~IsPlain(tx)
    /\ phase' = "call"
    /\ UNCHANGED <<tx, call, stack, found>>

\* The depth of a call is the number of containers around it.
TooDeep == Len(stack) > MaxDepth

\* Nested too deep, shorter than a selector, or a selector without a decoder.
NoDecoder ==
    /\ phase = "call"
    /\ TooDeep \/ call.data.fn \notin Containers \cup Leaves
    /\ phase' = "return"
    /\ found' = <<>>
    /\ UNCHANGED <<tx, call, stack>>

Leaf ==
    /\ phase = "call"
    /\ ~TooDeep
    /\ call.data.fn \in Leaves
    /\ phase' = "return"
    /\ found' = LeafIntents(call)
    /\ UNCHANGED <<tx, call, stack>>

Enter ==
    /\ phase = "call"
    /\ ~TooDeep
    /\ call.data.fn \in Containers
    /\ call.data.head = "fits"
    /\ phase' = "loop"
    /\ stack' = Append(stack, Frame(call))
    /\ UNCHANGED <<tx, call, found>>

\* Malformed arrays, arrays that differ in length, or a Relay call that names no token.
RefuseHead ==
    /\ phase = "call"
    /\ ~TooDeep
    /\ call.data.fn \in Containers
    /\ call.data.head # "fits"
    /\ phase' = "return"
    /\ found' = <<>>
    /\ UNCHANGED <<tx, call, stack>>

\* The executor's calls under a Relay router are read by shape and never dispatched.
IsExecutor(item) == Top.call.data.fn \in Relays /\ item.data.fn = "executor"

Readable(item) ==
    /\ item.fits
    /\ IsExecutor(item) => item.data.tokens # None

\* Mutant of Descend: the way goes on from the outermost container's.
Descend_Outermost ==
    /\ AtItem
    /\ Top.call.data.fn \in Nesting
    /\ Readable(Element) /\ ~IsExecutor(Element)
    /\ phase' = "call"
    /\ call' = Nested([Top.call EXCEPT !.via = stack[1].call.via], Element)
    /\ UNCHANGED <<tx, stack, found>>

Descend ==
    /\ AtItem
    /\ Top.call.data.fn \in Nesting
    /\ Readable(Element) /\ ~IsExecutor(Element)
    /\ phase' = "call"
    /\ call' = Nested(Top.call, Element)
    /\ UNCHANGED <<tx, stack, found>>

\* Mutant of Executor: the array is taken for its first element.
Executor_Array ==
    /\ AtItem
    /\ Top.call.data.fn \in Nesting
    /\ Readable(Element) /\ IsExecutor(Element)
    /\ stack' = WithTop([Top EXCEPT !.next = @ + 1, !.token = Element.data.tokens])
    /\ UNCHANGED <<phase, tx, call, found>>

Executor ==
    /\ AtItem
    /\ Top.call.data.fn \in Nesting
    /\ Readable(Element) /\ IsExecutor(Element)
    /\ LET tokens == Element.data.tokens
       IN  stack' = WithTop([Top EXCEPT !.next = @ + 1,
                                        !.token = IF tokens = <<>> THEN @ ELSE tokens[1]])
    /\ UNCHANGED <<phase, tx, call, found>>

Command ==
    /\ AtItem
    /\ Top.call.data.fn = "router"
    /\ Readable(Element)
    /\ stack' = WithTop([Top EXCEPT !.next = @ + 1,
                                    !.found = @ \o CommandIntents(Top.call, Element)])
    /\ UNCHANGED <<phase, tx, call, found>>

\* Mutant of RefuseItem: what was found before the element that does not fit is kept.
RefuseItem_Keep ==
    /\ AtItem
    /\ ~Readable(Element)
    /\ phase' = "return"
    /\ stack' = Below
    /\ found' = Top.found
    /\ UNCHANGED <<tx, call>>

\* An element that cannot be read raises through the loop: what it found is lost.
RefuseItem ==
    /\ AtItem
    /\ ~Readable(Element)
    /\ phase' = "return"
    /\ stack' = Below
    /\ found' = <<>>
    /\ UNCHANGED <<tx, call>>

\* The element's intents join those of the elements before it.
Absorb ==
    /\ phase = "return"
    /\ stack # <<>>
    /\ phase' = "loop"
    /\ stack' = WithTop([Top EXCEPT !.next = @ + 1, !.found = @ \o found])
    /\ found' = <<>>
    /\ UNCHANGED <<tx, call>>

\* What a container returns once its loop is over: a Relay call one intent, in which what
\* was found is folded, if the fields it reads last can be read.
Result ==
    CASE ~Top.call.data.tail -> <<>>
      [] Top.call.data.tail /\ Top.call.data.fn \in Relays ->
            <<RelayIntent(Top.call, Top.found, Top.token)>>
      [] Top.call.data.tail /\ Top.call.data.fn \notin Relays -> Top.found

Leave ==
    /\ phase = "loop"
    /\ Top.next > Len(Items)
    /\ phase' = "return"
    /\ stack' = Below
    /\ found' = Result
    /\ UNCHANGED <<tx, call>>

Finish ==
    /\ phase = "return"
    /\ stack = <<>>
    /\ phase' = "done"
    /\ UNCHANGED <<tx, call, stack, found>>

Next ==
    \/ PlainTransfer \/ Dispatch
    \/ NoDecoder \/ Leaf \/ Enter \/ RefuseHead
    \/ Descend \/ Executor \/ Command \/ RefuseItem
    \/ Absorb \/ Leave \/ Finish

Spec == Init /\ [][Next]_vars

-----------------------------------------------------------------------------
(* Properties                                                              *)

Call == [to : AddressOrNone, value : Nat, data : Data,
         actor : AddressOrNone, via : Seq(Address)]

Intent == [kind : {"transfer", "swap", "relay_fill", "relay_sell"},
           actor : AddressOrNone, via : Seq(Address), recipient : AddressOrNone,
           token_in : AddressOrNone, amount_in : AmountOrNone,
           token_out : AddressOrNone, amount_out : AmountOrNone]

\* Calls are calls, intents are intents, and a frame stands at an element or past the last.
TypeOK ==
    /\ phase \in {"start", "call", "loop", "return", "done"}
    /\ tx \in Transactions
    /\ call \in Call
    /\ found \in Seq(Intent)
    /\ phase = "loop" => stack # <<>>
    /\ \A k \in DOMAIN stack :
         LET f == stack[k]
         IN  /\ f.call \in Call /\ f.call.data.fn \in Containers
             /\ f.next \in 1..Len(f.call.data.items) + 1
             /\ f.found \in Seq(Intent)
             /\ f.token \in AddressOrNone

Extends(long, short) == Len(short) <= Len(long) /\ SubSeq(long, 1, Len(short)) = short

\* Every intent, while it is carried up as when it is reported, was found on a way that
\* starts with the way to the container that carries it, and is for that container's
\* actor unless a wallet or a Relay fill further in took that place; and no more
\* containers are open than the cap allows (intents.py:123-142).
FoundUnderItsFrames ==
    /\ Len(stack) <= MaxDepth + 1
    /\ \A k \in DOMAIN stack :
         LET f == stack[k]
         IN  /\ \A n \in DOMAIN f.found :
                  /\ Extends(f.found[n].via, f.call.via)
                  /\ f.call.actor # None => f.found[n].actor # None
             /\ k < Len(stack) => Extends(stack[k + 1].call.via, f.call.via)
    /\ phase = "call" /\ stack # <<>> => Extends(call.via, Top.call.via)
    /\ phase = "return" => \A n \in DOMAIN found :
          stack # <<>> => /\ Extends(found[n].via, Top.call.via)
                          /\ Top.call.actor # None => found[n].actor # None
    /\ phase = "done" => \A n \in DOMAIN found : Extends(found[n].via, Optional(tx.to))
=============================================================================
