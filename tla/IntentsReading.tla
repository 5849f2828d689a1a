--------------------------- MODULE IntentsReading ---------------------------
(***************************************************************************)
(* What a transaction asks for, read off its calldata as a whole: a call   *)
(* is worth what the calls in it are worth, with no stack, no element      *)
(* before another and no failure on the way up.  The walk of Intents is    *)
(* compared with that.                                                     *)
(***************************************************************************)
EXTENDS Intents

\* One read that fails voids the whole call, whatever else is in it, and no other.
Void(d) ==
    \/ d.fn \in Leaves /\ ~d.fits
    \/ /\ d.fn \in Containers
       /\ \/ d.head # "fits" \/ ~d.tail
          \/ \E k \in DOMAIN d.items : ~d.items[k].fits
          \/ d.fn \in Relays /\ \E k \in DOMAIN d.items :
                 d.items[k].data.fn = "executor" /\ d.items[k].data.tokens = None

\* The first n of the sequences p, one behind the other.
FirstOf(p, n) ==
    LET joined[k \in 0..n] == IF k = 0 THEN <<>> ELSE joined[k - 1] \o p[k]
    IN  joined[n]

Largest(S) == CHOOSE k \in S : \A j \in S : j <= k

\* What the executor's calls among the first n of a Relay router's say is sold: the last of
\* those that name a token, and the first it names.
TokenOf(d, n) ==
    LET naming == {k \in 1..n : d.items[k].data.fn = "executor" /\ d.items[k].data.tokens # <<>>}
    IN  IF naming = {} THEN None ELSE d.items[Largest(naming)].data.tokens[1]

\* A call, and the number of containers around it.
Places == [depth : Nat, call : Call]
Place(depth, c) == [depth |-> depth, call |-> c]

\* The calls of a Relay router's executor are read by shape.
IsShape(c, item) == c.data.fn \in Relays /\ item.data.fn = "executor"

\* What each element of the call at w is worth, `worth` giving what the calls in it are.
Parts(w, worth) ==
    LET c == w.call
    IN  [k \in DOMAIN c.data.items |->
            LET item == c.data.items[k]
            IN  CASE c.data.fn = "router" -> CommandIntents(c, item)
                  [] IsShape(c, item) -> <<>>
                  [] c.data.fn # "router" /\ ~IsShape(c, item) ->
                        worth[Place(w.depth + 1, Nested(c, item))]]

WorthAt(w, worth) ==
    LET c == w.call
        inside == FirstOf(Parts(w, worth), Len(c.data.items))
    IN  IF w.depth > MaxDepth \/ Void(c.data) THEN <<>>
        ELSE CASE c.data.fn \in Leaves -> LeafIntents(c)
               [] c.data.fn \in Relays ->
                     <<RelayIntent(c, inside, TokenOf(c.data, Len(c.data.items)))>>
               [] c.data.fn \in Containers \ Relays -> inside
               [] c.data.fn \notin Containers \cup Leaves -> <<>>

\* What a call is worth where it is: nothing if it is too deep or void, its own intents if it
\* is a leaf, and those of all the calls in it otherwise, a Relay call folding them in one.
Worth == LET worth[w \in Places] == WorthAt(w, worth) IN worth

-----------------------------------------------------------------------------
(* Properties                                                              *)

\* A transaction is worth what the calls nested in it ask for, in the order they are made:
\* those at most MAX_DEPTH containers deep that no Malformed container encloses, each for
\* the wallet of the innermost operation around it, with the contracts on the way; the
\* calls of a Relay router count once, as the Relay call (intents.py:123-160, relay.py:8-11).
Sound == phase = "done" /\ ~IsPlain(tx) => found = Worth[Place(0, TopCall(tx))]
=============================================================================
