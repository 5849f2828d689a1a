---------------------------- MODULE IntentsProofs ---------------------------
(***************************************************************************)
(* Whatever calldata a transaction carries, and for every cap on depth,    *)
(* what the walk of Intents reports are intents, each found on a way that  *)
(* starts with those of the containers around it and for the wallet that   *)
(* they are for; they are those that the calls of the transaction are      *)
(* worth; and the command line's filter shows of them what the example     *)
(* that follows wallets reports.                                           *)
(***************************************************************************)
EXTENDS Filter, IntentsReading, ByteStringsProofs, SequenceTheorems, TLAPS

Frames == [call : Call, next : Nat, found : Seq(Intent), token : AddressOrNone]

-----------------------------------------------------------------------------
(* The inductive invariant                                                 *)

\* A call or an intent that is made in a call: further on its way, and for its wallet or
\* for another, never for nobody.
Under(x, c) == Extends(x.via, c.via) /\ (c.actor # None => x.actor # None)
AllUnder(intents, c) == \A n \in DOMAIN intents : Under(intents[n], c)

\* The k-th container of a stack; below the first there is the transaction itself.
Holder(s, t, k) == IF k = 0 THEN TopCall(t) ELSE s[k].call

\* Each container is made in the one below it, and holds what was found in itself.  All
\* but the last stand at the element that the next one is.
Nests(s, t) ==
    /\ s \in Seq(Frames)
    /\ Len(s) <= MaxDepth + 1
    /\ \A k \in 1..Len(s) :
          /\ s[k].call.data.fn \in Containers /\ s[k].call.data.head = "fits"
          /\ s[k].next \in 1..Len(s[k].call.data.items) + 1
          /\ k < Len(s) => s[k].next <= Len(s[k].call.data.items)
          /\ Under(s[k].call, Holder(s, t, k - 1))
          /\ AllUnder(s[k].found, s[k].call)

\* The last container stands at an element too.
Waits(s) == s # <<>> => s[Len(s)].next <= Len(s[Len(s)].call.data.items)

\* In each phase: what is at hand is under the containers that are open.
PhaseInv ==
    /\ phase \in {"start", "call", "loop", "return", "done"}
    /\ phase \in {"start", "done"} => stack = <<>>
    /\ phase = "loop" => stack # <<>>
    /\ phase \in {"call", "return"} => Waits(stack)
    /\ phase = "start" => call = TopCall(tx)
    /\ phase = "call" => Under(call, Holder(stack, tx, Len(stack)))
    /\ phase = "return" => AllUnder(found, Holder(stack, tx, Len(stack)))
    /\ phase = "done" => \A n \in DOMAIN found : Extends(found[n].via, Optional(tx.to))

\* FoundUnderItsFrames, and what keeps it: a container that returns hands what it found to
\* the one below, so its own way has to start with that one's.
IntentsInv ==
    /\ tx \in Transactions /\ call \in Call /\ found \in Seq(Intent)
    /\ Nests(stack, tx)
    /\ PhaseInv

-----------------------------------------------------------------------------
(* Ways                                                                    *)

\* A way extends another if it has its stops first.
LEMMA ExtendsByStops ==
    ASSUME NEW v \in Seq(Address), NEW w \in Seq(Address)
    PROVE  Extends(w, v) <=> Len(v) <= Len(w) /\ \A k \in 1..Len(v) : w[k] = v[k]
<1>1. Len(v) \in Nat /\ Len(w) \in Nat
  OBVIOUS
<1>2. CASE Len(v) <= Len(w)
  <2>1. SubSeq(w, 1, Len(v)) = [k \in 1..Len(v) |-> w[k]]
    BY <1>1, <1>2
  <2>2. v = [k \in 1..Len(v) |-> v[k]]
    OBVIOUS
  <2>3. ASSUME \A k \in 1..Len(v) : w[k] = v[k]
        PROVE  SubSeq(w, 1, Len(v)) = v
    BY <2>1, <2>2, <2>3
  <2>4. ASSUME SubSeq(w, 1, Len(v)) = v
        PROVE  \A k \in 1..Len(v) : w[k] = v[k]
    BY <2>1, <2>4
  <2> QED BY <1>2, <2>3, <2>4 DEF Extends
<1> QED BY <1>2 DEF Extends

LEMMA ExtendsItself ==
    ASSUME NEW v \in Seq(Address)
    PROVE  Extends(v, v)
BY ExtendsByStops

LEMMA ExtendsTransitively ==
    ASSUME NEW u \in Seq(Address), NEW v \in Seq(Address), NEW w \in Seq(Address),
           Extends(w, v), Extends(v, u)
    PROVE  Extends(w, u)
<1>1. /\ Len(u) \in Nat /\ Len(v) \in Nat /\ Len(w) \in Nat
      /\ Len(v) <= Len(w) /\ \A k \in 1..Len(v) : w[k] = v[k]
      /\ Len(u) <= Len(v) /\ \A k \in 1..Len(u) : v[k] = u[k]
  BY ExtendsByStops
<1> QED BY <1>1, ExtendsByStops

\* A way that goes one contract further.
LEMMA OneFurther ==
    ASSUME NEW v \in Seq(Address), NEW a \in Address
    PROVE  Append(v, a) \in Seq(Address) /\ Extends(Append(v, a), v)
<1>1. PICK w : w = Append(v, a)
  OBVIOUS
<1>2. /\ w \in Seq(Address) /\ Len(w) = Len(v) + 1
      /\ \A k \in 1..Len(v) : w[k] = v[k]
      /\ Len(v) \in Nat
  BY <1>1
<1>3. Len(v) <= Len(w)
  BY <1>2
<1> QED BY <1>1, <1>2, <1>3, ExtendsByStops

-----------------------------------------------------------------------------
(* What decoders return                                                    *)

LEMMA TopCallType ==
    ASSUME NEW t \in Transactions
    PROVE  TopCall(t) \in Call /\ Optional(t.to) \in Seq(Address)
<1>1. t.to \in AddressOrNone /\ t.value \in Nat /\ t.data \in Data
  BY DataAssumption DEF AddressOrNone
<1>2. Optional(t.to) \in Seq(Address)
  BY <1>1 DEF Optional, AddressOrNone
<1> QED BY <1>1, <1>2 DEF TopCall, Call, AddressOrNone

\* A leaf gives intents found where it is, and for whom it is.
LEMMA LeafFinds ==
    ASSUME NEW c \in Call, c.data.fn \in Leaves
    PROVE  /\ LeafIntents(c) \in Seq(Intent)
           /\ \A n \in DOMAIN LeafIntents(c) :
                 /\ Extends(LeafIntents(c)[n].via, c.via)
                 /\ LeafIntents(c)[n].actor = c.actor
<1>1. /\ c.to \in AddressOrNone /\ c.value \in Nat /\ c.data \in Data
      /\ c.actor \in AddressOrNone /\ c.via \in Seq(Address)
  BY DEF Call
<1>2. ASSUME NEW x \in Intent, Extends(x.via, c.via), x.actor = c.actor, LeafIntents(c) = <<x>>
      PROVE  /\ LeafIntents(c) \in Seq(Intent)
             /\ \A n \in DOMAIN LeafIntents(c) :
                   /\ Extends(LeafIntents(c)[n].via, c.via)
                   /\ LeafIntents(c)[n].actor = c.actor
  BY <1>2
<1>3. CASE c.data.fits /\ c.data.fn = "transfer"
  <2>1. c.data.amount \in Nat /\ c.data.recipient \in Address
    BY <1>1, <1>3, FieldsAssumption
  <2>2. Transfer(c) \in Intent /\ Transfer(c).via = c.via /\ Transfer(c).actor = c.actor
    BY <1>1, <2>1 DEF Transfer, Blank, Intent, AddressOrNone, AmountOrNone
  <2>3. LeafIntents(c) = <<Transfer(c)>>
    BY <1>3 DEF LeafIntents
  <2> QED BY <1>1, <1>2, <2>2, <2>3, ExtendsItself
<1>4. CASE c.data.fits /\ c.data.fn = "exec"
  <2>1. /\ c.data.target \in Address /\ c.data.recipient \in AddressOrNone
        /\ c.data.token_out \in AddressOrNone /\ c.data.amount \in Nat /\ c.data.minimum \in Nat
    BY <1>1, <1>4, FieldsAssumption
  <2>2. PICK way \in Seq(Address) : way = Append(c.via, c.data.target) /\ Extends(way, c.via)
    BY <1>1, <2>1, OneFurther
  <2>3. Exec(c) \in Intent /\ Exec(c).via = way /\ Exec(c).actor = c.actor
    <3>1. PICK sold : sold = [Blank("swap", c) EXCEPT !.via = Append(c.via, c.data.target),
                                                     !.amount_in = c.data.amount]
      OBVIOUS
    <3>2. sold \in Intent /\ sold.via = way /\ sold.actor = c.actor
      BY <1>1, <2>1, <2>2, <3>1 DEF Blank, Intent, AddressOrNone, AmountOrNone
    <3>3. CASE c.data.recipient = None
      BY <3>1, <3>2, <3>3 DEF Exec
    <3>4. CASE c.data.recipient # None
      <4>1. Exec(c) = [sold EXCEPT !.recipient = c.data.recipient,
                                   !.token_out = c.data.token_out,
                                   !.amount_out = c.data.minimum]
        BY <3>1, <3>4 DEF Exec
      <4> QED BY <2>1, <3>2, <4>1 DEF Intent, AmountOrNone
    <3> QED BY <3>3, <3>4
  <2>4. LeafIntents(c) = <<Exec(c)>>
    BY <1>4 DEF LeafIntents
  <2> QED BY <1>2, <2>2, <2>3, <2>4
<1>5. CASE c.data.fits /\ c.data.fn = "swap" /\ c.data.names
  <2>1. /\ c.data.recipient \in AddressOrNone /\ c.data.token_out \in AddressOrNone
        /\ c.data.amount \in AmountOrNone /\ c.data.minimum \in AmountOrNone
    BY <1>1, <1>5, FieldsAssumption
  <2>2. Swap(c) \in Intent /\ Swap(c).via = c.via /\ Swap(c).actor = c.actor
    BY <1>1, <2>1 DEF Swap, Blank, Intent, AddressOrNone, AmountOrNone
  <2>3. LeafIntents(c) = <<Swap(c)>>
    BY <1>5 DEF LeafIntents
  <2> QED BY <1>1, <1>2, <2>2, <2>3, ExtendsItself
<1>6. CASE ~c.data.fits \/ (c.data.fn = "swap" /\ ~c.data.names)
  <2>1. LeafIntents(c) = <<>>
    BY <1>6 DEF LeafIntents
  <2> QED BY <2>1
<1> QED BY <1>3, <1>4, <1>5, <1>6 DEF Leaves

\* So does a command of a Universal Router.
LEMMA CommandFinds ==
    ASSUME NEW c \in Call, c.data.fn = "router", NEW item \in Held(c.data), item.fits
    PROVE  /\ CommandIntents(c, item) \in Seq(Intent)
           /\ \A n \in DOMAIN CommandIntents(c, item) :
                 /\ CommandIntents(c, item)[n].via = c.via
                 /\ CommandIntents(c, item)[n].actor = c.actor
<1>1. /\ c.to \in AddressOrNone /\ c.data \in Data
      /\ c.actor \in AddressOrNone /\ c.via \in Seq(Address)
  BY DEF Call
<1> DEFINE Fields == [amount : AmountOrNone, token_out : AddressOrNone,
                      minimum : AmountOrNone, recipient : AddressOrNone]
           result(n) == [Blank("swap", c) EXCEPT !.amount_in = item.swaps[n].amount,
                                                 !.token_out = item.swaps[n].token_out,
                                                 !.amount_out = item.swaps[n].minimum,
                                                 !.recipient = Resolve(c, item.swaps[n].recipient)]
<1>2. item.swaps \in Seq(Fields)
  BY <1>1, FieldsAssumption
<1>3. PICK m \in Nat : item.swaps \in [1..m -> Fields]
  <2> HIDE DEF Fields
  <2>1. item.swaps \in [1..Len(item.swaps) -> Fields] /\ Len(item.swaps) \in Nat
    BY <1>2
  <2> QED BY <2>1
<1>4. ASSUME NEW n \in DOMAIN item.swaps
      PROVE  result(n) \in Intent /\ result(n).via = c.via /\ result(n).actor = c.actor
  <2>1. item.swaps[n] \in Fields
    BY <1>3
  <2>2. Resolve(c, item.swaps[n].recipient) \in AddressOrNone
    BY <1>1, <2>1 DEF Resolve
  <2> HIDE DEF result
  <2>3. result(n) = [Blank("swap", c) EXCEPT !.amount_in = item.swaps[n].amount,
                                             !.token_out = item.swaps[n].token_out,
                                             !.amount_out = item.swaps[n].minimum,
                                             !.recipient = Resolve(c, item.swaps[n].recipient)]
    BY DEF result
  <2> QED BY <1>1, <2>1, <2>2, <2>3 DEF Blank, Intent, AddressOrNone
<1>5. CommandIntents(c, item) = [n \in DOMAIN item.swaps |-> result(n)]
  BY DEF CommandIntents
<1> HIDE DEF result
<1>6. CommandIntents(c, item) \in [1..m -> Intent]
  BY <1>3, <1>4, <1>5
<1> QED BY <1>3, <1>4, <1>5, <1>6

\* What a nested swap names.
LEMMA SwapOutType ==
    ASSUME NEW s \in Seq(Intent)
    PROVE  SwapOut(s).token \in AddressOrNone /\ SwapOut(s).amount \in AmountOrNone
<1> DEFINE named == {n \in DOMAIN s : s[n].kind = "swap" /\ s[n].token_out # None}
           first == CHOOSE n \in named : \A m \in named : n <= m
<1>1. CASE named = {}
  BY <1>1 DEF SwapOut, AddressOrNone, AmountOrNone
<1>2. CASE named # {}
  <2>0. named \subseteq Nat
    OBVIOUS
  <2>1. \E n \in named : \A m \in named : n <= m
    <3> HIDE DEF named
    <3> QED BY <1>2, <2>0, LeastOf
  <2>2. first \in named
    <3> HIDE DEF named
    <3> QED BY <2>1
  <2>3. first \in DOMAIN s
    BY <2>2
  <2>4. SwapOut(s) = [token |-> s[first].token_out, amount |-> s[first].amount_out]
    BY <1>2 DEF SwapOut
  <2> HIDE DEF first
  <2>5. s[first] \in Intent
    BY <2>3
  <2> QED BY <2>4, <2>5 DEF Intent
<1> QED BY <1>1, <1>2

\* A Relay call is one intent, for the wallet it fills for or the one it is made for.
LEMMA RelayFinds ==
    ASSUME NEW c \in Call, c.data.fn \in Relays, c.data.head = "fits",
           NEW s \in Seq(Intent), NEW token \in AddressOrNone
    PROVE  /\ RelayIntent(c, s, token) \in Intent
           /\ RelayIntent(c, s, token).via = c.via
           /\ c.actor # None => RelayIntent(c, s, token).actor # None
<1>1. /\ c.actor \in AddressOrNone /\ c.via \in Seq(Address) /\ c.data \in Data
  BY DEF Call
<1>2. c.data.amount \in Nat /\ c.data.wallet \in Address /\ c.data.wallet # None
  BY <1>1, FieldsAssumption, AddressAssumption
<1>3. PICK t \in AddressOrNone : t = IF token = None THEN SwapOut(s).token ELSE token
  BY SwapOutType
<1>4. PICK a \in AmountOrNone : a = SwapOut(s).amount
  BY SwapOutType
<1>5. PICK sold : sold = [Blank("relay_sell", c) EXCEPT !.amount_in = c.data.amount,
                                                        !.token_out = t,
                                                        !.amount_out = a]
  OBVIOUS
<1>6. sold \in Intent /\ sold.via = c.via /\ sold.actor = c.actor
  BY <1>1, <1>2, <1>5 DEF Blank, Intent, AddressOrNone, AmountOrNone
<1>7. CASE c.data.fn = "sell"
  <2>1. RelayIntent(c, s, token) = sold
    BY <1>3, <1>4, <1>5, <1>7 DEF RelayIntent
  <2> QED BY <1>6, <2>1
<1>8. CASE c.data.fn # "sell"
  <2>1. RelayIntent(c, s, token) = [sold EXCEPT !.kind = "relay_fill",
                                                !.actor = c.data.wallet,
                                                !.recipient = c.data.wallet]
    BY <1>3, <1>4, <1>5, <1>8 DEF RelayIntent
  <2> QED BY <1>2, <1>6, <2>1 DEF Intent, AddressOrNone
<1> QED BY <1>7, <1>8

-----------------------------------------------------------------------------
(* Containers                                                              *)

LEMMA UnderItself ==
    ASSUME NEW c \in Call
    PROVE  Under(c, c)
BY ExtendsItself DEF Call, Under

\* What is under a call that is under another is under that one.
LEMMA UnderTransitively ==
    ASSUME NEW c \in Call, NEW d \in Call, NEW x, x.via \in Seq(Address),
           Under(x, c), Under(c, d)
    PROVE  Under(x, d)
<1>1. c.via \in Seq(Address) /\ d.via \in Seq(Address)
  BY DEF Call
<1>2. Extends(x.via, c.via) /\ Extends(c.via, d.via)
  BY DEF Under
<1>3. Extends(x.via, d.via)
  BY <1>1, <1>2, ExtendsTransitively
<1> QED BY <1>3 DEF Under

LEMMA AllUnderTransitively ==
    ASSUME NEW c \in Call, NEW d \in Call, NEW s \in Seq(Intent), AllUnder(s, c), Under(c, d)
    PROVE  AllUnder(s, d)
<1>1. ASSUME NEW n \in DOMAIN s PROVE Under(s[n], d)
  <2>1. s[n] \in Intent
    OBVIOUS
  <2>2. s[n].via \in Seq(Address) /\ Under(s[n], c)
    BY <2>1 DEF Intent, AllUnder
  <2> QED BY <2>2, UnderTransitively
<1> QED BY <1>1 DEF AllUnder

\* What is found earlier and later in a container.
LEMMA JoinedUnder ==
    ASSUME NEW c, NEW r \in Seq(Intent), NEW s \in Seq(Intent), AllUnder(r, c), AllUnder(s, c)
    PROVE  r \o s \in Seq(Intent) /\ AllUnder(r \o s, c)
<1>1. ASSUME NEW n \in 1..Len(r) + Len(s)
      PROVE  (r \o s)[n] = IF n <= Len(r) THEN r[n] ELSE s[n - Len(r)]
  OBVIOUS
<1>2. ASSUME NEW n \in 1..Len(r) + Len(s)
      PROVE  Under((r \o s)[n], c)
  <2>1. CASE n <= Len(r)
    <3>1. n \in DOMAIN r /\ (r \o s)[n] = r[n]
      BY <1>1, <2>1
    <3> QED BY <3>1 DEF AllUnder
  <2>2. CASE n > Len(r)
    <3>1. n - Len(r) \in DOMAIN s /\ (r \o s)[n] = s[n - Len(r)]
      BY <1>1, <2>2
    <3> QED BY <3>1 DEF AllUnder
  <2> QED BY <2>1, <2>2
<1>3. r \o s \in Seq(Intent) /\ DOMAIN (r \o s) = 1..Len(r) + Len(s)
  OBVIOUS
<1> QED BY <1>2, <1>3 DEF AllUnder

\* The containers that are open, and what they hold, are calls.
LEMMA HolderType ==
    ASSUME NEW t \in Transactions, NEW s \in Seq(Frames), NEW k \in 0..Len(s)
    PROVE  Holder(s, t, k) \in Call
<1>1. CASE k = 0
  BY <1>1, TopCallType DEF Holder
<1>2. CASE k # 0
  <2>1. s[k] \in Frames
    BY <1>2
  <2> QED BY <1>2, <2>1 DEF Holder, Frames
<1> QED BY <1>1, <1>2

\* The elements of a container are those that it holds.
LEMMA ItemsType ==
    ASSUME NEW c \in Call, c.data.fn \in Containers
    PROVE  c.data.items \in Seq(Held(c.data)) /\ Len(c.data.items) \in Nat
<1>1. c.data \in Data
  BY DEF Call
<1>2. c.data.items \in Seq(Held(c.data))
  BY <1>1, FieldsAssumption
<1> QED BY <1>2

\* An element's call is made in the container's.
LEMMA NestedUnder ==
    ASSUME NEW c \in Call, c.data.fn \in Nesting, NEW item \in Held(c.data), item.fits
    PROVE  Nested(c, item) \in Call /\ Under(Nested(c, item), c)
<1>1. /\ c.to \in AddressOrNone /\ c.value \in Nat /\ c.data \in Data
      /\ c.actor \in AddressOrNone /\ c.via \in Seq(Address)
  BY DEF Call
<1>2. item.to \in Address /\ item.to # None /\ item.value \in Nat /\ item.data \in Data
  BY <1>1, DataAssumption, FieldsAssumption, AddressAssumption
<1>3. PICK way \in Seq(Address) : way = Append(c.via, item.to) /\ Extends(way, c.via)
  BY <1>1, <1>2, OneFurther
<1>4. ASSUME NEW v \in Nat, NEW a \in AddressOrNone, NEW x, x = Inner(c, item.to, v, item.data, a)
      PROVE  x \in Call /\ Under(x, c)
  <2>1. x = [to |-> item.to, value |-> v, data |-> item.data,
             actor |-> IF a = None THEN c.actor ELSE a, via |-> way]
    BY <1>3, <1>4 DEF Inner
  <2>2. x \in Call
    BY <1>1, <1>2, <2>1 DEF Call, AddressOrNone
  <2> QED BY <1>3, <2>1, <2>2 DEF Under
<1>5. CASE c.data.fn = "multicall"
  <2>1. Nested(c, item) = [c EXCEPT !.data = item.data]
    BY <1>5 DEF Nested, Relays
  <2>2. Nested(c, item) \in Call
    BY <1>2, <2>1 DEF Call
  <2>3. Nested(c, item).via = c.via /\ Nested(c, item).actor = c.actor
    BY <2>1 DEF Call
  <2> QED BY <1>1, <2>2, <2>3, ExtendsItself DEF Under
<1>6. CASE c.data.fn = "handleOps"
  <2>1. Nested(c, item) = Inner(c, item.to, 0, item.data, item.to)
    BY <1>6 DEF Nested, Relays
  <2> QED BY <1>2, <1>4, <2>1 DEF AddressOrNone
<1>7. CASE c.data.fn = "executeBatchNoValues"
  <2>1. Nested(c, item) = Inner(c, item.to, 0, item.data, None)
    BY <1>7 DEF Nested, Relays
  <2> QED BY <1>2, <1>4, <2>1 DEF AddressOrNone
<1>8. CASE c.data.fn \in {"execute", "executeBatch"} \cup Relays
  <2>1. Nested(c, item) = Inner(c, item.to, item.value, item.data, None)
    BY <1>8 DEF Nested, Relays
  <2> QED BY <1>2, <1>4, <2>1 DEF AddressOrNone
<1> QED BY <1>5, <1>6, <1>7, <1>8 DEF Nesting, Containers, Accounts, Relays

-----------------------------------------------------------------------------
(* Stacks                                                                  *)

LEMMA AllButLast ==
    ASSUME NEW S, NEW s \in Seq(S), s # <<>>
    PROVE  /\ SubSeq(s, 1, Len(s) - 1) \in Seq(S)
           /\ Len(SubSeq(s, 1, Len(s) - 1)) = Len(s) - 1
           /\ \A k \in 1..Len(s) - 1 : SubSeq(s, 1, Len(s) - 1)[k] = s[k]
<1>1. PICK n \in Nat : n = Len(s) - 1
  OBVIOUS
<1>2. \A k \in 1..n : s[k] \in S
  BY <1>1
<1>3. /\ SubSeq(s, 1, n) \in Seq(S)
      /\ Len(SubSeq(s, 1, n)) = IF 1 <= n THEN n - 1 + 1 ELSE 0
      /\ \A k \in 1..n - 1 + 1 : SubSeq(s, 1, n)[k] = s[1 + k - 1]
  <2>1. 1 \in Int /\ n \in Int
    BY <1>1
  <2> QED BY <1>2, <2>1, SubSeqProperties
<1> QED BY <1>1, <1>3

LEMMA NestsNothing ==
    ASSUME NEW t
    PROVE  Nests(<<>>, t) /\ Waits(<<>>)
BY DepthAssumption DEF Nests, Waits

\* A container is entered.
LEMMA NestsOneMore ==
    ASSUME NEW t \in Transactions, NEW s, Nests(s, t), Waits(s), Len(s) <= MaxDepth,
           NEW c \in Call, c.data.fn \in Containers, c.data.head = "fits",
           Under(c, Holder(s, t, Len(s)))
    PROVE  Nests(Append(s, Frame(c)), t)
<1>1. s \in Seq(Frames) /\ Len(s) \in Nat
  BY DEF Nests
<1>2. PICK f : f = Frame(c)
  OBVIOUS
<1>3. /\ f \in Frames /\ f.call = c /\ f.next = 1 /\ f.found = <<>>
  BY <1>2 DEF Frame, Frames, AddressOrNone
<1>4. PICK r : r = Append(s, f)
  OBVIOUS
<1>5. /\ r \in Seq(Frames) /\ Len(r) = Len(s) + 1
      /\ r[Len(s) + 1] = f
      /\ \A k \in 1..Len(s) : r[k] = s[k]
  BY <1>1, <1>3, <1>4
<1>6. \A k \in 0..Len(s) : Holder(r, t, k) = Holder(s, t, k)
  BY <1>5 DEF Holder
<1>7. Len(c.data.items) \in Nat
  BY ItemsType
<1>8. ASSUME NEW k \in 1..Len(s)
      PROVE  /\ r[k].call.data.fn \in Containers /\ r[k].call.data.head = "fits"
             /\ r[k].next \in 1..Len(r[k].call.data.items) + 1
             /\ r[k].next <= Len(r[k].call.data.items)
             /\ Under(r[k].call, Holder(r, t, k - 1))
             /\ AllUnder(r[k].found, r[k].call)
  <2>1. r[k] = s[k] /\ Holder(r, t, k - 1) = Holder(s, t, k - 1)
    BY <1>5, <1>6
  <2>2. s[k].next <= Len(s[k].call.data.items)
    BY <1>1 DEF Nests, Waits
  <2> QED BY <2>1, <2>2 DEF Nests
<1>9. /\ r[Len(r)].call.data.fn \in Containers /\ r[Len(r)].call.data.head = "fits"
      /\ r[Len(r)].next \in 1..Len(r[Len(r)].call.data.items) + 1
      /\ Under(r[Len(r)].call, Holder(r, t, Len(r) - 1))
      /\ AllUnder(r[Len(r)].found, r[Len(r)].call)
  <2>1. r[Len(r)] = f /\ Holder(r, t, Len(r) - 1) = Holder(s, t, Len(s))
    BY <1>1, <1>5, <1>6
  <2> QED BY <1>3, <1>7, <2>1 DEF AllUnder
<1>10. \A k \in 1..Len(r) : k \in 1..Len(s) \/ k = Len(r)
  BY <1>1, <1>5
<1>11. Len(r) <= MaxDepth + 1
  BY <1>1, <1>5, DepthAssumption
<1>12. Nests(r, t)
  BY <1>5, <1>8, <1>9, <1>10, <1>11 DEF Nests
<1> QED BY <1>2, <1>4, <1>12

\* The last container is left, at the element that it was in the one below.
LEMMA NestsOneLess ==
    ASSUME NEW t \in Transactions, NEW s, Nests(s, t), s # <<>>,
           NEW r, r = SubSeq(s, 1, Len(s) - 1)
    PROVE  /\ Nests(r, t) /\ Waits(r)
           /\ Len(r) = Len(s) - 1 /\ Holder(r, t, Len(r)) = Holder(s, t, Len(s) - 1)
<1>1. s \in Seq(Frames) /\ Len(s) \in Nat /\ Len(s) > 0
  BY DEF Nests
<1>2. /\ r \in Seq(Frames) /\ Len(r) = Len(s) - 1
      /\ \A k \in 1..Len(s) - 1 : r[k] = s[k]
  BY <1>1, AllButLast
<1>3. \A k \in 0..Len(s) - 1 : Holder(r, t, k) = Holder(s, t, k)
  BY <1>2 DEF Holder
<1>4. ASSUME NEW k \in 1..Len(r)
      PROVE  /\ r[k].call.data.fn \in Containers /\ r[k].call.data.head = "fits"
             /\ r[k].next \in 1..Len(r[k].call.data.items) + 1
             /\ r[k].next <= Len(r[k].call.data.items)
             /\ Under(r[k].call, Holder(r, t, k - 1))
             /\ AllUnder(r[k].found, r[k].call)
  <2>1. k \in 1..Len(s) /\ k < Len(s) /\ k - 1 \in 0..Len(s) - 1
    BY <1>1, <1>2
  <2>2. r[k] = s[k] /\ Holder(r, t, k - 1) = Holder(s, t, k - 1)
    BY <1>1, <1>2, <1>3, <2>1
  <2> QED BY <2>1, <2>2 DEF Nests
<1>5. Len(r) <= MaxDepth + 1
  BY <1>1, <1>2, DepthAssumption DEF Nests
<1>6. Nests(r, t)
  BY <1>2, <1>4, <1>5 DEF Nests
<1>7. Waits(r)
  <2>1. CASE r # <<>>
    BY <1>2, <1>4, <2>1 DEF Waits
  <2> QED BY <2>1 DEF Waits
<1> QED BY <1>1, <1>2, <1>3, <1>6, <1>7

\* The last container goes on to its next element.
LEMMA NestsFurther ==
    ASSUME NEW t \in Transactions, NEW s, Nests(s, t), s # <<>>, Waits(s),
           NEW f \in Frames, f.call = s[Len(s)].call, f.next = s[Len(s)].next + 1,
           AllUnder(f.found, f.call)
    PROVE  LET r == Append(SubSeq(s, 1, Len(s) - 1), f)
           IN  Nests(r, t) /\ r # <<>>
<1>1. s \in Seq(Frames) /\ Len(s) \in Nat /\ Len(s) > 0
  BY DEF Nests
<1>2. PICK b : b = SubSeq(s, 1, Len(s) - 1)
  OBVIOUS
<1>3. b \in Seq(Frames) /\ Len(b) = Len(s) - 1 /\ \A k \in 1..Len(s) - 1 : b[k] = s[k]
  BY <1>1, <1>2, AllButLast
<1>4. PICK r : r = Append(b, f)
  OBVIOUS
<1>5. /\ r \in Seq(Frames) /\ Len(r) = Len(s)
      /\ r[Len(s)] = f
      /\ \A k \in 1..Len(s) - 1 : r[k] = s[k]
  <2>1. r \in Seq(Frames) /\ Len(r) = Len(b) + 1 /\ r[Len(b) + 1] = f
    BY <1>3, <1>4
  <2>2. \A k \in 1..Len(b) : r[k] = b[k]
    BY <1>3, <1>4
  <2>3. Len(b) + 1 = Len(s)
    BY <1>1, <1>3
  <2> QED BY <1>1, <1>3, <2>1, <2>2, <2>3
<1>6. \A k \in 1..Len(s) : r[k].call = s[k].call
  BY <1>1, <1>5
<1>7. \A k \in 0..Len(s) : Holder(r, t, k) = Holder(s, t, k)
  BY <1>6 DEF Holder
<1>8. ASSUME NEW k \in 1..Len(s)
      PROVE  /\ r[k].call.data.fn \in Containers /\ r[k].call.data.head = "fits"
             /\ Under(r[k].call, Holder(r, t, k - 1))
  BY <1>6, <1>7 DEF Nests
<1>9. ASSUME NEW k \in 1..Len(s), k < Len(s)
      PROVE  /\ r[k].next \in 1..Len(r[k].call.data.items) + 1
             /\ r[k].next <= Len(r[k].call.data.items)
             /\ AllUnder(r[k].found, r[k].call)
  <2>1. r[k] = s[k]
    BY <1>1, <1>5, <1>9
  <2> QED BY <1>9, <2>1 DEF Nests
<1>10. /\ r[Len(s)].next \in 1..Len(r[Len(s)].call.data.items) + 1
       /\ AllUnder(r[Len(s)].found, r[Len(s)].call)
  <2>1. s[Len(s)].call \in Call /\ s[Len(s)].call.data.fn \in Containers
    <3>1. s[Len(s)] \in Frames /\ Len(s) \in 1..Len(s)
      BY <1>1
    <3> QED BY <3>1 DEF Frames, Nests
  <2>2. Len(s[Len(s)].call.data.items) \in Nat
    BY <2>1, ItemsType
  <2>3. s[Len(s)].next \in Nat /\ s[Len(s)].next <= Len(s[Len(s)].call.data.items)
    <3>1. s[Len(s)] \in Frames
      BY <1>1
    <3> QED BY <3>1 DEF Frames, Waits
  <2> QED BY <1>5, <2>2, <2>3
<1>11. \A k \in 1..Len(s) : k < Len(s) \/ k = Len(s)
  BY <1>1
<1>12. Nests(r, t)
  BY <1>5, <1>8, <1>9, <1>10, <1>11 DEF Nests
<1>13. r # <<>>
  BY <1>1, <1>5
<1> QED BY <1>2, <1>4, <1>12, <1>13

-----------------------------------------------------------------------------
(* What is kept of a sequence                                              *)

\* What 0 is in, and with each number the next, all numbers up to L are in.
LEMMA UpTo ==
    ASSUME NEW L \in Nat, NEW B, 0 \in B, \A n \in 1..L : n - 1 \in B => n \in B
    PROVE  \A n \in 0..L : n \in B
<1> DEFINE T == {n \in 0..L : n \notin B}
<1>1. ASSUME T # {} PROVE FALSE
  <2>1. T \subseteq Nat
    OBVIOUS
  <2>2. PICK n \in T : \A m \in T : n <= m
    <3> HIDE DEF T
    <3> QED BY <1>1, <2>1, LeastOf
  <2>3. n \in 1..L /\ n - 1 \in 0..L /\ n \notin B /\ ~(n <= n - 1)
    OBVIOUS
  <2>4. n - 1 \in B
    BY <2>2, <2>3
  <2> QED BY <2>3, <2>4
<1> QED BY <1>1

\* What is kept of the first elements of s, one by one.
Keeps(T, s, Q, k) ==
    /\ k \in [0..Len(s) -> Seq(T)]
    /\ k[0] = <<>>
    /\ \A n \in 1..Len(s) : k[n] = IF s[n] \in Q THEN Append(k[n - 1], s[n]) ELSE k[n - 1]

LEMMA KeepsExists ==
    ASSUME NEW T, NEW s \in Seq(T), NEW Q
    PROVE  \E k : Keeps(T, s, Q, k)
<1> DEFINE S == Seq(T)
           x(p) == s[p[1] + 1]
           g == [p \in Nat \X S |-> IF p[1] + 1 \in DOMAIN s /\ x(p) \in Q
                                    THEN Append(p[2], x(p)) ELSE p[2]]
<1>1. g \in [Nat \X S -> S]
  OBVIOUS
<1>2. PICK k : k \in Steps(S, <<>>, g, Len(s))
  <2>1. <<>> \in S /\ Len(s) \in Nat
    OBVIOUS
  <2> HIDE DEF g, S
  <2> QED BY <1>1, <2>1, StepsExist
<1>3. k \in [0..Len(s) -> S] /\ k[0] = <<>>
      /\ \A n \in 0..Len(s) - 1 : k[n + 1] = g[<<n, k[n]>>]
  BY <1>2 DEF Steps
<1>4. ASSUME NEW n \in 1..Len(s)
      PROVE  k[n] = IF s[n] \in Q THEN Append(k[n - 1], s[n]) ELSE k[n - 1]
  <2>1. n - 1 \in 0..Len(s) - 1 /\ n - 1 \in 0..Len(s) /\ (n - 1) + 1 = n /\ n \in DOMAIN s
        /\ n - 1 \in Nat
    OBVIOUS
  <2>2. k[(n - 1) + 1] = g[<<n - 1, k[n - 1]>>] /\ k[n - 1] \in S
    <3> HIDE DEF g, S
    <3> QED BY <1>3, <2>1
  <2>3. g[<<n - 1, k[n - 1]>>] = IF s[n] \in Q THEN Append(k[n - 1], s[n]) ELSE k[n - 1]
    BY <2>1, <2>2
  <2> HIDE DEF g
  <2> QED BY <2>1, <2>2, <2>3
<1>5. Keeps(T, s, Q, k)
  <2> HIDE DEF g
  <2> QED BY <1>3, <1>4 DEF Keeps
<1> QED BY <1>5

\* What the recursion of Kept defines, and whatever else keeps the same.
LEMMA KeptIs ==
    ASSUME NEW T, NEW s \in Seq(T), NEW Q, NEW k, Keeps(T, s, Q, k)
    PROVE  Kept(s, Q) = k[Len(s)] /\ Kept(s, Q) \in Seq(T)
<1> DEFINE Step(r) == [n \in 0..Len(s) |->
                         IF n = 0 THEN <<>>
                         ELSE IF s[n] \in Q THEN Append(r[n - 1], s[n]) ELSE r[n - 1]]
           kept == CHOOSE r : r = Step(r)
<1>1. k = Step(k)
  <2>1. k = [n \in 0..Len(s) |-> k[n]]
    BY DEF Keeps
  <2>2. ASSUME NEW n \in 0..Len(s) PROVE k[n] = Step(k)[n]
    <3>1. CASE n = 0
      BY <3>1 DEF Keeps
    <3>2. CASE n # 0
      <4>1. n \in 1..Len(s)
        BY <3>2
      <4> QED BY <3>2, <4>1 DEF Keeps
    <3> QED BY <3>1, <3>2
  <2>3. Step(k) = [n \in 0..Len(s) |-> Step(k)[n]]
    OBVIOUS
  <2> HIDE DEF Step
  <2> QED BY <2>1, <2>2, <2>3
<1>2. kept = Step(kept)
  <2> HIDE DEF Step
  <2> QED BY <1>1
<1>3. Kept(s, Q) = kept[Len(s)]
  BY DEF Kept
<1> DEFINE B == {n \in 0..Len(s) : kept[n] = k[n]}
<1> HIDE DEF kept
<1>4. 0 \in B
  BY <1>1, <1>2
<1>5. ASSUME NEW n \in 1..Len(s), n - 1 \in B PROVE n \in B
  <2>1. n \in 0..Len(s) /\ n # 0 /\ kept[n - 1] = k[n - 1]
    BY <1>5
  <2>2. kept[n] = Step(kept)[n] /\ k[n] = Step(k)[n]
    <3> HIDE DEF Step
    <3> QED BY <1>1, <1>2
  <2> QED BY <2>1, <2>2
<1>6. \A n \in 0..Len(s) : n \in B
  <2>1. Len(s) \in Nat
    OBVIOUS
  <2> HIDE DEF B
  <2> QED BY <1>4, <1>5, <2>1, UpTo
<1>7. Len(s) \in 0..Len(s)
  OBVIOUS
<1> QED BY <1>3, <1>6, <1>7 DEF Keeps

LEMMA KeptNothing ==
    ASSUME NEW Q
    PROVE  Kept(<<>>, Q) = <<>>
<1>1. <<>> \in Seq({}) /\ Len(<<>>) = 0
  OBVIOUS
<1>2. PICK k : Keeps({}, <<>>, Q, k)
  BY <1>1, KeepsExists
<1> QED BY <1>1, <1>2, KeptIs DEF Keeps

\* One element more.
LEMMA KeptAppend ==
    ASSUME NEW T, NEW s \in Seq(T), NEW x \in T, NEW Q
    PROVE  Kept(Append(s, x), Q) = IF x \in Q THEN Append(Kept(s, Q), x) ELSE Kept(s, Q)
<1>1. PICK r : r = Append(s, x) /\ r \in Seq(T)
  <2>1. Append(s, x) \in Seq(T)
    OBVIOUS
  <2> QED BY <2>1
<1>2. /\ Len(s) \in Nat /\ Len(r) = Len(s) + 1 /\ r[Len(s) + 1] = x
      /\ \A n \in 1..Len(s) : r[n] = s[n]
  BY <1>1
<1>3. PICK k : Keeps(T, s, Q, k)
  BY KeepsExists
<1>4. PICK j : Keeps(T, r, Q, j)
  BY <1>1, KeepsExists
<1> DEFINE B == {n \in 0..Len(s) : j[n] = k[n]}
<1>5. 0 \in B
  BY <1>2, <1>3, <1>4 DEF Keeps
<1>6. ASSUME NEW n \in 1..Len(s), n - 1 \in B PROVE n \in B
  <2>1. n \in 1..Len(r) /\ r[n] = s[n] /\ j[n - 1] = k[n - 1]
    BY <1>2, <1>6
  <2> QED BY <1>3, <1>4, <2>1 DEF Keeps
<1>7. \A n \in 0..Len(s) : n \in B
  <2> HIDE DEF B
  <2> QED BY <1>2, <1>5, <1>6, UpTo
<1>8. j[Len(s)] = k[Len(s)]
  BY <1>2, <1>7
<1>9. j[Len(r)] = IF x \in Q THEN Append(j[Len(s)], x) ELSE j[Len(s)]
  <2>1. Len(r) \in 1..Len(r) /\ Len(r) - 1 = Len(s) /\ r[Len(r)] = x
    BY <1>2
  <2> QED BY <1>4, <2>1 DEF Keeps
<1>10. Kept(r, Q) = j[Len(r)] /\ Kept(s, Q) = k[Len(s)]
  BY <1>1, <1>3, <1>4, KeptIs
<1> QED BY <1>1, <1>8, <1>9, <1>10

\* What is kept depends on what there is alone.
LEMMA KeptSame ==
    ASSUME NEW T, NEW s \in Seq(T), NEW P, NEW Q,
           \A n \in 1..Len(s) : s[n] \in P <=> s[n] \in Q
    PROVE  Kept(s, P) = Kept(s, Q)
<1>1. PICK k : Keeps(T, s, P, k)
  BY KeepsExists
<1>2. Keeps(T, s, Q, k)
  BY <1>1 DEF Keeps
<1> QED BY <1>1, <1>2, KeptIs

\* Kept once and again.
LEMMA KeptTwice ==
    ASSUME NEW T, NEW s \in Seq(T), NEW P, NEW Q
    PROVE  Kept(Kept(s, P), Q) = Kept(s, P \cap Q)
<1>0. Len(s) \in Nat
  OBVIOUS
<1>1. PICK k : Keeps(T, s, P, k)
  BY KeepsExists
<1>2. PICK j : Keeps(T, s, P \cap Q, j)
  BY KeepsExists
<1> DEFINE B == {n \in 0..Len(s) : Kept(k[n], Q) = j[n]}
<1>3. 0 \in B
  BY <1>0, <1>1, <1>2, KeptNothing DEF Keeps
<1>4. ASSUME NEW n \in 1..Len(s), n - 1 \in B PROVE n \in B
  <2>1. PICK r \in Seq(T) : r = k[n - 1] /\ Kept(r, Q) = j[n - 1]
    BY <1>1, <1>4 DEF Keeps
  <2>2. /\ k[n] = IF s[n] \in P THEN Append(r, s[n]) ELSE r
        /\ j[n] = IF s[n] \in P \cap Q THEN Append(j[n - 1], s[n]) ELSE j[n - 1]
    BY <1>1, <1>2, <2>1 DEF Keeps
  <2>3. Kept(Append(r, s[n]), Q) = IF s[n] \in Q THEN Append(Kept(r, Q), s[n]) ELSE Kept(r, Q)
    <3>1. s[n] \in T
      OBVIOUS
    <3> QED BY <3>1, KeptAppend
  <2>4. Kept(k[n], Q) = j[n]
    BY <2>1, <2>2, <2>3
  <2> QED BY <2>4
<1>5. \A n \in 0..Len(s) : n \in B
  <2> HIDE DEF B
  <2> QED BY <1>0, <1>3, <1>4, UpTo
<1>6. Kept(k[Len(s)], Q) = j[Len(s)]
  BY <1>0, <1>5
<1>7. Kept(s, P) = k[Len(s)] /\ Kept(s, P \cap Q) = j[Len(s)]
  BY <1>1, <1>2, KeptIs
<1> QED BY <1>6, <1>7

\* What the filter shows of intents, and what the example reports of them.
LEMMA ShownIsReported ==
    ASSUME NEW s \in Seq(Intent), NEW f \in Filters, NEW sender \in Senders, NEW t,
           Given(f.actor), ~Given(f.selector), ~Given(f.sender)
    PROVE  Kept(Shown(Keep(f, t, sender, s)), Trades) = Signals(f.actor, f.to, t, sender, s)
<1> DEFINE followed == Unclaimed(s) /\ sender \in f.actor
           A == {i \in Intent : IF i.actor = None THEN followed ELSE i.actor \in f.actor}
           B == {i \in Trades : (IF i.actor # None THEN i.actor ELSE sender) \in f.actor}
           mine == Kept(s, A)
<1>1. CASE Given(f.to) /\ t.to \notin f.to
  <2>1. Keep(f, t, sender, s) = None /\ Signals(f.actor, f.to, t, sender, s) = <<>>
    BY <1>1 DEF Keep, Signals
  <2> QED BY <2>1, KeptNothing DEF Shown
<1>2. CASE ~(Given(f.to) /\ t.to \notin f.to)
  <2>1. /\ Keep(f, t, sender, s) = ActorsIntents(f, sender, s)
        /\ Signals(f.actor, f.to, t, sender, s) = Kept(s, B)
    BY <1>2 DEF Keep, Signals
  <2>2. mine \in Seq(Intent) /\ mine # None
    <3> HIDE DEF A
    <3>1. PICK k : Keeps(Intent, s, A, k)
      BY KeepsExists
    <3>2. mine \in Seq(Intent)
      BY <3>1, KeptIs
    <3> QED BY <3>2, NoneAssumption
  <2>3. ActorsIntents(f, sender, s) = IF mine # <<>> \/ (s = <<>> /\ followed) THEN mine ELSE None
    BY DEF ActorsIntents
  <2> HIDE DEF mine, followed
  <2>4. Shown(ActorsIntents(f, sender, s)) = mine
    BY <2>2, <2>3 DEF Shown
  <2>5. \A n \in 1..Len(s) : s[n] \in A \cap Trades <=> s[n] \in B
    <3> TAKE n \in 1..Len(s)
    <3>1. s[n] \in Intent
      OBVIOUS
    <3>2. s[n].actor = None => (followed <=> sender \in f.actor)
      BY DEF Unclaimed, followed
    <3> QED BY <3>1, <3>2 DEF Trades
  <2>6. Kept(mine, Trades) = Kept(s, A \cap Trades) /\ Kept(s, A \cap Trades) = Kept(s, B)
    <3> HIDE DEF A, B
    <3> QED BY <2>5, KeptTwice, KeptSame DEF mine
  <2> HIDE DEF A, B
  <2> QED BY <2>1, <2>4, <2>6
<1> QED BY <1>1, <1>2

-----------------------------------------------------------------------------
(* What a call is worth                                                    *)

\* The first sequences of p, joined one by one.
Joins(S, p, L, j) ==
    /\ j \in [0..L -> Seq(S)]
    /\ j[0] = <<>>
    /\ \A n \in 1..L : j[n] = j[n - 1] \o p[n]

\* L sequences of S.
Sequences(S, p, L) == \A n \in 1..L : p[n] \in Seq(S)

LEMMA JoinsExists ==
    ASSUME NEW S, NEW L \in Nat, NEW p, Sequences(S, p, L)
    PROVE  \E j : Joins(S, p, L, j)
<1> DEFINE Q == Seq(S)
           g == [x \in Nat \X Q |-> IF x[1] + 1 \in 1..L THEN x[2] \o p[x[1] + 1] ELSE x[2]]
<1>1. g \in [Nat \X Q -> Q]
  <2>1. SUFFICES ASSUME NEW x \in Nat \X Q
                 PROVE  (IF x[1] + 1 \in 1..L THEN x[2] \o p[x[1] + 1] ELSE x[2]) \in Q
    OBVIOUS
  <2>2. CASE x[1] + 1 \in 1..L
    <3>1. p[x[1] + 1] \in Seq(S) /\ x[2] \in Seq(S)
      BY <2>2 DEF Sequences
    <3> QED BY <2>2, <3>1
  <2> QED BY <2>2
<1>2. PICK j : j \in Steps(Q, <<>>, g, L)
  <2>1. <<>> \in Q
    OBVIOUS
  <2> HIDE DEF g, Q
  <2> QED BY <1>1, <2>1, StepsExist
<1>3. j \in [0..L -> Q] /\ j[0] = <<>> /\ \A n \in 0..L - 1 : j[n + 1] = g[<<n, j[n]>>]
  BY <1>2 DEF Steps
<1>4. ASSUME NEW n \in 1..L PROVE j[n] = j[n - 1] \o p[n]
  <2>1. n - 1 \in 0..L - 1 /\ n - 1 \in 0..L /\ (n - 1) + 1 = n /\ n - 1 \in Nat
    OBVIOUS
  <2>2. j[(n - 1) + 1] = g[<<n - 1, j[n - 1]>>] /\ j[n - 1] \in Q
    <3> HIDE DEF g, Q
    <3> QED BY <1>3, <2>1
  <2>3. g[<<n - 1, j[n - 1]>>] = j[n - 1] \o p[n]
    BY <2>1, <2>2
  <2> HIDE DEF g
  <2> QED BY <2>1, <2>2, <2>3
<1>5. Joins(S, p, L, j)
  <2> HIDE DEF g
  <2> QED BY <1>3, <1>4 DEF Joins
<1> QED BY <1>5

\* What the recursion of FirstOf defines, and whatever else joins the same.
LEMMA FirstOfIs ==
    ASSUME NEW S, NEW L \in Nat, NEW p, NEW j, Joins(S, p, L, j), NEW m \in 0..L
    PROVE  FirstOf(p, m) = j[m]
<1> DEFINE Step(r) == [n \in 0..m |-> IF n = 0 THEN <<>> ELSE r[n - 1] \o p[n]]
           joined == CHOOSE r : r = Step(r)
           i == [n \in 0..m |-> j[n]]
<1>1. i = Step(i)
  <2>1. ASSUME NEW n \in 0..m PROVE i[n] = Step(i)[n]
    <3>1. CASE n = 0
      BY <3>1 DEF Joins
    <3>2. CASE n # 0
      <4>1. n \in 1..L /\ n - 1 \in 0..m
        BY <3>2
      <4> QED BY <3>2, <4>1 DEF Joins
    <3> QED BY <3>1, <3>2
  <2>2. Step(i) = [n \in 0..m |-> Step(i)[n]] /\ i = [n \in 0..m |-> i[n]]
    OBVIOUS
  <2> HIDE DEF Step, i
  <2> QED BY <2>1, <2>2
<1>2. joined = Step(joined)
  <2> HIDE DEF Step, i
  <2> QED BY <1>1
<1>3. FirstOf(p, m) = joined[m]
  BY DEF FirstOf
<1> DEFINE B == {n \in 0..m : joined[n] = i[n]}
<1> HIDE DEF joined
<1>4. 0 \in B
  <2>1. 0 \in 0..m
    OBVIOUS
  <2>2. joined[0] = Step(joined)[0] /\ i[0] = Step(i)[0]
    <3> HIDE DEF Step, i
    <3> QED BY <1>1, <1>2
  <2> HIDE DEF i
  <2> QED BY <2>1, <2>2
<1>5. ASSUME NEW n \in 1..m, n - 1 \in B PROVE n \in B
  <2>1. n \in 0..m /\ n # 0 /\ joined[n - 1] = i[n - 1]
    BY <1>5
  <2>2. joined[n] = Step(joined)[n] /\ i[n] = Step(i)[n]
    <3> HIDE DEF Step, i
    <3> QED BY <1>1, <1>2
  <2> HIDE DEF i
  <2> QED BY <2>1, <2>2
<1>6. \A n \in 0..m : n \in B
  <2>1. m \in Nat
    OBVIOUS
  <2> HIDE DEF B
  <2> QED BY <1>4, <1>5, <2>1, UpTo
<1>7. m \in 0..m
  OBVIOUS
<1>8. joined[m] = i[m]
  BY <1>6, <1>7
<1> QED BY <1>3, <1>7, <1>8

\* One sequence more.
LEMMA FirstOfSteps ==
    ASSUME NEW S, NEW L \in Nat, NEW p, Sequences(S, p, L)
    PROVE  /\ FirstOf(p, 0) = <<>>
           /\ \A n \in 1..L : FirstOf(p, n) = FirstOf(p, n - 1) \o p[n]
           /\ \A n \in 0..L : FirstOf(p, n) \in Seq(S)
<1>1. PICK j : Joins(S, p, L, j)
  BY JoinsExists
<1>2. \A n \in 0..L : FirstOf(p, n) = j[n]
  BY <1>1, FirstOfIs
<1>3. 0 \in 0..L /\ \A n \in 1..L : n \in 0..L /\ n - 1 \in 0..L
  OBVIOUS
<1> QED BY <1>1, <1>2, <1>3 DEF Joins

\* One element more of a Relay call.
LEMMA TokenOfSteps ==
    ASSUME NEW d
    PROVE  /\ TokenOf(d, 0) = None
           /\ \A n \in Nat \ {0} :
                TokenOf(d, n) = IF d.items[n].data.fn = "executor" /\ d.items[n].data.tokens # <<>>
                                THEN d.items[n].data.tokens[1] ELSE TokenOf(d, n - 1)
<1> DEFINE named(k) == d.items[k].data.fn = "executor" /\ d.items[k].data.tokens # <<>>
           naming(n) == {k \in 1..n : named(k)}
           first(k) == d.items[k].data.tokens[1]
<1>1. \A n \in Nat : TokenOf(d, n) = IF naming(n) = {} THEN None ELSE first(Largest(naming(n)))
  BY DEF TokenOf
<1> HIDE DEF named, first
<1>2. naming(0) = {}
  OBVIOUS
<1>3. ASSUME NEW n \in Nat \ {0}, named(n)
      PROVE  naming(n) # {} /\ Largest(naming(n)) = n
  <2>1. n \in naming(n) /\ \A k \in naming(n) : k \in Nat /\ k <= n
    BY <1>3
  <2> HIDE DEF naming
  <2>2. PICK k : k = Largest(naming(n))
    OBVIOUS
  <2>3. k \in naming(n) /\ \A i \in naming(n) : i <= k
    BY <2>1, <2>2 DEF Largest
  <2>4. n <= k /\ k <= n /\ k \in Nat
    BY <2>1, <2>3
  <2> QED BY <2>1, <2>2, <2>4
<1>4. ASSUME NEW n \in Nat \ {0}, ~named(n)
      PROVE  naming(n) = naming(n - 1)
  <2>1. \A k : k \in 1..n /\ named(k) <=> k \in 1..n - 1 /\ named(k)
    <3> TAKE k
    <3>1. k \in 1..n <=> k \in 1..n - 1 \/ k = n
      OBVIOUS
    <3> QED BY <1>4, <3>1
  <2> QED BY <2>1
<1>5. ASSUME NEW n \in Nat \ {0}
      PROVE  TokenOf(d, n) = IF named(n) THEN first(n) ELSE TokenOf(d, n - 1)
  <2>1. n - 1 \in Nat
    OBVIOUS
  <2>2. /\ TokenOf(d, n) = IF naming(n) = {} THEN None ELSE first(Largest(naming(n)))
        /\ TokenOf(d, n - 1) = IF naming(n - 1) = {} THEN None ELSE first(Largest(naming(n - 1)))
    BY <1>1, <2>1
  <2> HIDE DEF naming
  <2> QED BY <1>3, <1>4, <2>2
<1>6. TokenOf(d, 0) = None
  BY <1>1, <1>2
<1> HIDE DEF naming
<1> QED BY <1>5, <1>6 DEF named, first

\* An element that can be read in the call that holds it.
Fine(c, item) == item.fits /\ (IsShape(c, item) => item.data.tokens # None)
AllFine(c, n) == \A k \in 1..n : Fine(c, c.data.items[k])

\* The calldata of a container whose reads all succeed.
LEMMA NotVoid ==
    ASSUME NEW c \in Call, c.data.fn \in Containers
    PROVE  Void(c.data) <=> \/ c.data.head # "fits" \/ ~c.data.tail
                            \/ ~AllFine(c, Len(c.data.items))
<1>1. DOMAIN c.data.items = 1..Len(c.data.items)
  BY ItemsType
<1>2. c.data.fn \notin Leaves
  BY DEF Containers, Accounts, Relays, Leaves
<1> QED BY <1>1, <1>2 DEF Void, AllFine, Fine, IsShape

LEMMA TokenOfType ==
    ASSUME NEW c \in Call, c.data.fn \in Relays, NEW L \in 0..Len(c.data.items), AllFine(c, L)
    PROVE  TokenOf(c.data, L) \in AddressOrNone
<1> DEFINE B == {n \in 0..L : TokenOf(c.data, n) \in AddressOrNone}
<1>0. /\ c.data \in Data /\ c.data.items \in Seq(Held(c.data)) /\ Len(c.data.items) \in Nat
  BY ItemsType DEF Call, Containers
<1>1. 0 \in B
  BY <1>0, TokenOfSteps DEF AddressOrNone
<1>2. ASSUME NEW n \in 1..L, n - 1 \in B PROVE n \in B
  <2>1. n \in Nat \ {0} /\ n \in 0..L /\ n \in 1..Len(c.data.items)
    BY <1>0
  <2>2. TokenOf(c.data, n) = IF /\ c.data.items[n].data.fn = "executor"
                                /\ c.data.items[n].data.tokens # <<>>
                             THEN c.data.items[n].data.tokens[1] ELSE TokenOf(c.data, n - 1)
    BY <2>1, TokenOfSteps
  <2>3. CASE c.data.items[n].data.fn = "executor" /\ c.data.items[n].data.tokens # <<>>
    <3>1. c.data.items[n] \in Held(c.data)
      BY <1>0, <2>1
    <3>2. c.data.items[n].data.tokens # None
      BY <2>3 DEF AllFine, Fine, IsShape
    <3>3. c.data.items[n].data.tokens \in Seq(Address)
      BY <1>0, <2>3, <3>1, <3>2, FieldsAssumption
    <3>4. c.data.items[n].data.tokens[1] \in Address
      BY <2>3, <3>3
    <3> QED BY <2>1, <2>2, <2>3, <3>4 DEF AddressOrNone
  <2>4. CASE ~(c.data.items[n].data.fn = "executor" /\ c.data.items[n].data.tokens # <<>>)
    BY <1>2, <2>1, <2>2, <2>4
  <2> QED BY <2>3, <2>4
<1>3. \A n \in 0..L : n \in B
  <2>1. L \in Nat
    BY <1>0
  <2> HIDE DEF B
  <2> QED BY <1>1, <1>2, <2>1, UpTo
<1>4. L \in 0..L
  BY <1>0
<1> QED BY <1>3, <1>4

\* The containers that may still be opened at a place.
Room == [w \in Places |-> IF w.depth <= MaxDepth THEN MaxDepth + 1 - w.depth ELSE 0]

\* What an element is worth, in a container that reads it.
PartOf(w, worth, k) ==
    LET c == w.call
        item == c.data.items[k]
    IN  IF c.data.fn = "router" THEN CommandIntents(c, item)
        ELSE IF IsShape(c, item) THEN <<>>
        ELSE worth[Place(w.depth + 1, Nested(c, item))]

LEMMA PartsAre ==
    ASSUME NEW w \in Places, w.call.data.fn \in Containers, NEW worth
    PROVE  Parts(w, worth) = [k \in 1..Len(w.call.data.items) |-> PartOf(w, worth, k)]
<1>1. w.call \in Call
  BY DEF Places
<1>2. DOMAIN w.call.data.items = 1..Len(w.call.data.items)
  BY <1>1, ItemsType
<1> DEFINE c == w.call
           item(k) == c.data.items[k]
           inside(k) == worth[Place(w.depth + 1, Nested(c, item(k)))]
           part(k) == CASE c.data.fn = "router" -> CommandIntents(c, item(k))
                        [] IsShape(c, item(k)) -> <<>>
                        [] c.data.fn # "router" /\ ~IsShape(c, item(k)) -> inside(k)
<1>3. Parts(w, worth) = [k \in DOMAIN c.data.items |-> part(k)]
  BY DEF Parts
<1>4. ASSUME NEW k PROVE part(k) = PartOf(w, worth, k)
  <2>1. PartOf(w, worth, k) = IF c.data.fn = "router" THEN CommandIntents(c, item(k))
                              ELSE IF IsShape(c, item(k)) THEN <<>> ELSE inside(k)
    BY DEF PartOf
  <2>2. IsShape(c, item(k)) => c.data.fn # "router"
    BY DEF IsShape, Relays
  <2> HIDE DEF c, item, inside
  <2> QED BY <2>1, <2>2
<1> HIDE DEF part
<1> QED BY <1>2, <1>3, <1>4

\* The call in an element is at a place with less room.
LEMMA InsideIsLess ==
    ASSUME NEW w \in Places, w.depth <= MaxDepth, w.call.data.fn \in Nesting,
           NEW k \in 1..Len(w.call.data.items), w.call.data.items[k].fits
    PROVE  LET v == Place(w.depth + 1, Nested(w.call, w.call.data.items[k]))
           IN  v \in Places /\ Room[v] < Room[w]
<1>1. w.call \in Call /\ w.depth \in Nat /\ MaxDepth \in Nat
  BY DepthAssumption DEF Places
<1>2. w.call.data.items[k] \in Held(w.call.data)
  BY <1>1, ItemsType DEF Nesting
<1>3. PICK c \in Call : c = Nested(w.call, w.call.data.items[k])
  BY <1>1, <1>2, NestedUnder
<1>4. PICK v : v = Place(w.depth + 1, c)
  OBVIOUS
<1>5. v \in Places /\ v.depth = w.depth + 1
  BY <1>1, <1>4 DEF Place, Places
<1>6. Room[v] < Room[w]
  BY <1>1, <1>5 DEF Room
<1> QED BY <1>3, <1>4, <1>5, <1>6

\* Read one by one, the elements that fit are worth intents, where those of the calls in
\* them are.
LEMMA PartsType ==
    ASSUME NEW w \in Places, w.depth <= MaxDepth, w.call.data.fn \in Containers,
           NEW L \in 0..Len(w.call.data.items), AllFine(w.call, L),
           NEW worth, \A v \in Places : Room[v] < Room[w] => worth[v] \in Seq(Intent)
    PROVE  Sequences(Intent, Parts(w, worth), L)
<1> DEFINE c == w.call
<1>1. c \in Call
  BY DEF Places
<1>2. c.data.items \in Seq(Held(c.data)) /\ Len(c.data.items) \in Nat
  BY <1>1, ItemsType
<1>3. ASSUME NEW k \in 1..L
      PROVE  Parts(w, worth)[k] \in Seq(Intent)
  <2>1. k \in 1..Len(c.data.items) /\ c.data.items[k] \in Held(c.data)
    BY <1>2
  <2>2. c.data.items[k].fits
    BY DEF AllFine, Fine
  <2>3. Parts(w, worth)[k] = PartOf(w, worth, k)
    BY <2>1, PartsAre
  <2>4. CASE c.data.fn = "router"
    <3>1. PartOf(w, worth, k) = CommandIntents(c, c.data.items[k])
      BY <2>4 DEF PartOf
    <3> QED BY <1>1, <2>1, <2>2, <2>3, <2>4, <3>1, CommandFinds
  <2>5. CASE c.data.fn # "router" /\ IsShape(c, c.data.items[k])
    <3>1. PartOf(w, worth, k) = <<>>
      BY <2>5 DEF PartOf
    <3> QED BY <2>3, <3>1
  <2>6. CASE c.data.fn # "router" /\ ~IsShape(c, c.data.items[k])
    <3>1. c.data.fn \in Nesting
      BY <2>6 DEF Nesting
    <3>2. PICK v \in Places : v = Place(w.depth + 1, Nested(c, c.data.items[k]))
                              /\ Room[v] < Room[w]
      BY <2>1, <2>2, <3>1, InsideIsLess
    <3>3. PartOf(w, worth, k) = worth[v]
      BY <2>6, <3>2 DEF PartOf
    <3> QED BY <2>3, <3>2, <3>3
  <2> QED BY <2>4, <2>5, <2>6
<1> QED BY <1>3 DEF Sequences

\* A call is worth intents, where the calls in it are.
LEMMA WorthAtType ==
    ASSUME NEW w \in Places, NEW worth,
           \A v \in Places : Room[v] < Room[w] => worth[v] \in Seq(Intent)
    PROVE  WorthAt(w, worth) \in Seq(Intent)
<1> DEFINE c == w.call
           L == Len(c.data.items)
           inside == FirstOf(Parts(w, worth), L)
<1>1. c \in Call /\ c.data \in Data /\ c.data.fn \in Functions
  BY DataAssumption DEF Places, Call
<1>2. CASE w.depth > MaxDepth \/ Void(c.data)
  <2>1. WorthAt(w, worth) = <<>>
    BY <1>2 DEF WorthAt
  <2> QED BY <2>1
<1> DEFINE reads == ~(w.depth > MaxDepth \/ Void(c.data))
<1>3. CASE reads /\ c.data.fn \in Leaves
  <2>1. WorthAt(w, worth) = LeafIntents(c)
    BY <1>3 DEF WorthAt, Leaves, Relays, Containers, Accounts
  <2> QED BY <1>1, <1>3, <2>1, LeafFinds
<1>4. CASE reads /\ c.data.fn \in Containers
  <2>1. w.depth <= MaxDepth
    BY <1>4, DepthAssumption DEF Places
  <2>2. c.data.head = "fits" /\ AllFine(c, L)
    BY <1>1, <1>4, NotVoid
  <2>3. L \in 0..L /\ L \in Nat
    BY <1>1, <1>4, ItemsType
  <2>4. Sequences(Intent, Parts(w, worth), L)
    BY <1>4, <2>1, <2>2, <2>3, PartsType
  <2>5. inside \in Seq(Intent)
    BY <2>3, <2>4, FirstOfSteps
  <2>6. CASE c.data.fn \in Relays
    <3>1. WorthAt(w, worth) = <<RelayIntent(c, inside, TokenOf(c.data, L))>>
      BY <1>4, <2>6 DEF WorthAt, Leaves, Relays
    <3>2. PICK t \in AddressOrNone : t = TokenOf(c.data, L)
      BY <1>1, <2>2, <2>3, <2>6, TokenOfType
    <3> HIDE DEF inside
    <3>3. RelayIntent(c, inside, t) \in Intent
      BY <1>1, <2>2, <2>5, <2>6, RelayFinds
    <3>4. PICK x \in Intent : x = RelayIntent(c, inside, t)
      BY <3>3
    <3> QED BY <3>1, <3>2, <3>4
  <2>7. CASE c.data.fn \notin Relays
    <3>1. WorthAt(w, worth) = inside
      BY <1>4, <2>7 DEF WorthAt, Leaves, Relays, Containers, Accounts
    <3> QED BY <2>5, <3>1
  <2> QED BY <2>6, <2>7
<1>5. CASE reads /\ c.data.fn \notin Containers \cup Leaves
  <2>1. WorthAt(w, worth) = <<>>
    BY <1>5 DEF WorthAt, Containers
  <2> QED BY <2>1
<1> QED BY <1>2, <1>3, <1>4, <1>5

\* What a call is worth is what the calls in it are worth, and nothing else.
LEMMA WorthAtSame ==
    ASSUME NEW w \in Places, NEW worth, NEW other,
           \A v \in Places : Room[v] < Room[w] => worth[v] = other[v]
    PROVE  WorthAt(w, worth) = WorthAt(w, other)
<1> DEFINE c == w.call
<1>1. c \in Call /\ c.data \in Data /\ c.data.fn \in Functions
  BY DataAssumption DEF Places, Call
<1>2. CASE w.depth > MaxDepth \/ Void(c.data)
  BY <1>2 DEF WorthAt
<1> DEFINE reads == ~(w.depth > MaxDepth \/ Void(c.data))
<1>3. CASE reads /\ c.data.fn \in Containers
  <2>1. w.depth <= MaxDepth
    BY <1>3, DepthAssumption DEF Places
  <2>2. AllFine(c, Len(c.data.items))
    BY <1>1, <1>3, NotVoid
  <2>3. ASSUME NEW k \in 1..Len(c.data.items)
        PROVE  PartOf(w, worth, k) = PartOf(w, other, k)
    <3>1. c.data.items[k].fits
      BY <2>2 DEF AllFine, Fine
    <3>2. CASE c.data.fn = "router" \/ IsShape(c, c.data.items[k])
      BY <3>2 DEF PartOf
    <3>3. CASE c.data.fn # "router" /\ ~IsShape(c, c.data.items[k])
      <4>1. c.data.fn \in Nesting
        BY <1>3, <3>3 DEF Nesting
      <4>2. PICK v \in Places : v = Place(w.depth + 1, Nested(c, c.data.items[k]))
                                /\ Room[v] < Room[w]
        BY <2>1, <3>1, <4>1, InsideIsLess
      <4>3. PartOf(w, worth, k) = worth[v] /\ PartOf(w, other, k) = other[v]
        BY <3>3, <4>2 DEF PartOf
      <4> QED BY <4>2, <4>3
    <3> QED BY <3>2, <3>3
  <2>4. Parts(w, worth) = Parts(w, other)
    BY <1>3, <2>3, PartsAre
  <2> QED BY <2>4 DEF WorthAt
<1>4. CASE reads /\ c.data.fn \notin Containers
  BY <1>4 DEF WorthAt, Containers
<1> QED BY <1>2, <1>3, <1>4

\* Every call is worth what is defined of it, and that is intents: the definition ends.
LEMMA WorthIs ==
    /\ Worth \in [Places -> Seq(Intent)]
    /\ \A w \in Places : Worth[w] = WorthAt(w, Worth)
<1> DEFINE S == Seq(Intent)
           F == [Places -> S]
           Step(worth) == [w \in Places |-> WorthAt(w, worth)]
           g == [worth \in F |-> Step(worth)]
<1>1. g \in [F -> F]
  <2>1. ASSUME NEW worth \in F, NEW w \in Places PROVE WorthAt(w, worth) \in S
    BY WorthAtType
  <2> HIDE DEF S
  <2> QED BY <2>1
<1>2. ASSUME NEW r \in F, NEW q \in F, NEW w \in Places,
             \A v \in Places : Room[v] < Room[w] => r[v] = q[v]
      PROVE  g[r][w] = g[q][w]
  <2>1. g[r][w] = WorthAt(w, r) /\ g[q][w] = WorthAt(w, q)
    <3> HIDE DEF S
    <3> QED OBVIOUS
  <2> QED BY <1>2, <2>1, WorthAtSame
<1>3. Room \in [Places -> Nat]
  BY DepthAssumption DEF Room, Places
<1>4. PICK f \in F : f = g[f]
  <2>1. <<>> \in S
    OBVIOUS
  <2>2. Contracts(Places, S, Room, g)
    <3> HIDE DEF g, S
    <3> QED BY <1>1, <1>2, <1>3 DEF Contracts
  <2> HIDE DEF g, S
  <2> QED BY <2>1, <2>2, MeasuredRecursion DEF Fixed
<1>5. f = Step(f)
  <2> HIDE DEF S
  <2> QED BY <1>4
<1>6. Worth = CHOOSE worth : worth = Step(worth)
  BY DEF Worth
<1>7. Worth = Step(Worth)
  <2> HIDE DEF Step
  <2> QED BY <1>5, <1>6
<1>8. Worth = [w \in Places |-> WorthAt(w, Worth)]
  BY <1>7
<1> DEFINE T == {n \in Nat : \E w \in Places : n = Room[w] /\ Worth[w] \notin S}
<1> HIDE DEF Step, g, S
<1>9. ASSUME T # {} PROVE FALSE
  <2>1. T \subseteq Nat
    OBVIOUS
  <2>2. PICK n \in T : \A k \in T : n <= k
    <3> HIDE DEF T
    <3> QED BY <1>9, <2>1, LeastOf
  <2>3. PICK w \in Places : n = Room[w] /\ Worth[w] \notin S
    OBVIOUS
  <2>4. \A v \in Places : Room[v] < Room[w] => Worth[v] \in S
    <3> SUFFICES ASSUME NEW v \in Places, Room[v] < Room[w], Worth[v] \notin S PROVE FALSE
      OBVIOUS
    <3>1. Room[v] \in Nat /\ Room[w] \in Nat
      BY <1>3
    <3>2. Room[v] \in T
      BY <3>1
    <3> HIDE DEF T
    <3> QED BY <2>2, <2>3, <3>1, <3>2
  <2>5. WorthAt(w, Worth) \in S
    BY <2>4, WorthAtType DEF S
  <2>6. Worth[w] = WorthAt(w, Worth)
    BY <1>8
  <2> QED BY <2>3, <2>5, <2>6
<1>10. \A w \in Places : Worth[w] \in S
  <2> SUFFICES ASSUME NEW w \in Places PROVE Worth[w] \in S
    OBVIOUS
  <2>1. Room[w] \in Nat
    BY <1>3
  <2> QED BY <1>9, <2>1
<1> QED BY <1>8, <1>10 DEF S

-----------------------------------------------------------------------------
(* Steps                                                                   *)

LEMMA IntentsInit ==
    ASSUME Init
    PROVE  IntentsInv
<1>1. /\ phase = "start" /\ tx \in Transactions /\ call = TopCall(tx)
      /\ stack = <<>> /\ found = <<>>
  BY DEF Init
<1>2. call \in Call /\ found \in Seq(Intent) /\ Nests(stack, tx) /\ PhaseInv
  BY <1>1, TopCallType, NestsNothing DEF PhaseInv
<1> QED BY <1>1, <1>2 DEF IntentsInv

\* The container at hand, and where the call or the intents at hand belong.
LEMMA TopFrame ==
    ASSUME IntentsInv, stack # <<>>
    PROVE  /\ stack \in Seq(Frames) /\ Len(stack) \in Nat /\ Len(stack) > 0
           /\ Top \in Frames /\ Top.call \in Call /\ Top.call.data.fn \in Containers
           /\ Top.call.data.head = "fits"
           /\ Items \in Seq(Held(Top.call.data)) /\ Len(Items) \in Nat
           /\ Top.next \in 1..Len(Items) + 1
           /\ Top.found \in Seq(Intent) /\ Top.token \in AddressOrNone
           /\ Holder(stack, tx, Len(stack)) = Top.call
           /\ Holder(stack, tx, Len(stack) - 1) \in Call
           /\ Under(Top.call, Holder(stack, tx, Len(stack) - 1))
           /\ AllUnder(Top.found, Top.call)
<1>1. tx \in Transactions /\ Nests(stack, tx)
  BY DEF IntentsInv
<1>2. stack \in Seq(Frames) /\ Len(stack) \in Nat /\ Len(stack) > 0
  BY <1>1 DEF Nests
<1>3. Top \in Frames
  BY <1>2 DEF Top
<1>4. /\ Top.call \in Call /\ Top.found \in Seq(Intent) /\ Top.token \in AddressOrNone
      /\ Top.next \in Nat
  BY <1>3 DEF Frames
<1>5. Len(stack) \in 1..Len(stack)
  BY <1>2
<1>6. /\ Top.call.data.fn \in Containers /\ Top.call.data.head = "fits"
      /\ Top.next \in 1..Len(Items) + 1
      /\ Under(Top.call, Holder(stack, tx, Len(stack) - 1))
      /\ AllUnder(Top.found, Top.call)
  BY <1>1, <1>5 DEF Nests, Top, Items
<1>7. Items \in Seq(Held(Top.call.data)) /\ Len(Items) \in Nat
  BY <1>4, <1>6, ItemsType DEF Items
<1>8. Holder(stack, tx, Len(stack)) = Top.call
  BY <1>2 DEF Holder, Top
<1>9. Holder(stack, tx, Len(stack) - 1) \in Call
  <2>1. Len(stack) - 1 \in 0..Len(stack)
    BY <1>2
  <2> QED BY <1>1, <1>2, <2>1, HolderType
<1> QED BY <1>2, <1>3, <1>4, <1>6, <1>7, <1>8, <1>9

\* The element that the container stands at.
LEMMA ElementType ==
    ASSUME IntentsInv, AtItem
    PROVE  /\ phase = "loop" /\ stack # <<>> /\ Waits(stack)
           /\ Element \in Held(Top.call.data)
<1>1. phase = "loop" /\ Top.next <= Len(Items)
  BY DEF AtItem
<1>2. stack # <<>>
  BY <1>1 DEF IntentsInv, PhaseInv
<1>3. Waits(stack)
  BY <1>1 DEF Waits, Top, Items
<1>4. Items \in Seq(Held(Top.call.data)) /\ Top.next \in 1..Len(Items)
  BY <1>1, <1>2, TopFrame
<1>5. Element \in Held(Top.call.data)
  BY <1>4 DEF Element
<1> QED BY <1>1, <1>2, <1>3, <1>5

\* A frame whose loop goes on, with the same call.
LEMMA FrameFurther ==
    ASSUME NEW g \in Frames, NEW s \in Seq(Intent), NEW token \in AddressOrNone
    PROVE  /\ [g EXCEPT !.next = @ + 1, !.token = token] \in Frames
           /\ [g EXCEPT !.next = @ + 1, !.found = s] \in Frames
<1>1. /\ g = [call |-> g.call, next |-> g.next, found |-> g.found, token |-> g.token]
      /\ g.call \in Call /\ g.next \in Nat /\ g.found \in Seq(Intent)
      /\ g.token \in AddressOrNone
  BY DEF Frames
<1>2. g.next + 1 \in Nat
  BY <1>1
<1> QED BY <1>1, <1>2 DEF Frames

LEMMA CallSteps ==
    ASSUME IntentsInv, NoDecoder \/ Leaf \/ Enter \/ RefuseHead
    PROVE  IntentsInv'
<1>1. /\ tx \in Transactions /\ call \in Call /\ found \in Seq(Intent)
      /\ Nests(stack, tx) /\ phase = "call" /\ Waits(stack)
      /\ Under(call, Holder(stack, tx, Len(stack)))
  BY DEF IntentsInv, PhaseInv, NoDecoder, Leaf, Enter, RefuseHead
<1>2. stack \in Seq(Frames) /\ Len(stack) \in Nat
  BY <1>1 DEF Nests
<1>3. Holder(stack, tx, Len(stack)) \in Call
  BY <1>1, <1>2, HolderType
<1>4. tx' = tx /\ call' = call
  BY DEF NoDecoder, Leaf, Enter, RefuseHead
<1>5. ASSUME phase' = "return", stack' = stack, found' \in Seq(Intent), AllUnder(found', call)
      PROVE  IntentsInv'
  <2>1. AllUnder(found', Holder(stack, tx, Len(stack)))
    BY <1>1, <1>3, <1>5, AllUnderTransitively
  <2>2. PhaseInv'
    BY <1>1, <1>4, <1>5, <2>1 DEF PhaseInv
  <2> QED BY <1>1, <1>4, <1>5, <2>2 DEF IntentsInv
<1>6. CASE NoDecoder \/ RefuseHead
  <2>1. phase' = "return" /\ stack' = stack /\ found' = <<>>
    BY <1>6 DEF NoDecoder, RefuseHead
  <2>2. found' \in Seq(Intent) /\ AllUnder(found', call)
    BY <2>1 DEF AllUnder
  <2> QED BY <1>5, <2>1, <2>2
<1>7. CASE Leaf
  <2>1. phase' = "return" /\ stack' = stack /\ found' = LeafIntents(call)
        /\ call.data.fn \in Leaves
    BY <1>7 DEF Leaf
  <2>2. found' \in Seq(Intent) /\ AllUnder(found', call)
    BY <1>1, <2>1, LeafFinds DEF AllUnder, Under
  <2> QED BY <1>5, <2>1, <2>2
<1>8. CASE Enter
  <2>1. /\ phase' = "loop" /\ stack' = Append(stack, Frame(call)) /\ found' = found
        /\ call.data.fn \in Containers /\ call.data.head = "fits"
        /\ ~TooDeep
    BY <1>8 DEF Enter
  <2>2. Len(stack) <= MaxDepth
    BY <1>2, <2>1, DepthAssumption DEF TooDeep
  <2>3. Nests(stack', tx)
    BY <1>1, <2>1, <2>2, NestsOneMore
  <2>4. stack' # <<>>
    <3>1. PICK f : f = Frame(call)
      OBVIOUS
    <3>2. f \in Frames
      BY <1>1, <3>1 DEF Frame, Frames, AddressOrNone
    <3> QED BY <1>2, <2>1, <3>1, <3>2
  <2>5. PhaseInv'
    BY <2>1, <2>4 DEF PhaseInv
  <2> QED BY <1>1, <1>4, <2>1, <2>3, <2>5 DEF IntentsInv
<1> QED BY <1>6, <1>7, <1>8

\* A container whose loop is over, or that an element is not readable in.
LEMMA ReturnSteps ==
    ASSUME IntentsInv, RefuseItem \/ Leave
    PROVE  IntentsInv'
<1>1. /\ tx \in Transactions /\ call \in Call /\ Nests(stack, tx) /\ phase = "loop"
      /\ stack # <<>>
  BY ElementType DEF IntentsInv, PhaseInv, RefuseItem, Leave
<1>2. /\ tx' = tx /\ call' = call /\ phase' = "return"
      /\ stack' = SubSeq(stack, 1, Len(stack) - 1)
  BY DEF RefuseItem, Leave, Below
<1>3. /\ Nests(stack', tx) /\ Waits(stack')
      /\ Holder(stack', tx, Len(stack')) = Holder(stack, tx, Len(stack) - 1)
  BY <1>1, <1>2, NestsOneLess
<1>4. found' \in Seq(Intent) /\ AllUnder(found', Top.call)
  <2>1. CASE found' = <<>>
    BY <2>1 DEF AllUnder
  <2>2. CASE Leave /\ Top.call.data.tail /\ Top.call.data.fn \in Relays
    <3>1. found' = <<RelayIntent(Top.call, Top.found, Top.token)>>
      BY <2>2 DEF Leave, Result
    <3>2. /\ Top.call \in Call /\ Top.call.data.head = "fits"
          /\ Top.found \in Seq(Intent) /\ Top.token \in AddressOrNone
      BY <1>1, TopFrame
    <3>3. PICK x : x = RelayIntent(Top.call, Top.found, Top.token)
      OBVIOUS
    <3>4. x \in Intent /\ x.via = Top.call.via /\ (Top.call.actor # None => x.actor # None)
      BY <2>2, <3>2, <3>3, RelayFinds
    <3>5. Under(x, Top.call)
      BY <3>2, <3>4, ExtendsItself DEF Call, Under
    <3>6. found' = <<x>>
      BY <3>1, <3>3
    <3> QED BY <3>4, <3>5, <3>6 DEF AllUnder
  <2>3. CASE Leave /\ Top.call.data.tail /\ Top.call.data.fn \notin Relays
    <3>1. found' = Top.found
      BY <2>3 DEF Leave, Result
    <3> QED BY <1>1, <3>1, TopFrame
  <2>4. CASE Leave /\ ~Top.call.data.tail
    <3>1. found' = <<>>
      BY <2>4 DEF Leave, Result
    <3> QED BY <2>1, <3>1
  <2>5. CASE RefuseItem
    BY <2>1, <2>5 DEF RefuseItem
  <2> QED BY <2>2, <2>3, <2>4, <2>5
<1>5. AllUnder(found', Holder(stack', tx, Len(stack')))
  <2>1. /\ Top.call \in Call /\ Holder(stack, tx, Len(stack) - 1) \in Call
        /\ Under(Top.call, Holder(stack, tx, Len(stack) - 1))
    BY <1>1, TopFrame
  <2> QED BY <1>3, <1>4, <2>1, AllUnderTransitively
<1>6. PhaseInv'
  BY <1>2, <1>3, <1>5 DEF PhaseInv
<1> QED BY <1>1, <1>2, <1>3, <1>4, <1>6 DEF IntentsInv

\* A container that goes on with more found in it, or with a token for its intent.
LEMMA FurtherSteps ==
    ASSUME IntentsInv, Executor \/ Command \/ Absorb
    PROVE  IntentsInv'
<1>1. /\ tx \in Transactions /\ call \in Call /\ found \in Seq(Intent) /\ Nests(stack, tx)
      /\ stack # <<>> /\ Waits(stack)
  BY ElementType DEF IntentsInv, PhaseInv, Executor, Command, Absorb
<1>2. /\ tx' = tx /\ call' = call /\ phase' = "loop" /\ (found' = found \/ found' = <<>>)
  BY ElementType DEF Executor, Command, Absorb
<1>3. /\ Top \in Frames /\ Top.call \in Call /\ Top.call.data \in Data
      /\ Top.found \in Seq(Intent) /\ Top.token \in AddressOrNone
      /\ AllUnder(Top.found, Top.call) /\ Top.next \in Nat
      /\ Holder(stack, tx, Len(stack)) = Top.call
  BY <1>1, TopFrame DEF Call, Frames
<1>4. ASSUME NEW f \in Frames, f.call = Top.call, f.next = Top.next + 1,
             AllUnder(f.found, f.call), stack' = WithTop(f)
      PROVE  IntentsInv'
  <2>1. stack' = Append(SubSeq(stack, 1, Len(stack) - 1), f)
    BY <1>4 DEF WithTop, Below
  <2>2. f.call = stack[Len(stack)].call /\ f.next = stack[Len(stack)].next + 1
    BY <1>4 DEF Top
  <2>3. Nests(stack', tx) /\ stack' # <<>>
    BY <1>1, <1>4, <2>1, <2>2, NestsFurther
  <2>4. PhaseInv'
    BY <1>2, <2>3 DEF PhaseInv
  <2>5. found' \in Seq(Intent)
    <3>1. CASE found' = found
      BY <1>1, <3>1
    <3>2. CASE found' = <<>>
      BY <3>2
    <3> QED BY <1>2, <3>1, <3>2
  <2> QED BY <1>1, <1>2, <2>3, <2>4, <2>5 DEF IntentsInv
<1>5. CASE Executor
  <2>1. PICK token : /\ token = IF Element.data.tokens = <<>> THEN Top.token
                                ELSE Element.data.tokens[1]
                     /\ stack' = WithTop([Top EXCEPT !.next = @ + 1, !.token = token])
    BY <1>5 DEF Executor
  <2>2. Element \in Held(Top.call.data) /\ Readable(Element) /\ IsExecutor(Element)
    BY <1>5, ElementType DEF Executor
  <2>3. Element.data.tokens \in Seq(Address)
    BY <1>3, <2>2, FieldsAssumption DEF Readable, IsExecutor
  <2>4. token \in AddressOrNone
    BY <1>3, <2>1, <2>3 DEF AddressOrNone
  <2>5. PICK f : f = [Top EXCEPT !.next = @ + 1, !.token = token]
    OBVIOUS
  <2>6. /\ f \in Frames /\ f.call = Top.call /\ f.next = Top.next + 1
        /\ f.found = Top.found
    <3>1. f \in Frames
      BY <1>3, <2>4, <2>5, FrameFurther
    <3> QED BY <1>3, <2>5, <3>1 DEF Frames
  <2> QED BY <1>3, <1>4, <2>1, <2>5, <2>6
<1>6. CASE Command
  <2>1. PICK more : /\ more = CommandIntents(Top.call, Element)
                    /\ stack' = WithTop([Top EXCEPT !.next = @ + 1, !.found = @ \o more])
    BY <1>6 DEF Command
  <2>2. Element \in Held(Top.call.data) /\ Element.fits /\ Top.call.data.fn = "router"
    BY <1>6, ElementType DEF Command, Readable
  <2>3. /\ more \in Seq(Intent)
        /\ \A n \in DOMAIN more : more[n].via = Top.call.via /\ more[n].actor = Top.call.actor
    BY <1>3, <2>1, <2>2, CommandFinds
  <2>4. AllUnder(more, Top.call)
    BY <1>3, <2>3, ExtendsItself DEF AllUnder, Under, Call
  <2>5. PICK s : s = Top.found \o more
    OBVIOUS
  <2>6. s \in Seq(Intent) /\ AllUnder(s, Top.call)
    BY <1>3, <2>3, <2>4, <2>5, JoinedUnder
  <2>7. PICK f : f = [Top EXCEPT !.next = @ + 1, !.found = s]
    OBVIOUS
  <2>8. f \in Frames /\ f.call = Top.call /\ f.next = Top.next + 1 /\ f.found = s
    <3>1. f \in Frames
      BY <1>3, <2>6, <2>7, FrameFurther
    <3> QED BY <1>3, <2>7, <3>1 DEF Frames
  <2>9. stack' = WithTop(f)
    BY <2>1, <2>5, <2>7
  <2> QED BY <1>4, <2>6, <2>8, <2>9
<1>7. CASE Absorb
  <2>1. AllUnder(found, Top.call)
    BY <1>3, <1>7 DEF Absorb, IntentsInv, PhaseInv
  <2>2. PICK s : s = Top.found \o found
    OBVIOUS
  <2>3. s \in Seq(Intent) /\ AllUnder(s, Top.call)
    BY <1>1, <1>3, <2>1, <2>2, JoinedUnder
  <2>4. PICK f : f = [Top EXCEPT !.next = @ + 1, !.found = s]
    OBVIOUS
  <2>5. f \in Frames /\ f.call = Top.call /\ f.next = Top.next + 1 /\ f.found = s
    <3>1. f \in Frames
      BY <1>3, <2>3, <2>4, FrameFurther
    <3> QED BY <1>3, <2>4, <3>1 DEF Frames
  <2>6. stack' = WithTop(f)
    BY <1>7, <2>2, <2>4 DEF Absorb
  <2> QED BY <1>4, <2>3, <2>5, <2>6
<1> QED BY <1>5, <1>6, <1>7

LEMMA DescendStep ==
    ASSUME IntentsInv, Descend
    PROVE  IntentsInv'
<1>1. /\ tx \in Transactions /\ found \in Seq(Intent) /\ Nests(stack, tx)
      /\ stack # <<>> /\ Waits(stack)
      /\ Element \in Held(Top.call.data) /\ Element.fits
      /\ Top.call.data.fn \in Nesting
  BY ElementType DEF IntentsInv, Descend, Readable
<1>2. /\ tx' = tx /\ found' = found /\ stack' = stack /\ phase' = "call"
      /\ call' = Nested(Top.call, Element)
  BY DEF Descend
<1>3. Top.call \in Call /\ Holder(stack, tx, Len(stack)) = Top.call
  BY <1>1, TopFrame
<1>4. call' \in Call /\ Under(call', Holder(stack, tx, Len(stack)))
  BY <1>1, <1>2, <1>3, NestedUnder
<1>5. PhaseInv'
  BY <1>1, <1>2, <1>4 DEF PhaseInv
<1> QED BY <1>1, <1>2, <1>4, <1>5 DEF IntentsInv

\* The first step and the last one.
LEMMA EndSteps ==
    ASSUME IntentsInv, PlainTransfer \/ Dispatch \/ Finish
    PROVE  IntentsInv'
<1>1. /\ tx \in Transactions /\ call \in Call /\ found \in Seq(Intent) /\ Nests(stack, tx)
      /\ stack = <<>>
  BY DEF IntentsInv, PhaseInv, PlainTransfer, Dispatch, Finish
<1>2. tx' = tx /\ call' = call /\ stack' = stack
  BY DEF PlainTransfer, Dispatch, Finish
<1>3. Holder(stack, tx, Len(stack)) = TopCall(tx)
  BY <1>1 DEF Holder
<1>4. TopCall(tx) \in Call /\ TopCall(tx).via = Optional(tx.to)
  BY <1>1, TopCallType DEF TopCall
<1>5. CASE PlainTransfer
  <2>1. /\ phase' = "done" /\ call = TopCall(tx) /\ tx.to # None /\ tx.value \in Nat
        /\ tx.to \in AddressOrNone
    BY <1>1, <1>5, DataAssumption DEF PlainTransfer, IsPlain, IntentsInv, PhaseInv, AddressOrNone
  <2>2. PICK x : x = [Blank("transfer", call) EXCEPT !.amount_in = tx.value,
                                                    !.recipient = tx.to]
    OBVIOUS
  <2>3. call.actor \in AddressOrNone /\ call.via \in Seq(Address)
    BY <1>1 DEF Call
  <2>4. x \in Intent /\ x.via = call.via
    BY <2>1, <2>2, <2>3 DEF Blank, Intent, AddressOrNone, AmountOrNone
  <2>5. found' = <<x>>
    BY <1>5, <2>2 DEF PlainTransfer
  <2>6. Extends(x.via, Optional(tx.to))
    BY <1>4, <2>1, <2>3, <2>4, ExtendsItself
  <2>7. found' \in Seq(Intent) /\ \A n \in DOMAIN found' : Extends(found'[n].via, Optional(tx.to))
    BY <2>4, <2>5, <2>6
  <2>8. PhaseInv'
    BY <1>1, <1>2, <2>1, <2>7 DEF PhaseInv
  <2> QED BY <1>1, <1>2, <2>7, <2>8 DEF IntentsInv
<1>6. CASE Dispatch
  <2>1. phase' = "call" /\ found' = found /\ call = TopCall(tx)
    BY <1>6 DEF Dispatch, IntentsInv, PhaseInv
  <2>2. Under(call, Holder(stack, tx, Len(stack)))
    BY <1>1, <1>3, <2>1, UnderItself
  <2>3. PhaseInv'
    BY <1>1, <1>2, <2>1, <2>2, NestsNothing DEF PhaseInv
  <2> QED BY <1>1, <1>2, <2>1, <2>3 DEF IntentsInv
<1>7. CASE Finish
  <2>1. phase' = "done" /\ found' = found /\ AllUnder(found, TopCall(tx))
    BY <1>3, <1>7 DEF Finish, IntentsInv, PhaseInv
  <2>2. \A n \in DOMAIN found : Extends(found[n].via, Optional(tx.to))
    BY <1>4, <2>1 DEF AllUnder, Under
  <2>3. PhaseInv'
    BY <1>1, <1>2, <2>1, <2>2 DEF PhaseInv
  <2> QED BY <1>1, <1>2, <2>1, <2>3 DEF IntentsInv
<1> QED BY <1>5, <1>6, <1>7

LEMMA IntentsNext ==
    ASSUME IntentsInv, [Next]_vars
    PROVE  IntentsInv'
<1>1. CASE Next
  BY <1>1, CallSteps, ReturnSteps, FurtherSteps, DescendStep, EndSteps DEF Next
<1>2. CASE UNCHANGED vars
  BY <1>2 DEF vars, IntentsInv, PhaseInv
<1> QED BY <1>1, <1>2

-----------------------------------------------------------------------------
(* What the walk has found so far is what it is worth                      *)

\* The call that the k-th container of a stack holds at its element; below the first there
\* is the transaction's own.
Made(s, t, k) == IF k = 0 THEN TopCall(t) ELSE Nested(s[k].call, s[k].call.data.items[s[k].next])

\* A container has read what it is past, and found what that is worth.
Counted(f, depth) ==
    /\ AllFine(f.call, f.next - 1)
    /\ f.found = FirstOf(Parts(Place(depth, f.call), Worth), f.next - 1)
    /\ f.call.data.fn \in Relays => f.token = TokenOf(f.call.data, f.next - 1)

\* A container in an element of which the walk is.
Opened(f) ==
    LET item == f.call.data.items[f.next]
    IN  /\ f.call.data.fn \in Nesting /\ f.next <= Len(f.call.data.items)
        /\ Fine(f.call, item) /\ ~IsShape(f.call, item)

\* Each container is the call that the one below it holds at its element.
Tells(s, t) ==
    \A k \in 1..Len(s) : /\ s[k].call = Made(s, t, k - 1)
                         /\ Counted(s[k], k - 1)
                         /\ k < Len(s) => Opened(s[k])

Stays(s) == s # <<>> => Opened(s[Len(s)])

\* Sound, and what keeps it: a container that returns hands the one below what the call in
\* that one's element is worth.
WorthInv ==
    /\ Tells(stack, tx)
    /\ phase \in {"call", "return"} => Stays(stack)
    /\ phase = "call" => call = Made(stack, tx, Len(stack))
    /\ phase = "return" => found = Worth[Place(Len(stack), Made(stack, tx, Len(stack)))]
    /\ phase = "done" /\ ~IsPlain(tx) => found = Worth[Place(0, TopCall(tx))]

\* A call of a transaction is somewhere.
LEMMA PlaceType ==
    ASSUME NEW c \in Call, NEW n \in Nat
    PROVE  /\ Place(n, c) \in Places
           /\ Place(n, c).call = c /\ Place(n, c).depth = n
           /\ Worth[Place(n, c)] = WorthAt(Place(n, c), Worth)
<1>1. Place(n, c) \in Places /\ Place(n, c).call = c /\ Place(n, c).depth = n
  BY DEF Place, Places
<1> QED BY <1>1, WorthIs

\* What a container that is read to an element found, and what it finds there.
LEMMA CountedSteps ==
    ASSUME NEW c \in Call, c.data.fn \in Containers, NEW n \in Nat, n <= MaxDepth
    PROVE  LET w == Place(n, c)
               L == Len(c.data.items)
           IN  /\ FirstOf(Parts(w, Worth), 0) = <<>>
               /\ \A k \in 1..L : AllFine(c, k) =>
                     FirstOf(Parts(w, Worth), k)
                         = FirstOf(Parts(w, Worth), k - 1) \o PartOf(w, Worth, k)
<1> DEFINE w == Place(n, c)
           L == Len(c.data.items)
<1>1. w \in Places /\ w.call = c /\ w.depth = n /\ L \in Nat
  BY PlaceType, ItemsType
<1> HIDE DEF w
<1>2. ASSUME NEW k \in 0..L, AllFine(c, k)
      PROVE  Sequences(Intent, Parts(w, Worth), k)
  <2>1. \A v \in Places : Room[v] < Room[w] => Worth[v] \in Seq(Intent)
    BY WorthIs
  <2> QED BY <1>1, <1>2, <2>1, PartsType
<1>3. FirstOf(Parts(w, Worth), 0) = <<>>
  <2>1. AllFine(c, 0) /\ 0 \in 0..L
    BY <1>1 DEF AllFine
  <2>2. Sequences(Intent, Parts(w, Worth), 0)
    BY <1>2, <2>1
  <2>3. 0 \in Nat
    OBVIOUS
  <2> QED BY <2>2, <2>3, FirstOfSteps
<1>4. ASSUME NEW k \in 1..L, AllFine(c, k)
      PROVE  FirstOf(Parts(w, Worth), k)
                 = FirstOf(Parts(w, Worth), k - 1) \o PartOf(w, Worth, k)
  <2>1. k \in Nat /\ k \in 0..L /\ k \in 1..k
    BY <1>1
  <2>2. Sequences(Intent, Parts(w, Worth), k)
    BY <1>2, <1>4, <2>1
  <2>3. FirstOf(Parts(w, Worth), k) = FirstOf(Parts(w, Worth), k - 1) \o Parts(w, Worth)[k]
    BY <2>1, <2>2, FirstOfSteps
  <2>4. Parts(w, Worth)[k] = PartOf(w, Worth, k)
    BY <1>1, PartsAre
  <2> QED BY <2>3, <2>4
<1> QED BY <1>3, <1>4 DEF w

\* The container at hand, one element further.
LEMMA CountedFurther ==
    ASSUME NEW f \in Frames, f.call.data.fn \in Containers, NEW n \in Nat, n <= MaxDepth,
           Counted(f, n), f.next \in 1..Len(f.call.data.items),
           Fine(f.call, f.call.data.items[f.next]),
           NEW g \in Frames, g.call = f.call, g.next = f.next + 1,
           g.found = f.found \o PartOf(Place(n, f.call), Worth, f.next),
           f.call.data.fn \in Relays =>
               LET shape == f.call.data.items[f.next].data
               IN  g.token = IF shape.fn = "executor" /\ shape.tokens # <<>>
                             THEN shape.tokens[1] ELSE f.token
    PROVE  Counted(g, n)
<1>1. f.call \in Call /\ Len(f.call.data.items) \in Nat
  BY ItemsType DEF Frames
<1>2. PICK k \in 1..Len(f.call.data.items) : k = f.next /\ g.next - 1 = k
  BY <1>1
<1>3. AllFine(f.call, k)
  <2>1. \A i \in 1..k : i \in 1..k - 1 \/ i = k
    BY <1>2
  <2> QED BY <1>2, <2>1 DEF Counted, AllFine
<1>4. g.found = FirstOf(Parts(Place(n, f.call), Worth), k)
  <2>1. f.found = FirstOf(Parts(Place(n, f.call), Worth), k - 1)
    BY <1>2 DEF Counted
  <2>2. FirstOf(Parts(Place(n, f.call), Worth), k)
            = FirstOf(Parts(Place(n, f.call), Worth), k - 1)
                  \o PartOf(Place(n, f.call), Worth, k)
    BY <1>1, <1>3, CountedSteps
  <2> QED BY <1>2, <2>1, <2>2
<1>5. f.call.data.fn \in Relays => g.token = TokenOf(f.call.data, k)
  <2>1. k \in Nat \ {0}
    BY <1>1
  <2>2. TokenOf(f.call.data, k) =
            IF f.call.data.items[k].data.fn = "executor" /\ f.call.data.items[k].data.tokens # <<>>
            THEN f.call.data.items[k].data.tokens[1] ELSE TokenOf(f.call.data, k - 1)
    BY <2>1, TokenOfSteps
  <2>3. f.call.data.fn \in Relays => f.token = TokenOf(f.call.data, k - 1)
    BY <1>2 DEF Counted
  <2> QED BY <1>2, <2>2, <2>3
<1> QED BY <1>2, <1>3, <1>4, <1>5 DEF Counted

\* A container read to its end.
LEMMA CountedToTheEnd ==
    ASSUME NEW f \in Frames, f.call.data.fn \in Containers, f.call.data.head = "fits",
           NEW n \in Nat, n <= MaxDepth, Counted(f, n), f.next = Len(f.call.data.items) + 1
    PROVE  Worth[Place(n, f.call)] =
               IF ~f.call.data.tail THEN <<>>
               ELSE IF f.call.data.fn \in Relays
                    THEN <<RelayIntent(f.call, f.found, f.token)>> ELSE f.found
<1> DEFINE c == f.call
           L == Len(c.data.items)
<1>1. c \in Call /\ L \in Nat
  BY ItemsType DEF Frames
<1>2. f.next - 1 = L
  BY <1>1
<1>3. AllFine(c, L) /\ f.found = FirstOf(Parts(Place(n, c), Worth), L)
      /\ (c.data.fn \in Relays => f.token = TokenOf(c.data, L))
  BY <1>2 DEF Counted
<1>4. Void(c.data) <=> ~c.data.tail
  BY <1>1, <1>3, NotVoid
<1>5. ~(n > MaxDepth)
  BY DepthAssumption
<1>6. PICK w \in Places : /\ w = Place(n, c) /\ w.call = c /\ w.depth = n
                          /\ Worth[w] = WorthAt(w, Worth)
  BY <1>1, PlaceType
<1>7. CASE ~c.data.tail
  BY <1>4, <1>6, <1>7 DEF WorthAt
<1>8. CASE c.data.tail /\ c.data.fn \in Relays
  <2>1. WorthAt(w, Worth) = <<RelayIntent(c, FirstOf(Parts(w, Worth), L), TokenOf(c.data, L))>>
    BY <1>4, <1>5, <1>6, <1>8 DEF WorthAt, Leaves, Relays
  <2> QED BY <1>3, <1>6, <1>8, <2>1
<1>9. CASE c.data.tail /\ c.data.fn \notin Relays
  <2>1. WorthAt(w, Worth) = FirstOf(Parts(w, Worth), L)
    BY <1>4, <1>5, <1>6, <1>9 DEF WorthAt, Leaves, Relays, Containers, Accounts
  <2> QED BY <1>3, <1>6, <1>9, <2>1
<1> QED BY <1>7, <1>8, <1>9

\* A container is entered.
LEMMA TellsOneMore ==
    ASSUME NEW t \in Transactions, NEW s \in Seq(Frames), Len(s) <= MaxDepth, Tells(s, t),
           Stays(s), NEW c \in Call, c.data.fn \in Containers, c = Made(s, t, Len(s))
    PROVE  Tells(Append(s, Frame(c)), t)
<1>1. PICK f : f = Frame(c)
  OBVIOUS
<1>2. /\ f \in Frames /\ f.call = c /\ f.next = 1 /\ f.found = <<>> /\ f.token = None
  BY <1>1 DEF Frame, Frames, AddressOrNone
<1>3. PICK r : r = Append(s, f)
  OBVIOUS
<1>4. /\ Len(s) \in Nat /\ Len(r) = Len(s) + 1 /\ r[Len(s) + 1] = f
      /\ \A k \in 1..Len(s) : r[k] = s[k]
  BY <1>2, <1>3
<1>5. \A k \in 0..Len(s) : Made(r, t, k) = Made(s, t, k)
  BY <1>4 DEF Made
<1>6. Counted(f, Len(s))
  <2>1. AllFine(c, 0)
    BY DEF AllFine
  <2>2. FirstOf(Parts(Place(Len(s), c), Worth), 0) = <<>>
    BY <1>4, CountedSteps
  <2>3. TokenOf(c.data, 0) = None
    BY TokenOfSteps
  <2>4. f.next - 1 = 0
    BY <1>2
  <2> QED BY <1>2, <2>1, <2>2, <2>3, <2>4 DEF Counted
<1>7. ASSUME NEW k \in 1..Len(s)
      PROVE  r[k].call = Made(r, t, k - 1) /\ Counted(r[k], k - 1) /\ Opened(r[k])
  <2>1. r[k] = s[k] /\ Made(r, t, k - 1) = Made(s, t, k - 1)
    BY <1>4, <1>5
  <2>2. Opened(s[k])
    <3>1. k < Len(s) \/ (k = Len(s) /\ s # <<>>)
      BY <1>4
    <3> QED BY <3>1 DEF Tells, Stays
  <2> QED BY <2>1, <2>2 DEF Tells
<1>8. LET k == Len(r)
      IN  r[k].call = Made(r, t, k - 1) /\ Counted(r[k], k - 1)
  <2>1. Len(r) - 1 = Len(s) /\ r[Len(r)] = f /\ Made(r, t, Len(s)) = Made(s, t, Len(s))
    BY <1>4, <1>5
  <2> QED BY <1>2, <1>6, <2>1
<1>9. \A k \in 1..Len(r) : k \in 1..Len(s) \/ (k = Len(r) /\ ~(k < Len(r)))
  BY <1>4
<1>10. Tells(r, t)
  BY <1>7, <1>8, <1>9 DEF Tells
<1> QED BY <1>1, <1>3, <1>10

\* The last container is left.
LEMMA TellsOneLess ==
    ASSUME NEW t \in Transactions, NEW s \in Seq(Frames), s # <<>>, Tells(s, t),
           NEW r, r = SubSeq(s, 1, Len(s) - 1)
    PROVE  Tells(r, t) /\ Stays(r) /\ Made(r, t, Len(r)) = s[Len(s)].call
<1>1. /\ r \in Seq(Frames) /\ Len(r) = Len(s) - 1 /\ Len(s) \in Nat /\ Len(s) > 0
      /\ \A k \in 1..Len(s) - 1 : r[k] = s[k]
  BY AllButLast
<1>2. \A k \in 0..Len(r) : Made(r, t, k) = Made(s, t, k)
  BY <1>1 DEF Made
<1>3. ASSUME NEW k \in 1..Len(r)
      PROVE  r[k].call = Made(r, t, k - 1) /\ Counted(r[k], k - 1) /\ Opened(r[k])
  <2>1. k \in 1..Len(s) /\ k < Len(s) /\ k - 1 \in 0..Len(r)
    BY <1>1
  <2>2. r[k] = s[k] /\ Made(r, t, k - 1) = Made(s, t, k - 1)
    BY <1>1, <1>2, <2>1
  <2> QED BY <2>1, <2>2 DEF Tells
<1>4. Stays(r)
  <2>1. CASE r # <<>>
    <3>1. Len(r) \in 1..Len(r)
      BY <1>1, <2>1
    <3> QED BY <1>3, <3>1 DEF Stays
  <2> QED BY <2>1 DEF Stays
<1>5. s[Len(s)].call = Made(s, t, Len(s) - 1)
  <2>1. Len(s) \in 1..Len(s)
    BY <1>1
  <2> QED BY <2>1 DEF Tells
<1>6. Len(r) \in 0..Len(r)
  BY <1>1
<1> QED BY <1>1, <1>2, <1>3, <1>4, <1>5, <1>6 DEF Tells

\* The last container goes on, with what its element is worth.
LEMMA TellsFurther ==
    ASSUME NEW t \in Transactions, NEW s \in Seq(Frames), s # <<>>, Tells(s, t),
           NEW f \in Frames, f.call = s[Len(s)].call, Counted(f, Len(s) - 1)
    PROVE  Tells(Append(SubSeq(s, 1, Len(s) - 1), f), t)
<1>1. PICK b : b = SubSeq(s, 1, Len(s) - 1)
  OBVIOUS
<1>2. /\ b \in Seq(Frames) /\ Len(b) = Len(s) - 1 /\ Len(s) \in Nat /\ Len(s) > 0
      /\ \A k \in 1..Len(s) - 1 : b[k] = s[k]
  BY <1>1, AllButLast
<1>3. PICK r : r = Append(b, f)
  OBVIOUS
<1>4. Len(r) = Len(s) /\ r[Len(s)] = f /\ \A k \in 1..Len(s) - 1 : r[k] = s[k]
  <2>1. Len(r) = Len(b) + 1 /\ r[Len(b) + 1] = f /\ \A k \in 1..Len(b) : r[k] = b[k]
    BY <1>2, <1>3
  <2>2. Len(b) + 1 = Len(s)
    BY <1>2
  <2> QED BY <1>2, <2>1, <2>2
<1>5. \A k \in 0..Len(s) - 1 : Made(r, t, k) = Made(s, t, k)
  BY <1>4 DEF Made
<1>6. ASSUME NEW k \in 1..Len(s), k < Len(s)
      PROVE  r[k].call = Made(r, t, k - 1) /\ Counted(r[k], k - 1) /\ Opened(r[k])
  <2>1. k \in 1..Len(s) - 1 /\ k - 1 \in 0..Len(s) - 1
    BY <1>2, <1>6
  <2>2. r[k] = s[k] /\ Made(r, t, k - 1) = Made(s, t, k - 1)
    BY <1>4, <1>5, <2>1
  <2> QED BY <1>6, <2>2 DEF Tells
<1>7. r[Len(s)].call = Made(r, t, Len(s) - 1) /\ Counted(r[Len(s)], Len(s) - 1)
  <2>1. Len(s) \in 1..Len(s) /\ Len(s) - 1 \in 0..Len(s) - 1
    BY <1>2
  <2>2. s[Len(s)].call = Made(s, t, Len(s) - 1)
    BY <2>1 DEF Tells
  <2> QED BY <1>4, <1>5, <2>1, <2>2
<1>8. \A k \in 1..Len(s) : k < Len(s) \/ (k = Len(s) /\ ~(k < Len(s)))
  BY <1>2
<1>9. Tells(r, t)
  BY <1>4, <1>6, <1>7, <1>8 DEF Tells
<1> QED BY <1>1, <1>3, <1>9

\* Nothing in a call that is not dispatched: the walk and the call's worth agree.
LEMMA WorthCallSteps ==
    ASSUME IntentsInv, WorthInv, NoDecoder \/ Leaf \/ Enter \/ RefuseHead
    PROVE  WorthInv'
<1>1. /\ tx \in Transactions /\ call \in Call /\ phase = "call"
      /\ Tells(stack, tx) /\ Stays(stack) /\ call = Made(stack, tx, Len(stack))
      /\ stack \in Seq(Frames) /\ Len(stack) \in Nat
  BY DEF IntentsInv, Nests, WorthInv, NoDecoder, Leaf, Enter, RefuseHead
<1>2. tx' = tx /\ call' = call
  BY DEF NoDecoder, Leaf, Enter, RefuseHead
<1>3. PICK w \in Places : /\ w = Place(Len(stack), call) /\ w.call = call
                          /\ w.depth = Len(stack) /\ Worth[w] = WorthAt(w, Worth)
  BY <1>1, PlaceType
<1>4. call.data.fn \in Functions
  BY <1>1, DataAssumption DEF Call
<1>5. ASSUME phase' = "return", stack' = stack, found' = Worth[w]
      PROVE  WorthInv'
  <2>1. found' = Worth[Place(Len(stack'), Made(stack', tx', Len(stack')))]
    BY <1>1, <1>2, <1>3, <1>5
  <2> QED BY <1>1, <1>2, <1>5, <2>1 DEF WorthInv
<1>6. CASE NoDecoder
  <2>1. phase' = "return" /\ stack' = stack /\ found' = <<>>
        /\ (TooDeep \/ call.data.fn \notin Containers \cup Leaves)
    BY <1>6 DEF NoDecoder
  <2>2. WorthAt(w, Worth) = <<>>
    BY <1>3, <2>1 DEF WorthAt, TooDeep, Containers
  <2> QED BY <1>3, <1>5, <2>1, <2>2
<1>7. CASE Leaf
  <2>1. /\ phase' = "return" /\ stack' = stack /\ found' = LeafIntents(call)
        /\ ~(Len(stack) > MaxDepth) /\ call.data.fn \in Leaves
    BY <1>7 DEF Leaf, TooDeep
  <2>2. call.data.fn \notin Containers
    BY <2>1 DEF Containers, Accounts, Relays, Leaves
  <2>3. WorthAt(w, Worth) = LeafIntents(call)
    <3>1. CASE call.data.fits
      <4>1. ~Void(call.data)
        BY <2>2, <3>1 DEF Void, Containers
      <4> QED BY <1>3, <2>1, <2>2, <4>1 DEF WorthAt, Containers
    <3>2. CASE ~call.data.fits
      <4>1. Void(call.data)
        BY <2>1, <3>2 DEF Void
      <4>2. LeafIntents(call) = <<>>
        BY <3>2 DEF LeafIntents
      <4> QED BY <1>3, <4>1, <4>2 DEF WorthAt
    <3> QED BY <3>1, <3>2
  <2> QED BY <1>3, <1>5, <2>1, <2>3
<1>8. CASE RefuseHead
  <2>1. /\ phase' = "return" /\ stack' = stack /\ found' = <<>>
        /\ call.data.fn \in Containers /\ call.data.head # "fits"
    BY <1>8 DEF RefuseHead
  <2>2. WorthAt(w, Worth) = <<>>
    BY <1>1, <1>3, <2>1, NotVoid DEF WorthAt
  <2> QED BY <1>3, <1>5, <2>1, <2>2
<1>9. CASE Enter
  <2>1. /\ phase' = "loop" /\ stack' = Append(stack, Frame(call)) /\ call.data.fn \in Containers
        /\ ~(Len(stack) > MaxDepth)
    BY <1>9 DEF Enter, TooDeep
  <2>2. Len(stack) <= MaxDepth
    BY <1>1, <2>1, DepthAssumption
  <2>3. Tells(stack', tx)
    BY <1>1, <2>1, <2>2, TellsOneMore
  <2> QED BY <1>2, <2>1, <2>3 DEF WorthInv
<1> QED BY <1>6, <1>7, <1>8, <1>9

\* A container is left with what it is worth.
LEMMA WorthReturnSteps ==
    ASSUME IntentsInv, WorthInv, RefuseItem \/ Leave
    PROVE  WorthInv'
<1>1. /\ tx \in Transactions /\ Nests(stack, tx) /\ phase = "loop" /\ stack # <<>>
      /\ Tells(stack, tx)
  BY ElementType DEF IntentsInv, PhaseInv, WorthInv, RefuseItem, Leave
<1>2. /\ stack \in Seq(Frames) /\ Len(stack) \in Nat /\ Len(stack) > 0
      /\ Top \in Frames /\ Top.call \in Call /\ Top.call.data.fn \in Containers
      /\ Top.call.data.head = "fits" /\ Len(Items) \in Nat
      /\ Top.next \in 1..Len(Items) + 1
  BY <1>1, TopFrame
<1>3. PICK n \in Nat : n = Len(stack) - 1 /\ n <= MaxDepth
  <2>1. Len(stack) - 1 \in Nat /\ Len(stack) <= MaxDepth + 1
    BY <1>1, <1>2 DEF Nests
  <2> QED BY <1>2, <2>1, DepthAssumption
<1>4. Counted(Top, n)
  <2>1. Len(stack) \in 1..Len(stack)
    BY <1>2
  <2> QED BY <1>1, <1>3, <2>1 DEF Tells, Top
<1>5. tx' = tx /\ phase' = "return" /\ stack' = SubSeq(stack, 1, Len(stack) - 1)
  BY DEF RefuseItem, Leave, Below
<1>6. /\ Tells(stack', tx) /\ Stays(stack')
      /\ Made(stack', tx, Len(stack')) = Top.call /\ Len(stack') = n
  <2>1. PICK r : r = SubSeq(stack, 1, Len(stack) - 1)
    OBVIOUS
  <2>2. Tells(r, tx) /\ Stays(r) /\ Made(r, tx, Len(r)) = Top.call
    BY <1>1, <1>2, <2>1, TellsOneLess DEF Top
  <2>3. Len(r) = n
    BY <1>1, <1>2, <1>3, <2>1, AllButLast
  <2> QED BY <1>5, <2>1, <2>2, <2>3
<1>7. found' = Worth[Place(n, Top.call)]
  <2>1. CASE RefuseItem
    <3>1. found' = <<>> /\ Top.next <= Len(Items) /\ ~Readable(Element)
      BY <2>1 DEF RefuseItem, AtItem
    <3>2. Top.next \in 1..Len(Top.call.data.items)
      BY <1>2, <3>1 DEF Items
    <3>3. ~Fine(Top.call, Top.call.data.items[Top.next])
      BY <3>1 DEF Fine, Readable, IsExecutor, IsShape, Element, Items
    <3>4. ~AllFine(Top.call, Len(Top.call.data.items))
      BY <3>2, <3>3 DEF AllFine
    <3>5. Void(Top.call.data)
      BY <1>2, <3>4, NotVoid
    <3>6. WorthAt(Place(n, Top.call), Worth) = <<>>
      BY <1>2, <3>5, PlaceType DEF WorthAt
    <3> QED BY <1>2, <3>1, <3>6, PlaceType
  <2>2. CASE Leave
    <3>1. found' = Result /\ Top.next = Len(Top.call.data.items) + 1
      BY <1>2, <2>2 DEF Leave, Items
    <3>2. Worth[Place(n, Top.call)] =
              IF ~Top.call.data.tail THEN <<>>
              ELSE IF Top.call.data.fn \in Relays
                   THEN <<RelayIntent(Top.call, Top.found, Top.token)>> ELSE Top.found
      BY <1>2, <1>3, <1>4, <3>1, CountedToTheEnd
    <3>3. Result = IF ~Top.call.data.tail THEN <<>>
                   ELSE IF Top.call.data.fn \in Relays
                        THEN <<RelayIntent(Top.call, Top.found, Top.token)>> ELSE Top.found
      BY DEF Result
    <3> QED BY <3>1, <3>2, <3>3
  <2> QED BY <2>1, <2>2
<1> QED BY <1>5, <1>6, <1>7 DEF WorthInv

\* A container goes on, with what the element it was at is worth.
LEMMA WorthFurtherSteps ==
    ASSUME IntentsInv, WorthInv, Executor \/ Command \/ Absorb
    PROVE  WorthInv'
<1>1. /\ tx \in Transactions /\ found \in Seq(Intent) /\ Nests(stack, tx) /\ stack # <<>>
      /\ Waits(stack) /\ Tells(stack, tx)
  BY ElementType DEF IntentsInv, PhaseInv, WorthInv, Executor, Command, Absorb
<1>2. /\ stack \in Seq(Frames) /\ Len(stack) \in Nat /\ Len(stack) > 0
      /\ Top \in Frames /\ Top.call \in Call /\ Top.call.data.fn \in Containers
      /\ Items \in Seq(Held(Top.call.data)) /\ Len(Items) \in Nat
      /\ Top.next \in 1..Len(Items) + 1 /\ Top.next \in Nat
      /\ Top.found \in Seq(Intent) /\ Top.token \in AddressOrNone
  BY <1>1, TopFrame DEF Frames
<1>3. PICK n \in Nat : n = Len(stack) - 1 /\ n + 1 = Len(stack) /\ n <= MaxDepth
  <2>1. Len(stack) - 1 \in Nat /\ Len(stack) <= MaxDepth + 1
    BY <1>1, <1>2 DEF Nests
  <2> QED BY <1>2, <2>1, DepthAssumption
<1>4. Counted(Top, n)
  <2>1. Len(stack) \in 1..Len(stack)
    BY <1>2
  <2> QED BY <1>1, <1>3, <2>1 DEF Tells, Top
<1>5. tx' = tx /\ phase' = "loop"
  BY ElementType DEF Executor, Command, Absorb
<1>6. Top.next \in 1..Len(Top.call.data.items) /\ Element = Top.call.data.items[Top.next]
  <2>1. Top.next <= Len(Items)
    BY <1>1 DEF Waits, Top, Items
  <2> QED BY <1>2, <2>1 DEF Items, Element
<1>7. PICK w \in Places : w = Place(n, Top.call) /\ w.call = Top.call /\ w.depth = n
  BY <1>2, PlaceType
<1>8. ASSUME NEW f \in Frames, f.call = Top.call, f.next = Top.next + 1,
             Fine(Top.call, Element),
             f.found = Top.found \o PartOf(w, Worth, Top.next),
             Top.call.data.fn \in Relays =>
                 f.token = IF Element.data.fn = "executor" /\ Element.data.tokens # <<>>
                           THEN Element.data.tokens[1] ELSE Top.token,
             stack' = WithTop(f)
      PROVE  WorthInv'
  <2>1. Counted(f, n)
    BY <1>2, <1>3, <1>4, <1>6, <1>7, <1>8, CountedFurther
  <2>2. stack' = Append(SubSeq(stack, 1, Len(stack) - 1), f)
    BY <1>8 DEF WithTop, Below
  <2>3. Tells(stack', tx)
    BY <1>1, <1>2, <1>3, <1>8, <2>1, <2>2, TellsFurther DEF Top
  <2> QED BY <1>5, <2>3 DEF WorthInv
<1>9. CASE Executor
  <2>1. PICK token : /\ token = IF Element.data.tokens = <<>> THEN Top.token
                                ELSE Element.data.tokens[1]
                     /\ stack' = WithTop([Top EXCEPT !.next = @ + 1, !.token = token])
    BY <1>9 DEF Executor
  <2>2. /\ Readable(Element) /\ IsExecutor(Element) /\ Element \in Held(Top.call.data)
    BY <1>9, ElementType DEF Executor
  <2>3. /\ Fine(Top.call, Element) /\ IsShape(Top.call, Element)
        /\ Top.call.data.fn \in Relays /\ Element.data.fn = "executor"
        /\ Element.data.tokens # None
    BY <2>2 DEF Fine, Readable, IsExecutor, IsShape
  <2>4. Element.data.tokens \in Seq(Address)
    BY <1>2, <2>2, <2>3, FieldsAssumption DEF Call
  <2>5. token \in AddressOrNone
    BY <1>2, <2>1, <2>4 DEF AddressOrNone
  <2>6. PICK f : f = [Top EXCEPT !.next = @ + 1, !.token = token]
    OBVIOUS
  <2>7. /\ f \in Frames /\ f.call = Top.call /\ f.next = Top.next + 1
        /\ f.found = Top.found /\ f.token = token
    <3>1. f \in Frames
      BY <1>2, <2>5, <2>6, FrameFurther
    <3> QED BY <1>2, <2>6, <3>1 DEF Frames
  <2>8. PartOf(w, Worth, Top.next) = <<>>
    BY <1>6, <1>7, <2>3 DEF PartOf, Relays
  <2>9. f.found = Top.found \o PartOf(w, Worth, Top.next)
    BY <1>2, <2>7, <2>8
  <2> QED BY <1>8, <2>1, <2>3, <2>6, <2>7, <2>9
<1>10. CASE Command
  <2>1. PICK more : /\ more = CommandIntents(Top.call, Element)
                    /\ stack' = WithTop([Top EXCEPT !.next = @ + 1, !.found = @ \o more])
    BY <1>10 DEF Command
  <2>2. /\ Readable(Element) /\ Top.call.data.fn = "router" /\ Element \in Held(Top.call.data)
        /\ Element.fits
    BY <1>10, ElementType DEF Command, Readable
  <2>3. Fine(Top.call, Element) /\ Top.call.data.fn \notin Relays
    BY <2>2 DEF Fine, IsShape, Relays
  <2>4. more \in Seq(Intent)
    BY <1>2, <2>1, <2>2, CommandFinds
  <2>5. PICK s : s = Top.found \o more
    OBVIOUS
  <2>6. s \in Seq(Intent)
    BY <1>2, <2>4, <2>5
  <2>7. PICK f : f = [Top EXCEPT !.next = @ + 1, !.found = s]
    OBVIOUS
  <2>8. f \in Frames /\ f.call = Top.call /\ f.next = Top.next + 1 /\ f.found = s
    <3>1. f \in Frames
      BY <1>2, <2>6, <2>7, FrameFurther
    <3> QED BY <1>2, <2>7, <3>1 DEF Frames
  <2>9. PartOf(w, Worth, Top.next) = more
    BY <1>6, <1>7, <2>1, <2>2 DEF PartOf
  <2>10. stack' = WithTop(f)
    BY <2>1, <2>5, <2>7
  <2> QED BY <1>8, <2>3, <2>5, <2>8, <2>9, <2>10
<1>11. CASE Absorb
  <2>1. /\ phase = "return" /\ Stays(stack)
        /\ found = Worth[Place(Len(stack), Made(stack, tx, Len(stack)))]
    BY <1>11 DEF Absorb, WorthInv
  <2>2. /\ Top.call.data.fn \in Nesting /\ Fine(Top.call, Element)
        /\ ~IsShape(Top.call, Element)
    BY <1>1, <1>6, <2>1 DEF Stays, Opened, Top
  <2>3. Made(stack, tx, Len(stack)) = Nested(Top.call, Element)
    BY <1>2, <1>6 DEF Made, Top
  <2>4. PartOf(w, Worth, Top.next) = found
    BY <1>3, <1>6, <1>7, <2>1, <2>2, <2>3 DEF PartOf, Nesting
  <2>5. PICK s : s = Top.found \o found
    OBVIOUS
  <2>6. s \in Seq(Intent)
    BY <1>1, <1>2, <2>5
  <2>7. PICK f : f = [Top EXCEPT !.next = @ + 1, !.found = s]
    OBVIOUS
  <2>8. /\ f \in Frames /\ f.call = Top.call /\ f.next = Top.next + 1 /\ f.found = s
        /\ f.token = Top.token
    <3>1. f \in Frames
      BY <1>2, <2>6, <2>7, FrameFurther
    <3> QED BY <1>2, <2>7, <3>1 DEF Frames
  <2>9. stack' = WithTop(f)
    BY <1>11, <2>5, <2>7 DEF Absorb
  <2>10. Top.call.data.fn \in Relays => Element.data.fn # "executor"
    BY <2>2 DEF IsShape
  <2> QED BY <1>8, <2>2, <2>4, <2>5, <2>8, <2>9, <2>10
<1> QED BY <1>9, <1>10, <1>11

LEMMA WorthOtherSteps ==
    ASSUME IntentsInv, WorthInv, Descend \/ PlainTransfer \/ Dispatch \/ Finish
    PROVE  WorthInv'
<1>1. Tells(stack, tx) /\ stack' = stack /\ tx' = tx
  BY DEF WorthInv, Descend, PlainTransfer, Dispatch, Finish
<1>2. CASE Descend
  <2>1. /\ phase' = "call" /\ call' = Nested(Top.call, Element) /\ stack # <<>>
        /\ Top.call.data.fn \in Nesting /\ Top.next <= Len(Items)
        /\ Readable(Element) /\ ~IsExecutor(Element)
    BY <1>2, ElementType DEF Descend, AtItem
  <2>2. Opened(Top)
    BY <2>1 DEF Opened, Fine, Readable, IsExecutor, IsShape, Element, Items
  <2>3. Stays(stack)
    BY <2>2 DEF Stays, Top
  <2>4. Len(stack) # 0
    BY <2>1, TopFrame
  <2>5. call' = Made(stack, tx, Len(stack))
    BY <2>1, <2>4 DEF Made, Top, Element, Items
  <2> QED BY <1>1, <2>1, <2>3, <2>5 DEF WorthInv
<1>3. CASE PlainTransfer
  BY <1>1, <1>3 DEF PlainTransfer, WorthInv
<1>4. CASE Dispatch
  <2>1. phase' = "call" /\ call' = TopCall(tx) /\ stack = <<>>
    BY <1>4 DEF Dispatch, IntentsInv, PhaseInv
  <2>2. Len(stack) = 0
    BY <2>1
  <2>3. Stays(stack) /\ call' = Made(stack, tx, Len(stack))
    BY <2>1, <2>2 DEF Stays, Made
  <2> QED BY <1>1, <2>1, <2>3 DEF WorthInv
<1>5. CASE Finish
  <2>1. /\ phase' = "done" /\ found' = found /\ stack = <<>>
        /\ found = Worth[Place(Len(stack), Made(stack, tx, Len(stack)))]
    BY <1>5 DEF Finish, WorthInv
  <2>2. Len(stack) = 0
    BY <2>1
  <2>3. found' = Worth[Place(0, TopCall(tx))]
    BY <2>1, <2>2 DEF Made
  <2> QED BY <1>1, <2>1, <2>3 DEF WorthInv
<1> QED BY <1>2, <1>3, <1>4, <1>5

LEMMA WorthNext ==
    ASSUME IntentsInv, WorthInv, [Next]_vars
    PROVE  WorthInv'
<1>1. CASE Next
  BY <1>1, WorthCallSteps, WorthReturnSteps, WorthFurtherSteps, WorthOtherSteps DEF Next
<1>2. CASE UNCHANGED vars
  BY <1>2 DEF vars, WorthInv
<1> QED BY <1>1, <1>2

-----------------------------------------------------------------------------
(* Theorems                                                                *)

\* Whatever a transaction carries, the walk of decode_call keeps the containers it is in,
\* the call at hand and what is being returned each under the one around it.
THEOREM IntentsInvCorrect == Spec => []IntentsInv
<1>1. Init => IntentsInv
  BY IntentsInit
<1>2. IntentsInv /\ [Next]_vars => IntentsInv'
  BY IntentsNext
<1> QED BY <1>1, <1>2, PTL DEF Spec

\* TypeOK for every cap, every address and every calldata: what decode_intents carries up
\* and returns are intents, and a container's loop stands at one of its elements or past
\* the last.
THEOREM TypeOKCorrect == Spec => []TypeOK
<1>1. IntentsInv => TypeOK
  <2> SUFFICES ASSUME IntentsInv PROVE TypeOK
    OBVIOUS
  <2>1. stack \in Seq(Frames)
    BY DEF IntentsInv, Nests
  <2>2. ASSUME NEW k \in DOMAIN stack
        PROVE  /\ stack[k].call \in Call /\ stack[k].call.data.fn \in Containers
               /\ stack[k].next \in 1..Len(stack[k].call.data.items) + 1
               /\ stack[k].found \in Seq(Intent)
               /\ stack[k].token \in AddressOrNone
    <3>1. stack[k] \in Frames /\ k \in 1..Len(stack)
      BY <2>1
    <3> QED BY <3>1 DEF IntentsInv, Nests, Frames
  <2> QED BY <2>2 DEF IntentsInv, PhaseInv, TypeOK
<1> QED BY <1>1, IntentsInvCorrect, PTL

\* FoundUnderItsFrames for every cap and calldata: an intent is reported on the way that
\* starts at the transaction's `to` and goes through every container it was carried up by,
\* is for a wallet wherever its container is for one, and the recursion of decode_call opens
\* at most MAX_DEPTH + 1 containers.
THEOREM FoundUnderCorrect == Spec => []FoundUnderItsFrames
<1>1. IntentsInv => FoundUnderItsFrames
  <2> SUFFICES ASSUME IntentsInv PROVE FoundUnderItsFrames
    OBVIOUS
  <2>1. stack \in Seq(Frames) /\ Len(stack) \in Nat /\ DOMAIN stack = 1..Len(stack)
    BY DEF IntentsInv, Nests
  <2>2. ASSUME NEW k \in 1..Len(stack)
        PROVE  AllUnder(stack[k].found, stack[k].call)
    BY DEF IntentsInv, Nests
  <2>3. ASSUME NEW k \in 1..Len(stack), k < Len(stack)
        PROVE  Extends(stack[k + 1].call.via, stack[k].call.via)
    <3>1. k + 1 \in 1..Len(stack) /\ k + 1 - 1 = k /\ k # 0
      BY <2>1, <2>3
    <3>2. Under(stack[k + 1].call, Holder(stack, tx, k + 1 - 1))
      BY <3>1 DEF IntentsInv, Nests
    <3> QED BY <3>1, <3>2 DEF Holder, Under
  <2>4. stack # <<>> => Holder(stack, tx, Len(stack)) = Top.call
    BY TopFrame
  <2>5. phase = "call" /\ stack # <<>> => Extends(call.via, Top.call.via)
    BY <2>4 DEF IntentsInv, PhaseInv, Under
  <2>6. phase = "return" /\ stack # <<>> =>
            \A n \in DOMAIN found : /\ Extends(found[n].via, Top.call.via)
                                    /\ Top.call.actor # None => found[n].actor # None
    BY <2>4 DEF IntentsInv, PhaseInv, AllUnder, Under
  <2>7. Len(stack) <= MaxDepth + 1
    BY DEF IntentsInv, Nests
  <2>8. phase = "done" => \A n \in DOMAIN found : Extends(found[n].via, Optional(tx.to))
    BY DEF IntentsInv, PhaseInv
  <2> QED BY <2>1, <2>2, <2>3, <2>5, <2>6, <2>7, <2>8 DEF FoundUnderItsFrames, AllUnder, Under
<1> QED BY <1>1, IntentsInvCorrect, PTL

\* ShowsWhatIsFollowed for every filter, every sender and every list of intents: `--actor`
\* shows of a transaction just what copy_trade_signals reports of it, once trades alone are
\* looked at; shows one with nothing decoded only for its sender; and shows one whose intents
\* all name a wallet whoever signed it.
THEOREM ShowsWhatIsFollowedCorrect == Spec => []ShowsWhatIsFollowed
<1>1. IntentsInv => ShowsWhatIsFollowed
  <2> SUFFICES ASSUME IntentsInv, NEW f \in Filters, NEW sender \in Senders
               PROVE  LET kept == Keep(f, tx, sender, found)
                      IN  /\ Given(f.actor) /\ ~Given(f.selector) /\ ~Given(f.sender) =>
                               Kept(Shown(kept), Trades)
                                   = Signals(f.actor, f.to, tx, sender, found)
                          /\ kept # None /\ Given(f.actor) /\ found = <<>> => sender \in f.actor
                          /\ ~Unclaimed(found) /\ ~Given(f.sender) =>
                               \A other \in Senders : Keep(f, tx, other, found) = kept
    BY DEF ShowsWhatIsFollowed
  <2>1. found \in Seq(Intent)
    BY DEF IntentsInv
  <2>2. ASSUME Keep(f, tx, sender, found) # None, Given(f.actor), found = <<>>
        PROVE  sender \in f.actor
    <3>1. ActorsIntents(f, sender, found) # None
      BY <2>2 DEF Keep
    <3> QED BY <2>2, <3>1, KeptNothing DEF ActorsIntents
  <2>3. ASSUME ~Unclaimed(found), ~Given(f.sender), NEW other \in Senders
        PROVE  Keep(f, tx, other, found) = Keep(f, tx, sender, found)
    <3>1. ActorsIntents(f, other, found) = ActorsIntents(f, sender, found)
      BY <2>3 DEF ActorsIntents
    <3> QED BY <2>3, <3>1 DEF Keep
  <2> QED BY <2>1, <2>2, <2>3, ShownIsReported
<1> QED BY <1>1, IntentsInvCorrect, PTL

\* In every phase of the walk, what each open container has found is what its elements so far
\* are worth, and what is being returned is what the call it comes from is worth.
THEOREM WorthInvCorrect == Spec => []WorthInv
<1>1. Init => WorthInv
  <2> SUFFICES ASSUME Init PROVE WorthInv
    OBVIOUS
  <2>1. phase = "start" /\ stack = <<>>
    BY DEF Init
  <2> QED BY <2>1 DEF WorthInv, Tells, Stays
<1>2. IntentsInv /\ WorthInv /\ [Next]_vars => WorthInv'
  BY WorthNext
<1> QED BY <1>1, <1>2, IntentsInvCorrect, PTL DEF Spec

\* Sound for every cap, every calldata and every nesting of it: decode_intents reports of a
\* transaction what the calls in it ask for, in their order, and nothing else.
THEOREM SoundCorrect == Spec => []Sound
<1>1. WorthInv => Sound
  BY DEF WorthInv, Sound
<1> QED BY <1>1, WorthInvCorrect, PTL
=============================================================================
