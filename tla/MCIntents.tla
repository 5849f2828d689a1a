----------------------------- MODULE MCIntents ------------------------------
(***************************************************************************)
(* Small trees of calls: every container around every pair of leaves, some *)
(* of those inside every container, and towers past the depth cap.  What a *)
(* transaction is worth is read off its tree a second way, one line of     *)
(* descent at a time.                                                      *)
(***************************************************************************)
EXTENDS Filter, IntentsReading, FiniteSets, SequencesExt

CONSTANTS A, B, T, U, Sender, Self

TheAddresses == {A, B, T, U, Sender, Self}

-----------------------------------------------------------------------------
(* The trees                                                               *)

Other(fn) == [fn |-> fn]
Executed(tokens) == [fn |-> "executor", tokens |-> tokens]
Moved(fits) == [fn |-> "transfer", fits |-> fits, amount |-> 1, recipient |-> B]
Sold(recipient) == [fn |-> "exec", fits |-> TRUE, target |-> U, amount |-> 2,
                    recipient |-> recipient, token_out |-> T, minimum |-> 3]
Swapped(names) == [fn |-> "swap", fits |-> TRUE, names |-> names, amount |-> None,
                   token_out |-> None, minimum |-> 4, recipient |-> None]

LeafData ==
    {Other("empty"), Other("unknown"), Executed(<<>>), Executed(<<U>>), Executed(None),
     Moved(TRUE), Moved(FALSE), Sold(B), Sold(None), Swapped(TRUE), Swapped(FALSE)}

Command1(fits, recipients) ==
    [fits |-> fits,
     swaps |-> [n \in DOMAIN recipients |-> [amount |-> n, token_out |-> T, minimum |-> 5,
                                             recipient |-> recipients[n]]]]

Router(head, items) == [fn |-> "router", head |-> head, tail |-> TRUE, items |-> items]

Commands == {Command1(TRUE, <<>>), Command1(TRUE, <<Sender>>), Command1(TRUE, <<Self, None>>),
             Command1(FALSE, <<>>)}

Routers == {Router("bad", <<>>)}
           \cup {Router("fits", <<c>>) : c \in Commands}
           \cup {Router("fits", <<c, d>>) : c \in Commands, d \in Commands}

Item(to, fits, data) == [to |-> to, fits |-> fits, value |-> 7, data |-> data]

\* An execute has one element, and a multicall has read all of its own before the first.
Around(fn, head, tail, items) ==
    [fn |-> fn, head |-> head, tail |-> tail, amount |-> 6, wallet |-> B,
     items |-> CASE fn = "execute" -> [k \in DOMAIN items \cap {1} |-> items[k]]
                 [] fn = "multicall" -> [k \in DOMAIN items |-> [items[k] EXCEPT !.fits = TRUE]]
                 [] fn \notin {"execute", "multicall"} -> items]

\* `fn` around one or two pieces of calldata, and what a container may lack.
One(fn, d) == {Around(fn, "fits", TRUE, <<Item(A, fits, d)>>) : fits \in BOOLEAN}
Two(fn, d, e) == Around(fn, "fits", TRUE, <<Item(A, TRUE, d), Item(B, TRUE, e)>>)
Broken(fn, d) ==
    {Around(fn, "bad", TRUE, <<>>),
     Around(fn, IF fn = "execute" THEN "bad" ELSE "fits", TRUE, <<>>),
     Around(fn, "fits", TRUE, <<Item(A, TRUE, d), Item(B, FALSE, d)>>)}
    \cup IF fn \in Relays THEN {Around(fn, "empty", TRUE, <<>>),
                               Around(fn, "fits", FALSE, <<Item(A, TRUE, d)>>)}
         ELSE {}

Flat ==
    UNION {One(fn, d) \cup Broken(fn, d) : fn \in Nesting, d \in LeafData \cup Routers}
    \cup {Two(fn, d, e) : fn \in Nesting, d \in LeafData, e \in LeafData}

\* Some of those, around which every container is put again.
Telling ==
    {Two(fn, d, Sold(B)) : fn \in Nesting, d \in {Moved(TRUE), Moved(FALSE), Sold(None)}}
    \cup UNION {Broken(fn, Sold(B)) : fn \in Nesting}

Folded ==
    {Two(fn, d, e) : fn \in Nesting, d \in Telling, e \in {Swapped(TRUE), Executed(<<U>>)}}
    \cup {Two(fn, e, d) : fn \in Nesting, d \in Telling, e \in {Moved(TRUE)}}

\* `n` containers around a transfer, the innermost of one kind and the rest of another.
RECURSIVE Tower(_, _, _)
Tower(outer, innermost, n) ==
    IF n = 0 THEN Moved(TRUE)
    ELSE Around(IF n = 1 THEN innermost ELSE outer, "fits", TRUE,
                <<Item(A, TRUE, Tower(outer, innermost, n - 1)), Item(B, TRUE, Sold(B))>>)

Towers == {Tower(f, g, n) : f \in Nesting, g \in Nesting, n \in 3..MaxDepth + 2}

Roots == LeafData \cup Routers \cup Flat \cup Telling \cup Folded \cup Towers

RECURSIVE Within(_)
Within(d) ==
    {d} \cup IF d.fn \in Nesting THEN UNION {Within(d.items[k].data) : k \in DOMAIN d.items}
             ELSE {}

AllData == UNION {Within(d) : d \in Roots}

AllTransactions ==
    {[to |-> A, value |-> 7, data |-> d] : d \in Roots}
    \cup {[to |-> to, value |-> v, data |-> d] : to \in {A, None}, v \in {0, 7}, d \in LeafData}

\* Wallets that are in the calls and one that is not, with and without another option.
AllFilters ==
    [to : {{}, {A}}, selector : {{}, {"handleOps", "fill"}}, sender : {{}, {Sender}},
     actor : {{}, {A}, {B}, {Sender}, {A, B}, {B, Sender}}]
AllSenders == {Sender, B, None}

-----------------------------------------------------------------------------
(* What a transaction is worth, read another way                           *)

Fn(line, k) == line[k].data.fn

\* The lines of descent from a call, in the order of the calls they end in.
RECURSIVE Lines(_)
Lines(line) ==
    LET d == line[Len(line)].data
    IN  <<line>> \o IF d.fn \in Nesting /\ d.head = "fits"
                    THEN FlattenSeq([k \in DOMAIN d.items |-> Lines(Append(line, d.items[k]))])
                    ELSE <<>>

\* Where a line's call is made: multicalls stay where they are.
Moves(line) == {k \in DOMAIN line : k = 1 \/ Fn(line, k - 1) # "multicall"}

CallOf(line) ==
    LET here    == Largest(Moves(line))
        wallets == {k \in 2..Len(line) : Fn(line, k - 1) = "handleOps"}
    IN  [to |-> line[here].to,
         value |-> IF here > 1 /\ Fn(line, here - 1) \in {"handleOps", "executeBatchNoValues"}
                   THEN 0 ELSE line[here].value,
         data |-> line[Len(line)].data,
         actor |-> IF wallets = {} THEN None ELSE line[Largest(wallets)].to,
         via |-> FlattenSeq([k \in DOMAIN line |-> IF k \in Moves(line) THEN Optional(line[k].to)
                                                  ELSE <<>>])]

\* The lines that a call on a line reports, itself aside or not: nothing on the way is void
\* and no Relay call stands in between.
Reported(line, from) ==
    LET Clear(l) == /\ Len(l) >= from /\ Len(l) <= MaxDepth + 1
                    /\ \A k \in from..Len(l) : ~Void(l[k].data)
                    /\ \A k \in from..Len(l) - 1 : Fn(l, k) \notin Relays
    IN  SelectSeq(Lines(line), Clear)

RECURSIVE WorthOfLine(_)

WorthOfAll(lines) == FlattenSeq([n \in DOMAIN lines |-> WorthOfLine(lines[n])])

WorthOfLine(line) ==
    LET c == CallOf(line)
    IN  CASE c.data.fn \in Leaves -> LeafIntents(c)
          [] c.data.fn = "router" ->
                FlattenSeq([k \in DOMAIN c.data.items |-> CommandIntents(c, c.data.items[k])])
          [] c.data.fn \in Relays ->
                <<RelayIntent(c, WorthOfAll(Reported(line, Len(line) + 1)),
                              TokenOf(c.data, Len(c.data.items)))>>
          [] c.data.fn \notin Leaves \cup Relays \cup {"router"} -> <<>>

\* The two readings agree on every transaction: the calls of a tree one line of descent at
\* a time, each with what its whole line makes of it, or each call with the calls in it.
ASSUME ReadingsAgree ==
    \A t \in AllTransactions : Worth[Place(0, TopCall(t))] = WorthOfAll(Reported(<<t>>, 1))
=============================================================================
