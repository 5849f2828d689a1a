------------------------------- MODULE Filter -------------------------------
(***************************************************************************)
(* `cli.Filter` (src/src/rhfeed/cli.py:56-104), applied to what the walk   *)
(* of Intents finds, and the example that follows wallets by hand          *)
(* (src/examples/copy_trade_signals.py).                                   *)
(*                                                                         *)
(* A filter `f` is four sets, empty where the option was not given.  The   *)
(* function that Intents reads off a selector stands for the selector.     *)
(* `sender` is the recovered one, or None.                                 *)
(***************************************************************************)
EXTENDS Intents

CONSTANTS
    Filters,  \* to, selector, sender, actor
    Senders   \* who may have signed a transaction

ASSUME FilterAssumption ==
    /\ Senders \subseteq Address \cup {None}
    /\ \A f \in Filters : /\ {f.to, f.sender, f.actor} \subseteq SUBSET Address
                          /\ f.selector \subseteq Functions

\* A list is not None.
ASSUME NoneAssumption == None \notin Seq(Intent)

Given(option) == option # {}

\* [i for i in intents if i in S]
Kept(intents, S) ==
    LET kept[n \in 0..Len(intents)] ==
            IF n = 0 THEN <<>>
            ELSE IF intents[n] \in S THEN Append(kept[n - 1], intents[n]) ELSE kept[n - 1]
    IN  kept[Len(intents)]

\* Mutant of Unclaimed: the sender is asked for only when nothing was decoded.
Unclaimed_Nothing(intents) == intents = <<>>

\* Nothing decoded, or an intent that names no one.
Unclaimed(intents) == intents = <<>> \/ \E n \in DOMAIN intents : intents[n].actor = None

\* _actors_intents
ActorsIntents(f, sender, intents) ==
    LET followed == Unclaimed(intents) /\ sender \in f.actor
        mine == Kept(intents, {i \in Intent : IF i.actor = None THEN followed
                                              ELSE i.actor \in f.actor})
    IN  IF mine # <<>> \/ (intents = <<>> /\ followed) THEN mine ELSE None

\* keep: the intents to show, or None.
Keep(f, t, sender, intents) ==
    LET shown == IF Given(f.actor) THEN ActorsIntents(f, sender, intents) ELSE intents
    IN  IF \/ Given(f.to) /\ t.to \notin f.to
           \/ Given(f.selector) /\ t.data.fn \notin f.selector
           \/ Given(f.sender) /\ sender \notin f.sender
        THEN None ELSE shown

TRADES == {"swap", "relay_fill", "relay_sell"}

\* The intents that are signals.
Trades == {i \in Intent : i.kind \in TRADES}

\* copy_trade_signals.main: the trades of the wallets followed.
Signals(follow, contracts, t, sender, intents) ==
    IF Given(contracts) /\ t.to \notin contracts THEN <<>>
    ELSE Kept(intents, {i \in Trades : (IF i.actor # None THEN i.actor ELSE sender) \in follow})

-----------------------------------------------------------------------------
(* Properties                                                              *)

Shown(kept) == IF kept = None THEN <<>> ELSE kept

\* `--actor` shows just the intents for a followed wallet, an intent that names no one
\* being its sender's, also where one bundle mixes both kinds; the trades among them are
\* those that copy_trade_signals reports, which asks intent by intent; and where every
\* intent names its wallet it makes no difference who signed, whom it is dear to find out
\* (cli.py:78-104, copy_trade_signals.py:53-64).
ShowsWhatIsFollowed ==
    phase = "done" => \A f \in Filters, sender \in Senders :
        LET kept == Keep(f, tx, sender, found)
        IN  /\ Given(f.actor) /\ ~Given(f.selector) /\ ~Given(f.sender) =>
                 Kept(Shown(kept), Trades) = Signals(f.actor, f.to, tx, sender, found)
            /\ kept # None /\ Given(f.actor) /\ found = <<>> => sender \in f.actor
            /\ ~Unclaimed(found) /\ ~Given(f.sender) =>
                 \A other \in Senders : Keep(f, tx, other, found) = kept
=============================================================================
