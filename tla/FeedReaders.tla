---------------------------- MODULE FeedReaders -----------------------------
(***************************************************************************)
(* Two callers at the end of FeedSystem.  One iterates live(), which hands *)
(* on only the messages of messages() whose `live` is set                  *)
(* (src/src/rhfeed/consume.py:472-476), and keeps a picture of the chain   *)
(* by the rule FeedView gives: extend, or replace when `reorg` is set.     *)
(* The other iterates messages() and keeps `view`.                         *)
(***************************************************************************)
EXTENDS FeedSystem

VARIABLES
    liveView,  \* the picture of the caller of live()
    liveFrom   \* first block handed to that caller on this connection, or 0

readers == <<liveView, liveFrom>>
readerVars == <<systemVars, readers>>

ReaderInit ==
    /\ SystemInit
    /\ liveView = View!EmptyView
    /\ liveFrom = 0

\* Mutant of PassOn: a replacement is taken for an old message.
PassOn_DropsReorgs(m) ==
    IF m.live /\ ~m.reorg
    THEN /\ liveView' = Absorbed(liveView, m)
         /\ liveFrom' = IF liveFrom = 0 \/ m.seq < liveFrom THEN m.seq ELSE liveFrom
    ELSE UNCHANGED <<liveView, liveFrom>>

\* live() passes a message on, or drops it.
PassOn(m) ==
    IF m.live
    THEN /\ liveView' = Absorbed(liveView, m)
         /\ liveFrom' = IF liveFrom = 0 \/ m.seq < liveFrom THEN m.seq ELSE liveFrom
    ELSE UNCHANGED <<liveView, liveFrom>>

ReaderStep ==
    /\ SystemStep
    /\ IF out' # <<>> THEN PassOn(out'[1]) ELSE UNCHANGED readers

ReaderOpen ==
    /\ SystemOpen
    /\ liveFrom' = 0
    /\ UNCHANGED liveView

ReaderNext ==
    \/ ReaderStep
    \/ ReaderOpen
    \/ (SystemReceive \/ SystemRetry \/ Environment) /\ UNCHANGED readers

\* The fairness of FeedSystem: passing a message on is part of the step that brings it.
ReaderSpec == ReaderInit /\ [][ReaderNext]_readerVars /\ Fairness

\* From the block at which a connection went live up to the watermark, the caller of
\* live() holds exactly what the caller of messages() holds: the drain ends in the
\* middle of a frame, reorgs cut below it, and still no block is lost between the two
\* (consume.py:366-395, 472-476).
Between(v, first, last) == {<<s, v[s]>> : s \in DOMAIN v \cap (first..last)}

LiveReaderAgrees ==
    phase = "open" /\ liveFrom # 0
        => Between(liveView, liveFrom, highestSeq) = Between(view, liveFrom, highestSeq)

-----------------------------------------------------------------------------
(* What the documentation says and the code does not do                    *)

\* consume.py:31-32: a real reorg "arrives with `msg.reorg` set": no block of the
\* caller of live() is replaced by a message that does not say so.
LiveReorgsArrive ==
    [][SystemStep /\ out' # <<>> /\ out'[1].live /\ ~out'[1].reorg
        => \A s \in DOMAIN liveView : s < out'[1].seq]_readerVars
=============================================================================
