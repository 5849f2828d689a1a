------------------------------- MODULE Watch --------------------------------
(***************************************************************************)
(* `cli.watch` and `main` (src/src/rhfeed/cli.py), the program around      *)
(* live(): what ends a run, and in which state it leaves the generator.    *)
(* The generator and its monitor are StallMonitor's.                       *)
(*                                                                         *)
(* Everything runs in one task.  The deadline and Ctrl-C ask for its       *)
(* cancellation, which comes out where the task waits: nearly always       *)
(* inside the stream, so that the generator unwinds itself before          *)
(* asyncio.timeout sees anything.  Leaving an open connection waits for    *)
(* the feed's answer to the close frame, and that wait can be cancelled.   *)
(*                                                                         *)
(* `awaits` tells `watch`, which never waits while it holds a message,     *)
(* from a caller of live() that follows its pattern and does.  A wait that *)
(* is over within a pass of the event loop is no place for anything else.  *)
(***************************************************************************)
EXTENDS StallMonitor

CONSTANTS
    CloseWait,  \* close_timeout, in ticks
    Seconds     \* values of --seconds; 0 stands for none

ASSUME WatchAssumption ==
    /\ CloseWait \in Nat \ {0}
    /\ Seconds \subseteq Nat

VARIABLES
    awaits,   \* the caller awaits while it holds a message
    left,     \* ticks until asyncio.timeout expires, or NoDeadline
    cancels,  \* who has asked for the task's cancellation
    pending,  \* a cancellation was asked for and has not been raised yet
    leaving,  \* the exception that unwinds the generator, or "none"
    closing,  \* ticks the closing handshake may still take
    outcome   \* how the run ended: "idle" before the first, "running" during one

ends == <<awaits, left, cancels, pending, leaving, closing, outcome>>
watchVars == <<vars, ends>>

NoDeadline == -1

Running == outcome = "running" /\ leaving = "none"

WatchInit ==
    /\ Init
    /\ awaits \in BOOLEAN
    /\ left = NoDeadline
    /\ cancels = {}
    /\ pending = FALSE
    /\ leaving = "none"
    /\ closing = 0
    /\ outcome = "idle"

\* `asyncio.timeout(args.seconds) if args.seconds else _forever()`
Begin(seconds) ==
    /\ outcome # "running"
    /\ Call
    /\ left' = IF seconds = 0 THEN NoDeadline ELSE seconds
    /\ cancels' = {}
    /\ pending' = FALSE
    /\ leaving' = "none"
    /\ closing' = 0
    /\ outcome' = "running"
    /\ UNCHANGED awaits

\* The generator's own steps.  Once a cancellation is due it takes none that would
\* have to wait; a frame that is there already is read without waiting.
Iterate ==
    /\ Running
    /\ \/ ~pending /\ (Open \/ Fail \/ CleanClose \/ Wake)
       \/ Read
       \/ Resume
    /\ UNCHANGED ends

\* What goes on beside the task: frames come in and the monitor polls, as long as
\* there is a generator, whoever holds it.
Beside ==
    /\ \/ ~pending /\ Arrive
       \/ Monitor
    /\ UNCHANGED ends

-----------------------------------------------------------------------------
(* What ends a run                                                         *)

\* The task waits for something that takes time.
Suspended ==
    /\ outcome = "running"
    /\ leaving = "none" \/ closing > 0
    /\ busy => awaits \/ leaving # "none"

\* Mutant of Expire: the deadline is looked at when a message arrives.
Expire_PerMessage ==
    /\ left = 0
    /\ Suspended
    /\ queued > 0
    /\ left' = NoDeadline
    /\ cancels' = cancels \cup {"deadline"}
    /\ pending' = TRUE
    /\ UNCHANGED <<vars, awaits, leaving, closing, outcome>>

\* The timer of asyncio.timeout.
Expire ==
    /\ left = 0
    /\ Suspended
    /\ left' = NoDeadline
    /\ cancels' = cancels \cup {"deadline"}
    /\ pending' = TRUE
    /\ UNCHANGED <<vars, awaits, leaving, closing, outcome>>

\* Ctrl-C: asyncio.run cancels the task, also while it is handling a message.
Interrupt ==
    /\ outcome = "running"
    /\ leaving = "none" \/ closing > 0
    /\ "interrupt" \notin cancels
    /\ cancels' = cancels \cup {"interrupt"}
    /\ pending' = TRUE
    /\ UNCHANGED <<vars, awaits, left, leaving, closing, outcome>>

\* Mutant of OutcomeOf: a deadline that has passed explains every cancellation.
OutcomeOf_AnyCancel(exception) ==
    IF exception # "cancelled" THEN exception
    ELSE IF "deadline" \in cancels THEN "summary"
    ELSE "interrupted"

\* asyncio.timeout turns its own cancellation into TimeoutError, which is suppressed;
\* with another one outstanding, CancelledError goes on and becomes KeyboardInterrupt.
OutcomeOf(exception) ==
    IF exception # "cancelled" THEN exception
    ELSE IF cancels = {"deadline"} THEN "summary"
    ELSE "interrupted"

\* The stream is over and the run with it.
End(exception) ==
    /\ outcome' = OutcomeOf(exception)
    /\ left' = NoDeadline
    /\ pending' = FALSE
    /\ leaving' = "none"
    /\ closing' = 0
    /\ UNCHANGED <<awaits, cancels>>

\* Mutant of CancelStream: taken for one more failure of the connection.
CancelStream_Retried ==
    /\ pending
    /\ outcome = "running"
    /\ ~busy
    /\ pending' = FALSE
    /\ phase' = "sleeping"
    /\ idle' = Never
    /\ queued' = 0
    /\ UNCHANGED <<busy, poll, warned, told, quiet, awaits, left, cancels, leaving, closing, outcome>>

\* CancelledError inside the stream.  An open connection is closed first; in that
\* wait it takes the place of whatever was unwinding the generator.
CancelStream ==
    /\ pending
    /\ outcome = "running"
    /\ ~busy
    /\ IF phase = "open" /\ leaving = "none"
       THEN /\ leaving' = "cancelled"
            /\ closing' = CloseWait
            /\ pending' = FALSE
            /\ UNCHANGED <<vars, awaits, left, cancels, outcome>>
       ELSE Close /\ End("cancelled")

\* Mutant of RefuseChain: the connection is closed and not dropped.
RefuseChain_Closes ==
    /\ Running
    /\ ~pending
    /\ phase = "connecting"
    /\ phase' = "open"
    /\ leaving' = "WrongChain"
    /\ closing' = CloseWait
    /\ UNCHANGED <<busy, queued, idle, poll, warned, told, quiet, awaits, left, cancels, pending, outcome>>

\* _check_chain drops the connection, which leaves nothing to wait for, and raises.
RefuseChain ==
    /\ Running
    /\ ~pending
    /\ phase = "connecting"
    /\ leaving' = "WrongChain"
    /\ closing' = 0
    /\ UNCHANGED <<vars, awaits, left, cancels, pending, outcome>>

\* The feed answers the close frame or the wait is up; the generator is done, and
\* with it its monitor.
Unwind ==
    /\ leaving # "none"
    /\ ~pending
    /\ Close
    /\ End(leaving)

\* Mutant of CancelBody: raised in a body that does not wait, as KeyboardInterrupt
\* would be without asyncio.run.
CancelBody_AtOnce ==
    /\ Running
    /\ busy
    /\ pending
    /\ End("cancelled")
    /\ UNCHANGED vars

\* CancelledError where the caller waits with a message in its hands.  aclosing closes
\* live(), which is suspended in a bare `async for`: the generator behind it, its
\* connection and its monitor stay as they are.
CancelBody ==
    /\ Running
    /\ busy
    /\ awaits
    /\ pending
    /\ End("cancelled")
    /\ UNCHANGED vars

\* The caller's own exception, a broken pipe for one: the same happens to live().
BodyRaises ==
    /\ Running
    /\ busy
    /\ End("error")
    /\ UNCHANGED vars

\* The event loop's finalizer closes what was left, in a task of its own.
Finalise ==
    /\ outcome # "running"
    /\ Close
    /\ UNCHANGED ends

\* Time passes once everything due has run; `watch` takes none of it for a message.
WatchTick ==
    /\ Tick
    /\ outcome = "running" => ~pending /\ left # 0
    /\ busy /\ outcome = "running" => awaits
    /\ leaving # "none" => closing > 0
    /\ left' = IF left = NoDeadline THEN left ELSE left - 1
    /\ closing' = IF leaving = "none" THEN 0 ELSE closing - 1
    /\ UNCHANGED <<awaits, cancels, pending, leaving, outcome>>

WatchNext ==
    \/ \E seconds \in Seconds : Begin(seconds)
    \/ Iterate \/ Beside
    \/ Expire \/ Interrupt \/ CancelStream
    \/ RefuseChain \/ Unwind \/ CancelBody \/ BodyRaises \/ Finalise
    \/ WatchTick

\* A feed sends only so many frames in an instant.
FiniteBursts == []<><<Arrive>>_watchVars => []<><<WatchTick>>_watchVars

\* The event loop runs what is due, a caller that does not wait comes back for the next
\* message, and time passes whenever nothing is due.
WatchFairness ==
    /\ FiniteBursts
    /\ WF_watchVars(Running /\ (Read \/ (Resume /\ ~awaits)) /\ UNCHANGED ends)
    /\ WF_watchVars(Monitor /\ UNCHANGED ends)
    /\ WF_watchVars(Expire)
    /\ WF_watchVars(CancelStream)
    /\ WF_watchVars(Unwind)
    /\ WF_watchVars(CancelBody)
    /\ SF_watchVars(WatchTick)

WatchSpec == WatchInit /\ [][WatchNext]_watchVars /\ WatchFairness

-----------------------------------------------------------------------------
(* Properties                                                              *)

\* The variables of the run stay in their types.
WatchTypeOK ==
    /\ TypeOK
    /\ {awaits, pending} \subseteq BOOLEAN
    /\ left \in Nat \cup {NoDeadline}
    /\ cancels \subseteq {"deadline", "interrupt"}
    /\ leaving \in {"none", "cancelled", "WrongChain"}
    /\ closing \in 0..CloseWait
    /\ outcome \in {"idle", "running", "summary", "interrupted", "WrongChain", "error"}

\* A run with --seconds ends, whatever the feed does or fails to do and wherever the
\* generator stands then: no message has to come for it (cli.py:165-171,
\* consume.py:300-301).
DeadlineEndsIt == left # NoDeadline ~> outcome # "running"

\* Neither WrongChain, once raised, nor Ctrl-C is swallowed by a deadline that expires
\* meanwhile: the run does not end as one that ran its time (cli.py:167-169, 267-275,
\* consume.py:348-352).
NothingIsSwallowed ==
    [][/\ leaving = "WrongChain" => outcome' = "WrongChain" \/ leaving' = leaving
       /\ "interrupt" \in cancels /\ outcome' # outcome => outcome' # "summary"]_watchVars

\* `watch` itself never waits with a message in its hands, so a deadline, Ctrl-C or
\* WrongChain finds the generator inside its own task and is passed up by it: when such
\* a run is over, so are the connection and the monitor (cli.py:161-164, consume.py:322-326).
ClosedByTheRun ==
    ~awaits /\ outcome \in {"summary", "interrupted", "WrongChain"} => phase = "closed"

-----------------------------------------------------------------------------
(* What the documentation says and the code does not do                    *)

\* cli.py:161-164: aclosing is there so that the generator, suspended inside the
\* websocket context manager, is not left to the GC, which would unwind it from the
\* wrong task.
ClosedWhenDone == outcome # "running" => phase = "closed"
=============================================================================
