---------------------------- MODULE StallMonitor ----------------------------
(***************************************************************************)
(* `_monitor` (src/src/rhfeed/consume.py:208-247), the task that runs      *)
(* beside messages() and says when an open connection has gone quiet, with *)
(* the parts of messages() it shares `_last_frame_at` with.                *)
(*                                                                         *)
(* Time is discrete.  The event loop is not blocked: whatever is due at an *)
(* instant runs before time passes, in either order.                       *)
(***************************************************************************)
EXTENDS Integers

CONSTANTS
    Stall,     \* stall_warning, in ticks
    MinPoll,   \* the shortest poll interval, 0.1 s in the code
    MaxQueue   \* bound: frames received and not yet read

ASSUME StallAssumption ==
    /\ Stall \in Nat \ {0}
    /\ MinPoll \in Nat \ {0}
    /\ MaxQueue \in Nat

VARIABLES
    phase,    \* where messages() stands
    busy,     \* the caller holds a message; the generator is suspended on it
    queued,   \* frames the connection has received and the generator has not read
    idle,     \* ticks since _last_frame_at, or Never when that is 0.0
    poll,     \* ticks until the monitor wakes
    warned,   \* the monitor's local `warned`
    \* History variables.
    told,     \* this monitor's warnings since _last_frame_at was set (2: or more)
    quiet     \* ticks since the feed last sent a frame or accepted the connection

vars == <<phase, busy, queued, idle, poll, warned, told, quiet>>

Never == -1

\* max(self.stall_warning / 4, 0.1)
Interval == IF Stall \div 4 > MinPoll THEN Stall \div 4 ELSE MinPoll

\* No clock needs to count further than this.
Horizon == Stall + 2 * Interval

Older(t) == IF t = Never \/ t = Horizon THEN t ELSE t + 1

Init ==
    /\ phase = "closed"
    /\ busy = FALSE
    /\ queued = 0
    /\ idle = Never
    /\ poll = Interval
    /\ warned = FALSE
    /\ told = 0
    /\ quiet = 0

\* messages() starts, with a monitor of its own.
Call ==
    /\ phase = "closed"
    /\ phase' = "connecting"
    /\ poll' = Interval
    /\ warned' = FALSE
    /\ told' = 0
    /\ UNCHANGED <<busy, queued, idle, quiet>>

Open ==
    /\ phase = "connecting"
    /\ phase' = "open"
    /\ queued' = 0
    /\ idle' = 0
    /\ told' = 0
    /\ quiet' = 0
    /\ UNCHANGED <<busy, poll, warned>>

\* The feed sends a frame.
Arrive ==
    /\ phase = "open"
    /\ queued < MaxQueue
    /\ queued' = queued + 1
    /\ quiet' = 0
    /\ UNCHANGED <<phase, busy, idle, poll, warned, told>>

\* Mutant of Readable: reads whether or not a frame is there.
Readable_Empty == phase = "open" /\ ~busy

Readable == phase = "open" /\ ~busy /\ queued > 0

\* Mutant of Read: only a frame that yields a message counts.
Read_Yielding ==
    /\ Readable
    /\ queued' = queued - 1
    /\ busy' \in BOOLEAN
    /\ idle' = IF busy' THEN 0 ELSE idle
    /\ told' = IF busy' THEN 0 ELSE told
    /\ UNCHANGED <<phase, poll, warned, quiet>>

\* The generator reads a frame, and suspends if it yields a message from it.
Read ==
    /\ Readable
    /\ queued' = queued - 1
    /\ idle' = 0
    /\ told' = 0
    /\ busy' \in BOOLEAN
    /\ UNCHANGED <<phase, poll, warned, quiet>>

\* The caller asks for the next message.
Resume ==
    /\ busy
    /\ busy' = FALSE
    /\ UNCHANGED <<phase, queued, idle, poll, warned, told, quiet>>

\* Mutant of Fail: _last_frame_at is not cleared.
Fail_KeepsClock ==
    /\ \/ phase = "open" /\ ~busy /\ queued = 0
       \/ phase = "connecting"
    /\ phase' = "sleeping"
    /\ UNCHANGED <<busy, queued, idle, poll, warned, told, quiet>>

\* Nothing is left to read and the connection has died, or it cannot be opened.
Fail ==
    /\ \/ phase = "open" /\ ~busy /\ queued = 0
       \/ phase = "connecting"
    /\ phase' = "sleeping"
    /\ idle' = Never
    /\ UNCHANGED <<busy, queued, poll, warned, told, quiet>>

\* The feed closed properly: the loop reconnects, and _last_frame_at stays.
CleanClose ==
    /\ phase = "open" /\ ~busy /\ queued = 0
    /\ phase' = "connecting"
    /\ UNCHANGED <<busy, queued, idle, poll, warned, told, quiet>>

Wake ==
    /\ phase = "sleeping"
    /\ phase' = "connecting"
    /\ UNCHANGED <<busy, queued, idle, poll, warned, told, quiet>>

\* The generator is closed, and cancels its monitor.
Close ==
    /\ phase # "closed"
    /\ phase' = "closed"
    /\ busy' = FALSE
    /\ queued' = 0
    /\ UNCHANGED <<idle, poll, warned, told, quiet>>

\* One turn of the monitor's loop.
Stalled == idle # Never /\ idle >= Stall

\* Mutant of Monitor: one warning and never another.
Monitor_Once ==
    /\ phase # "closed"
    /\ poll = 0
    /\ poll' = Interval
    /\ warned' = (warned \/ Stalled)
    /\ told' = IF Stalled /\ ~warned /\ told < 2 THEN told + 1 ELSE told
    /\ UNCHANGED <<phase, busy, queued, idle, quiet>>

\* Mutant of Monitor: a warning at every poll of a stall.
Monitor_EveryPoll ==
    /\ phase # "closed"
    /\ poll = 0
    /\ poll' = Interval
    /\ warned' = Stalled
    /\ told' = IF Stalled /\ told < 2 THEN told + 1 ELSE told
    /\ UNCHANGED <<phase, busy, queued, idle, quiet>>

Monitor ==
    /\ phase # "closed"
    /\ poll = 0
    /\ poll' = Interval
    /\ warned' = Stalled
    /\ told' = IF Stalled /\ ~warned /\ told < 2 THEN told + 1 ELSE told
    /\ UNCHANGED <<phase, busy, queued, idle, quiet>>

\* Time passes once everything due has run.
Tick ==
    /\ ~Readable
    /\ phase # "closed" => poll > 0
    /\ poll' = IF phase = "closed" THEN poll ELSE poll - 1
    /\ idle' = Older(idle)
    /\ quiet' = Older(quiet)
    /\ UNCHANGED <<phase, busy, queued, warned, told>>

Next ==
    \/ Call \/ Open \/ Arrive \/ Read \/ Resume
    \/ Fail \/ CleanClose \/ Wake \/ Close
    \/ Monitor \/ Tick

Spec == Init /\ [][Next]_vars

-----------------------------------------------------------------------------
(* Properties                                                              *)

\* Every clock and counter stays in its range.
TypeOK ==
    /\ phase \in {"closed", "connecting", "open", "sleeping"}
    /\ {busy, warned} \subseteq BOOLEAN
    /\ queued \in 0..MaxQueue
    /\ idle \in Never..Horizon
    /\ poll \in 0..Interval
    /\ told \in 0..2
    /\ quiet \in 0..Horizon

\* A connection that stays silent is reported at most one poll after the threshold,
\* even when an earlier stall had set `warned` (consume.py:218-229).
StallIsReported == phase = "open" /\ idle >= Stall + Interval => told >= 1

\* One warning per stall, however long it lasts (consume.py:228-237).
OneWarningPerStall == told <= 1

\* While the retry loop sleeps after a failure the monitor says nothing: that is
\* the retry loop's to report (consume.py:222-225, 319).
DownIsNotStalled == [][told' > told => phase # "sleeping"]_vars

\* A connection that is reported silent has sent nothing for that long, or the caller
\* is behind: _last_frame_at is when a frame was read, and frames that wait for a slow
\* caller do not count, although consume.py:155 says "no frames" (consume.py:226-237, 295).
WarnsOnlyAboutSilence ==
    [][told' > told /\ phase = "open" => quiet >= Stall \/ queued > 0]_vars
=============================================================================
