---------------------------- MODULE WatchProofs -----------------------------
(***************************************************************************)
(* However long a threshold, a poll interval, a deadline or a closing      *)
(* handshake is: the command line's run is one of the generator and its    *)
(* monitor; a silence is reported in time and once; and how a run ends.    *)
(***************************************************************************)
EXTENDS Watch, TLAPS

\* The shortest wait of the monitor.
LEMMA IntervalType == Interval \in Nat \ {0} /\ Stall \in Nat \ {0}
BY StallAssumption DEF Interval

\* Every step of a run is one of the generator's and its monitor's own, or is none of theirs.
LEMMA WatchStep ==
    ASSUME [WatchNext]_watchVars
    PROVE  [Next]_vars
<1>1. CASE \E seconds \in Seconds : Begin(seconds)
  BY <1>1 DEF Begin, Next
<1>2. CASE Iterate \/ Beside
  BY <1>2 DEF Iterate, Beside, Next
<1>3. CASE CancelStream
  BY <1>3 DEF CancelStream, Next
<1>4. CASE Unwind \/ Finalise \/ WatchTick
  BY <1>4 DEF Unwind, Finalise, WatchTick, Next
<1>5. CASE Expire \/ Interrupt \/ RefuseChain \/ CancelBody \/ BodyRaises
  BY <1>5 DEF Expire, Interrupt, RefuseChain, CancelBody, BodyRaises
<1>6. CASE UNCHANGED watchVars
  BY <1>6 DEF watchVars
<1> QED BY <1>1, <1>2, <1>3, <1>4, <1>5, <1>6 DEF WatchNext

\* A run of the command line drives the generator and its monitor by their own steps alone,
\* so that what holds of these two holds in every run (cli.py:165-170, consume.py:208-326).
THEOREM WatchRunsMonitor == WatchSpec => Spec
<1>1. WatchInit => Init
  BY DEF WatchInit
<1>2. [WatchNext]_watchVars => [Next]_vars
  BY WatchStep
<1> QED BY <1>1, <1>2, PTL DEF WatchSpec, Spec

-----------------------------------------------------------------------------
(* The monitor                                                             *)

\* The clock stands for a frame while a connection is open and for none while the retry
\* loop sleeps.
ClockInv ==
    /\ phase = "open" => idle # Never
    /\ phase = "sleeping" => idle = Never

\* A stall that has been reported lasts, and is remembered as long as it does.
ReportedInv ==
    \/ told = 0
    \/ told = 1 /\ (idle = Never \/ (idle >= Stall /\ warned))

\* Of a connection that has been read empty, the clock is no older than the last frame.
QuietInv == phase = "open" /\ queued = 0 => idle <= quiet

\* What is not yet reported is, at the monitor's next poll, in time; and by then it has
\* looked once since the last frame and forgotten an earlier stall.
InTimeInv ==
    MinPoll < Stall /\ phase = "open" /\ told = 0 =>
        /\ idle + poll < Stall + Interval
        /\ warned => idle + poll <= Interval

MonitorInv == TypeOK /\ ClockInv /\ ReportedInv /\ QuietInv /\ InTimeInv

LEMMA MonitorPreserved ==
    ASSUME MonitorInv, [Next]_vars
    PROVE  MonitorInv'
<1> USE IntervalType
<1>h. Horizon \in Nat /\ Horizon = Stall + 2 * Interval
  BY DEF Horizon
<1>s. MinPoll < Stall => Interval < Stall
  BY StallAssumption DEF Interval
<1>t. /\ TypeOK /\ MaxQueue \in Nat
      /\ idle \in Int /\ idle >= -1
      /\ {queued, poll, told, quiet} \subseteq Nat
      /\ poll <= Interval
      /\ {busy, warned} \subseteq BOOLEAN
      /\ ClockInv /\ ReportedInv /\ QuietInv /\ InTimeInv
  BY <1>h, StallAssumption DEF MonitorInv, TypeOK, Never
<1> USE <1>t DEF Never
<1>1. CASE Call
  <2>0. {busy', warned'} \subseteq BOOLEAN
    BY <1>1, Zenon DEF Call
  <2>1. TypeOK'
    BY <1>1, <1>h, <2>0 DEF Call, TypeOK
  <2>2. ClockInv' /\ ReportedInv' /\ QuietInv'
    BY <1>1, <1>h DEF Call, ClockInv, ReportedInv, QuietInv
  <2>3. InTimeInv'
    BY <1>1, <1>h, <1>s DEF Call, ClockInv, InTimeInv
  <2> QED BY <2>1, <2>2, <2>3 DEF MonitorInv
<1>2. CASE Open
  <2>1. TypeOK'
    BY <1>2, <1>h DEF Open, TypeOK
  <2>2. ClockInv' /\ ReportedInv' /\ QuietInv'
    BY <1>2, <1>h DEF Open, ClockInv, ReportedInv, QuietInv
  <2>3. InTimeInv'
    BY <1>2, <1>h, <1>s DEF Open, ClockInv, InTimeInv
  <2> QED BY <2>1, <2>2, <2>3 DEF MonitorInv
<1>3. CASE Arrive
  <2>1. TypeOK'
    BY <1>3, <1>h DEF Arrive, TypeOK
  <2>2. ClockInv' /\ ReportedInv' /\ QuietInv'
    BY <1>3, <1>h DEF Arrive, ClockInv, ReportedInv, QuietInv
  <2>3. InTimeInv'
    BY <1>3, <1>h, <1>s DEF Arrive, ClockInv, InTimeInv
  <2> QED BY <2>1, <2>2, <2>3 DEF MonitorInv
<1>4. CASE Read
  <2>1. TypeOK'
    BY <1>4, <1>h DEF Read, Readable, TypeOK
  <2>2. ClockInv' /\ ReportedInv' /\ QuietInv'
    BY <1>4, <1>h DEF Read, Readable, ClockInv, ReportedInv, QuietInv
  <2>3. InTimeInv'
    BY <1>4, <1>h, <1>s DEF Read, Readable, ClockInv, InTimeInv
  <2> QED BY <2>1, <2>2, <2>3 DEF MonitorInv
<1>5. CASE Resume
  <2>1. TypeOK'
    BY <1>5, <1>h DEF Resume, TypeOK
  <2>2. ClockInv' /\ ReportedInv' /\ QuietInv'
    BY <1>5, <1>h DEF Resume, ClockInv, ReportedInv, QuietInv
  <2>3. InTimeInv'
    BY <1>5, <1>h, <1>s DEF Resume, ClockInv, InTimeInv
  <2> QED BY <2>1, <2>2, <2>3 DEF MonitorInv
<1>6. CASE Fail
  <2>1. TypeOK'
    BY <1>6, <1>h DEF Fail, TypeOK
  <2>2. ClockInv' /\ ReportedInv' /\ QuietInv'
    BY <1>6, <1>h DEF Fail, ClockInv, ReportedInv, QuietInv
  <2>3. InTimeInv'
    BY <1>6, <1>h, <1>s DEF Fail, ClockInv, InTimeInv
  <2> QED BY <2>1, <2>2, <2>3 DEF MonitorInv
<1>7. CASE CleanClose \/ Wake
  <2>1. TypeOK'
    BY <1>7, <1>h DEF CleanClose, Wake, TypeOK
  <2>2. ClockInv' /\ ReportedInv' /\ QuietInv'
    BY <1>7, <1>h DEF CleanClose, Wake, ClockInv, ReportedInv, QuietInv
  <2>3. InTimeInv'
    BY <1>7, <1>h, <1>s DEF CleanClose, Wake, ClockInv, InTimeInv
  <2> QED BY <2>1, <2>2, <2>3 DEF MonitorInv
<1>8. CASE Close
  <2>0. {busy', warned'} \subseteq BOOLEAN
    BY <1>8, Zenon DEF Close
  <2>1. TypeOK'
    BY <1>8, <1>h, <2>0 DEF Close, TypeOK
  <2>2. ClockInv' /\ ReportedInv' /\ QuietInv'
    BY <1>8, <1>h DEF Close, ClockInv, ReportedInv, QuietInv
  <2>3. InTimeInv'
    BY <1>8, <1>h, <1>s DEF Close, ClockInv, InTimeInv
  <2> QED BY <2>1, <2>2, <2>3 DEF MonitorInv
<1>9. CASE Monitor
  <2>1. Stalled <=> idle # Never /\ idle >= Stall
    BY DEF Stalled
  <2>2. CASE Stalled
    <3>1. warned' = TRUE
      BY <1>9, <2>2, Zenon DEF Monitor
    <3>2. told' = IF ~warned /\ told < 2 THEN told + 1 ELSE told
      BY <1>9, <2>2, Zenon DEF Monitor
    <3>3. poll = 0 /\ poll' = Interval /\ UNCHANGED <<phase, busy, queued, idle, quiet>>
      BY <1>9 DEF Monitor
    <3> QED BY <1>h, <1>s, <2>1, <2>2, <3>1, <3>2, <3>3
            DEF MonitorInv, TypeOK, ClockInv, ReportedInv, QuietInv, InTimeInv
  <2>3. CASE ~Stalled
    <3>0. Stalled = FALSE
      BY <2>3, SMT DEF Stalled
    <3>1. warned' = FALSE
      BY <1>9, <3>0, Zenon DEF Monitor
    <3>2. told' = told
      BY <1>9, <2>3, Zenon DEF Monitor
    <3>3. poll = 0 /\ poll' = Interval /\ UNCHANGED <<phase, busy, queued, idle, quiet>>
      BY <1>9 DEF Monitor
    <3>4. {busy', warned'} \subseteq BOOLEAN
      BY <3>1, <3>3, Zenon
    <3>5. TypeOK'
      BY <1>h, <3>2, <3>3, <3>4 DEF TypeOK
    <3>6. ClockInv' /\ ReportedInv' /\ QuietInv'
      BY <2>1, <2>3, <3>1, <3>2, <3>3 DEF ClockInv, ReportedInv, QuietInv
    <3>7. InTimeInv'
      BY <1>s, <2>1, <2>3, <3>1, <3>2, <3>3 DEF ClockInv, InTimeInv
    <3> QED BY <3>5, <3>6, <3>7 DEF MonitorInv
  <2> QED BY <2>2, <2>3
<1>10. CASE Tick
  <2>1. TypeOK'
    BY <1>10, <1>h DEF Tick, Older, TypeOK
  <2>2. ClockInv' /\ ReportedInv' /\ QuietInv'
    BY <1>10, <1>h DEF Tick, Older, ClockInv, ReportedInv, QuietInv
  <2>3. InTimeInv'
    BY <1>10, <1>h, <1>s DEF Tick, Older, ClockInv, InTimeInv
  <2> QED BY <2>1, <2>2, <2>3 DEF MonitorInv
<1>11. CASE UNCHANGED vars
  <2>1. TypeOK'
    BY <1>11, <1>h DEF vars, TypeOK
  <2>2. ClockInv' /\ ReportedInv' /\ QuietInv'
    BY <1>11, <1>h DEF vars, ClockInv, ReportedInv, QuietInv
  <2>3. InTimeInv'
    BY <1>11, <1>h, <1>s DEF vars, ClockInv, InTimeInv
  <2> QED BY <2>1, <2>2, <2>3 DEF MonitorInv
<1> QED BY <1>1, <1>2, <1>3, <1>4, <1>5, <1>6, <1>7, <1>8, <1>9, <1>10, <1>11 DEF Next

LEMMA InitMonitor == Init => MonitorInv
<1> SUFFICES ASSUME Init PROVE MonitorInv
  OBVIOUS
<1>0. {busy, warned} \subseteq BOOLEAN
  BY Zenon DEF Init
<1>1. TypeOK
  BY <1>0, IntervalType, StallAssumption DEF Init, TypeOK, Never, Horizon
<1>2. ClockInv /\ ReportedInv /\ QuietInv /\ InTimeInv
  BY DEF Init, ClockInv, ReportedInv, QuietInv, InTimeInv
<1> QED BY <1>1, <1>2 DEF MonitorInv

\* The inductive invariant of the generator's clock and its monitor (consume.py:208-247).
THEOREM MonitorCorrect == WatchSpec => []MonitorInv
<1>1. Init => MonitorInv
  BY InitMonitor
<1>2. MonitorInv /\ [Next]_vars => MonitorInv'
  BY MonitorPreserved
<1> QED BY <1>1, <1>2, WatchRunsMonitor, PTL DEF Spec

\* A stall is reported once, for any threshold and any poll interval (consume.py:228-237).
THEOREM OneWarningCorrect == WatchSpec => []OneWarningPerStall
<1>1. MonitorInv => OneWarningPerStall
  BY DEF MonitorInv, ReportedInv, OneWarningPerStall
<1> QED BY <1>1, MonitorCorrect, PTL

\* Every stall is reported at most one poll after the threshold, if the threshold is longer
\* than the shortest poll.  With a shorter one a stall that follows another goes unreported:
\* no poll falls between the two to clear `warned` (consume.py:217-247).
THEOREM StallReportedCorrect == MinPoll < Stall => (WatchSpec => []StallIsReported)
<1> SUFFICES ASSUME MinPoll < Stall PROVE WatchSpec => []StallIsReported
  OBVIOUS
<1>1. MonitorInv => StallIsReported
  BY IntervalType DEF MonitorInv, TypeOK, InTimeInv, ClockInv, StallIsReported, Never
<1> QED BY <1>1, MonitorCorrect, PTL

\* Nothing is said while the retry loop sleeps (consume.py:222-225, 319).
THEOREM DownCorrect == WatchSpec => DownIsNotStalled
<1>1. MonitorInv /\ [Next]_vars => [told' > told => phase # "sleeping"]_vars
  <2> SUFFICES ASSUME MonitorInv, [Next]_vars, told' > told PROVE phase # "sleeping"
    OBVIOUS
  <2>1. told \in 0..2 /\ Monitor
    BY DEF MonitorInv, TypeOK, Next, vars, Call, Open, Arrive, Read, Resume, Fail, CleanClose,
           Wake, Close, Tick
  <2> QED BY <2>1, StallAssumption DEF MonitorInv, ClockInv, Monitor, Stalled
<1> QED BY <1>1, MonitorCorrect, WatchRunsMonitor, PTL DEF Spec, DownIsNotStalled

\* A connection that is reported silent has been, or its caller is behind
\* (consume.py:226-237, 295).
THEOREM SilenceCorrect == WatchSpec => WarnsOnlyAboutSilence
<1>1. MonitorInv /\ [Next]_vars
        => [told' > told /\ phase = "open" => quiet >= Stall \/ queued > 0]_vars
  <2> SUFFICES ASSUME MonitorInv, [Next]_vars, told' > told, phase = "open"
               PROVE  quiet >= Stall \/ queued > 0
    OBVIOUS
  <2>1. told \in 0..2 /\ Monitor
    BY DEF MonitorInv, TypeOK, Next, vars, Call, Open, Arrive, Read, Resume, Fail, CleanClose,
           Wake, Close, Tick
  <2> QED BY <2>1, IntervalType, StallAssumption
          DEF MonitorInv, TypeOK, QuietInv, Monitor, Stalled, Horizon, Never
<1> QED BY <1>1, MonitorCorrect, WatchRunsMonitor, PTL DEF Spec, WarnsOnlyAboutSilence

-----------------------------------------------------------------------------
(* How a run ends                                                          *)

\* Only a run has a deadline and something that unwinds it; WrongChain unwinds it without
\* a wait.
RunInv ==
    /\ outcome # "running" => left = NoDeadline /\ leaving = "none"
    /\ leaving = "WrongChain" => closing = 0 /\ ~pending

WatchInv == WatchTypeOK /\ RunInv /\ ClosedByTheRun

\* What a run may end as.
LEMMA Outcomes ==
    ASSUME WatchTypeOK, NEW exception \in {"cancelled", "WrongChain", "error"}
    PROVE  /\ OutcomeOf(exception) \in {"summary", "interrupted", "WrongChain", "error"}
           /\ exception # "cancelled" => OutcomeOf(exception) = exception
           /\ "interrupt" \in cancels => OutcomeOf(exception) # "summary"
BY DEF OutcomeOf

\* A run that ends keeps the rest of its state in order.
LEMMA Ended ==
    ASSUME WatchInv, TypeOK', NEW exception \in {"cancelled", "WrongChain", "error"}, End(exception)
    PROVE  WatchTypeOK' /\ RunInv' /\ UNCHANGED awaits
<1>1. /\ outcome' \in {"summary", "interrupted", "WrongChain", "error"}
      /\ left' = NoDeadline /\ leaving' = "none" /\ closing' = 0
      /\ UNCHANGED <<awaits, cancels>>
  BY Outcomes DEF WatchInv, End
<1>2. pending' \in BOOLEAN
  BY Zenon DEF End
<1>3. awaits' \in BOOLEAN
  BY <1>1, Zenon DEF WatchInv, WatchTypeOK
<1>4. WatchTypeOK'
  BY <1>1, <1>2, <1>3, WatchAssumption DEF WatchInv, WatchTypeOK
<1> QED BY <1>1, <1>4 DEF RunInv

LEMMA WatchPreserved ==
    ASSUME WatchInv, [WatchNext]_watchVars, TypeOK'
    PROVE  WatchInv'
<1>1. CASE \E seconds \in Seconds : Begin(seconds)
  <2>1. PICK seconds \in Seconds : Begin(seconds)
    BY <1>1
  <2>2. left' \in Nat \cup {NoDeadline}
    BY <2>1, WatchAssumption DEF Begin
  <2>3. /\ cancels' = {} /\ leaving' = "none" /\ closing' = 0 /\ outcome' = "running"
    BY <2>1 DEF Begin
  <2>4. {awaits', pending'} \subseteq BOOLEAN
    BY <2>1, Zenon DEF Begin, WatchInv, WatchTypeOK
  <2> QED BY <2>2, <2>3, <2>4, WatchAssumption DEF WatchInv, WatchTypeOK, RunInv, ClosedByTheRun
<1>2. CASE Iterate
  <2>1. UNCHANGED ends /\ outcome = "running"
    BY <1>2 DEF Iterate, Running
  <2> QED BY <2>1 DEF ends, WatchInv, WatchTypeOK, RunInv, ClosedByTheRun
<1>3. CASE Beside
  <2>1. UNCHANGED ends /\ UNCHANGED phase
    BY <1>3 DEF Beside, Arrive, Monitor
  <2> QED BY <2>1 DEF ends, WatchInv, WatchTypeOK, RunInv, ClosedByTheRun
<1>4. CASE Expire \/ Interrupt
  <2>1. /\ outcome = "running" /\ (leaving = "none" \/ closing > 0)
        /\ left' \in {left, NoDeadline}
        /\ cancels' \subseteq cancels \cup {"deadline", "interrupt"}
        /\ UNCHANGED <<awaits, leaving, closing, outcome>>
    BY <1>4 DEF Expire, Interrupt, Suspended
  <2>2. pending' \in BOOLEAN
    BY <1>4, Zenon DEF Expire, Interrupt
  <2>3. leaving # "WrongChain"
    BY <2>1, WatchAssumption DEF WatchInv, RunInv
  <2> QED BY <2>1, <2>2, <2>3 DEF WatchInv, WatchTypeOK, RunInv, ClosedByTheRun
<1>5. CASE CancelStream
  <2>1. CASE phase = "open" /\ leaving = "none"
    <3>1. /\ outcome = "running" /\ leaving' = "cancelled" /\ closing' = CloseWait
          /\ UNCHANGED <<awaits, left, cancels, outcome>>
      BY <1>5, <2>1 DEF CancelStream
    <3>2. pending' \in BOOLEAN
      BY <1>5, <2>1, Zenon DEF CancelStream
    <3> QED BY <3>1, <3>2, WatchAssumption DEF WatchInv, WatchTypeOK, RunInv, ClosedByTheRun
  <2>2. CASE ~(phase = "open" /\ leaving = "none")
    <3>1. Close /\ End("cancelled")
      BY <1>5, <2>2 DEF CancelStream
    <3> QED BY <3>1, Ended DEF Close, WatchInv, ClosedByTheRun
  <2> QED BY <2>1, <2>2
<1>6. CASE RefuseChain
  <2>1. /\ outcome = "running" /\ ~pending /\ leaving' = "WrongChain" /\ closing' = 0
        /\ UNCHANGED <<awaits, left, cancels, pending, outcome>>
    BY <1>6 DEF RefuseChain, Running
  <2> QED BY <2>1, WatchAssumption DEF WatchInv, WatchTypeOK, RunInv, ClosedByTheRun
<1>7. CASE Unwind
  <2>1. Close /\ End(leaving) /\ leaving \in {"cancelled", "WrongChain", "error"}
    BY <1>7 DEF Unwind, WatchInv, WatchTypeOK
  <2> QED BY <2>1, Ended DEF Close, WatchInv, ClosedByTheRun
<1>8. CASE CancelBody
  <2>1. End("cancelled") /\ awaits
    BY <1>8 DEF CancelBody
  <2> QED BY <2>1, Ended DEF WatchInv, ClosedByTheRun
<1>9. CASE BodyRaises
  <2>1. End("error") /\ outcome' = "error"
    BY <1>9 DEF BodyRaises, End, OutcomeOf
  <2> QED BY <2>1, Ended DEF WatchInv, ClosedByTheRun
<1>10. CASE Finalise
  <2>1. UNCHANGED ends /\ phase' = "closed"
    BY <1>10 DEF Finalise, Close
  <2> QED BY <2>1 DEF ends, WatchInv, WatchTypeOK, RunInv, ClosedByTheRun
<1>11. CASE WatchTick
  <2>1. /\ outcome = "running" => left # 0
        /\ leaving # "none" => closing > 0
        /\ left' = IF left = NoDeadline THEN left ELSE left - 1
        /\ closing' = IF leaving = "none" THEN 0 ELSE closing - 1
        /\ UNCHANGED <<awaits, cancels, pending, leaving, outcome, phase>>
    BY <1>11 DEF WatchTick, Tick
  <2>2. left' \in Nat \cup {NoDeadline} /\ closing' \in 0..CloseWait
    BY <2>1, WatchAssumption DEF WatchInv, WatchTypeOK, RunInv, NoDeadline
  <2>3. outcome # "running" => left' = NoDeadline
    BY <2>1 DEF WatchInv, RunInv
  <2>4. leaving # "WrongChain"
    BY <2>1 DEF WatchInv, RunInv
  <2> QED BY <2>1, <2>2, <2>3, <2>4 DEF WatchInv, WatchTypeOK, RunInv, ClosedByTheRun
<1>12. CASE UNCHANGED watchVars
  BY <1>12 DEF watchVars, vars, ends, WatchInv, WatchTypeOK, RunInv, ClosedByTheRun
<1> QED BY <1>1, <1>2, <1>3, <1>4, <1>5, <1>6, <1>7, <1>8, <1>9, <1>10, <1>11, <1>12 DEF WatchNext

\* The inductive invariant of a run, for any deadline and any close_timeout
\* (cli.py:161-171, consume.py:347-352).
THEOREM WatchInvCorrect == WatchSpec => []WatchInv
<1>1. WatchInit => WatchInv
  <2> SUFFICES ASSUME WatchInit PROVE WatchInv
    OBVIOUS
  <2>1. TypeOK
    BY InitMonitor DEF WatchInit, MonitorInv
  <2>2. {awaits, pending} \subseteq BOOLEAN
    BY Zenon DEF WatchInit
  <2> QED BY <2>1, <2>2, WatchAssumption DEF WatchInit, WatchInv, WatchTypeOK, RunInv, ClosedByTheRun
<1>2. WatchInv /\ MonitorInv' /\ [WatchNext]_watchVars => WatchInv'
  BY WatchPreserved DEF MonitorInv
<1> QED BY <1>1, <1>2, MonitorCorrect, PTL DEF WatchSpec

\* The variables of a run stay in their types.
THEOREM WatchTypeCorrect == WatchSpec => []WatchTypeOK
<1>1. WatchInv => WatchTypeOK
  BY DEF WatchInv
<1> QED BY <1>1, WatchInvCorrect, PTL

\* A run of `watch` that ends on its time, on Ctrl-C or on a wrong chain leaves neither a
\* connection nor a monitor behind (cli.py:161-164, consume.py:322-326).
THEOREM ClosedCorrect == WatchSpec => []ClosedByTheRun
<1>1. WatchInv => ClosedByTheRun
  BY DEF WatchInv
<1> QED BY <1>1, WatchInvCorrect, PTL

\* WrongChain, once raised, and Ctrl-C get out whatever the deadline does meanwhile
\* (cli.py:167-169, 267-275, consume.py:348-352).
THEOREM NothingSwallowedCorrect == WatchSpec => NothingIsSwallowed
<1>1. WatchInv /\ [WatchNext]_watchVars =>
        [/\ leaving = "WrongChain" => outcome' = "WrongChain" \/ leaving' = leaving
         /\ "interrupt" \in cancels /\ outcome' # outcome => outcome' # "summary"]_watchVars
  <2> SUFFICES ASSUME WatchInv, WatchNext
               PROVE  /\ leaving = "WrongChain" => outcome' = "WrongChain" \/ leaving' = leaving
                      /\ "interrupt" \in cancels /\ outcome' # outcome => outcome' # "summary"
    OBVIOUS
  <2>1. CASE \E seconds \in Seconds : Begin(seconds)
    BY <2>1 DEF Begin, WatchInv, RunInv
  <2>2. CASE Iterate \/ Beside \/ Finalise
    BY <2>2 DEF Iterate, Beside, Finalise, ends
  <2>3. CASE Expire \/ Interrupt \/ WatchTick
    BY <2>3 DEF Expire, Interrupt, WatchTick
  <2>4. CASE CancelStream
    <3>1. leaving # "WrongChain"
      BY <2>4 DEF CancelStream, WatchInv, RunInv
    <3>2. outcome' = outcome \/ outcome' = OutcomeOf("cancelled")
      BY <2>4 DEF CancelStream, End
    <3> QED BY <3>1, <3>2, Outcomes DEF WatchInv
  <2>5. CASE RefuseChain
    BY <2>5 DEF RefuseChain, Running
  <2>6. CASE Unwind
    <3>1. outcome' = OutcomeOf(leaving) /\ leaving \in {"cancelled", "WrongChain"}
      BY <2>6 DEF Unwind, End, WatchInv, WatchTypeOK
    <3> QED BY <3>1, Outcomes DEF WatchInv
  <2>7. CASE CancelBody \/ BodyRaises
    <3>1. /\ leaving = "none"
          /\ outcome' = OutcomeOf("cancelled") \/ outcome' = OutcomeOf("error")
      BY <2>7 DEF CancelBody, BodyRaises, End, Running
    <3> QED BY <3>1, Outcomes DEF WatchInv
  <2> QED BY <2>1, <2>2, <2>3, <2>4, <2>5, <2>6, <2>7 DEF WatchNext
<1> QED BY <1>1, WatchInvCorrect, PTL DEF WatchSpec, NothingIsSwallowed
=============================================================================
