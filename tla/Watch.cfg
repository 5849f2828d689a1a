\* A threshold of eight ticks, polled every two; a deadline of three, none, or none by 0.
SPECIFICATION WatchSpec
CONSTANTS
    Stall = 8
    MinPoll = 1
    MaxQueue = 2
    CloseWait = 1
    Seconds = {0, 3}
INVARIANTS
    WatchTypeOK
    StallIsReported
    OneWarningPerStall
    ClosedByTheRun
PROPERTIES
    DownIsNotStalled
    WarnsOnlyAboutSilence
    NothingIsSwallowed
    DeadlineEndsIt
