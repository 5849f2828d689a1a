\* A short run, and what it leaves behind.
SPECIFICATION WatchSpec
CONSTANTS
    Stall = 8
    MinPoll = 1
    MaxQueue = 2
    CloseWait = 1
    Seconds = {0, 3}
INVARIANTS
    ClosedWhenDone
