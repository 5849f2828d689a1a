\* The two callers side by side, on one consumer connected to one feed.
SPECIFICATION ReaderSpec
CONSTANTS
    c1 = c1
    NoHash = NoHash
    Unknown = Unknown
    Seqs <- MCSeqs
    Hashes <- MCHashes
    Entries <- MCEntries
    Chains <- OneChain
    GivenChain = Unknown
    UrlChain = Unknown
    VerifierChain = c1
    Announcements <- NoAnnouncement
    Verifying = FALSE
    DecodeBacklog = FALSE
    BaseDelay = 1
    MaxDelay = 1
    MaxFrame = 2
    ReorgWindow = 4
    MaxTail = 3
    MaxReorgs = 2
    MaxTrim = 2
    MaxFaults = 2
PROPERTIES
    FollowsTheChain
    EventuallyCaughtUp
INVARIANTS
    SystemTypeOK
    OnlyOutageReorgsAreMissed
    OneDuplicatePerResume
    LiveReaderAgrees
CHECK_DEADLOCK FALSE
