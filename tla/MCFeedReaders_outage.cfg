\* A reorg the caller of live() is not told of.
SPECIFICATION ReaderSpec
CONSTANTS
    c1 = c1
    NoHash = NoHash
    Unknown = Unknown
    Seqs <- MCSeqs
    Hashes <- MCHashes
    Entries <- MCEntries
    Chains <- OneChain
    GivenChain = Unknown
    UrlChain = Unknown
    VerifierChain = c1
    Announcements <- NoAnnouncement
    Verifying = FALSE
    DecodeBacklog = FALSE
    BaseDelay = 1
    MaxDelay = 1
    MaxFrame = 2
    ReorgWindow = 4
    MaxTail = 3
    MaxReorgs = 1
    MaxTrim = 0
    MaxFaults = 1
PROPERTIES
    LiveReorgsArrive
CHECK_DEADLOCK FALSE
