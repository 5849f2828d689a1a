\* Frames of up to two entries, signed or not, against a verifying consumer.
SPECIFICATION Spec
CONSTANTS
    a = a
    b = b
    c1 = c1
    c2 = c2
    NoHash = NoHash
    Unknown = Unknown
    Seqs <- SeqsTo1
    Hashes <- AB
    Entries <- SignedAndOdd
    MaxFrame = 2
    Verifying = TRUE
    DecodeBacklog = FALSE
    ReorgWindow = 1
    BaseDelay = 1
    MaxDelay = 3
    Chains <- TwoChains
    GivenChain = Unknown
    UrlChain = Unknown
    VerifierChain = c1
    Announcements <- SomeAnnouncements
INVARIANTS
    TypeOK
    LiveFlagMatchesMessage
PROPERTIES
    ForgedEntriesAreInert
    LiveUntilReconnect
CHECK_DEADLOCK TRUE
