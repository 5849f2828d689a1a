\* Single-entry frames, numbers 0..5 in any order, a hash window of two.
SPECIFICATION Spec
CONSTANTS
    a = a
    b = b
    c1 = c1
    c2 = c2
    NoHash = NoHash
    Unknown = Unknown
    Seqs <- SeqsTo5
    Hashes <- AB
    Entries <- Plain
    MaxFrame = 1
    Verifying = FALSE
    DecodeBacklog = TRUE
    ReorgWindow = 2
    BaseDelay = 1
    MaxDelay = 1
    Chains <- TwoChains
    GivenChain = Unknown
    UrlChain = c2
    VerifierChain = c1
    Announcements <- NoAnnouncement
INVARIANTS
    WatermarkIsTip
    HashesMatchView
    WindowRemembered
PROPERTIES
    ReorgsAreDelivered
    ViewSpec
CHECK_DEADLOCK TRUE
