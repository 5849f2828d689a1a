\* Trees of up to four calls deep under a cap of two.
SPECIFICATION Spec
CONSTANTS
    None = None
    A = A
    B = B
    T = T
    U = U
    Sender = Sender
    Self = Self
    Address <- TheAddresses
    MSG_SENDER = Sender
    ADDRESS_THIS = Self
    Data <- AllData
    Transactions <- AllTransactions
    MaxDepth = 2
    Filters <- AllFilters
    Senders <- AllSenders
INVARIANTS
    TypeOK
    FoundUnderItsFrames
    Sound
    ShowsWhatIsFollowed
CHECK_DEADLOCK FALSE
