\* Frames of one entry: messages of up to five bytes, and chosen longer ones, batches that
\* nest to two, tickets and deposits.  Frames of up to three entries of eight sorts.
SPECIFICATION FrameSpec
CONSTANTS
    MaxLen = 5
    MaxEntries = 3
    Alphabet <- SomeBytes
    Payloads <- AllPayloads
    Calls <- AllCalls
    None = None
    Odd = Odd
    NotBase64 = NotBase64
    MaxSize = 22
    MaxDepth = 2
    LengthSize = 1
    Word = 2
    Uint64 = 1
    Address = 1
    RequestId = 2
    SignedBodies <- SomeBodies
INVARIANTS
    FrameTypeOK
    SlicesNest
    TxsInOrder
    Sound
    FrameSound
    BuiltReadsBack
CHECK_DEADLOCK FALSE
