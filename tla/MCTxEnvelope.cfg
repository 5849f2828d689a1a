\* Envelopes of 8 to 14 fields; buffers of up to four bytes, lists of five or six.
SPECIFICATION EnvelopeSpec
CONSTANTS
    MaxLen = 4
    Alphabet <- SomeBytes
    Envelopes <- AllEnvelopes
    Buffers <- AllBuffers
INVARIANTS
    ItemsTile
    FaithfulWhenSmall
    AcceptedIsWhole
    SignedIsWhatWasSigned
CHECK_DEADLOCK FALSE
