SPECIFICATION LiveSpec
CONSTANTS
    a = a
    b = b
    o = o
    NoAddress = NoAddress
    Malformed = Malformed
    FromBlock = 1
    ToBlock = 2
    RETRIES = 3
    Address <- MCAddress
    Watched <- MCWatched
    Mask <- MCMask
    Block <- MCBlock
    View <- MCView
    Stray <- MCStray
CHECK_DEADLOCK FALSE
INVARIANTS
    TypeOK
    NothingMissed
    BundlesFaithful
    OutagesNeverSkip
    FailsForCause
PROPERTY
    ReadEnds
