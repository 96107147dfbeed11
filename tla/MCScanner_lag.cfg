\* The bounded environment may leave a paused or inactive chain with nothing to do.
CHECK_DEADLOCK FALSE
SPECIFICATION Spec
CONSTANTS
    g1 = g1  a2 = a2  a3 = a3  a4 = a4  b3 = b3  b4 = b4
    NoBlock = NoBlock
    Block <- MCBlock
    Parent <- MCParent
    Height <- MCHeight
    Chain <- MCChain
    Items <- MCItems
    Failed <- MCFailed
    Poison <- NoPoison
    WindowLimit = 2
    MaxBlocksPerPass = 2
    MaxBlocksPerRange = 1
    ReanchorDepth = 2
    UnresolvableLimit = 2
    SkipAfter = 2
    HeadLag = 1
    MaxMoves = 1
    MaxFaults = 0
    MaxOps = 0
PROPERTY
    ActivationMissesNothing
