\* The bounded environment may leave a paused or inactive chain with nothing to do.
CHECK_DEADLOCK FALSE
SPECIFICATION Spec
CONSTANTS
    g1 = g1  a2 = a2  a3 = a3  a4 = a4  c4 = c4  c5 = c5
    NoBlock = NoBlock
    Block <- MCBlock
    Parent <- MCParent
    Height <- MCHeight
    Chain <- MCChain
    Items <- MCItems
    Failed <- MCFailed
    Poison = {}
    WindowLimit = 3
    MaxBlocksPerPass = 3
    MaxBlocksPerRange = 2
    ReanchorDepth = 3
    UnresolvableLimit = 2
    SkipAfter = 0
    HeadLag = 1
    MaxMoves = 2
    MaxFaults = 1
    MaxOps = 1
INVARIANTS
    NotifiedAtMostOnce
    WindowLinked
    MarkedAreReported
PROPERTIES
    DroppedBlocksMarked
    KeepsPromise
