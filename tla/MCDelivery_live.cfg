\* The pipeline rests when every message is settled.
CHECK_DEADLOCK FALSE
SPECIFICATION FairSpec
CONSTANTS
    w1 = w1  w2 = w2  w3 = w3  o1 = o1  r1 = r1  r2 = r2  c1 = c1  c2 = c2
    NoMessage = NoMessage
    Webhook <- MCWebhook
    Observation <- MCObservation
    BlockNumber <- MCBlockNumber
    Boundary <- MCBoundary
    Consumer = {c1}
    Replayer = {r1, r2}
    Answers = {"ok", "busy", "refused"}
    MaxBatch = 2
    MatchedRetries = 1
    DeliveryRetries = 1
    ReplayLimit = 1
    MaxFaults = 0
    MaxDuplicates = 0
    MaxReplays = 2
    MaxOps = 0
INVARIANT
    LedgerTruthful
PROPERTY Settles
