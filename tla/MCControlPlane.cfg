\* The bounded environment may leave nothing to do.
CHECK_DEADLOCK FALSE
SPECIFICATION FairSpec
CONSTANTS
    s1 = s1  s2 = s2  s3 = s3  s4 = s4  h1 = h1  h2 = h2  a1 = a1  c1 = c1  c2 = c2
    Sub <- MCSub
    Webhook <- MCWebhook
    Address = {a1}
    Chain <- MCChain
    HookOf <- MCHookOf
    AddressOf <- MCAddressOf
    ChainOf <- MCChainOf
    Worker = {1, 2}
    Cron = Cron
    Nobody = Nobody
    Down = {c2}
    Quota = 1
    ChainQuota = 2
    PageLimit = 3
    MaxRequests = 2
    MaxFaults = 1
INVARIANTS
    TypeOK
    RefsMatch
    PendingHasCommand
    LiveHasWebhook
    ActiveIsScanned
    OvershootBounded
PROPERTIES
    Implements
    CommandsApplied
