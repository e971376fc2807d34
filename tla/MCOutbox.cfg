\* Two replicas, two events, three attempts, a batch of both events.
CONSTANTS
    Event = {1, 2}
    Worker = {w1, w2}
    MaxAttempts = 3
    ClaimTimeout = 1
    BatchLimit = 2
    NoClaim = NoClaim
    Idle = Idle
SPECIFICATION FairSpec
INVARIANTS ExclusiveUnlessLapsed HandlerRunsBounded
PROPERTIES EventuallySettled ImplementsDurableQueue
CHECK_DEADLOCK FALSE
