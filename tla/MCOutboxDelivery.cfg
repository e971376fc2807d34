\* One event, two replicas: is it always handled in the end?
CONSTANTS
    Event = {1}
    Worker = {w1, w2}
    MaxAttempts = 5
    ClaimTimeout = 1
    BatchLimit = 1
    NoClaim = NoClaim
    Idle = Idle
SPECIFICATION RecoverySpec
PROPERTY EventuallyHandled
CHECK_DEADLOCK FALSE
