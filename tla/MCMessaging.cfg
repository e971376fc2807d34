SPECIFICATION MCSpec
CONSTANTS
    u1 = u1
    Job <- MCJob
    Recipient = {u1}
    Sessions = 2
    Task = {t1, t2}
    ClaimTimeout = 1
    MaxShift = 2
    MaxDelay = 3
    NoClaim = NoClaim
    Free = Free
    r2 = r2
    Req = {r1, r2}
    NoReq = NoReq
INVARIANTS
    TypeOK
    DuplicatesExplained
    ClearedIsDurableOnce
    SeenMeansNotified
PROPERTIES
    SentIsFinal
    EventuallySent
CHECK_DEADLOCK FALSE
