SPECIFICATION Spec
CONSTANTS
    Msg = {1, 2, 3}
    Reply = {}
    System = {}
    Req = {r1}
    HotLimit = 2
    PageSize = 1
    BulkLimit = 2
    MaxChanges = 0
    Hidden = Hidden
    None = None
INVARIANT PagesReachCursor
CHECK_DEADLOCK FALSE
