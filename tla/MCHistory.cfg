SPECIFICATION Spec
CONSTANTS
    Msg = {1, 2, 3, 4}
    Reply = {1}
    System = {2}
    Req = {r1, r2}
    HotLimit = 2
    PageSize = 1
    BulkLimit = 2
    MaxChanges = 1
    Hidden = Hidden
    None = None
SYMMETRY Symmetries
INVARIANTS
    FreshUnlessOverlapped
    WindowHasNoGaps
    NoPayloadLeftBehind
CHECK_DEADLOCK FALSE
