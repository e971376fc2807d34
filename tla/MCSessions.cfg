SPECIFICATION Spec
CONSTANTS
    Sid = {s1, s2}
    Req = {r1, r2}
    NoSid = NoSid
    MaxChanges = 2
SYMMETRY Symmetries
CHECK_DEADLOCK FALSE
INVARIANTS
    IndexedUnlessRaced
    SurvivorsOverlapped
PROPERTIES
    EndedStaysEnded
