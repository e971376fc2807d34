SPECIFICATION Spec
CONSTANTS
    Caller = {c1, c2}
    Key = {k1, k2}
    Flight = {1, 2, 3}
    Permits = 1
    Limit = 1
    MaxCount = 2
    Unset = Unset
INVARIANTS
    OneFlightPerKey
    PermitsAccounted
    CountersExpire
PROPERTIES
    CallersAnswered
