SPECIFICATION Spec
CONSTANTS
    Socket = {s1, s2}
    Channel = {main, side}
    Main = main
    Msg = {m1}
    MembersEvent = {e1}
    CommandCapacity = 2
    NoRoom = NoRoom
    Closed = Closed
SYMMETRY Symmetries
CHECK_DEADLOCK FALSE
INVARIANTS
    CountsHolders
    RoomsSubscribed
    NoSilentGap
