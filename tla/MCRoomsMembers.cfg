SPECIFICATION FairSpec
CONSTANTS
    Socket = {s1}
    Channel = {main}
    Main = main
    Msg = {}
    MembersEvent = {e1}
    CommandCapacity = 2
    NoRoom = NoRoom
    Closed = Closed
CHECK_DEADLOCK FALSE
PROPERTIES
    RoomEventsReachHolders
