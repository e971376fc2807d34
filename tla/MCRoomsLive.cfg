SPECIFICATION FairSpec
CONSTANTS
    Socket = {s1, s2}
    Channel = {main, side}
    Main = main
    Msg = {}
    MembersEvent = {}
    CommandCapacity = 2
    NoRoom = NoRoom
    Closed = Closed
CHECK_DEADLOCK FALSE
PROPERTIES
    SubscribeAnswered
    DeafSocketsRecover
