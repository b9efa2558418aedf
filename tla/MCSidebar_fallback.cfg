CONSTANTS
    Sessions = {"s", "t"}
    Peers = {"p", "q"}
    Limit = 2
    Scenes <- LongRoom
SPECIFICATION RoomSpec
CHECK_DEADLOCK FALSE
PROPERTIES
    FallbackShowsAll
