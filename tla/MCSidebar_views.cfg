CONSTANTS
    Sessions = {"s", "t"}
    Peers = {"p", "q"}
    Limit = 2
    Scenes <- Scenarios
SPECIFICATION SidebarFairSpec
CHECK_DEADLOCK FALSE

    
PROPERTIES
    OpensTheTarget
    CatchesUp
    MessageIsShown
