CONSTANTS
    Hands <- Differing
    MaxRounds = 2
    MaxFaults = 1
    MaxAsking = 1
SPECIFICATION FairSpec
CHECK_DEADLOCK FALSE
INVARIANTS
    DuelInv
PROPERTIES
    PickIsAnswered
    
