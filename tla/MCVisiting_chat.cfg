CONSTANTS
    Visitors = {"a", "b"}
    MaxVisits = 2
    MaxMessages = 2
    Budgets <- Behaviours
SPECIFICATION FairSpec
CHECK_DEADLOCK FALSE
INVARIANTS
    VisitingInv

    
    
