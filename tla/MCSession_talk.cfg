CONSTANTS
    Workers = {w1, w2}
    Handlers = {h1, h2}
    Sweeper = Sweeper
    FirstTurns = 2
    Window = 3
    MaxTotalTurns = 4
    CheckTurns = {3}
    AutoApprove = {"a"}
    Budgets <- Behaviours
SPECIFICATION FairSpec
CHECK_DEADLOCK FALSE
INVARIANTS
    SessionInv
PROPERTIES
    ReviewNeedsBoth
    FreshReview
    OwnerPauseEnds
    ActiveAdvances
