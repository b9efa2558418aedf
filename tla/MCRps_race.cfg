CONSTANTS
    Rounds = {r1}
    Procs = {p1,p2}
    Hands = {"rock", "paper"}
    Wager = 1
    Funds <- Poor
    NoRound = NoRound
    MaxLost = 3
    MaxCrashes = 1
SPECIFICATION FairSpec
CHECK_DEADLOCK FALSE
INVARIANTS
    TypeOK
    RevealedIsPaid
PROPERTIES
    ActiveIsReleased
