CONSTANTS
    Withdrawals = {w1, w2}
    Workers = {m1, m2}
    NoW = NoW
    MaxAttempts = 2
    MaxRedeliveries = 3
    MaxCrashes = 1
    Prompt = FALSE
SPECIFICATION MintSpec
CHECK_DEADLOCK FALSE
SYMMETRY MintSymmetry
INVARIANTS
    MintInv
    OnlyLostSignaturesDoubleMint
PROPERTIES
    TerminalIsFinal
