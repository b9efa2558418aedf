CONSTANTS
    u1 = u1
    u2 = u2
    k1 = k1
    Treasury = Treasury
    Escrow = Escrow
    NoKey = NoKey
    NoProc = NoProc
    Users <- MCUsers
    Keys <- MCKeys
    Amounts = {1, 2}
    GenesisAmount = 2
    MinWithdrawal = 1
    SupplyCap = 2
    Rank <- MCRank
    Requests <- MCRequests
    Procs = {p1, p2}
    MaxRequests = 4
SPECIFICATION FairSpec
CHECK_DEADLOCK FALSE
INVARIANTS
    IInv
    AuditPasses
    DoubleEntry
    AnswersTruthful
    NoWaitCycle
PROPERTIES
    ImplementsLedger
    EveryRequestEnds
