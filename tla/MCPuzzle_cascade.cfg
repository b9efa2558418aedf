CONSTANTS
    Width = 4
    Height = 4
    Pieces = {1, 2, 3}
    None = None
    Stages <- MCStages
    Deals <- MCDeals
    Draws <- MCDraws
    Tappable <- MCTappable
    MaxDepth = 2
    MaxStale = 1
SPECIFICATION FairSpec
INVARIANTS
    PuzzleInv
    MovesPay
PROPERTIES
    SwapEnds
