CONSTANTS
    Order <- MCOrder
    Kind <- MCKind
    Stage <- MCStage
    Checkpoints = {1}
    MaxHp = 3
    StartLives = 1
    ShellsPerLife = 2
    MirrorEvery = 2
    MaxTouched = 2
    MaxRuns = 2
SPECIFICATION FairSpec
INVARIANTS
    PlatformerInv
PROPERTIES
    FrameSettles
    
