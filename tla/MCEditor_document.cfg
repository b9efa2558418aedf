CONSTANTS
    Height = 3
    MinWidth = 1
    MaxWidth = 2
    DefaultWidth = 2
    ResizeStep = 1
    UndoCap = 2
    MaxActors = 1
    Palette = {"ground"}
    SolidTiles = {"ground"}
    ActorTypes = {"boss", "crab"}
    UniqueTypes = {"boss"}
    Backgrounds = {"beach", "forest"}
    MaxOps = 4
SPECIFICATION Spec
CHECK_DEADLOCK FALSE
INVARIANTS
    EditorInv
    
PROPERTIES
    Timeline
