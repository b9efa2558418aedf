CONSTANTS
    Slots = {1, 2}
    Levels = {"blank", "a", "b", "bad"}
    Valid = {"blank", "a", "b"}
    Blank = "blank"
    Patient = TRUE
    LostAnswers = FALSE
    MaxInFlight = 1
SPECIFICATION StagesSpec
INVARIANTS
    StagesInv
    
PROPERTIES
    EditsSurvive
