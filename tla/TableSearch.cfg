CONSTANTS
    Short = 4
    Long = 24
    Top = 5
    Inputs <- MCInputs
SPECIFICATION Spec
CHECK_DEADLOCK FALSE
INVARIANTS
    FindsTheEntry
    NotLeftBehind
    MiddleIsInside
PROPERTIES
    Ends
