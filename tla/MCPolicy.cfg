SPECIFICATION Spec
CONSTANTS
    Missing = Missing
    FactNames <- MCFactNames
    Values <- MCValues
    Levels <- MCLevels
INVARIANTS
    NeverAGuess
    UnknownHasAReason
PROPERTIES
    LearningIsMonotone
CHECK_DEADLOCK FALSE
