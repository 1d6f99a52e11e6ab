SPECIFICATION Spec
CONSTANTS
    Missing = Missing
    None = None
    Me = Me
    Other = Other
    FactNames <- MCFactNames
    FactBags <- MCFactBags
    Answers <- MCAnswers
    Schema <- MCSchema
    Citations <- MCCitations
    Views <- MCViews
    Levels <- SalonLevels
    Rules <- SalonRules
    RuleTruth <- EvaluateRule
    AtLeast <- AtLeastHours
INVARIANTS
    UnmetLeadTimeBlocks
