SPECIFICATION Spec
CONSTANTS
    Missing = Missing
    None = None
    Me = Me
    SomeoneElse = SomeoneElse
    GOOD_SLOT = "s_good"
    TAKEN_SLOT = "s_taken"
    PerSecond = 10
    MaxInto = 900000
    Cases <- MCCases
    Registries <- MCRegistries
    FactNames <- MCFactNames
    FactBags <- MCHarnessBags
    Levels <- SalonLevels
    Rules <- SalonRules
    RuleTruth <- EvaluateRule
    AtLeast <- AtLeastHours
INVARIANTS
    FailedBookingReleases
