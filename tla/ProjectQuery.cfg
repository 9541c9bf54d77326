SPECIFICATION Spec
CONSTANTS
    Segments <- MCSegments
    Underscored <- MCUnderscored
    SemanticVersions = {"1.0.0"}
    Numerals <- MCNumerals
    Error = Error
    NoWorker = NoWorker
    Symbols <- MCSymbols
    Locators <- MCLocators
    Projects <- MCProjects
    Advertised <- MCAdvertised
    Responses <- MCResponses
    MaxResultLimit = 3
    MaxCandidates = 3
    MaxBytes = 1
CHECK_DEADLOCK FALSE
INVARIANTS
    TypeOK
    NoResultHolds
    CompleteAnswersAreExact
    AnswersWereNegotiated
    MacrosAreSpecific
    BudgetNeedsSharedUnit
