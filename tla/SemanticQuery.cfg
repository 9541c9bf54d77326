SPECIFICATION Spec
CONSTANTS
    u1 = u1
    u2 = u2
    long = long
    brief = brief
    A = A
    B = B
    C = C
    D = D
    Units <- MCUnits
    Contents <- MCContents
    Symbols <- MCSymbols
    Declares <- MCDeclares
    Mentions <- MCMentions
    Subtypes <- MCSubtypes
    External = {D}
    Fits <- MCFits
    Inputs = {i}
    Settings = {s1}
    Absent = Absent
    None = None
    Strategy = "fresh_only"
    MaxEdits = 1
    MaxCommits = 1
INVARIANTS
    TypeOK
    AnswersWereCurrent
    QuietAnswersAreExact
    SearchReportsRealText
    PanicNeedsRace
PROPERTIES
    QueryEnds
CHECK_DEADLOCK FALSE
