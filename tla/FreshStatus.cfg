SPECIFICATION Spec
CONSTANTS
    u1 = u1
    u2 = u2
    c1 = c1
    c2 = c2
    Units <- MCUnits
    Contents <- MCContents
    Configs = {a, b}
    Refs <- MCRefs
    Api <- MCSameApi
    Ids <- MCIds
    Absent = Absent
    None = None
    ForceAllowed = FALSE
    RevertAllowed = FALSE
    EditsDuringRun = TRUE
    MaxEdits = 3
    MaxFailures = 2
INVARIANTS
    FreshMeansCovered
