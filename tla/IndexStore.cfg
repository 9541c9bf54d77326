SPECIFICATION IndexSpec
CONSTANTS
    p1 = p1
    p2 = p2
    a = a
    b = b
    Openers <- MCOpeners
    InitialVersions <- MCInitialVersions
    MaxKills = 1
    Units <- MCUnits
    Snapshots <- MCSnapshots
    UnitOf <- MCUnitOf
    InputsOf <- MCInputsOf
    FactsOf <- MCFactsOf
    Expected <- MCExpected
    MaxOffset = 3
    Batches <- MCBatches
    None = None
SYMMETRY MCSymmetry
INVARIANTS
    IndexTypeOK
    RecordedMeansApplied
    OpenedIsMigrated
    FailuresHaveCause
    ProvenanceFollows
    ArgumentsHaveApplications
PROPERTIES
    ImplementsFactStore
    RollBacksHaveCause
