SPECIFICATION DQFairSpec
CONSTANTS
    Capacity = 2
    Occurrences = 2
    LongStrings <- MCLongStrings
    HeaderSize = 4
    EntryBytes <- MCEntryBytes
    VarintBase = 8
    Artifacts = {"lib", "two"}
    Graph <- MCGraph
    Catalog <- MCCatalog
    Writers <- MCWriters
    Names = {"pkg.A", "pkg.B"}
    Supertypes = {"l0", "t0"}
    MaxFaults = 1
INVARIANT AnswersAreExact
PROPERTY EncodingEnds
