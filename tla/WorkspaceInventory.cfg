SPECIFICATION Spec
CONSTANTS
    KotlinFiles = {"A.kt", "B.kt", "build.gradle.kts"}
    JavaFiles = {}
    Lockfiles = {"deps.lockfile"}
    OneLetterNames = {"a"}
    Paths <- MCAllPaths
    Contents <- MCContents
    SizeOf <- MCSizeOf
    Invocations <- MCInvocations
    InitialTrees <- MCInitialTrees
    WorkerSystems = {"gradle", "maven", "filesystem"}
    Defaults = "defaults"
    None = None
    MaxEdits = 2
    MaxRuns = 2
INVARIANTS
    TypeOK
    CachedRowsAreTrue
    PlanIsExact
    QuietStatusIsFresh
CHECK_DEADLOCK FALSE
