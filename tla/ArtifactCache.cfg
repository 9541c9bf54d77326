SPECIFICATION Spec
CONSTANTS
    p1 = p1
    p2 = p2
    w1 = w1
    w2 = w2
    Processes <- MCProcesses
    Workspaces <- MCWorkspaces
    WorkspaceOf <- MCWorkspaceOf
    Payloads <- MCPayloads
    Nothing = Nothing
    MaxDamages = 2
INVARIANTS
    TypeOK
    OnlyWholeBlobs
    ReferencesHold
PROPERTIES
    BlobsAreImmutable
    RebuildsAlone
