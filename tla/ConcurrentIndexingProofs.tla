----------------------- MODULE ConcurrentIndexingProofs -----------------------
(***************************************************************************)
(* Proof that two overlapping runs on a workspace nobody edits converge,   *)
(* for any sources, contents and configurations, forced or not, failing or *)
(* not.                                                                    *)
(*                                                                         *)
(* What one run knows of the tables is RunFollows of IndexPublicationProofs, *)
(* and what any step of a run may do to them is Beside.  A step of either  *)
(* run keeps RunFollows for itself and is Beside for the other.            *)
(***************************************************************************)
EXTENDS ConcurrentIndexing, TLAPS

PA == INSTANCE IndexPublicationProofs WITH run <- runA
PB == INSTANCE IndexPublicationProofs WITH run <- runB

IInv ==
    /\ PA!TypeOK /\ PB!TypeOK
    /\ PA!TablesFollow
    /\ PA!RunFollows /\ PB!RunFollows
    /\ quiet >= 1 => PA!StoreCurrent

\* The two instances of the proofs speak of the same program.
LEMMA SameA == A!RunStep <=> PA!RunStep
  BY DEF A!RunStep, PA!RunStep, A!IndexStart, PA!IndexStart, A!ForceRemove, PA!ForceRemove,
     A!ResolveManifest, PA!ResolveManifest, A!PlanSources, PA!PlanSources,
     A!RemoveDeleted, PA!RemoveDeleted, A!AnalyzeBatch, PA!AnalyzeBatch,
     A!SourceVanished, PA!SourceVanished, A!CommitBatch, PA!CommitBatch, A!DropDependent,
     PA!DropDependent, A!EmptySelectionPanic, PA!EmptySelectionPanic, A!PublishCatalog,
     PA!PublishCatalog, A!PutManifest, PA!PutManifest, A!ReplaceInputs, PA!ReplaceInputs,
     A!PutCheckpoint, PA!PutCheckpoint, A!Abort, PA!Abort, A!At, PA!At, A!Phase,
     PA!Phase, A!Idle, PA!Idle, A!Present, PA!Present, A!RemoveSnapshot,
     PA!RemoveSnapshot, A!Batchings, PA!Batchings, A!Cardinality, PA!Cardinality,
     A!Reanalyze, PA!Reanalyze, A!Removed, PA!Removed, A!Requested, PA!Requested,
     A!Analysis, PA!Analysis, A!ApiDependents, PA!ApiDependents, A!Dependents,
     PA!Dependents, A!Refers, PA!Refers, A!EdgesInto, PA!EdgesInto, A!BatchesDone,
     PA!BatchesDone, A!CheckpointOfRun, PA!CheckpointOfRun, A!workspace, PA!workspace,
     A!store, PA!store, A!history, PA!history

\* A run of process b is a run of the instance the lemmas are stated for.
LEMMA SameB == B!RunStep <=> PB!RunStep
  BY DEF B!RunStep, PB!RunStep, B!IndexStart, PB!IndexStart, B!ForceRemove, PB!ForceRemove,
     B!ResolveManifest, PB!ResolveManifest, B!PlanSources, PB!PlanSources,
     B!RemoveDeleted, PB!RemoveDeleted, B!AnalyzeBatch, PB!AnalyzeBatch,
     B!SourceVanished, PB!SourceVanished, B!CommitBatch, PB!CommitBatch, B!DropDependent,
     PB!DropDependent, B!EmptySelectionPanic, PB!EmptySelectionPanic, B!PublishCatalog,
     PB!PublishCatalog, B!PutManifest, PB!PutManifest, B!ReplaceInputs, PB!ReplaceInputs,
     B!PutCheckpoint, PB!PutCheckpoint, B!Abort, PB!Abort, B!At, PB!At, B!Phase,
     PB!Phase, B!Idle, PB!Idle, B!Present, PB!Present, B!RemoveSnapshot,
     PB!RemoveSnapshot, B!Batchings, PB!Batchings, B!Cardinality, PB!Cardinality,
     B!Reanalyze, PB!Reanalyze, B!Removed, PB!Removed, B!Requested, PB!Requested,
     B!Analysis, PB!Analysis, B!ApiDependents, PB!ApiDependents, B!Dependents,
     PB!Dependents, B!Refers, PB!Refers, B!EdgesInto, PB!EdgesInto, B!BatchesDone,
     PB!BatchesDone, B!CheckpointOfRun, PB!CheckpointOfRun, B!workspace, PB!workspace,
     B!store, PB!store, B!history, PB!history

\* The constants are those of one run.
LEMMA ConstantsOfRuns == PA!ConstantsAssumption /\ PB!ConstantsAssumption
  BY ConstantsAssumption
  DEF A!Snapshot, A!Checkpoint, A!Inventory, A!FileState,
      PA!Snapshot, PA!Checkpoint, PA!Inventory, PA!FileState,
      PB!Snapshot, PB!Checkpoint, PB!Inventory, PB!FileState

\* What both runs say of the tables is the same.
LEMMA Shared ==
    /\ PA!TablesFollow <=> PB!TablesFollow
    /\ PA!StoreCurrent <=> PB!StoreCurrent
    /\ PA!Beside <=> PB!Beside
  BY DEF PA!TablesFollow, PB!TablesFollow, PA!StoreCurrent, PB!StoreCurrent, PA!Beside, PB!Beside,
     PA!Outdated, PB!Outdated, PA!Describes, PB!Describes

\* Types of the tables are shared, too; each run has its own locals.
LEMMA TypesOfRuns ==
    /\ PA!TypeOK /\ runB \in PB!RunState => PB!TypeOK
    /\ PB!TypeOK /\ runA \in PA!RunState => PA!TypeOK
    /\ PA!TypeOK => runA \in PA!RunState
    /\ PB!TypeOK => runB \in PB!RunState
  BY DEF PA!TypeOK, PB!TypeOK, PA!Snapshot, PB!Snapshot, PA!Checkpoint, PB!Checkpoint,
     PA!Inventory, PB!Inventory, PA!FileState, PB!FileState

LEMMA InitInvariant == Init => IInv
  <1> SUFFICES ASSUME Init PROVE IInv
    OBVIOUS
  <1>1. PA!Init /\ PB!Init
    BY DEF Init, A!Init, B!Init, PA!Init, PB!Init, A!Idle, B!Idle, PA!Idle, PB!Idle,
       A!Inventory, B!Inventory, A!FileState, B!FileState, PA!Inventory, PB!Inventory,
       PA!FileState, PB!FileState
  <1>2. PA!TypeOK /\ PB!TypeOK
    BY <1>1, ConstantsOfRuns, PA!InitTyped, PB!InitTyped
  <1>3. runA.pc = "idle" /\ runB.pc = "idle"
    BY <1>1 DEF PA!Init, PB!Init, PA!Idle, PB!Idle
  <1>4. PA!RunFollows /\ PB!RunFollows
    BY <1>3 DEF PA!RunFollows, PB!RunFollows, PA!Resolved, PB!Resolved, PA!Fetching, PB!Fetching,
       PA!Planned, PB!Planned
  <1>5. PA!TablesFollow /\ quiet = 0
    BY <1>1, ConstantsOfRuns DEF PA!Init, PA!TablesFollow, PA!ConstantsAssumption
  <1> QED  BY <1>2, <1>4, <1>5 DEF IInv

\* Either run makes a step that the other does not notice; the user edits when
\* there is no run.
LEMMA NextKeeps ==
    ASSUME ~RevertAllowed, ~EditsDuringRun, IInv, [Next]_vars
    PROVE  IInv'
  <1>1. CASE StepA
    <2>1. PA!RunStep /\ UNCHANGED runB
      BY <1>1, SameA DEF StepA
    <2>2. PA!TypeOK' /\ PA!TablesFollow' /\ PA!RunFollows' /\ PA!Beside
      BY <2>1, ConstantsOfRuns, PA!RunStepFollows DEF IInv
    <2>3. PB!RunFollows'
      BY <2>1, <2>2, Shared, ConstantsOfRuns, PB!BesideKeeps DEF IInv
    <2>4. PB!TypeOK'
      <3>1. (runB \in PB!RunState)'
        BY <2>1, TypesOfRuns DEF IInv, PB!RunState, PB!Inventory, PB!FileState, PB!Phases, PB!Snapshot
      <3> QED  BY <2>2, <3>1, TypesOfRuns, PTL
    <2>5. quiet' >= 1 => PA!StoreCurrent'
      BY <2>2, ConstantsOfRuns, PA!BesideCovers DEF IInv
    <2> QED  BY <2>2, <2>3, <2>4, <2>5 DEF IInv
  <1>2. CASE StepB
    <2>1. PB!RunStep /\ UNCHANGED runA
      BY <1>2, SameB DEF StepB
    <2>2. PB!TypeOK' /\ PB!TablesFollow' /\ PB!RunFollows' /\ PB!Beside
      BY <2>1, ConstantsOfRuns, PB!RunStepFollows, Shared DEF IInv
    <2>3. PA!RunFollows'
      BY <2>1, <2>2, Shared, ConstantsOfRuns, PA!BesideKeeps DEF IInv
    <2>4. PA!TypeOK'
      <3>1. (runA \in PA!RunState)'
        BY <2>1, TypesOfRuns DEF IInv, PA!RunState, PA!Inventory, PA!FileState, PA!Phases, PA!Snapshot
      <3> QED  BY <2>2, <3>1, TypesOfRuns, PTL
    <2>5. quiet' >= 1 => PA!StoreCurrent'
      BY <2>2, Shared, ConstantsOfRuns, PA!BesideCovers DEF IInv
    <2>6. PA!TablesFollow'
      BY <2>2, Shared, PTL
    <2> QED  BY <2>2, <2>3, <2>4, <2>5, <2>6 DEF IInv
  <1>3. CASE Edit
    <2>1. PA!Edit /\ UNCHANGED runB /\ runA.pc = "idle" /\ runB.pc = "idle"
      BY <1>3 DEF Edit, BothIdle, A!At, B!At, A!Edit, PA!Edit, A!EditFile, PA!EditFile,
         A!EditConfig, PA!EditConfig, A!MayEdit, PA!MayEdit, A!At, PA!At, A!store, PA!store,
         A!FileState, PA!FileState
    <2>2. PA!TypeOK' /\ PA!TablesFollow' /\ PA!RunFollows' /\ quiet' = 0
      BY <2>1, ConstantsOfRuns, PA!EditFollows DEF IInv
    <2>3. runB'.pc = "idle"
      BY <2>1
    <2>4. PB!RunFollows'
      BY <2>3 DEF PB!RunFollows, PB!Resolved, PB!Fetching, PB!Planned
    <2>5. PB!TypeOK'
      <3>1. (runB \in PB!RunState)'
        BY <2>1, TypesOfRuns DEF IInv, PB!RunState, PB!Inventory, PB!FileState, PB!Phases, PB!Snapshot
      <3> QED  BY <2>2, <3>1, TypesOfRuns, PTL
    <2> QED  BY <2>2, <2>4, <2>5 DEF IInv
  <1>4. CASE UNCHANGED vars
    <2>1. PA!TypeOK' /\ PB!TypeOK'
      BY <1>4 DEF vars, IInv, PA!TypeOK, PB!TypeOK
    <2>2. /\ PA!TablesFollow'
          /\ quiet' >= 1 => PA!StoreCurrent'
      BY <1>4 DEF vars, IInv, PA!TablesFollow, PA!StoreCurrent, PA!Outdated, PA!Describes
    <2>3. PA!Beside /\ PB!Beside
      BY <1>4 DEF vars, PA!Beside, PB!Beside, PA!Outdated, PA!Describes, PB!Outdated, PB!Describes
    <2>4. PA!RunFollows' /\ PB!RunFollows'
      BY <1>4, <2>3, ConstantsOfRuns, PA!BesideKeeps, PB!BesideKeeps DEF vars, IInv
    <2> QED  BY <2>1, <2>2, <2>4 DEF IInv
  <1> QED  BY <1>1, <1>2, <1>3, <1>4 DEF Next

\* Every reachable state satisfies the invariant.
LEMMA Invariance ==
    ASSUME ~RevertAllowed, ~EditsDuringRun
    PROVE  Spec => []IInv
  <1>1. IInv /\ [Next]_vars => IInv'
    BY NextKeeps
  <1> QED  BY InitInvariant, <1>1, PTL DEF Spec

\* Two index invocations that overlap in any way, forced or not, any of them failing:
\* once one completed after the last failure, status answers fresh for a store
\* that holds nothing but the workspace there is.
THEOREM OverlappingRunsConvergeHolds ==
    ASSUME ~RevertAllowed, ~EditsDuringRun
    PROVE  Spec => []OverlappingRunsConverge
  <1>1. IInv => OverlappingRunsConverge
    <2> SUFFICES ASSUME IInv, quiet >= 1
                 PROVE  /\ A!Freshness = "fresh"
                        /\ \A u \in Units : snapshots[u] # None => A!Describes(u, file, manifest)
      BY DEF OverlappingRunsConverge
    <2>1. PA!StoreCurrent /\ config # None
      BY ConstantsOfRuns DEF IInv, PA!TypeOK, PA!ConstantsAssumption
    <2>2. checkpoint # None
      <3>1. checkpoint \in PA!Checkpoint
        BY <2>1 DEF IInv, PA!TypeOK, PA!Checkpoint, PA!StoreCurrent
      <3> QED  BY <3>1, ConstantsOfRuns DEF PA!ConstantsAssumption
    <2>3. A!SourceCheckpointMatches /\ A!CheckpointMatches
      BY <2>1, <2>2 DEF PA!StoreCurrent, A!SourceCheckpointMatches, A!CheckpointMatches
    <2>4. A!Freshness = "fresh"
      BY <2>1, <2>2, <2>3 DEF PA!StoreCurrent, A!Freshness, A!StaleUnits, A!UnknownUnits
    <2>5. \A u \in Units : snapshots[u] # None => A!Describes(u, file, manifest)
      BY <2>1 DEF PA!StoreCurrent, PA!Outdated, PA!Describes, A!Describes
    <2> QED  BY <2>4, <2>5
  <1> QED  BY <1>1, Invariance, PTL
=============================================================================
