------------------------ MODULE IndexPublicationProofs ------------------------
(***************************************************************************)
(* Proofs about IndexPublication for any set of sources, contents and      *)
(* configurations, any reference graph and any interleaving of edits,      *)
(* failures and forced runs.                                               *)
(*                                                                         *)
(* No property is inductive.  PublishedInventory speaks of one program     *)
(* point; RunInvariant below says what the run has already established at  *)
(* each earlier one.  TypeOK includes that a checkpoint names a catalog,   *)
(* which depends on the order of the writes: CatalogFirst.  That quiet     *)
(* runs converge needs what such a run can still find missing, QuietRun.   *)
(* What a fresh status vouches for needs the order in which the four       *)
(* tables follow the configuration on disk, ManifestFollows, and that no   *)
(* edit makes a stored state current again, NothingReturns.                *)
(***************************************************************************)
EXTENDS IndexPublication, TLAPS

Planned == {"remove", "analyze", "commit", "drop", "manifest", "inputs", "checkpoint"}

\* The catalog is written before the manifest that belongs to it.
CatalogFirst ==
    /\ manifest # None => catalog # None
    /\ run.pc \in Planned \ {"manifest", "inputs", "checkpoint"} =>
          run.lane \/ manifest # None
    /\ run.pc \in {"manifest", "inputs", "checkpoint"} => catalog # None

\* Sources whose rows the run has still to replace.
Pending(u) ==
    \/ run.response[u] # None
    \/ u \in run.reanalyze /\ \E batch \in run.batches : u \in batch

Settled(u) == u \in run.dropped \/ Describes(u, run.sources, run.manifest)

\* What the run has planned is what its inventory asks for.
PlanOfRun ==
    /\ run.manifest # None
    /\ run.inputs # None
    /\ run.reanalyze \subseteq Present(run.sources)
    /\ run.pc # "commit" => \A u \in Units : run.response[u] = None
    /\ \A u \in Units : run.response[u] # None =>
          /\ run.sources[u] # Absent
          /\ run.response[u].content = run.sources[u]
          /\ run.response[u].context = run.manifest

\* Every source of the inventory is published, dropped or still to come, and
\* every row outside it is gone or about to be removed.
Progress ==
    \A u \in Units :
        /\ run.sources[u] = Absent =>
              snapshots[u] = None \/ (At("remove") /\ u \in run.todo)
        /\ run.sources[u] # Absent => Pending(u) \/ Settled(u)
        /\ At("remove") /\ u \in run.todo => run.sources[u] = Absent

Written ==
    /\ run.pc \in {"manifest", "inputs", "checkpoint"} => \A u \in Units : ~Pending(u)
    /\ run.pc \in {"inputs", "checkpoint"} => manifest = run.manifest
    /\ run.pc = "checkpoint" => inputs = run.inputs

\* The inputs and the manifest are known as soon as the phases that read them
\* are over.
Prepared ==
    /\ run.pc # "idle" => run.inputs # None
    /\ run.pc = "plan" => run.manifest # None
    /\ run.pc \in {"force", "resolve", "plan"} => \A u \in Units : run.response[u] = None

RunInvariant ==
    /\ Prepared
    /\ run.pc \in Planned => PlanOfRun /\ Progress
    /\ Written

IInv == TypeOK /\ CatalogFirst /\ RunInvariant

-----------------------------------------------------------------------------
(* Type correctness. *)

\* The idle command, the state every run starts from and returns to, has its
\* type.
LEMMA IdleTyped == Idle \in RunState
  BY DEF Idle, RunState, Phases, Inventory, FileState

\* A row a worker returned is a row of the store, provided the request was for
\* sources of the inventory.
LEMMA AnalysisTyped ==
    ASSUME TypeOK, NEW u \in Units, run.sources[u] # Absent, run.manifest # None
    PROVE  Analysis(u) \in Snapshot
  <1>1. run.sources[u] \in Contents /\ run.manifest \in Configs
    BY DEF TypeOK, RunState, Inventory, FileState
  <1>2. [v \in Units |-> IF v \in Refs[u] \cup {u} THEN file[v] ELSE Absent] \in Inventory
    BY DEF TypeOK, Inventory, FileState
  <1> QED  BY <1>1, <1>2 DEF Analysis, Snapshot

\* The initial store is empty and the command idle.
LEMMA InitTyped == Init => TypeOK
  BY IdleTyped DEF Init, TypeOK

\* What a plan is: a partition of the inventory into batches, the sources to
\* analyse again, the rows to remove, and whether a catalog will be discovered.
LEMMA PlanShape ==
    ASSUME PlanSources
    PROVE  \E pc \in Phases, single \in BOOLEAN, batches \in SUBSET SUBSET Units,
              lane \in BOOLEAN :
              /\ UNION batches = Present(run.sources)
              /\ \A A, B \in batches : A # B => A \cap B = {}
              /\ lane \/ manifest = run.manifest
              /\ pc = Phase("remove", Removed(run.sources), "analyze")
              /\ run' = [run EXCEPT !.pc = pc, !.single = single, !.batches = batches,
                                    !.reanalyze = Reanalyze(run.sources, run.manifest),
                                    !.lane = lane, !.todo = Removed(run.sources)]
  <1>1. PICK batches \in Batchings(Present(run.sources)) :
           run' = [run EXCEPT !.pc = Phase("remove", Removed(run.sources), "analyze"),
                              !.single = (Cardinality(batches) = 1),
                              !.batches = batches,
                              !.reanalyze = Reanalyze(run.sources, run.manifest),
                              !.lane = \/ manifest # run.manifest
                                       \/ /\ ~(Cardinality(batches) = 1)
                                          /\ Reanalyze(run.sources, run.manifest) # {},
                              !.todo = Removed(run.sources)]
    BY DEF PlanSources
  <1> DEFINE single == Cardinality(batches) = 1
             lane == \/ manifest # run.manifest
                     \/ ~single /\ Reanalyze(run.sources, run.manifest) # {}
  <1>2. /\ batches \in SUBSET SUBSET Units /\ UNION batches = Present(run.sources)
        /\ \A A, B \in batches : A # B => A \cap B = {}
    BY DEF Batchings, Present
  <1>3. Phase("remove", Removed(run.sources), "analyze") \in Phases
    BY DEF Phase, Phases
  <1>4. single \in BOOLEAN /\ lane \in BOOLEAN /\ (lane \/ manifest = run.manifest)
    OBVIOUS
  <1>5. run' = [run EXCEPT !.pc = Phase("remove", Removed(run.sources), "analyze"),
                           !.single = single, !.batches = batches,
                           !.reanalyze = Reanalyze(run.sources, run.manifest),
                           !.lane = lane, !.todo = Removed(run.sources)]
    BY <1>1
  <1> HIDE DEF single, lane
  <1> QED  BY <1>2, <1>3, <1>4, <1>5

\* No step leaves its type: what a worker answers, what a checkpoint names and
\* what every table receives.
LEMMA TypeKept ==
    ASSUME TypeOK, [Next]_vars,
           run.pc = "analyze" => run.manifest # None /\ run.reanalyze \subseteq Present(run.sources),
           run.pc = "checkpoint" => run.manifest # None /\ run.inputs # None /\ catalog # None
    PROVE  TypeOK'
  <1> USE ConstantsAssumption
  <1>t. TypeOK
    OBVIOUS
  <1>1. ASSUME NEW force \in BOOLEAN, IndexStart(force) PROVE TypeOK'
    <2> DEFINE todo == IF force THEN Present(file) ELSE {}
    <2>1. todo \in SUBSET Units
      BY DEF Present
    <2>2. Phase("force", todo, "resolve") \in Phases
      BY DEF Phase, Phases
    <2>3. run' = [Idle EXCEPT !.pc = Phase("force", todo, "resolve"), !.force = force,
                              !.sources = file, !.inputs = config,
                              !.current = (inputs = config), !.todo = todo, !.epoch = edits]
      BY <1>1 DEF IndexStart
    <2> HIDE DEF todo
    <2>4. run' \in RunState
      <3>1. /\ file \in Inventory
            /\ config \in Configs
            /\ (inputs = config) \in BOOLEAN
            /\ edits \in Nat
        BY <1>t DEF TypeOK
      <3> QED  BY <3>1, <2>1, <2>2, <2>3, IdleTyped DEF RunState
    <2> QED  BY <1>t, <1>1, <2>4 DEF TypeOK, IndexStart, store, history, workspace
  <1>2. ASSUME NEW u \in Units, ForceRemove(u) PROVE TypeOK'
    BY <1>t, <1>2 DEF TypeOK, ForceRemove, RemoveSnapshot, RunState, Phases, Phase,
       history, workspace
  <1>3. CASE ResolveManifest
    BY <1>t, <1>3 DEF TypeOK, ResolveManifest, RunState, Phases, store, history, workspace
  <1>4. CASE PlanSources
    <2>1. PICK pc \in Phases, single \in BOOLEAN, batches \in SUBSET SUBSET Units,
               lane \in BOOLEAN :
             run' = [run EXCEPT !.pc = pc, !.single = single, !.batches = batches,
                                !.reanalyze = Reanalyze(run.sources, run.manifest),
                                !.lane = lane, !.todo = Removed(run.sources)]
      BY <1>4, PlanShape
    <2>2. /\ Reanalyze(run.sources, run.manifest) \in SUBSET Units
          /\ Removed(run.sources) \in SUBSET Units
      BY DEF Reanalyze, Removed, Present
    <2>3. run' \in RunState
      <3>1. run \in RunState
        BY <1>t DEF TypeOK
      <3> QED  BY <2>1, <2>2, <3>1 DEF RunState
    <2> QED  BY <1>t, <1>4, <2>3 DEF TypeOK, PlanSources, store, history, workspace
  <1>5. ASSUME NEW u \in Units, RemoveDeleted(u) PROVE TypeOK'
    BY <1>t, <1>5 DEF TypeOK, RemoveDeleted, RemoveSnapshot, RunState, Phases, Phase,
       history, workspace
  <1>6. ASSUME NEW batch \in SUBSET Units, AnalyzeBatch(batch) PROVE TypeOK'
    <2>1. \A u \in Requested(batch) : u \in Units /\ run.sources[u] # Absent /\ run.manifest # None
      BY <1>6 DEF AnalyzeBatch, Requested, Present, At
    <2>2. [u \in Units |-> IF u \in Requested(batch) THEN Analysis(u) ELSE None]
             \in [Units -> Snapshot \cup {None}]
      BY <1>t, <2>1, AnalysisTyped
    <2>3. run' \in RunState
      BY <1>t, <1>6, <2>2 DEF TypeOK, AnalyzeBatch, RunState, Phases
    <2> QED  BY <1>t, <1>6, <2>3 DEF TypeOK, AnalyzeBatch, store, history, workspace
  <1>7. ASSUME NEW batch \in SUBSET Units, SourceVanished(batch) PROVE TypeOK'
    BY <1>t, <1>7, IdleTyped DEF TypeOK, SourceVanished, store, workspace
  <1>8. CASE CommitBatch
    <2>1. PICK drop \in SUBSET Units :
             run' = [run EXCEPT !.pc = Phase("drop", drop, "analyze"),
                                !.response = [u \in Units |-> None],
                                !.todo = drop]
      BY <1>8 DEF CommitBatch, ApiDependents, Dependents
    <2>2. run' \in RunState
      BY <1>t, <2>1 DEF TypeOK, RunState, Phases, Phase
    <2>3. snapshots' \in [Units -> Snapshot \cup {None}]
      BY <1>t, <1>8 DEF TypeOK, RunState, CommitBatch
    <2> QED  BY <1>t, <1>8, <2>2, <2>3 DEF TypeOK, CommitBatch, history, workspace
  <1>9. ASSUME NEW u \in Units, DropDependent(u) PROVE TypeOK'
    BY <1>t, <1>9 DEF TypeOK, DropDependent, RemoveSnapshot, RunState, Phases, Phase,
       history, workspace
  <1>10. CASE EmptySelectionPanic
    BY <1>t, <1>10, IdleTyped DEF TypeOK, EmptySelectionPanic, store, workspace
  <1>11. CASE PublishCatalog
    BY <1>t, <1>11 DEF TypeOK, PublishCatalog, RunState, Phases, history, workspace
  <1>12. CASE PutManifest
    BY <1>t, <1>12 DEF TypeOK, PutManifest, RunState, Phases, history, workspace
  <1>13. CASE ReplaceInputs
    BY <1>t, <1>13 DEF TypeOK, ReplaceInputs, RunState, Phases, history, workspace
  <1>14. CASE PutCheckpoint
    <2>1. run.manifest \in Configs /\ run.inputs \in Configs /\ catalog \in Configs
      BY <1>t, <1>14 DEF TypeOK, RunState, PutCheckpoint, At
    <2>2. CheckpointOfRun \in Checkpoint
      BY <1>t, <2>1 DEF TypeOK, RunState, CheckpointOfRun, Checkpoint
    <2> QED  BY <1>t, <1>14, <2>2, IdleTyped DEF TypeOK, PutCheckpoint, workspace
  <1>15. CASE Abort
    BY <1>t, <1>15, IdleTyped DEF TypeOK, Abort, store, workspace
  <1>16. CASE Edit
    <2>1. ASSUME NEW u \in Units, NEW state \in FileState, EditFile(u, state) PROVE TypeOK'
      BY <1>t, <2>1 DEF TypeOK, EditFile, Inventory, store
    <2>2. ASSUME NEW c \in Configs, EditConfig(c) PROVE TypeOK'
      BY <1>t, <2>2 DEF TypeOK, EditConfig, store
    <2> QED  BY <1>16, <2>1, <2>2 DEF Edit
  <1>17. CASE UNCHANGED vars
    BY <1>t, <1>17 DEF TypeOK, vars, workspace, store, history
  <1> QED
    BY <1>1, <1>2, <1>3, <1>4, <1>5, <1>6, <1>7, <1>8, <1>9, <1>10, <1>11, <1>12, <1>13,
       <1>14, <1>15, <1>16, <1>17 DEF Next, RunStep

LEMMA TypeStep == IInv /\ [Next]_vars => TypeOK'
  BY TypeKept DEF IInv, RunInvariant, PlanOfRun, Planned, CatalogFirst

-----------------------------------------------------------------------------
(* The order of the writes. *)

\* No step publishes a manifest without the catalog discovered for it: either
\* the lane ran before put_manifest, or the manifest was already the stored one.
LEMMA CatalogStep == IInv /\ [Next]_vars => CatalogFirst'
  <1> SUFFICES ASSUME IInv, [Next]_vars PROVE CatalogFirst'
    OBVIOUS
  <1>i. CatalogFirst
    BY DEF IInv
  <1>t. run \in RunState
    BY DEF IInv, TypeOK
  <1>m. run.pc \in Planned => run.manifest # None
    BY DEF IInv, RunInvariant, PlanOfRun
  <1>1. ASSUME run' = Idle, UNCHANGED <<manifest, catalog>> PROVE CatalogFirst'
    BY <1>i, <1>1 DEF CatalogFirst, Idle, Planned
  <1>2. ASSUME NEW force \in BOOLEAN, IndexStart(force) PROVE CatalogFirst'
    BY <1>i, <1>2 DEF CatalogFirst, IndexStart, Idle, Phase, Planned, store
  <1>3. ASSUME NEW u \in Units, ForceRemove(u) PROVE CatalogFirst'
    BY <1>i, <1>t, <1>3 DEF CatalogFirst, ForceRemove, RunState, Phase, Planned
  <1>4. CASE ResolveManifest
    BY <1>i, <1>t, <1>4 DEF CatalogFirst, ResolveManifest, RunState, Planned, store
  <1>5. CASE PlanSources
    <2>1. PICK pc \in Phases, single \in BOOLEAN, batches \in SUBSET SUBSET Units,
               lane \in BOOLEAN :
             /\ lane \/ manifest = run.manifest
             /\ pc = Phase("remove", Removed(run.sources), "analyze")
             /\ run' = [run EXCEPT !.pc = pc, !.single = single, !.batches = batches,
                                   !.reanalyze = Reanalyze(run.sources, run.manifest),
                                   !.lane = lane, !.todo = Removed(run.sources)]
      BY <1>5, PlanShape
    <2>2. run.manifest # None
      BY <1>5 DEF IInv, RunInvariant, Prepared, PlanSources, At
    <2>3. run'.lane = lane /\ run'.pc \in {"remove", "analyze"}
      BY <1>t, <2>1 DEF RunState, Phase
    <2> QED  BY <1>i, <1>5, <2>1, <2>2, <2>3 DEF CatalogFirst, PlanSources, store, Planned
  <1>6. ASSUME NEW u \in Units, RemoveDeleted(u) PROVE CatalogFirst'
    BY <1>i, <1>t, <1>6 DEF CatalogFirst, RemoveDeleted, RunState, Phase, Planned, At
  <1>7. ASSUME NEW batch \in SUBSET Units, AnalyzeBatch(batch) PROVE CatalogFirst'
    BY <1>i, <1>t, <1>7 DEF CatalogFirst, AnalyzeBatch, RunState, Planned, At, store
  <1>8. CASE CommitBatch
    BY <1>i, <1>t, <1>8 DEF CatalogFirst, CommitBatch, RunState, Phase, Planned, At
  <1>9. ASSUME NEW u \in Units, DropDependent(u) PROVE CatalogFirst'
    BY <1>i, <1>t, <1>9 DEF CatalogFirst, DropDependent, RunState, Phase, Planned, At
  <1>10. CASE PublishCatalog
    BY <1>i, <1>t, <1>m, <1>10 DEF CatalogFirst, PublishCatalog, RunState, Planned, At
  <1>11. CASE PutManifest
    BY <1>i, <1>t, <1>m, <1>11 DEF CatalogFirst, PutManifest, RunState, Planned, At
  <1>12. CASE ReplaceInputs
    BY <1>i, <1>t, <1>12 DEF CatalogFirst, ReplaceInputs, RunState, Planned, At
  <1>13. CASE Edit
    BY <1>i, <1>13 DEF CatalogFirst, Edit, EditFile, EditConfig, store
  <1>14. CASE UNCHANGED vars
    BY <1>i, <1>14 DEF CatalogFirst, vars, store
  <1>15. ASSUME NEW batch \in SUBSET Units, SourceVanished(batch) PROVE CatalogFirst'
    BY <1>1, <1>15 DEF SourceVanished, store
  <1>16. CASE EmptySelectionPanic \/ PutCheckpoint \/ Abort
    BY <1>1, <1>16 DEF EmptySelectionPanic, PutCheckpoint, Abort, store
  <1> QED
    BY <1>2, <1>3, <1>4, <1>5, <1>6, <1>7, <1>8, <1>9, <1>10, <1>11, <1>12, <1>13, <1>14,
       <1>15, <1>16 DEF Next, RunStep

-----------------------------------------------------------------------------
(* The published inventory. *)

\* An idle command, or one that has not planned yet, has promised nothing.
LEMMA IdlePromisesNothing == run = Idle => RunInvariant
  BY DEF RunInvariant, Prepared, Written, Idle, Planned

\* What the run has established depends on its locals and on three tables only.
LEMMA RunInvariantFrame ==
    RunInvariant /\ UNCHANGED <<run, snapshots, manifest, inputs>> => RunInvariant'
  BY DEF RunInvariant, Prepared, PlanOfRun, Progress, Written, Pending, Settled,
         Describes, At

\* Each step of the run keeps what the earlier ones established, and at the
\* step that ends a phase nothing is left pending in it.
LEMMA RunInvariantStep == IInv /\ [Next]_vars => RunInvariant'
  <1> SUFFICES ASSUME IInv, [Next]_vars PROVE RunInvariant'
    OBVIOUS
  <1> USE ConstantsAssumption
  <1>i. RunInvariant
    BY DEF IInv
  <1>t. /\ run \in RunState
        /\ snapshots \in [Units -> Snapshot \cup {None}]
        /\ file \in Inventory /\ config \in Configs
    BY DEF IInv, TypeOK
  <1>1. ASSUME run' = Idle PROVE RunInvariant'
    BY <1>1 DEF RunInvariant, Prepared, Written, Idle, Planned
  <1>2. ASSUME NEW force \in BOOLEAN, IndexStart(force) PROVE RunInvariant'
    BY <1>t, <1>2 DEF IndexStart, Idle, Phase, Present, RunInvariant, Prepared, Written, Planned
  <1>3. ASSUME NEW u \in Units, ForceRemove(u) PROVE RunInvariant'
    BY <1>i, <1>t, <1>3 DEF ForceRemove, RunState, Phase, RunInvariant, Prepared, Written,
       Planned, At
  <1>4. CASE ResolveManifest
    BY <1>i, <1>t, <1>4 DEF ResolveManifest, RunState, RunInvariant, Prepared, Written,
       Planned, At
  <1>5. CASE PlanSources
    <2>1. PICK pc \in Phases, single \in BOOLEAN, batches \in SUBSET SUBSET Units,
               lane \in BOOLEAN :
             /\ UNION batches = Present(run.sources)
             /\ pc = Phase("remove", Removed(run.sources), "analyze")
             /\ run' = [run EXCEPT !.pc = pc, !.single = single, !.batches = batches,
                                   !.reanalyze = Reanalyze(run.sources, run.manifest),
                                   !.lane = lane, !.todo = Removed(run.sources)]
      BY <1>5, PlanShape
    <2>2. /\ run'.pc = Phase("remove", Removed(run.sources), "analyze")
          /\ run'.batches = batches
          /\ run'.reanalyze = Reanalyze(run.sources, run.manifest)
          /\ run'.todo = Removed(run.sources)
          /\ run'.sources = run.sources /\ run'.manifest = run.manifest
          /\ run'.inputs = run.inputs /\ run'.response = run.response
          /\ run'.dropped = run.dropped
      BY <1>t, <2>1 DEF RunState
    <2>3. run'.pc \in {"remove", "analyze"} /\ (run'.pc = "analyze" => Removed(run.sources) = {})
      BY <2>2 DEF Phase
    <2>4. /\ run.manifest # None /\ run.inputs # None
          /\ \A u \in Units : run.response[u] = None
          /\ UNCHANGED snapshots
      BY <1>i, <1>5 DEF RunInvariant, Prepared, PlanSources, At, store
    <2>5. PlanOfRun'
      BY <2>2, <2>3, <2>4 DEF PlanOfRun, Reanalyze, Present
    <2>6. ASSUME NEW u \in Units PROVE
            /\ run'.sources[u] = Absent =>
                  snapshots'[u] = None \/ (At("remove")' /\ u \in run'.todo)
            /\ run'.sources[u] # Absent => Pending(u)' \/ Settled(u)'
            /\ u \in run'.todo => run'.sources[u] = Absent
      <3>1. CASE run.sources[u] = Absent
        BY <2>2, <2>3, <2>4, <3>1 DEF Removed, At
      <3>2. CASE run.sources[u] # Absent /\ u \in Reanalyze(run.sources, run.manifest)
        BY <2>1, <2>2, <3>2 DEF Pending, Present, Removed
      <3>3. CASE run.sources[u] # Absent /\ u \notin Reanalyze(run.sources, run.manifest)
        BY <2>2, <2>4, <3>3 DEF Settled, Describes, Reanalyze, Present, Removed
      <3> QED  BY <3>1, <3>2, <3>3
    <2> QED  BY <2>2, <2>3, <2>4, <2>5, <2>6 DEF RunInvariant, Prepared, Progress, Written
  <1>6. ASSUME NEW u \in Units, RemoveDeleted(u) PROVE RunInvariant'
    <2>1. /\ run.pc = "remove" /\ u \in run.todo /\ PlanOfRun /\ Progress
          /\ snapshots' = [snapshots EXCEPT ![u] = None]
          /\ run' = [run EXCEPT !.todo = @ \ {u},
                                !.pc = Phase("remove", run.todo \ {u}, "analyze")]
      BY <1>i, <1>6 DEF RemoveDeleted, RemoveSnapshot, At, RunInvariant, Planned
    <2>2. run'.pc \in {"remove", "analyze"} /\ (run'.pc = "analyze" => run.todo \ {u} = {})
      BY <1>t, <2>1 DEF RunState, Phase
    <2>3. PlanOfRun'
      BY <1>t, <2>1, <2>2 DEF RunState, PlanOfRun
    <2>4. Progress'
      BY <1>t, <2>1, <2>2 DEF RunState, Progress, Pending, Settled, Describes, At
    <2> QED  BY <2>2, <2>3, <2>4 DEF RunInvariant, Prepared, Written, PlanOfRun
  <1>7. ASSUME NEW batch \in SUBSET Units, AnalyzeBatch(batch) PROVE RunInvariant'
    <2>1. /\ run.pc = "analyze" /\ PlanOfRun /\ Progress /\ UNCHANGED snapshots
          /\ run' = [run EXCEPT !.pc = "commit",
                                !.batches = @ \ {batch},
                                !.response = [u \in Units |->
                                    IF u \in Requested(batch) THEN Analysis(u) ELSE None]]
      BY <1>i, <1>7 DEF AnalyzeBatch, At, RunInvariant, Planned, store
    <2>2. ASSUME NEW u \in Requested(batch) PROVE
            /\ Analysis(u) # None /\ run.sources[u] # Absent
            /\ Analysis(u).content = run.sources[u] /\ Analysis(u).context = run.manifest
      <3>1. u \in Units /\ run.sources[u] # Absent /\ run.manifest # None
        BY <2>1 DEF PlanOfRun, Requested, Present
      <3>2. Analysis(u) \in Snapshot
        BY <3>1, AnalysisTyped DEF IInv
      <3> QED  BY <3>1, <3>2 DEF Analysis
    <2>3. /\ run'.pc = "commit" /\ run'.batches = run.batches \ {batch}
          /\ \A u \in Units : run'.response[u] =
                IF u \in Requested(batch) THEN Analysis(u) ELSE None
          /\ run'.sources = run.sources /\ run'.manifest = run.manifest
          /\ run'.inputs = run.inputs /\ run'.reanalyze = run.reanalyze
          /\ run'.dropped = run.dropped
      BY <1>t, <2>1 DEF RunState
    <2>4. PlanOfRun'
      BY <2>1, <2>2, <2>3 DEF PlanOfRun
    <2>5. ASSUME NEW u \in Units, Pending(u) PROVE Pending(u)'
      BY <2>1, <2>2, <2>3, <2>5 DEF Pending, PlanOfRun, Requested
    <2>6. Progress'
      BY <2>1, <2>3, <2>5 DEF Progress, Settled, Describes, At
    <2> QED  BY <2>3, <2>4, <2>6 DEF RunInvariant, Prepared, Written, PlanOfRun
  <1>8. CASE CommitBatch
    <2>1. PICK drop \in SUBSET Units :
             run' = [run EXCEPT !.pc = Phase("drop", drop, "analyze"),
                                !.response = [u \in Units |-> None],
                                !.todo = drop]
      BY <1>8 DEF CommitBatch, ApiDependents, Dependents
    <2>2. /\ run.pc = "commit" /\ PlanOfRun /\ Progress
          /\ \A u \in Units : snapshots'[u] = IF run.response[u] # None THEN run.response[u]
                                                                        ELSE snapshots[u]
      BY <1>i, <1>8 DEF CommitBatch, At, RunInvariant, Planned
    <2>3. /\ run'.pc \in {"drop", "analyze"}
          /\ \A u \in Units : run'.response[u] = None
          /\ run'.sources = run.sources /\ run'.manifest = run.manifest
          /\ run'.inputs = run.inputs /\ run'.reanalyze = run.reanalyze
          /\ run'.batches = run.batches /\ run'.dropped = run.dropped
      BY <1>t, <2>1 DEF RunState, Phase
    <2>4. PlanOfRun'
      BY <2>2, <2>3 DEF PlanOfRun
    <2>5. ASSUME NEW u \in Units PROVE
            /\ run'.sources[u] = Absent => snapshots'[u] = None
            /\ run'.sources[u] # Absent => Pending(u)' \/ Settled(u)'
      <3>1. CASE run.response[u] # None
        BY <2>2, <2>3, <3>1 DEF PlanOfRun, Settled, Describes
      <3>2. CASE run.response[u] = None
        BY <2>2, <2>3, <3>2 DEF Progress, Pending, Settled, Describes, At
      <3> QED  BY <3>1, <3>2
    <2>6. Progress'
      BY <2>3, <2>5 DEF Progress, At
    <2> QED  BY <2>3, <2>4, <2>6 DEF RunInvariant, Prepared, Written, PlanOfRun
  <1>9. ASSUME NEW u \in Units, DropDependent(u) PROVE RunInvariant'
    <2>1. /\ run.pc = "drop" /\ PlanOfRun /\ Progress
          /\ snapshots' = [snapshots EXCEPT ![u] = None]
          /\ run' = [run EXCEPT !.todo = @ \ {u},
                                !.dropped = @ \cup {u},
                                !.pc = Phase("drop", run.todo \ {u}, "analyze")]
      BY <1>i, <1>9 DEF DropDependent, RemoveSnapshot, At, RunInvariant, Planned
    <2>2. run'.pc \in {"drop", "analyze"}
      BY <1>t, <2>1 DEF RunState, Phase
    <2>3. PlanOfRun'
      BY <1>t, <2>1, <2>2 DEF RunState, PlanOfRun
    <2>4. Progress'
      BY <1>t, <2>1, <2>2 DEF RunState, Progress, Pending, Settled, Describes, At
    <2> QED  BY <2>2, <2>3, <2>4 DEF RunInvariant, Prepared, Written, PlanOfRun
  <1>10. CASE PublishCatalog
    <2>1. PlanOfRun /\ Progress /\ (\A u \in Units : ~Pending(u)) /\ UNCHANGED snapshots
      BY <1>i, <1>10 DEF PublishCatalog, RunInvariant, Planned, At, BatchesDone, Requested,
         Pending, PlanOfRun
    <2>2. run' = [run EXCEPT !.pc = "manifest"] /\ run.pc = "analyze"
      BY <1>10 DEF PublishCatalog, At
    <2>3. PlanOfRun' /\ Progress' /\ (\A u \in Units : ~Pending(u)')
      BY <1>t, <2>1, <2>2 DEF RunState, PlanOfRun, Progress, Pending, Settled, Describes, At
    <2> QED  BY <1>t, <2>2, <2>3 DEF RunState, RunInvariant, Prepared, Written, PlanOfRun
  <1>11. CASE PutManifest
    <2>1. PlanOfRun /\ Progress /\ (\A u \in Units : ~Pending(u)) /\ UNCHANGED snapshots
      BY <1>i, <1>11 DEF PutManifest, RunInvariant, Planned, At, BatchesDone, Requested,
         Pending, PlanOfRun, Written
    <2>2. run' = [run EXCEPT !.pc = "inputs"] /\ run.pc \in {"analyze", "manifest"}
      BY <1>11 DEF PutManifest, At
    <2>3. PlanOfRun' /\ Progress' /\ (\A u \in Units : ~Pending(u)')
      BY <1>t, <2>1, <2>2 DEF RunState, PlanOfRun, Progress, Pending, Settled, Describes, At
    <2> QED  BY <1>t, <1>11, <2>2, <2>3 DEF RunState, PutManifest, RunInvariant, Prepared,
             Written, PlanOfRun
  <1>12. CASE ReplaceInputs
    <2>1. /\ PlanOfRun /\ Progress /\ (\A u \in Units : ~Pending(u))
          /\ manifest = run.manifest /\ UNCHANGED <<snapshots, manifest>>
      BY <1>i, <1>12 DEF ReplaceInputs, RunInvariant, Planned, At, Written
    <2>2. run' = [run EXCEPT !.pc = "checkpoint"] /\ run.pc = "inputs" /\ inputs' = run.inputs
      BY <1>12 DEF ReplaceInputs, At
    <2>3. PlanOfRun' /\ Progress' /\ (\A u \in Units : ~Pending(u)')
      BY <1>t, <2>1, <2>2 DEF RunState, PlanOfRun, Progress, Pending, Settled, Describes, At
    <2> QED  BY <1>t, <2>1, <2>2, <2>3 DEF RunState, RunInvariant, Prepared, Written, PlanOfRun
  <1>13. CASE Edit
    BY <1>i, <1>13, RunInvariantFrame DEF Edit, EditFile, EditConfig, store
  <1>14. CASE UNCHANGED vars
    BY <1>i, <1>14, RunInvariantFrame DEF vars, store
  <1>15. ASSUME NEW batch \in SUBSET Units, SourceVanished(batch) PROVE RunInvariant'
    BY <1>1, <1>15 DEF SourceVanished
  <1>16. CASE EmptySelectionPanic \/ PutCheckpoint \/ Abort
    BY <1>1, <1>16 DEF EmptySelectionPanic, PutCheckpoint, Abort
  <1> QED
    BY <1>2, <1>3, <1>4, <1>5, <1>6, <1>7, <1>8, <1>9, <1>10, <1>11, <1>12, <1>13, <1>14,
       <1>15, <1>16 DEF Next, RunStep

-----------------------------------------------------------------------------
(* The invariants. *)

\* Every reachable state satisfies the strengthened invariant.
LEMMA Invariance == Spec => []IInv
  <1>1. Init => IInv
    <2>1. Init => TypeOK
      BY InitTyped
    <2>2. Init => CatalogFirst
      BY DEF Init, CatalogFirst, Idle, Planned
    <2>3. Init => RunInvariant
      BY IdlePromisesNothing DEF Init
    <2> QED  BY <2>1, <2>2, <2>3 DEF IInv
  <1>2. IInv /\ [Next]_vars => IInv'
    BY TypeStep, CatalogStep, RunInvariantStep DEF IInv
  <1> QED  BY <1>1, <1>2, PTL DEF Spec

\* Every table and every local of the command holds a value of its type; in
\* particular a checkpoint always names a manifest, inputs and a catalog.
THEOREM TypeCorrect == Spec => []TypeOK
  <1>1. IInv => TypeOK
    BY DEF IInv
  <1> QED  BY <1>1, Invariance, PTL

\* When index writes its checkpoint, the store holds the inventory the
\* checkpoint vouches for, for any number of sources, edits and failures.
THEOREM PublishedInventoryHolds == Spec => []PublishedInventory
  <1>1. IInv => PublishedInventory
    <2> SUFFICES ASSUME IInv, At("checkpoint") PROVE
          /\ manifest = run.manifest
          /\ inputs = run.inputs
          /\ \A u \in Units :
                IF run.sources[u] = Absent THEN snapshots[u] = None
                ELSE u \in run.dropped \/ Describes(u, run.sources, run.manifest)
      BY DEF PublishedInventory
    <2>1. PlanOfRun /\ Progress /\ Written
      BY DEF IInv, RunInvariant, Planned, At
    <2> QED  BY <2>1 DEF Progress, Written, Settled, At
  <1> QED  BY <1>1, Invariance, PTL

-----------------------------------------------------------------------------
(* Complete runs on a workspace nobody edits. *)

\* Places in the run where its manifest is known, and where its sources are replaced.
Resolved == {"plan"} \cup Planned
Fetching == {"remove", "analyze", "commit", "drop"}

\* Nobody edited since the run began: what it found is what there is.
RunEpoch ==
    run.pc # "idle" =>
        /\ run.epoch <= edits
        /\ run.epoch = edits => run.sources = file /\ run.inputs = config

\* No source is in two batches, and none is sent twice.
BatchesApart ==
    run.pc \in Planned =>
        /\ \A A, B \in run.batches : A # B => A \cap B = {}
        /\ \A u \in Units : run.response[u] # None => \A batch \in run.batches : u \notin batch

\* A row the run removed stays away, or is written anew.
DroppedGone ==
    /\ run.pc \in {"force", "resolve", "plan"} => run.dropped = {}
    /\ run.pc \in Planned => \A u \in run.dropped :
          snapshots[u] # None => Describes(u, run.sources, run.manifest)

RowsDescribe(context) == \A u \in Units : snapshots[u] # None => Describes(u, file, context)

\* A run after a complete one, with no edit or failure since the latter began, only
\* writes rows that are missing, and so removes no dependents.
QuietRun ==
    quiet >= 1 /\ run.pc # "idle" =>
        /\ run.epoch = edits
        /\ run.dropped = {} /\ run.pc # "drop"
        /\ run.pc = "force" => /\ run.force
                               /\ \A u \in Units : snapshots[u] # None => u \in run.todo
        /\ run.pc = "resolve" =>
              IF run.force THEN \A u \in Units : snapshots[u] = None
              ELSE run.current /\ manifest # None /\ RowsDescribe(manifest)
        /\ run.pc = "plan" => RowsDescribe(run.manifest)
        /\ run.pc \in Planned => \A u \in Units : Pending(u) => snapshots[u] = None

QuietInv ==
    /\ RunEpoch /\ BatchesApart /\ DroppedGone
    /\ QuietRun
    /\ QuietRunsConverge

\* A step within a run keeps what the run found when it began.
Continues ==
    /\ run.pc # "idle" /\ run'.pc # "idle"
    /\ UNCHANGED <<workspace, history>>
    /\ run'.epoch = run.epoch /\ run'.force = run.force /\ run'.current = run.current
    /\ run'.sources = run.sources /\ run'.inputs = run.inputs
    /\ run'.pc \in {"force", "resolve"} => run.pc = "force"
    /\ run'.pc = "manifest" => PublishCatalog
    /\ run'.pc \in Resolved /\ ~ResolveManifest =>
          run.pc \in Resolved /\ run'.manifest = run.manifest
    /\ run'.pc \in Fetching /\ ~PlanSources => run.pc \in Fetching /\ run'.lane = run.lane

\* A step ends the run, begins one, or continues it.
LEMMA StepKinds ==
    ASSUME TypeOK, RunStep
    PROVE  /\ UNCHANGED <<workspace, edits, pastFiles, pastConfigs>>
           /\ run' = Idle \/ (\E force \in BOOLEAN : IndexStart(force)) \/ Continues
  <1>t. run \in RunState
    BY DEF TypeOK
  <1>1. ASSUME NEW u \in Units, ForceRemove(u) \/ RemoveDeleted(u) \/ DropDependent(u)
        PROVE  Continues
    <2>1. CASE ForceRemove(u)
      BY <1>t, <2>1 DEF Continues, RunState, ForceRemove, At, Phase, Resolved, Planned, Fetching
    <2>2. CASE RemoveDeleted(u)
      BY <1>t, <2>2 DEF Continues, RunState, RemoveDeleted, At, Phase, Resolved, Planned, Fetching
    <2>3. CASE DropDependent(u)
      BY <1>t, <2>3 DEF Continues, RunState, DropDependent, At, Phase, Resolved, Planned, Fetching
    <2> QED
      BY <1>1, <2>1, <2>2, <2>3
  <1>2. ASSUME ResolveManifest \/ PublishCatalog \/ PutManifest \/ ReplaceInputs
        PROVE  Continues
    <2>1. CASE ResolveManifest
      BY <1>t, <2>1 DEF Continues, RunState, ResolveManifest, At, Resolved, Planned, Fetching
    <2>2. CASE PublishCatalog
      BY <1>t, <2>2 DEF Continues, RunState, PublishCatalog, At, Resolved, Planned, Fetching
    <2>3. CASE PutManifest
      BY <1>t, <2>3 DEF Continues, RunState, PutManifest, At, Resolved, Planned, Fetching
    <2>4. CASE ReplaceInputs
      BY <1>t, <2>4 DEF Continues, RunState, ReplaceInputs, At, Resolved, Planned, Fetching
    <2> QED
      BY <1>2, <2>1, <2>2, <2>3, <2>4
  <1>3. ASSUME PlanSources
        PROVE  Continues
    <2>1. PICK pc \in Phases, single \in BOOLEAN, batches \in SUBSET SUBSET Units,
               lane \in BOOLEAN :
             /\ pc = Phase("remove", Removed(run.sources), "analyze")
             /\ run' = [run EXCEPT !.pc = pc, !.single = single, !.batches = batches,
                                   !.reanalyze = Reanalyze(run.sources, run.manifest),
                                   !.lane = lane, !.todo = Removed(run.sources)]
      BY <1>3, PlanShape
    <2> QED  BY <1>t, <1>3, <2>1 DEF Continues, RunState, PlanSources, At, Phase, Resolved
  <1>4. ASSUME NEW batch \in SUBSET Units, AnalyzeBatch(batch)
        PROVE  Continues
    BY <1>t, <1>4 DEF Continues, RunState, AnalyzeBatch, At, Resolved, Planned, Fetching
  <1>5. ASSUME CommitBatch
        PROVE  Continues
    <2>1. PICK drop :
             run' = [run EXCEPT !.pc = Phase("drop", drop, "analyze"),
                                !.response = [u \in Units |-> None],
                                !.todo = drop]
      BY <1>5 DEF CommitBatch
    <2> QED  BY <1>t, <1>5, <2>1 DEF Continues, RunState, CommitBatch, At, Phase, Resolved,
             Planned, Fetching
  <1>6. ASSUME EmptySelectionPanic \/ PutCheckpoint \/ Abort
        PROVE  run' = Idle /\ UNCHANGED <<workspace, edits, pastFiles, pastConfigs>>
    <2>1. CASE EmptySelectionPanic
      BY <2>1 DEF EmptySelectionPanic
    <2>2. CASE PutCheckpoint
      BY <2>2 DEF PutCheckpoint
    <2>3. CASE Abort
      BY <2>3 DEF Abort
    <2> QED  BY <1>6, <2>1, <2>2, <2>3
  <1>7. ASSUME NEW force \in BOOLEAN, IndexStart(force)
        PROVE  UNCHANGED <<workspace, edits, pastFiles, pastConfigs>>
    BY <1>7 DEF IndexStart, history
  <1>8. ASSUME NEW batch \in SUBSET Units, SourceVanished(batch)
        PROVE  run' = Idle /\ UNCHANGED <<workspace, edits, pastFiles, pastConfigs>>
    BY <1>8 DEF SourceVanished
  <1>9. Continues => UNCHANGED <<workspace, edits, pastFiles, pastConfigs>>
    BY DEF Continues, history
  <1> QED
    BY <1>1, <1>2, <1>3, <1>4, <1>5, <1>6, <1>7, <1>8, <1>9 DEF RunStep

\* The locals a run begins with.
LEMMA StartShape ==
    ASSUME NEW force \in BOOLEAN, IndexStart(force)
    PROVE  LET todo == IF force THEN Present(file) ELSE {}
           IN  /\ run'.pc = IF todo = {} THEN "resolve" ELSE "force"
               /\ run'.force = force /\ run'.sources = file /\ run'.inputs = config
               /\ run'.current = (inputs = config) /\ run'.todo = todo /\ run'.epoch = edits
               /\ run'.dropped = {} /\ run'.lane = FALSE
               /\ run'.response = [u \in Units |-> None]
  BY DEF IndexStart, Idle, Phase

\* Every edit is counted after the run that started before it.
LEMMA RunEpochStep == TypeOK /\ RunEpoch /\ [Next]_vars => RunEpoch'
  <1> SUFFICES ASSUME TypeOK, RunEpoch, [Next]_vars PROVE RunEpoch'
    OBVIOUS
  <1>t. edits \in Nat /\ run \in RunState
    BY DEF TypeOK
  <1>e. run.pc # "idle" => run.epoch \in Nat
    BY <1>t DEF RunState
  <1>1. CASE RunStep
    <2>1. CASE run' = Idle
      BY <2>1 DEF RunEpoch, Idle
    <2>2. ASSUME NEW force \in BOOLEAN, IndexStart(force) PROVE RunEpoch'
      <3>1. run'.sources = file /\ run'.inputs = config /\ run'.epoch = edits
        BY <2>2, StartShape
      <3>2. file' = file /\ config' = config /\ edits' = edits
        BY <1>1, StepKinds DEF workspace
      <3> QED  BY <1>t, <3>1, <3>2 DEF RunEpoch
    <2>3. CASE Continues
      BY <2>3 DEF Continues, RunEpoch, workspace, history
    <2> QED  BY <1>1, <2>1, <2>2, <2>3, StepKinds
  <1>2. CASE Edit
    <2>1. run' = run /\ edits' = edits + 1
      BY <1>2 DEF Edit, EditFile, EditConfig
    <2> QED  BY <1>t, <1>e, <2>1 DEF RunEpoch
  <1>3. CASE UNCHANGED vars
    BY <1>3 DEF vars, workspace, history, RunEpoch
  <1> QED  BY <1>1, <1>2, <1>3 DEF Next

\* The worker gets a batch once, and its response is of that batch only.
LEMMA BatchesApartStep == IInv /\ BatchesApart /\ [Next]_vars => BatchesApart'
  <1> SUFFICES ASSUME IInv, BatchesApart, [Next]_vars PROVE BatchesApart'
    OBVIOUS
  <1>t. run \in RunState
    BY DEF IInv, TypeOK
  <1>1. ASSUME run'.pc \notin Planned PROVE BatchesApart'
    BY <1>1 DEF BatchesApart
  <1>2. ASSUME run.pc \in Planned, run'.batches = run.batches, run'.response = run.response
        PROVE  BatchesApart'
    BY <1>2 DEF BatchesApart
  <1>3. ASSUME NEW force \in BOOLEAN, IndexStart(force) PROVE BatchesApart'
    BY <1>1, <1>3, StartShape DEF Planned
  <1>4. ASSUME NEW u \in Units, ForceRemove(u) PROVE BatchesApart'
    BY <1>t, <1>1, <1>4 DEF ForceRemove, RunState, Phase, Planned
  <1>5. CASE ResolveManifest
    BY <1>t, <1>1, <1>5 DEF ResolveManifest, RunState, Planned
  <1>6. CASE PlanSources
    <2>1. PICK pc \in Phases, single \in BOOLEAN, batches \in SUBSET SUBSET Units,
               lane \in BOOLEAN :
             /\ \A A, B \in batches : A # B => A \cap B = {}
             /\ run' = [run EXCEPT !.pc = pc, !.single = single, !.batches = batches,
                                   !.reanalyze = Reanalyze(run.sources, run.manifest),
                                   !.lane = lane, !.todo = Removed(run.sources)]
      BY <1>6, PlanShape
    <2>2. run'.batches = batches /\ run'.response = run.response
      BY <1>t, <2>1 DEF RunState
    <2>3. \A u \in Units : run.response[u] = None
      BY <1>6 DEF IInv, RunInvariant, Prepared, PlanSources, At
    <2> QED  BY <2>1, <2>2, <2>3 DEF BatchesApart
  <1>7. ASSUME NEW u \in Units, RemoveDeleted(u) \/ DropDependent(u) PROVE BatchesApart'
    BY <1>t, <1>2, <1>7 DEF RemoveDeleted, DropDependent, RunState, Planned, At
  <1>8. ASSUME NEW batch \in SUBSET Units, AnalyzeBatch(batch) PROVE BatchesApart'
    <2>1. /\ run.pc \in Planned /\ batch \in run.batches
          /\ run'.batches = run.batches \ {batch}
          /\ \A u \in Units : run'.response[u] # None => u \in Requested(batch)
      BY <1>t, <1>8 DEF AnalyzeBatch, RunState, Planned, At
    <2> QED  BY <2>1 DEF BatchesApart, Requested
  <1>9. CASE CommitBatch
    <2>1. PICK drop :
             run' = [run EXCEPT !.pc = Phase("drop", drop, "analyze"),
                                !.response = [u \in Units |-> None], !.todo = drop]
      BY <1>9 DEF CommitBatch
    <2>2. run'.batches = run.batches /\ \A u \in Units : run'.response[u] = None
      BY <1>t, <2>1 DEF RunState
    <2>3. run.pc \in Planned
      BY <1>9 DEF CommitBatch, At, Planned
    <2> QED  BY <2>2, <2>3 DEF BatchesApart
  <1>10. CASE PublishCatalog \/ PutManifest \/ ReplaceInputs
    BY <1>t, <1>2, <1>10 DEF PublishCatalog, PutManifest, ReplaceInputs, RunState, Planned, At
  <1>11. ASSUME run' = Idle PROVE BatchesApart'
    BY <1>1, <1>11 DEF Idle, Planned
  <1>12. ASSUME NEW batch \in SUBSET Units, SourceVanished(batch) PROVE BatchesApart'
    BY <1>11, <1>12 DEF SourceVanished
  <1>13. CASE EmptySelectionPanic \/ PutCheckpoint \/ Abort
    BY <1>11, <1>13 DEF EmptySelectionPanic, PutCheckpoint, Abort
  <1>14. CASE Edit \/ UNCHANGED vars
    <2>1. run' = run
      BY <1>14 DEF Edit, EditFile, EditConfig, vars
    <2> QED  BY <2>1 DEF BatchesApart
  <1> QED
    BY <1>3, <1>4, <1>5, <1>6, <1>7, <1>8, <1>9, <1>10, <1>12, <1>13, <1>14 DEF Next, RunStep

\* A row that was dropped comes back only as this run writes it.
LEMMA DroppedGoneStep == IInv /\ DroppedGone /\ [Next]_vars => DroppedGone'
  <1> SUFFICES ASSUME IInv, DroppedGone, [Next]_vars PROVE DroppedGone'
    OBVIOUS
  <1>t. /\ run \in RunState
        /\ snapshots \in [Units -> Snapshot \cup {None}]
    BY DEF IInv, TypeOK
  <1>1. ASSUME run'.pc \notin Planned, run'.dropped = {} PROVE DroppedGone'
    BY <1>1 DEF DroppedGone
  <1>2. ASSUME run.pc \in Planned, run'.pc \in Planned, run'.dropped = run.dropped, run'.sources = run.sources,
               run'.manifest = run.manifest,
               \A u \in run.dropped : snapshots'[u] = None \/ snapshots'[u] = snapshots[u]
        PROVE  DroppedGone'
    BY <1>2 DEF DroppedGone, Describes, Planned
  <1>3. ASSUME NEW force \in BOOLEAN, IndexStart(force) PROVE DroppedGone'
    BY <1>1, <1>3, StartShape DEF Planned
  <1>4. ASSUME NEW u \in Units, ForceRemove(u) PROVE DroppedGone'
    BY <1>t, <1>1, <1>4 DEF ForceRemove, RunState, Phase, Planned, At, DroppedGone
  <1>5. CASE ResolveManifest
    BY <1>t, <1>1, <1>5 DEF ResolveManifest, RunState, Planned, At, DroppedGone
  <1>6. CASE PlanSources
    <2>1. PICK pc \in Phases, single \in BOOLEAN, batches \in SUBSET SUBSET Units,
               lane \in BOOLEAN :
             /\ pc = Phase("remove", Removed(run.sources), "analyze")
             /\ run' = [run EXCEPT !.pc = pc, !.single = single, !.batches = batches,
                                   !.reanalyze = Reanalyze(run.sources, run.manifest),
                                   !.lane = lane, !.todo = Removed(run.sources)]
      BY <1>6, PlanShape
    <2>2. run'.dropped = run.dropped /\ run'.pc \in Planned
      BY <1>t, <2>1 DEF RunState, Planned, Phase
    <2>3. run.dropped = {}
      BY <1>6 DEF DroppedGone, PlanSources, At
    <2> QED  BY <2>2, <2>3 DEF DroppedGone
  <1>7. ASSUME NEW u \in Units, RemoveDeleted(u) PROVE DroppedGone'
    BY <1>t, <1>2, <1>7 DEF RemoveDeleted, RemoveSnapshot, RunState, Planned, At, Phase
  <1>8. ASSUME NEW u \in Units, DropDependent(u) PROVE DroppedGone'
    <2>1. /\ run.pc \in Planned /\ run'.pc \in Planned /\ run'.dropped = run.dropped \cup {u}
          /\ run'.sources = run.sources /\ run'.manifest = run.manifest
          /\ snapshots' = [snapshots EXCEPT ![u] = None]
      BY <1>t, <1>8 DEF DropDependent, RemoveSnapshot, RunState, Planned, At, Phase
    <2>2. \A v \in Units : snapshots'[v] = IF v = u THEN None ELSE snapshots[v]
      BY <1>t, <2>1
    <2>3. run.dropped \subseteq Units
      BY <1>t DEF RunState
    <2> QED  BY <2>1, <2>2, <2>3 DEF DroppedGone, Describes, Planned
  <1>9. ASSUME NEW batch \in SUBSET Units, AnalyzeBatch(batch) PROVE DroppedGone'
    BY <1>t, <1>2, <1>9 DEF AnalyzeBatch, RunState, Planned, At, store
  <1>10. CASE CommitBatch
    <2>1. PICK drop :
             run' = [run EXCEPT !.pc = Phase("drop", drop, "analyze"),
                                !.response = [u \in Units |-> None], !.todo = drop]
      BY <1>10 DEF CommitBatch
    <2>2. /\ run'.dropped = run.dropped /\ run'.sources = run.sources
          /\ run'.manifest = run.manifest /\ run'.pc \in Planned
      BY <1>t, <2>1 DEF RunState, Phase, Planned
    <2>3. run.pc \in Planned /\ PlanOfRun
      BY <1>10 DEF CommitBatch, At, Planned, IInv, RunInvariant
    <2>4. \A u \in Units : snapshots'[u] = IF run.response[u] # None THEN run.response[u]
                                                                   ELSE snapshots[u]
      BY <1>10 DEF CommitBatch
    <2>5. run.dropped \subseteq Units
      BY <1>t DEF RunState
    <2> QED  BY <2>2, <2>3, <2>4, <2>5 DEF DroppedGone, Describes, PlanOfRun, Planned
  <1>11. CASE PublishCatalog \/ PutManifest \/ ReplaceInputs
    BY <1>t, <1>2, <1>11 DEF PublishCatalog, PutManifest, ReplaceInputs, RunState, Planned, At
  <1>12. ASSUME run' = Idle PROVE DroppedGone'
    BY <1>1, <1>12 DEF Idle, Planned
  <1>13. ASSUME NEW batch \in SUBSET Units, SourceVanished(batch) PROVE DroppedGone'
    BY <1>12, <1>13 DEF SourceVanished
  <1>14. CASE EmptySelectionPanic \/ PutCheckpoint \/ Abort
    BY <1>12, <1>14 DEF EmptySelectionPanic, PutCheckpoint, Abort
  <1>15. CASE Edit \/ UNCHANGED vars
    <2>1. run' = run /\ snapshots' = snapshots
      BY <1>15 DEF Edit, EditFile, EditConfig, vars, store
    <2> QED  BY <2>1 DEF DroppedGone, Describes
  <1> QED
    BY <1>3, <1>4, <1>5, <1>6, <1>7, <1>8, <1>9, <1>10, <1>11, <1>13, <1>14, <1>15 DEF Next, RunStep

\* What QuietRun says of a run that has planned.
LEMMA QuietPlanned ==
    ASSUME run'.pc \in Planned, run'.pc # "drop", run'.epoch = edits', run'.dropped = {},
           \A u \in Units : Pending(u)' => snapshots'[u] = None
    PROVE  QuietRun'
  BY DEF QuietRun, Planned

\* Nothing in a run after a complete one finds a row to replace.
LEMMA QuietRunStep == IInv /\ QuietInv /\ [Next]_vars => QuietRun'
  <1> SUFFICES ASSUME IInv, QuietInv, [Next]_vars, quiet' >= 1, run'.pc # "idle"
               PROVE  QuietRun'
    BY DEF QuietRun
  <1>t. /\ run \in RunState
        /\ snapshots \in [Units -> Snapshot \cup {None}]
        /\ file \in Inventory
    BY DEF IInv, TypeOK
  <1>1. CASE Edit
    <2>1. quiet' = 0
      BY <1>1 DEF Edit, EditFile, EditConfig
    <2> QED  BY <2>1
  <1>2. CASE UNCHANGED vars
    BY <1>2 DEF vars, workspace, store, history, QuietInv, QuietRun, RowsDescribe, Describes,
       Pending
  <1>3. ASSUME NEW force \in BOOLEAN, IndexStart(force) PROVE QuietRun'
    <2>1. /\ run.pc = "idle" /\ UNCHANGED <<file, config, snapshots, manifest, inputs, edits, quiet>>
      BY <1>3 DEF IndexStart, At, workspace, store, history
    <2>2. /\ Freshness = "fresh"
          /\ RowsDescribe(manifest)
      BY <2>1 DEF QuietInv, QuietRunsConverge, RowsDescribe, At
    <2>3. inputs = config /\ manifest # None
      BY <2>2 DEF Freshness
    <2>4. \A u \in Units : snapshots[u] # None => u \in Present(file)
      BY <1>t, <2>2, ConstantsAssumption DEF RowsDescribe, Describes, Present, Snapshot, Inventory, FileState
    <2>5. RowsDescribe(manifest)'
      BY <2>1, <2>2 DEF RowsDescribe, Describes
    <2> QED  BY <1>3, <2>1, <2>3, <2>4, <2>5, StartShape DEF QuietRun, Planned
  <1>4. CASE RunStep /\ run.pc # "idle" /\ ~\E force \in BOOLEAN : IndexStart(force)
    <2>1. /\ UNCHANGED <<file, config, edits, quiet>>
          /\ run'.epoch = run.epoch /\ run'.sources = run.sources /\ run'.inputs = run.inputs
          /\ run'.force = run.force /\ run'.current = run.current
      BY <1>4, StepKinds DEF IInv, Continues, workspace, history, Idle
    <2>2. QuietRun /\ run.epoch = edits /\ run.dropped = {} /\ run.pc # "drop"
          /\ run.sources = file /\ run.inputs = config /\ run'.epoch = edits'
      BY <1>4, <2>1 DEF QuietInv, QuietRun, RunEpoch
    <2>3. ASSUME NEW u \in Units, ForceRemove(u) PROVE QuietRun'
      <3>1. /\ run.pc = "force" /\ run.force /\ \A v \in Units : snapshots[v] # None => v \in run.todo
            /\ run'.pc = Phase("force", run.todo \ {u}, "resolve")
            /\ run'.todo = run.todo \ {u} /\ run'.dropped = {}
            /\ \A v \in Units : snapshots'[v] = IF v = u THEN None ELSE snapshots[v]
        BY <1>t, <2>1, <2>2, <2>3 DEF ForceRemove, RemoveSnapshot, At, QuietRun, RunState
      <3> QED  BY <2>1, <2>2, <3>1 DEF QuietRun, Phase, Planned
    <2>4. CASE ResolveManifest
      <3>1. /\ run.pc = "resolve" /\ run'.pc = "plan" /\ run'.dropped = {}
            /\ UNCHANGED snapshots
            /\ run'.manifest = IF ~run.force /\ run.current /\ manifest # None
                               THEN manifest ELSE config
        BY <1>t, <2>2, <2>4 DEF ResolveManifest, At, RunState, store
      <3>2. IF run.force THEN \A u \in Units : snapshots[u] = None
            ELSE run.current /\ manifest # None /\ RowsDescribe(manifest)
        BY <2>1, <2>2, <3>1 DEF QuietRun
      <3>3. RowsDescribe(run.manifest)'
        BY <2>1, <3>1, <3>2 DEF RowsDescribe, Describes
      <3> QED  BY <2>1, <2>2, <3>1, <3>3 DEF QuietRun, Planned
    <2>5. CASE PlanSources
      <3>1. PICK pc \in Phases, single \in BOOLEAN, batches \in SUBSET SUBSET Units,
                 lane \in BOOLEAN :
               /\ pc = Phase("remove", Removed(run.sources), "analyze")
               /\ run' = [run EXCEPT !.pc = pc, !.single = single, !.batches = batches,
                                     !.reanalyze = Reanalyze(run.sources, run.manifest),
                                     !.lane = lane, !.todo = Removed(run.sources)]
        BY <2>5, PlanShape
      <3>2. /\ run'.pc \in {"remove", "analyze"} /\ run'.dropped = {}
            /\ run'.reanalyze = Reanalyze(run.sources, run.manifest)
            /\ run'.response = run.response
        BY <1>t, <2>2, <3>1 DEF RunState, Phase
      <3>3. /\ RowsDescribe(run.manifest) /\ UNCHANGED snapshots
            /\ \A u \in Units : run.response[u] = None
        BY <2>1, <2>2, <2>5 DEF QuietRun, PlanSources, At, store, IInv, RunInvariant, Prepared
      <3>4. \A u \in Units : Pending(u)' => snapshots'[u] = None
        BY <2>2, <3>2, <3>3 DEF Pending, Reanalyze, RowsDescribe, Describes
      <3> QED  BY <2>2, <3>2, <3>4, QuietPlanned DEF Planned
    <2>6. ASSUME NEW u \in Units, RemoveDeleted(u) PROVE QuietRun'
      <3>1. /\ run.pc = "remove" /\ run'.pc \in {"remove", "analyze"} /\ run'.dropped = {}
            /\ run'.response = run.response /\ run'.reanalyze = run.reanalyze
            /\ run'.batches = run.batches
            /\ \A v \in Units : snapshots'[v] \in {None, snapshots[v]}
        BY <1>t, <2>2, <2>6 DEF RemoveDeleted, RemoveSnapshot, At, RunState, Phase
      <3>2. \A v \in Units : Pending(v)' => snapshots'[v] = None
        BY <2>1, <2>2, <3>1 DEF Pending, QuietRun, Planned
      <3> QED  BY <2>2, <3>1, <3>2, QuietPlanned DEF Planned
    <2>7. ASSUME NEW batch \in SUBSET Units, AnalyzeBatch(batch) PROVE QuietRun'
      <3>1. /\ run.pc = "analyze" /\ run'.pc = "commit" /\ run'.dropped = {}
            /\ run'.reanalyze = run.reanalyze /\ run'.batches = run.batches \ {batch}
            /\ UNCHANGED snapshots /\ batch \in run.batches
            /\ \A u \in Units : run'.response[u] # None => u \in Requested(batch)
        BY <1>t, <2>2, <2>7 DEF AnalyzeBatch, At, RunState, store
      <3>2. \A u \in Units : Pending(u)' => snapshots'[u] = None
        BY <2>1, <2>2, <3>1 DEF Pending, QuietRun, Planned, Requested
      <3> QED  BY <2>2, <3>1, <3>2, QuietPlanned DEF Planned
    <2>8. CASE CommitBatch
      <3>1. /\ run.pc = "commit"
            /\ \A u \in Units : snapshots'[u] = IF run.response[u] # None THEN run.response[u]
                                                                          ELSE snapshots[u]
        BY <2>8 DEF CommitBatch, At
      <3>2. \A u \in Units : Pending(u) => snapshots[u] = None
        BY <2>1, <2>2, <3>1 DEF QuietRun, Planned
      <3>3. ApiDependents(run.response) = {}
        BY <3>2 DEF ApiDependents, Pending
      <3>4. run' = [run EXCEPT !.pc = Phase("drop", {}, "analyze"),
                               !.response = [u \in Units |-> None], !.todo = {}]
        <4> DEFINE drop == IF run.single THEN ApiDependents(run.response) \ run.reanalyze ELSE {}
        <4>1. drop = {}
          BY <3>3
        <4>2. run' = [run EXCEPT !.pc = Phase("drop", drop, "analyze"),
                                 !.response = [u \in Units |-> None], !.todo = drop]
          BY <2>8 DEF CommitBatch
        <4> HIDE DEF drop
        <4> QED  BY <4>1, <4>2
      <3>5. /\ run'.pc = "analyze" /\ run'.dropped = {}
            /\ run'.reanalyze = run.reanalyze /\ run'.batches = run.batches
            /\ \A u \in Units : run'.response[u] = None
        BY <1>t, <2>2, <3>4 DEF RunState, Phase
      <3>6. \A u \in Units : Pending(u)' => snapshots'[u] = None
        BY <3>1, <3>2, <3>5 DEF Pending, QuietInv, BatchesApart, Planned
      <3> QED  BY <2>2, <3>5, <3>6, QuietPlanned DEF Planned
    <2>9. CASE PublishCatalog \/ PutManifest \/ ReplaceInputs
      <3>1. /\ run.pc \in Planned /\ run'.pc \in Planned /\ run'.pc # "drop" /\ run'.dropped = {}
            /\ run'.response = run.response /\ run'.reanalyze = run.reanalyze
            /\ run'.batches = run.batches /\ UNCHANGED snapshots
        BY <1>t, <2>2, <2>9 DEF PublishCatalog, PutManifest, ReplaceInputs, At, RunState, Planned
      <3>2. \A u \in Units : Pending(u)' => snapshots'[u] = None
        BY <2>1, <2>2, <3>1 DEF Pending, QuietRun, Planned
      <3> QED  BY <2>2, <3>1, <3>2, QuietPlanned
    <2>10. ASSUME NEW u \in Units, DropDependent(u) PROVE QuietRun'
      BY <2>2, <2>10 DEF DropDependent, At
    <2>11. ASSUME NEW batch \in SUBSET Units, SourceVanished(batch) PROVE FALSE
      BY <2>11 DEF SourceVanished, Idle
    <2>12. ~EmptySelectionPanic /\ ~PutCheckpoint /\ ~Abort
      BY DEF EmptySelectionPanic, PutCheckpoint, Abort, Idle
    <2> QED
      BY <1>4, <2>3, <2>4, <2>5, <2>6, <2>7, <2>8, <2>9, <2>10, <2>11, <2>12 DEF RunStep
  <1> QED
    <2>1. CASE RunStep /\ ~\E force \in BOOLEAN : IndexStart(force)
      <3>1. run.pc # "idle"
        BY <2>1, StepKinds DEF IInv, Idle, Continues
      <3> QED  BY <1>4, <2>1, <3>1
    <2> QED  BY <1>1, <1>2, <1>3, <2>1 DEF Next

\* The checkpoint of a run nobody disturbed is of the workspace there is.
LEMMA QuietRunsConvergeStep == IInv /\ QuietInv /\ [Next]_vars => QuietRunsConverge'
  <1> SUFFICES ASSUME IInv, QuietInv, [Next]_vars, quiet' >= 1, run'.pc = "idle"
               PROVE  /\ Freshness' = "fresh"
                      /\ \A u \in Units : snapshots'[u] # None => Describes(u, file, manifest)'
                      /\ quiet' = 2 => \A u \in Present(file)' : Describes(u, file, manifest)'
    BY DEF QuietRunsConverge, At, Present, IInv, TypeOK
  <1>t. /\ run \in RunState
        /\ snapshots \in [Units -> Snapshot \cup {None}]
        /\ file \in Inventory
    BY DEF IInv, TypeOK
  <1>1. CASE Edit
    <2>1. quiet' = 0
      BY <1>1 DEF Edit, EditFile, EditConfig
    <2> QED  BY <2>1
  <1>2. CASE UNCHANGED vars
    <2>1. UNCHANGED <<workspace, store, history, run>>
      BY <1>2 DEF vars
    <2>2. UNCHANGED <<file, config, snapshots, manifest, catalog, inputs, checkpoint, run, quiet>>
      BY <2>1 DEF workspace, store, history
    <2> QED
      BY <2>2 DEF QuietInv, QuietRunsConverge, At, Freshness, CheckpointMatches,
         SourceCheckpointMatches, StaleUnits, UnknownUnits, Describes, Present
  <1>3. CASE PutCheckpoint
    <2>1. /\ run.pc = "checkpoint" /\ checkpoint' = CheckpointOfRun
          /\ run.epoch = edits /\ quiet' = IF quiet = 0 THEN 1 ELSE 2
          /\ UNCHANGED <<file, config, snapshots, manifest, catalog, inputs>>
      BY <1>3 DEF PutCheckpoint, At, workspace
    <2>2. run.sources = file /\ run.inputs = config
      BY <2>1 DEF QuietInv, RunEpoch
    <2>3. /\ PlanOfRun /\ Progress /\ (\A u \in Units : ~Pending(u))
          /\ manifest = run.manifest /\ inputs = run.inputs
      BY <2>1 DEF IInv, RunInvariant, Planned, Written
    <2>4. Freshness' = "fresh"
      <3>1. catalog # None
        BY <2>1 DEF IInv, CatalogFirst
      <3>2. CheckpointOfRun # None
        BY <1>t, <2>1, <2>3, <3>1, ConstantsAssumption
        DEF CheckpointOfRun, Checkpoint, PlanOfRun, IInv, TypeOK, RunState
      <3>3. /\ checkpoint'.manifest = manifest' /\ checkpoint'.sources = file'
            /\ checkpoint'.inputs = config' /\ checkpoint'.catalog = catalog'
            /\ inputs' = config' /\ manifest' # None
        BY <2>1, <2>2, <2>3 DEF CheckpointOfRun, PlanOfRun
      <3>4. SourceCheckpointMatches' /\ CheckpointMatches'
        BY <2>1, <3>2, <3>3 DEF SourceCheckpointMatches, CheckpointMatches
      <3> QED  BY <2>1, <3>2, <3>3, <3>4 DEF Freshness, StaleUnits, UnknownUnits
    <2>5. ASSUME NEW u \in Units
          PROVE  /\ file[u] = Absent => snapshots[u] = None
                 /\ file[u] # Absent => u \in run.dropped \/ Describes(u, file, manifest)
                 /\ snapshots[u] # None => Describes(u, file, manifest)
      BY <2>1, <2>2, <2>3 DEF Progress, Settled, At, QuietInv, DroppedGone, Planned
    <2>6. quiet' = 2 => run.dropped = {}
      BY <2>1 DEF QuietInv, QuietRun, IInv, TypeOK
    <2>7. \A u \in Units : Describes(u, file, manifest)' <=> Describes(u, file, manifest)
      BY <2>1 DEF Describes
    <2> QED  BY <2>1, <2>4, <2>5, <2>6, <2>7 DEF Present
  <1>4. CASE RunStep /\ ~PutCheckpoint
    <2>1. ASSUME NEW batch \in SUBSET Units, SourceVanished(batch) PROVE FALSE
      BY <2>1 DEF SourceVanished
    <2>2. ~EmptySelectionPanic /\ ~Abort
      BY DEF EmptySelectionPanic, Abort
    <2>3. ASSUME NEW force \in BOOLEAN, IndexStart(force) PROVE FALSE
      BY <2>3, StartShape
    <2>4. run' = Idle
      BY <1>4, <2>3, StepKinds DEF IInv, Continues
    <2>5. ASSUME NEW u \in Units, ForceRemove(u) \/ RemoveDeleted(u) \/ DropDependent(u) PROVE FALSE
      BY <1>t, <2>5 DEF RunState, ForceRemove, RemoveDeleted, DropDependent, Phase
    <2>6. ~ResolveManifest /\ ~PublishCatalog /\ ~PutManifest /\ ~ReplaceInputs
      BY <1>t DEF RunState, ResolveManifest, PublishCatalog, PutManifest, ReplaceInputs
    <2>7. ~PlanSources
      BY <1>t, <2>4, PlanShape DEF RunState, Phase
    <2>8. ASSUME NEW batch \in SUBSET Units, AnalyzeBatch(batch) PROVE FALSE
      BY <1>t, <2>8 DEF RunState, AnalyzeBatch
    <2>9. ~CommitBatch
      BY <1>t DEF RunState, CommitBatch, Phase
    <2> QED  BY <1>4, <2>1, <2>2, <2>3, <2>5, <2>6, <2>7, <2>8, <2>9 DEF RunStep
  <1> QED  BY <1>1, <1>2, <1>3, <1>4 DEF Next

\* Every reachable state satisfies the invariant of quiet runs.
LEMMA QuietInvariance == Spec => [](IInv /\ QuietInv)
  <1>1. Init => QuietInv
    BY DEF Init, QuietInv, RunEpoch, BatchesApart, DroppedGone, QuietRun, QuietRunsConverge,
       Idle, Planned
  <1>2. IInv /\ QuietInv /\ [Next]_vars => QuietInv'
    BY RunEpochStep, BatchesApartStep, DroppedGoneStep, QuietRunStep, QuietRunsConvergeStep
    DEF QuietInv, IInv
  <1> QED  BY <1>1, <1>2, Invariance, PTL DEF Spec

\* Whatever state failed runs and edits left, one complete run that nobody disturbs
\* makes status answer fresh and leaves no row under another content; after the second
\* one no row is missing either (commands/index.rs and both orchestrator paths).
THEOREM QuietRunsConvergeHolds == Spec => []QuietRunsConverge
  <1>1. QuietInv => QuietRunsConverge
    BY DEF QuietInv
  <1> QED  BY <1>1, QuietInvariance, PTL

-----------------------------------------------------------------------------
(* What status vouches for. *)

\* A state an edit left behind does not come back.
NothingReturns ==
    /\ config \notin pastConfigs /\ file \notin pastFiles
    /\ inputs # None => inputs \in pastConfigs \cup {config}
    /\ manifest # None => manifest \in pastConfigs \cup {config}
    /\ checkpoint # None => /\ checkpoint.inputs \in pastConfigs \cup {config}
                            /\ checkpoint.sources \in pastFiles \cup {file}
    /\ run.pc # "idle" => /\ run.inputs \in pastConfigs \cup {config}
                          /\ run.sources \in pastFiles \cup {file}
    /\ run.pc \in Resolved => run.manifest \in pastConfigs \cup {config}

\* Stored inputs that are current vouch for the manifest, a current manifest for
\* the catalog, whichever of them the active run has yet to replace.
ManifestFollows ==
    /\ inputs = config /\ manifest # None => manifest = config
    /\ manifest = config => catalog = config
    /\ run.pc # "idle" => /\ inputs = config => run.inputs = config
                          /\ run.current /\ run.pc \in {"force", "resolve"} => inputs = run.inputs
    /\ run.pc \in Resolved =>
          /\ run.inputs = config => run.manifest = config
          /\ manifest = config => run.manifest = config
    /\ run.pc \in Fetching => run.lane \/ manifest = run.manifest
    /\ run.pc = "manifest" => catalog = run.manifest

Vouched == checkpoint # None /\ checkpoint.sources = file /\ checkpoint.inputs = config

CheckpointHolds ==
    Vouched =>
        /\ inputs = config /\ manifest = config
        /\ RowsDescribe(config)
        /\ run.pc # "idle" => run.sources = file /\ run.inputs = config

FreshInv == NothingReturns /\ ManifestFollows /\ CheckpointHolds

\* Which step writes which table; but for a commit, rows are only removed.
LEMMA Writers ==
    ASSUME TypeOK, RunStep
    PROVE  /\ PutManifest \/ UNCHANGED manifest
           /\ ReplaceInputs \/ UNCHANGED inputs
           /\ PublishCatalog \/ UNCHANGED catalog
           /\ PutCheckpoint \/ UNCHANGED checkpoint
           /\ CommitBatch \/ \A u \in Units : snapshots'[u] \in {None, snapshots[u]}
  <1>t. snapshots \in [Units -> Snapshot \cup {None}]
    BY DEF TypeOK
  <1>1. ASSUME NEW u \in Units, ForceRemove(u) \/ RemoveDeleted(u) \/ DropDependent(u)
        PROVE  /\ UNCHANGED <<manifest, inputs, catalog, checkpoint>>
               /\ \A v \in Units : snapshots'[v] \in {None, snapshots[v]}
    BY <1>t, <1>1 DEF ForceRemove, RemoveDeleted, DropDependent, RemoveSnapshot
  <1>2. ASSUME NEW force \in BOOLEAN, IndexStart(force) PROVE UNCHANGED store
    BY <1>2 DEF IndexStart
  <1>3. ASSUME NEW batch \in SUBSET Units, AnalyzeBatch(batch) \/ SourceVanished(batch)
        PROVE  UNCHANGED store
    BY <1>3 DEF AnalyzeBatch, SourceVanished
  <1>4. ASSUME ResolveManifest \/ PlanSources \/ EmptySelectionPanic \/ Abort
        PROVE  UNCHANGED store
    BY <1>4 DEF ResolveManifest, PlanSources, EmptySelectionPanic, Abort
  <1>5. UNCHANGED store => UNCHANGED <<manifest, inputs, catalog, checkpoint, snapshots>>
    BY DEF store
  <1>6. PublishCatalog => UNCHANGED <<manifest, inputs, checkpoint, snapshots>>
    BY DEF PublishCatalog
  <1>7. PutManifest => UNCHANGED <<inputs, catalog, checkpoint, snapshots>>
    BY DEF PutManifest
  <1>8. ReplaceInputs => UNCHANGED <<manifest, catalog, checkpoint, snapshots>>
    BY DEF ReplaceInputs
  <1>9. PutCheckpoint => UNCHANGED <<manifest, inputs, catalog, snapshots>>
    BY DEF PutCheckpoint
  <1>10. CommitBatch => UNCHANGED <<manifest, inputs, catalog, checkpoint>>
    BY DEF CommitBatch
  <1> QED
    BY <1>1, <1>2, <1>3, <1>4, <1>5, <1>6, <1>7, <1>8, <1>9, <1>10 DEF RunStep

\* An edit names a state that no table and no run names.
LEMMA EditFresh ==
    ASSUME ~RevertAllowed, IInv, NothingReturns, Edit
    PROVE  /\ UNCHANGED <<inputs, manifest, catalog, checkpoint, snapshots, run>>
           /\ NothingReturns'
           /\ \/ config' = config /\ ~Vouched'
              \/ /\ file' = file /\ ~Vouched'
                 /\ inputs # config' /\ manifest # config'
                 /\ run.pc # "idle" => run.inputs # config'
  <1>t. TypeOK /\ ConstantsAssumption
    BY ConstantsAssumption DEF IInv
  <1>1. UNCHANGED <<inputs, manifest, catalog, checkpoint, snapshots, run>>
    BY DEF Edit, EditFile, EditConfig, store
  <1>2. ASSUME NEW u \in Units, NEW state \in FileState, EditFile(u, state)
        PROVE  NothingReturns' /\ config' = config /\ ~Vouched'
    <2>1. /\ file' \notin pastFiles /\ pastFiles' = pastFiles \cup {file}
          /\ UNCHANGED <<config, pastConfigs>>
      BY <1>2 DEF EditFile
    <2>2. file' # file
      <3>1. file \in Inventory /\ file' = [file EXCEPT ![u] = state] /\ state # file[u]
        BY <1>t, <1>2 DEF EditFile, TypeOK
      <3> QED  BY <3>1 DEF Inventory
    <2> QED  BY <1>1, <2>1, <2>2 DEF NothingReturns, Vouched
  <1>3. ASSUME NEW c \in Configs, EditConfig(c)
        PROVE  /\ NothingReturns' /\ file' = file /\ ~Vouched'
               /\ inputs # config' /\ manifest # config'
               /\ run.pc # "idle" => run.inputs # config'
    <2>1. /\ config' = c /\ c # config /\ c \notin pastConfigs
          /\ pastConfigs' = pastConfigs \cup {config}
          /\ UNCHANGED <<file, pastFiles>>
      BY <1>3 DEF EditConfig
    <2>2. c # None
      BY <1>t, <1>3
    <2>3. NothingReturns'
      BY <1>1, <2>1 DEF NothingReturns
    <2> QED  BY <1>1, <2>1, <2>2, <2>3 DEF NothingReturns, Vouched
  <1> QED  BY <1>1, <1>2, <1>3 DEF Edit

\* Tables and locals only hold states the workspace had.
LEMMA NothingReturnsStep ==
    ASSUME ~RevertAllowed, IInv, NothingReturns, [Next]_vars
    PROVE  NothingReturns'
  <1>1. CASE Edit
    BY <1>1, EditFresh
  <1>2. CASE UNCHANGED vars
    BY <1>2 DEF vars, workspace, store, history, NothingReturns
  <1>3. CASE RunStep
    <2>t. TypeOK
      BY DEF IInv
    <2>1. UNCHANGED <<file, config, pastFiles, pastConfigs>>
      BY <1>3, <2>t, StepKinds DEF workspace
    <2>2. run'.pc # "idle" => /\ run'.inputs \in pastConfigs \cup {config}
                              /\ run'.sources \in pastFiles \cup {file}
      <3>1. ASSUME NEW force \in BOOLEAN, IndexStart(force)
            PROVE  run'.inputs = config /\ run'.sources = file
        BY <3>1, StartShape
      <3>2. run' = Idle => run'.pc = "idle"
        BY DEF Idle
      <3>3. Continues => /\ run.pc # "idle"
                         /\ run'.inputs = run.inputs /\ run'.sources = run.sources
        BY DEF Continues
      <3> QED  BY <1>3, <2>t, <3>1, <3>2, <3>3, StepKinds DEF NothingReturns
    <2>3. run'.pc \in Resolved => run'.manifest \in pastConfigs \cup {config}
      <3>1. CASE ResolveManifest
        <4>1. run'.manifest \in {manifest, config} /\ (run'.manifest = manifest => manifest # None \/ manifest = config)
          BY <2>t, <3>1 DEF ResolveManifest, TypeOK, RunState
        <4> QED  BY <4>1 DEF NothingReturns
      <3>2. CASE Continues /\ ~ResolveManifest
        BY <3>2 DEF Continues, NothingReturns
      <3>3. ASSUME NEW force \in BOOLEAN, IndexStart(force) PROVE run'.pc \notin Resolved
        BY <3>3, StartShape DEF Resolved, Planned
      <3>4. run' = Idle => run'.pc \notin Resolved
        BY DEF Idle, Resolved, Planned
      <3> QED  BY <1>3, <2>t, <3>1, <3>2, <3>3, <3>4, StepKinds
    <2>4. inputs' # None => inputs' \in pastConfigs \cup {config}
      BY <1>3, <2>t, Writers DEF ReplaceInputs, At, NothingReturns
    <2>5. manifest' # None => manifest' \in pastConfigs \cup {config}
      BY <1>3, <2>t, Writers DEF PutManifest, At, NothingReturns, Resolved, Planned
    <2>6. checkpoint' # None => /\ checkpoint'.inputs \in pastConfigs \cup {config}
                                /\ checkpoint'.sources \in pastFiles \cup {file}
      BY <1>3, <2>t, Writers DEF PutCheckpoint, CheckpointOfRun, At, NothingReturns
    <2> QED  BY <2>1, <2>2, <2>3, <2>4, <2>5, <2>6 DEF NothingReturns
  <1> QED  BY <1>1, <1>2, <1>3 DEF Next

\* A step that touches neither the three tables nor the locals ManifestFollows speaks of.
LEMMA ManifestFollowsFrame ==
    ASSUME ManifestFollows, UNCHANGED <<manifest, inputs, catalog, config>>,
           run' = Idle \/ (Continues /\ ~ResolveManifest /\ ~PlanSources /\ ~PublishCatalog)
    PROVE  ManifestFollows'
  <1>1. CASE run' = Idle
    BY <1>1 DEF ManifestFollows, Idle, Resolved, Fetching, Planned
  <1>2. CASE Continues /\ ~ResolveManifest /\ ~PlanSources /\ ~PublishCatalog
    <2>1. run'.pc \in Fetching => run'.pc \in Resolved
      BY DEF Fetching, Resolved, Planned
    <2>2. /\ run.pc # "idle" /\ run'.inputs = run.inputs /\ run'.current = run.current
          /\ run'.pc \in {"force", "resolve"} => run.pc = "force"
          /\ run'.pc # "manifest"
          /\ run'.pc \in Resolved => run.pc \in Resolved /\ run'.manifest = run.manifest
          /\ run'.pc \in Fetching => run.pc \in Fetching /\ run'.lane = run.lane
      BY <1>2 DEF Continues
    <2> QED  BY <2>1, <2>2 DEF ManifestFollows
  <1> QED  BY <1>1, <1>2

\* The manifest, the inputs and the catalog are replaced in an order that never lets
\* one of them vouch for another that is not yet there.
LEMMA ManifestFollowsStep ==
    ASSUME ~RevertAllowed, IInv, NothingReturns, ManifestFollows, [Next]_vars
    PROVE  ManifestFollows'
  <1>t. /\ TypeOK /\ run \in RunState
        /\ config # None
    BY ConstantsAssumption DEF IInv, TypeOK
  <1>1. CASE Edit
    <2>1. UNCHANGED <<inputs, manifest, catalog, run>>
      BY <1>1, EditFresh
    <2>2. CASE config' = config
      BY <2>1, <2>2 DEF ManifestFollows
    <2>3. CASE config' # config
      <3>1. inputs # config' /\ manifest # config' /\ (run.pc # "idle" => run.inputs # config')
        BY <1>1, <2>3, EditFresh
      <3>2. run.pc \in Resolved => run.pc # "idle"
        BY DEF Resolved, Planned
      <3> QED  BY <2>1, <3>1, <3>2 DEF ManifestFollows
    <2> QED  BY <2>2, <2>3
  <1>2. CASE UNCHANGED vars
    BY <1>2 DEF vars, workspace, store, ManifestFollows
  <1>3. CASE RunStep
    <2>1. config' = config
      BY <1>3, <1>t, StepKinds DEF workspace
    <2>2. ASSUME NEW force \in BOOLEAN, IndexStart(force) PROVE ManifestFollows'
      <3>1. UNCHANGED <<manifest, inputs, catalog>>
        BY <2>2 DEF IndexStart, store
      <3>2. /\ run'.pc \in {"force", "resolve"} /\ run'.inputs = config
            /\ run'.current = (inputs = config)
        BY <2>2, StartShape
      <3> QED  BY <2>1, <3>1, <3>2 DEF ManifestFollows, Resolved, Planned, Fetching
    <2>3. CASE ResolveManifest
      <3>1. /\ UNCHANGED <<manifest, inputs, catalog>>
            /\ run.pc = "resolve" /\ run'.pc = "plan" /\ run'.inputs = run.inputs
            /\ \/ run'.manifest = manifest /\ manifest # None /\ run.current
               \/ run'.manifest = config
        BY <1>t, <2>3 DEF ResolveManifest, RunState, store, At
      <3> QED  BY <2>1, <3>1 DEF ManifestFollows, Resolved, Planned, Fetching
    <2>4. CASE PlanSources
      <3>1. PICK pc \in Phases, single \in BOOLEAN, batches \in SUBSET SUBSET Units,
                 lane \in BOOLEAN :
               /\ lane \/ manifest = run.manifest
               /\ pc = Phase("remove", Removed(run.sources), "analyze")
               /\ run' = [run EXCEPT !.pc = pc, !.single = single, !.batches = batches,
                                     !.reanalyze = Reanalyze(run.sources, run.manifest),
                                     !.lane = lane, !.todo = Removed(run.sources)]
        BY <2>4, PlanShape
      <3>2. /\ run'.pc \in {"remove", "analyze"} /\ run'.inputs = run.inputs
            /\ run'.manifest = run.manifest /\ (run'.lane \/ manifest = run.manifest)
        BY <1>t, <3>1 DEF RunState, Phase
      <3>3. run.pc = "plan" /\ UNCHANGED <<manifest, inputs, catalog>>
        BY <2>4 DEF PlanSources, At, store
      <3> QED  BY <2>1, <3>2, <3>3 DEF ManifestFollows, Resolved, Planned, Fetching
    <2>5. CASE PublishCatalog
      <3>1. /\ UNCHANGED <<manifest, inputs>> /\ catalog' = run.manifest
            /\ run.pc = "analyze" /\ run'.pc = "manifest" /\ run'.inputs = run.inputs
            /\ run'.manifest = run.manifest
        BY <1>t, <2>5 DEF PublishCatalog, RunState, At
      <3> QED  BY <2>1, <3>1 DEF ManifestFollows, Resolved, Planned, Fetching
    <2>6. CASE PutManifest
      <3>1. /\ UNCHANGED <<inputs, catalog>> /\ manifest' = run.manifest
            /\ run'.pc = "inputs" /\ run'.inputs = run.inputs /\ run'.manifest = run.manifest
        BY <1>t, <2>6 DEF PutManifest, RunState
      <3>2. run.pc = "manifest" \/ (run.pc = "analyze" /\ ~run.lane)
        BY <2>6 DEF PutManifest, At
      <3>3. run.manifest = config => catalog = config
        BY <3>2 DEF ManifestFollows, Fetching
      <3>4. run.inputs = config => run.manifest = config
        BY <3>2 DEF ManifestFollows, Resolved, Planned
      <3>5. inputs = config => run.inputs = config
        BY <3>2 DEF ManifestFollows
      <3> QED  BY <2>1, <3>1, <3>3, <3>4, <3>5 DEF ManifestFollows, Fetching
    <2>7. CASE ReplaceInputs
      <3>1. /\ UNCHANGED <<manifest, catalog>> /\ inputs' = run.inputs
            /\ run.pc = "inputs" /\ run'.pc = "checkpoint" /\ run'.inputs = run.inputs
            /\ run'.manifest = run.manifest
        BY <1>t, <2>7 DEF ReplaceInputs, RunState, At
      <3>2. manifest = run.manifest
        BY <3>1 DEF IInv, RunInvariant, Written
      <3> QED  BY <2>1, <3>1, <3>2 DEF ManifestFollows, Resolved, Planned, Fetching
    <2>8. CASE /\ ~\E force \in BOOLEAN : IndexStart(force)
               /\ ~ResolveManifest /\ ~PlanSources /\ ~PublishCatalog /\ ~PutManifest
               /\ ~ReplaceInputs
      <3>1. UNCHANGED <<manifest, inputs, catalog>>
        BY <1>3, <1>t, <2>8, Writers
      <3> QED  BY <1>3, <1>t, <2>1, <2>8, <3>1, StepKinds, ManifestFollowsFrame
    <2> QED  BY <2>2, <2>3, <2>4, <2>5, <2>6, <2>7, <2>8
  <1> QED  BY <1>1, <1>2, <1>3 DEF Next

\* A run that continues from a matching checkpoint only writes what it vouches for.
LEMMA CheckpointHoldsStep ==
    ASSUME ~RevertAllowed, IInv, DroppedGone, FreshInv, [Next]_vars
    PROVE  CheckpointHolds'
  <1> USE DEF FreshInv
  <1>t. TypeOK /\ snapshots \in [Units -> Snapshot \cup {None}]
    BY DEF IInv, TypeOK
  <1>1. CASE Edit
    BY <1>1, EditFresh DEF CheckpointHolds
  <1>2. CASE UNCHANGED vars
    BY <1>2 DEF vars, workspace, store, CheckpointHolds, Vouched, RowsDescribe, Describes
  <1>3. CASE PutCheckpoint
    <2>1. /\ run.pc = "checkpoint" /\ checkpoint' = CheckpointOfRun /\ run'.pc = "idle"
          /\ UNCHANGED <<file, config, snapshots, manifest, inputs>>
      BY <1>3 DEF PutCheckpoint, At, workspace, Idle
    <2> SUFFICES ASSUME run.sources = file, run.inputs = config
                 PROVE  inputs = config /\ manifest = config /\ RowsDescribe(config)
      BY <2>1 DEF CheckpointHolds, Vouched, CheckpointOfRun, RowsDescribe, Describes
    <2>2. /\ Progress /\ (\A u \in Units : ~Pending(u))
          /\ manifest = run.manifest /\ inputs = run.inputs
      BY <2>1 DEF IInv, RunInvariant, Planned, Written
    <2>3. run.manifest = config
      BY <2>1 DEF ManifestFollows, Resolved, Planned
    <2>4. ASSUME NEW u \in Units, snapshots[u] # None PROVE Describes(u, file, config)
      BY <2>1, <2>2, <2>3, <2>4 DEF Progress, Settled, At, DroppedGone, Planned
    <2> QED  BY <2>2, <2>3, <2>4 DEF RowsDescribe
  <1>4. CASE RunStep /\ ~PutCheckpoint
    <2> SUFFICES ASSUME Vouched'
                 PROVE  /\ inputs' = config' /\ manifest' = config'
                        /\ RowsDescribe(config)'
                        /\ run'.pc # "idle" => run'.sources = file' /\ run'.inputs = config'
      BY DEF CheckpointHolds
    <2>1. UNCHANGED <<file, config, checkpoint>>
      BY <1>4, <1>t, Writers, StepKinds DEF workspace
    <2>2. /\ inputs = config /\ manifest = config /\ RowsDescribe(config)
          /\ run.pc # "idle" => run.sources = file /\ run.inputs = config
      BY <2>1 DEF CheckpointHolds, Vouched
    <2>3. run.pc \in Resolved => run.inputs = config /\ run.manifest = config /\ run.sources = file
      BY <2>2 DEF ManifestFollows, Resolved, Planned
    <2>4. inputs' = config
      BY <1>4, <1>t, <2>2, Writers DEF ReplaceInputs, At
    <2>5. manifest' = config
      BY <1>4, <1>t, <2>2, <2>3, Writers DEF PutManifest, At, Resolved, Planned
    <2>6. ASSUME NEW u \in Units, snapshots'[u] # None
          PROVE  snapshots'[u].content = file[u] /\ snapshots'[u].context = config
      <3>1. CASE CommitBatch
        <4>1. /\ run.pc = "commit"
              /\ snapshots'[u] = IF run.response[u] # None THEN run.response[u] ELSE snapshots[u]
          BY <3>1 DEF CommitBatch, At
        <4>2. PlanOfRun
          BY <4>1 DEF IInv, RunInvariant, Planned
        <4> QED  BY <2>2, <2>3, <2>6, <4>1, <4>2
                 DEF PlanOfRun, RowsDescribe, Describes, Resolved, Planned
      <3>2. CASE ~CommitBatch
        <4>1. snapshots'[u] = snapshots[u]
          BY <1>4, <1>t, <2>6, <3>2, Writers
        <4> QED  BY <2>2, <2>6, <4>1 DEF RowsDescribe, Describes
      <3> QED  BY <3>1, <3>2
    <2>7. run'.pc # "idle" => run'.sources = file /\ run'.inputs = config
      <3>1. ASSUME NEW force \in BOOLEAN, IndexStart(force)
            PROVE  run'.inputs = config /\ run'.sources = file
        BY <3>1, StartShape
      <3>2. run' = Idle => run'.pc = "idle"
        BY DEF Idle
      <3> QED  BY <1>4, <1>t, <2>2, <3>1, <3>2, StepKinds DEF Continues
    <2> QED  BY <2>1, <2>4, <2>5, <2>6, <2>7 DEF RowsDescribe, Describes
  <1> QED  BY <1>1, <1>2, <1>3, <1>4 DEF Next

\* Every reachable state satisfies the invariant of a fresh status.
LEMMA FreshInvariance ==
    ASSUME ~RevertAllowed
    PROVE  Spec => [](IInv /\ QuietInv /\ FreshInv)
  <1>1. Init => FreshInv
    BY ConstantsAssumption DEF Init, FreshInv, NothingReturns, ManifestFollows, CheckpointHolds, Vouched,
       Idle, Resolved, Planned, Fetching
  <1>2. IInv /\ QuietInv /\ FreshInv /\ [Next]_vars => FreshInv'
    BY NothingReturnsStep, ManifestFollowsStep, CheckpointHoldsStep DEF FreshInv, QuietInv
  <1> QED  BY <1>1, <1>2, QuietInvariance, PTL DEF Spec

\* What status answers fresh for, if no edit ever restores an earlier state of the
\* workspace: whatever failures and forced runs came before and whatever a run that is
\* under way has half written, the manifest and the catalog are those of the build files
\* on disk, and every stored row is recorded under the text on disk.
THEOREM FreshRowsAreCurrent ==
    ASSUME ~RevertAllowed
    PROVE  Spec => [](Freshness = "fresh" =>
                         /\ manifest = config /\ catalog = config
                         /\ \A u \in Units : snapshots[u] # None => Describes(u, file, config))
  <1>1. FreshInv => (Freshness = "fresh" =>
                         /\ manifest = config /\ catalog = config
                         /\ \A u \in Units : snapshots[u] # None => Describes(u, file, config))
    BY DEF FreshInv, ManifestFollows, CheckpointHolds, Vouched, RowsDescribe, Freshness,
       CheckpointMatches, SourceCheckpointMatches
  <1> QED  BY <1>1, FreshInvariance, PTL

-----------------------------------------------------------------------------
(* Rows that are missing: a run drops none if no declaration that another *)
(* source refers to can change its API, and if none is forced.             *)

NothingToDrop ==
    \A u \in Units : \A v \in Refs[u] \ {u} : \A c, d \in Contents : Api[c] = Api[d]

\* The worker read a unit to answer for it.
SeesItself ==
    \A u \in Units : /\ snapshots[u] # None => snapshots[u].saw[u] \in Contents
                     /\ run.response[u] # None => run.response[u].saw[u] \in Contents

\* No run forgets a row it does not write again, and a checkpoint's rows stay.
NothingDropped ==
    /\ ~run.force /\ run.pc \notin {"force", "drop"} /\ run.dropped = {}
    /\ Vouched => \A u \in Present(file) : snapshots[u] # None

CoverInv == SeesItself /\ NothingDropped

\* A request is only answered when every file of it is there.
LEMMA SeesItselfStep ==
    ASSUME IInv, SeesItself, [Next]_vars
    PROVE  SeesItself'
  <1>t. /\ TypeOK /\ run \in RunState
        /\ snapshots \in [Units -> Snapshot \cup {None}]
        /\ file \in Inventory
    BY DEF IInv, TypeOK
  <1>1. CASE Edit \/ UNCHANGED vars
    <2>1. run' = run /\ snapshots' = snapshots
      BY <1>1 DEF Edit, EditFile, EditConfig, vars, store
    <2> QED  BY <2>1 DEF SeesItself
  <1>2. ASSUME NEW batch \in SUBSET Units, AnalyzeBatch(batch) PROVE SeesItself'
    <2>1. /\ UNCHANGED snapshots
          /\ \A u \in Units : run'.response[u] = IF u \in Requested(batch) THEN Analysis(u) ELSE None
          /\ \A u \in Requested(batch) : file[u] # Absent
      BY <1>t, <1>2 DEF AnalyzeBatch, RunState, store
    <2>2. \A u \in Requested(batch) \cap Units : Analysis(u).saw[u] \in Contents
      BY <1>t, <2>1 DEF Analysis, Inventory, FileState
    <2> QED  BY <2>1, <2>2 DEF SeesItself
  <1>3. CASE CommitBatch
    <2>1. PICK drop :
             run' = [run EXCEPT !.pc = Phase("drop", drop, "analyze"),
                                !.response = [u \in Units |-> None], !.todo = drop]
      BY <1>3 DEF CommitBatch
    <2>2. \A u \in Units : run'.response[u] = None
      BY <1>t, <2>1 DEF RunState
    <2>3. \A u \in Units : snapshots'[u] = IF run.response[u] # None THEN run.response[u]
                                                                  ELSE snapshots[u]
      BY <1>3 DEF CommitBatch
    <2> QED  BY <2>2, <2>3 DEF SeesItself
  <1>4. CASE RunStep /\ ~CommitBatch /\ ~\E batch \in SUBSET Units : AnalyzeBatch(batch)
    <2>1. \A u \in Units : snapshots'[u] \in {None, snapshots[u]}
      BY <1>4, <1>t, Writers
    <2>2. \A u \in Units : run'.response[u] \in {None, run.response[u]}
      <3>1. CASE run' = Idle
        BY <3>1 DEF Idle
      <3>2. ASSUME NEW force \in BOOLEAN, IndexStart(force)
            PROVE  \A u \in Units : run'.response[u] = None
        BY <3>2, StartShape
      <3>3. ASSUME NEW u \in Units, ForceRemove(u) \/ RemoveDeleted(u) \/ DropDependent(u)
            PROVE  run'.response = run.response
        BY <1>t, <3>3 DEF ForceRemove, RemoveDeleted, DropDependent, RunState
      <3>4. ASSUME ResolveManifest \/ PublishCatalog \/ PutManifest \/ ReplaceInputs
            PROVE  run'.response = run.response
        BY <1>t, <3>4 DEF ResolveManifest, PublishCatalog, PutManifest, ReplaceInputs, RunState
      <3>5. ASSUME PlanSources PROVE run'.response = run.response
        <4>1. PICK pc \in Phases, single \in BOOLEAN, batches \in SUBSET SUBSET Units,
                   lane \in BOOLEAN :
                 run' = [run EXCEPT !.pc = Phase("remove", Removed(run.sources), "analyze"),
                                    !.single = single, !.batches = batches,
                                    !.reanalyze = Reanalyze(run.sources, run.manifest),
                                    !.lane = lane, !.todo = Removed(run.sources)]
          BY <3>5, PlanShape
        <4> QED  BY <1>t, <4>1 DEF RunState
      <3>6. ASSUME NEW batch \in SUBSET Units, SourceVanished(batch) PROVE run' = Idle
        BY <3>6 DEF SourceVanished
      <3>7. EmptySelectionPanic \/ PutCheckpoint \/ Abort => run' = Idle
        BY DEF EmptySelectionPanic, PutCheckpoint, Abort
      <3> QED  BY <1>4, <3>1, <3>2, <3>3, <3>4, <3>5, <3>6, <3>7 DEF RunStep
    <2> QED  BY <2>1, <2>2 DEF SeesItself
  <1> QED  BY <1>1, <1>2, <1>3, <1>4 DEF Next

\* The rows a response replaces have no dependents to drop.
LEMMA NoDependents ==
    ASSUME NothingToDrop, SeesItself
    PROVE  ApiDependents(run.response) = {}
  <1>1. ASSUME NEW w \in Units, run.response[w] # None, snapshots[w] # None, NEW u \in Dependents(w)
        PROVE  Api[snapshots[w].saw[w]] = Api[run.response[w].saw[w]]
    <2>1. u \in Units /\ w \in Refs[u] \ {u}
      BY <1>1 DEF Dependents, Refers
    <2>2. snapshots[w].saw[w] \in Contents /\ run.response[w].saw[w] \in Contents
      BY <1>1 DEF SeesItself
    <2> QED  BY <2>1, <2>2 DEF NothingToDrop
  <1>2. \A w \in Units :
           run.response[w] # None /\ snapshots[w] # None
              /\ Api[snapshots[w].saw[w]] # Api[run.response[w].saw[w]] => Dependents(w) = {}
    BY <1>1
  <1> QED  BY <1>2 DEF ApiDependents

\* No step of an unforced run removes a row of a file that is there.
LEMMA NothingDroppedStep ==
    ASSUME ~RevertAllowed, ~ForceAllowed, NothingToDrop,
           IInv, FreshInv, CoverInv, [Next]_vars
    PROVE  NothingDropped'
  <1> USE DEF CoverInv
  <1>t. /\ TypeOK /\ run \in RunState
        /\ snapshots \in [Units -> Snapshot \cup {None}]
    BY DEF IInv, TypeOK
  <1>1. CASE Edit
    <2>1. UNCHANGED run /\ ~Vouched'
      BY <1>1, EditFresh DEF FreshInv
    <2> QED  BY <2>1 DEF NothingDropped
  <1>2. CASE UNCHANGED vars
    BY <1>2 DEF vars, workspace, store, NothingDropped, Vouched, Present
  <1>3. CASE RunStep
    <2>1. ~run'.force /\ run'.pc \notin {"force", "drop"} /\ run'.dropped = {}
      <3>1. CASE run' = Idle
        BY <3>1 DEF Idle
      <3>2. ASSUME NEW force \in BOOLEAN, IndexStart(force)
            PROVE  ~run'.force /\ run'.pc = "resolve" /\ run'.dropped = {}
        <4>1. ~force
          BY <3>2 DEF IndexStart
        <4> QED  BY <3>2, <4>1, StartShape
      <3>3. ASSUME NEW u \in Units
            PROVE  ~ForceRemove(u) /\ ~DropDependent(u)
        BY DEF NothingDropped, ForceRemove, DropDependent, At
      <3>4. ASSUME NEW u \in Units, RemoveDeleted(u)
            PROVE  ~run'.force /\ run'.pc \in {"remove", "analyze"} /\ run'.dropped = {}
        BY <1>t, <3>4 DEF RemoveDeleted, RunState, Phase, NothingDropped
      <3>5. ASSUME ResolveManifest \/ PublishCatalog \/ PutManifest \/ ReplaceInputs
            PROVE  ~run'.force /\ run'.pc \notin {"force", "drop"} /\ run'.dropped = {}
        BY <1>t, <3>5 DEF ResolveManifest, PublishCatalog, PutManifest, ReplaceInputs, RunState,
           NothingDropped
      <3>6. ASSUME PlanSources
            PROVE  ~run'.force /\ run'.pc \notin {"force", "drop"} /\ run'.dropped = {}
        <4>1. PICK pc \in Phases, single \in BOOLEAN, batches \in SUBSET SUBSET Units,
                   lane \in BOOLEAN :
                 run' = [run EXCEPT !.pc = Phase("remove", Removed(run.sources), "analyze"),
                                    !.single = single, !.batches = batches,
                                    !.reanalyze = Reanalyze(run.sources, run.manifest),
                                    !.lane = lane, !.todo = Removed(run.sources)]
          BY <3>6, PlanShape
        <4> QED  BY <1>t, <4>1 DEF RunState, Phase, NothingDropped
      <3>7. ASSUME NEW batch \in SUBSET Units, AnalyzeBatch(batch)
            PROVE  ~run'.force /\ run'.pc = "commit" /\ run'.dropped = {}
        BY <1>t, <3>7 DEF AnalyzeBatch, RunState, NothingDropped
      <3>8. ASSUME NEW batch \in SUBSET Units, SourceVanished(batch) PROVE run' = Idle
        BY <3>8 DEF SourceVanished
      <3>9. ASSUME CommitBatch
            PROVE  ~run'.force /\ run'.pc = "analyze" /\ run'.dropped = {}
        <4> DEFINE drop == IF run.single THEN ApiDependents(run.response) \ run.reanalyze ELSE {}
        <4>1. drop = {}
          BY NoDependents
        <4>2. run' = [run EXCEPT !.pc = Phase("drop", drop, "analyze"),
                                 !.response = [u \in Units |-> None], !.todo = drop]
          BY <3>9 DEF CommitBatch
        <4> HIDE DEF drop
        <4> QED  BY <1>t, <4>1, <4>2 DEF RunState, Phase, NothingDropped
      <3>10. EmptySelectionPanic \/ PutCheckpoint \/ Abort => run' = Idle
        BY DEF EmptySelectionPanic, PutCheckpoint, Abort
      <3> QED
        BY <1>3, <3>1, <3>2, <3>3, <3>4, <3>5, <3>6, <3>7, <3>8, <3>9, <3>10 DEF RunStep
    <2>2. ASSUME Vouched', NEW u \in Present(file)' PROVE snapshots'[u] # None
      <3>1. file' = file /\ u \in Units /\ file[u] # Absent
        BY <1>3, <1>t, <2>2, StepKinds DEF Present, workspace
      <3>2. CASE PutCheckpoint
        <4>1. /\ run.pc = "checkpoint" /\ checkpoint' = CheckpointOfRun /\ UNCHANGED snapshots
          BY <3>2 DEF PutCheckpoint, At
        <4>2. run.sources = file
          BY <2>2, <3>1, <4>1 DEF Vouched, CheckpointOfRun
        <4>3. Progress /\ ~Pending(u)
          BY <3>1, <4>1 DEF IInv, RunInvariant, Planned, Written
        <4> QED  BY <3>1, <4>1, <4>2, <4>3 DEF Progress, Settled, Describes, NothingDropped
      <3>3. CASE ~PutCheckpoint
        <4>1. Vouched
          <5>1. UNCHANGED <<config, checkpoint>>
            BY <1>3, <1>t, <3>3, Writers, StepKinds DEF workspace
          <5> QED  BY <2>2, <3>1, <5>1 DEF Vouched
        <4>2. snapshots[u] # None
          BY <3>1, <4>1 DEF NothingDropped, Present
        <4>3. ASSUME NEW v \in Units, ForceRemove(v) \/ DropDependent(v) PROVE FALSE
          BY <4>3 DEF NothingDropped, ForceRemove, DropDependent, At
        <4>4. ASSUME NEW v \in Units, RemoveDeleted(v) PROVE snapshots'[u] # None
          <5>1. /\ run.pc = "remove" /\ v \in run.todo
                /\ snapshots' = [snapshots EXCEPT ![v] = None]
            BY <4>4 DEF RemoveDeleted, RemoveSnapshot, At
          <5>2. run.sources[v] = Absent
            BY <5>1 DEF IInv, RunInvariant, Planned, Progress, At
          <5>3. run.sources = file
            BY <4>1, <5>1 DEF FreshInv, CheckpointHolds
          <5> QED  BY <1>t, <3>1, <4>2, <5>1, <5>2, <5>3
        <4>5. ASSUME CommitBatch PROVE snapshots'[u] # None
          BY <3>1, <4>2, <4>5 DEF CommitBatch
        <4>6. ASSUME NEW force \in BOOLEAN, IndexStart(force) PROVE UNCHANGED snapshots
          BY <4>6 DEF IndexStart, store
        <4>7. ASSUME NEW batch \in SUBSET Units, AnalyzeBatch(batch) \/ SourceVanished(batch)
              PROVE  UNCHANGED snapshots
          BY <4>7 DEF AnalyzeBatch, SourceVanished, store
        <4>8. ResolveManifest \/ PlanSources \/ EmptySelectionPanic \/ Abort => UNCHANGED snapshots
          BY DEF ResolveManifest, PlanSources, EmptySelectionPanic, Abort, store
        <4>9. PublishCatalog \/ PutManifest \/ ReplaceInputs => UNCHANGED snapshots
          BY DEF PublishCatalog, PutManifest, ReplaceInputs
        <4> QED
          BY <1>3, <3>3, <4>2, <4>3, <4>4, <4>5, <4>6, <4>7, <4>8, <4>9 DEF RunStep
      <3> QED  BY <3>2, <3>3
    <2> QED  BY <2>1, <2>2 DEF NothingDropped
  <1> QED  BY <1>1, <1>2, <1>3 DEF Next

\* Every reachable state satisfies the invariant of a covering status.
LEMMA CoverInvariance ==
    ASSUME ~RevertAllowed, ~ForceAllowed, NothingToDrop
    PROVE  Spec => [](IInv /\ FreshInv /\ CoverInv)
  <1>1. Init => CoverInv
    BY DEF Init, CoverInv, SeesItself, NothingDropped, Vouched, Idle
  <1>2. IInv /\ FreshInv /\ CoverInv /\ [Next]_vars => CoverInv'
    BY SeesItselfStep, NothingDroppedStep DEF CoverInv
  <1> QED  BY <1>1, <1>2, FreshInvariance, PTL DEF Spec

\* The shortcut status takes on a matching checkpoint: fresh means that the facts of
\* every file are stored under its text and the persisted manifest, and no others.  None
\* of the hypotheses can be dropped: an edit undone, a forced run that fails, and a
\* dependent removed for a changed API each leave a checkpoint that matches too much.
THEOREM FreshMeansCoveredHolds ==
    ASSUME ~RevertAllowed, ~ForceAllowed, NothingToDrop
    PROVE  Spec => []FreshMeansCovered
  <1>1. IInv /\ FreshInv /\ CoverInv => FreshMeansCovered
    <2> SUFFICES ASSUME IInv, FreshInv, CoverInv, Freshness = "fresh"
                 PROVE  /\ manifest = config /\ catalog = config
                        /\ \A u \in Units : IF file[u] = Absent THEN snapshots[u] = None
                                            ELSE Describes(u, file, config)
      BY DEF FreshMeansCovered
    <2>1. Vouched
      BY DEF Freshness, CheckpointMatches, SourceCheckpointMatches, Vouched
    <2>2. manifest = config /\ RowsDescribe(config)
      BY <2>1 DEF FreshInv, CheckpointHolds
    <2>3. ASSUME NEW u \in Units, file[u] = Absent, snapshots[u] # None PROVE FALSE
      <3>1. snapshots[u].content = Absent
        BY <2>2, <2>3 DEF RowsDescribe, Describes
      <3> QED  BY <2>3, <3>1, ConstantsAssumption DEF IInv, TypeOK, Snapshot
    <2>4. \A u \in Units : file[u] # Absent => snapshots[u] # None
      BY <2>1 DEF CoverInv, NothingDropped, Present
    <2> QED  BY <2>2, <2>3, <2>4 DEF RowsDescribe, FreshInv, ManifestFollows
  <1> QED  BY <1>1, CoverInvariance, PTL

-----------------------------------------------------------------------------
(* One run beside others: while nobody edits, every run found the workspace *)
(* there is, and writes nothing else.                                       *)

\* A stored row another text or another configuration was recorded for.
Outdated(u) == snapshots[u] # None /\ ~Describes(u, file, config)

\* Stored inputs that are current vouch for the manifest, a current manifest for
\* the catalog; and no table names a configuration that may still come.
TablesFollow ==
    /\ inputs = config /\ manifest # None => manifest = config
    /\ manifest = config => catalog = config
    /\ config \notin pastConfigs
    /\ inputs # None => inputs \in pastConfigs \cup {config}
    /\ manifest # None => manifest \in pastConfigs \cup {config}

\* The run describes the workspace there is, whatever others have written.
RunFollows ==
    /\ run.pc # "idle" => run.sources = file /\ run.inputs = config /\ run.epoch = edits
    /\ run.current /\ run.pc \in {"force", "resolve"} => inputs = config
    /\ run.pc \in {"force", "resolve", "plan"} => \A u \in Units : run.response[u] = None
    /\ run.pc \in Resolved => run.manifest = config
    /\ run.pc \in Fetching => run.lane \/ manifest = config
    /\ run.pc = "manifest" => catalog = config
    /\ run.pc \in {"inputs", "checkpoint"} => manifest = config
    /\ run.pc = "checkpoint" => inputs = config
    /\ run.pc \in Planned =>
          /\ PlanOfRun
          /\ \A u \in Units : Outdated(u) => Pending(u) \/ (At("remove") /\ u \in run.todo)
    /\ run.pc \in {"manifest", "inputs", "checkpoint"} => \A u \in Units : ~Pending(u)

\* The store holds the workspace there is, and a checkpoint that says so.
StoreCurrent ==
    /\ inputs = config /\ manifest = config /\ catalog = config
    /\ checkpoint = [manifest |-> config, inputs |-> config,
                     sources |-> file, catalog |-> config]
    /\ \A u \in Units : ~Outdated(u)

\* What a step of a run may do to the tables, as the other runs see it.
Beside ==
    /\ UNCHANGED <<file, config, edits, pastConfigs>>
    /\ inputs' \in {inputs, config}
    /\ manifest' \in {manifest, config}
    /\ catalog' \in {catalog, config}
    /\ \A u \in Units : Outdated(u)' => Outdated(u)
    /\ StoreCurrent' \/ (checkpoint' = checkpoint /\ quiet' \in {0, quiet})

\* A run does not notice such a step of another.
LEMMA BesideKeeps ==
    ASSUME RunFollows, Beside, UNCHANGED run
    PROVE  RunFollows'
  <1>1. \A u \in Units : Pending(u)' <=> Pending(u)
    BY DEF Pending
  <1>2. PlanOfRun => PlanOfRun'
    BY DEF PlanOfRun, Present
  <1> QED  BY <1>1, <1>2 DEF RunFollows, Beside, At

\* A complete run stays the last word on the workspace.
LEMMA BesideCovers ==
    ASSUME TypeOK, quiet >= 1 => StoreCurrent, Beside
    PROVE  quiet' >= 1 => StoreCurrent'
  <1> SUFFICES ASSUME quiet' >= 1, quiet' = quiet, checkpoint' = checkpoint PROVE StoreCurrent'
    BY DEF Beside
  <1> QED  BY DEF Beside, StoreCurrent

\* A run that begins finds the workspace there is.
LEMMA StartFollows ==
    ASSUME NEW force \in BOOLEAN, IndexStart(force)
    PROVE  RunFollows' /\ Beside
  <1>1. UNCHANGED <<file, config, edits, pastConfigs, inputs, manifest, catalog, snapshots,
                    checkpoint, quiet>>
    BY DEF IndexStart, workspace, store, history
  <1>2. /\ run'.pc \in {"force", "resolve"} /\ run'.sources = file /\ run'.inputs = config
        /\ run'.current = (inputs = config) /\ run'.epoch = edits
        /\ \A u \in Units : run'.response[u] = None
    BY StartShape
  <1> QED  BY <1>1, <1>2 DEF RunFollows, Beside, Outdated, Describes, Resolved, Fetching, Planned

\* A row is removed: the row was outdated, or the run writes it again if it must.
LEMMA RemoveFollows ==
    ASSUME TypeOK, RunFollows, NEW u \in Units,
           ForceRemove(u) \/ RemoveDeleted(u) \/ DropDependent(u)
    PROVE  RunFollows' /\ Beside
  <1>t. run \in RunState /\ snapshots \in [Units -> Snapshot \cup {None}]
    BY DEF TypeOK
  <1>1. /\ UNCHANGED <<file, config, edits, pastConfigs, inputs, manifest, catalog,
                       checkpoint, quiet>>
        /\ snapshots' = [snapshots EXCEPT ![u] = None]
    BY DEF ForceRemove, RemoveDeleted, DropDependent, RemoveSnapshot, workspace, history
  <1>2. /\ ~Outdated(u)'
        /\ \A v \in Units : Outdated(v)' => v # u /\ Outdated(v)
    BY <1>t, <1>1 DEF Outdated, Describes
  <1>3. CASE ForceRemove(u)
    <2>1. /\ run.pc = "force" /\ run'.pc \in {"force", "resolve"}
          /\ run'.sources = run.sources /\ run'.inputs = run.inputs /\ run'.epoch = run.epoch
          /\ run'.current = run.current /\ run'.response = run.response
      BY <1>t, <1>3 DEF ForceRemove, RunState, At, Phase
    <2> QED  BY <1>1, <1>2, <2>1 DEF RunFollows, Beside, Resolved, Fetching, Planned
  <1>4. CASE RemoveDeleted(u) \/ DropDependent(u)
    <2>1. /\ run.pc \in {"remove", "drop"}
          /\ run'.pc = Phase(run.pc, run.todo \ {u}, "analyze")
          /\ run'.todo = run.todo \ {u}
          /\ run'.sources = run.sources /\ run'.inputs = run.inputs /\ run'.epoch = run.epoch
          /\ run'.response = run.response /\ run'.manifest = run.manifest
          /\ run'.lane = run.lane /\ run'.reanalyze = run.reanalyze
          /\ run'.batches = run.batches
      <3>1. CASE RemoveDeleted(u)
        BY <1>t, <3>1 DEF RemoveDeleted, RunState, At
      <3>2. CASE DropDependent(u)
        BY <1>t, <3>2 DEF DropDependent, RunState, At
      <3> QED  BY <1>4, <3>1, <3>2
    <2>2. PlanOfRun' /\ \A v \in Units : Pending(v)' <=> Pending(v)
      BY <2>1 DEF RunFollows, Planned, PlanOfRun, Pending, Present, Phase
    <2>3. \A v \in Units : Outdated(v)' => Pending(v)' \/ (run'.pc = "remove" /\ v \in run'.todo)
      BY <1>2, <2>1, <2>2 DEF RunFollows, Planned, Phase, At
    <2>4. run'.pc \in {"remove", "drop", "analyze"}
      BY <2>1 DEF Phase
    <2>5. run.pc \in Resolved /\ run.pc \in Fetching
      BY <2>1 DEF Resolved, Fetching, Planned
    <2> QED  BY <1>1, <1>2, <2>1, <2>2, <2>3, <2>4, <2>5
             DEF RunFollows, Beside, Resolved, Fetching, Planned, At
  <1> QED  BY <1>3, <1>4

\* A manifest is only taken from the store when the stored inputs vouch for it.
LEMMA ResolveFollows ==
    ASSUME TypeOK, TablesFollow, RunFollows, ResolveManifest
    PROVE  RunFollows' /\ Beside
  <1>t. run \in RunState /\ config # None
    BY ConstantsAssumption DEF TypeOK
  <1>1. UNCHANGED <<file, config, edits, pastConfigs, inputs, manifest, catalog, snapshots,
                    checkpoint, quiet>>
    BY DEF ResolveManifest, workspace, store, history
  <1>2. /\ run.pc = "resolve" /\ run'.pc = "plan"
        /\ run'.sources = run.sources /\ run'.inputs = run.inputs /\ run'.epoch = run.epoch
        /\ run'.response = run.response
        /\ (run'.manifest = manifest /\ run.current /\ manifest # None) \/ run'.manifest = config
    BY <1>t DEF ResolveManifest, RunState, At
  <1> QED  BY <1>1, <1>2 DEF RunFollows, TablesFollow, Beside, Outdated, Describes, Resolved,
           Fetching, Planned

\* A plan names every outdated row, whoever wrote it.
LEMMA PlanFollows ==
    ASSUME TypeOK, RunFollows, PlanSources
    PROVE  RunFollows' /\ Beside
  <1>t. /\ run \in RunState /\ config # None
        /\ snapshots \in [Units -> Snapshot \cup {None}]
    BY ConstantsAssumption DEF TypeOK
  <1>1. /\ UNCHANGED <<file, config, edits, pastConfigs, inputs, manifest, catalog, snapshots,
                       checkpoint, quiet>>
        /\ run.pc = "plan"
    BY DEF PlanSources, workspace, store, history, At
  <1>2. PICK pc \in Phases, single \in BOOLEAN, batches \in SUBSET SUBSET Units, lane \in BOOLEAN :
             /\ UNION batches = Present(run.sources)
             /\ lane \/ manifest = run.manifest
             /\ pc = Phase("remove", Removed(run.sources), "analyze")
             /\ run' = [run EXCEPT !.pc = pc, !.single = single, !.batches = batches,
                                   !.reanalyze = Reanalyze(run.sources, run.manifest),
                                   !.lane = lane, !.todo = Removed(run.sources)]
    BY PlanShape
  <1>3. /\ run'.pc = Phase("remove", Removed(run.sources), "analyze")
        /\ run'.sources = run.sources /\ run'.inputs = run.inputs /\ run'.epoch = run.epoch
        /\ run'.response = run.response /\ run'.manifest = run.manifest
        /\ (run'.lane \/ manifest = run.manifest)
        /\ run'.reanalyze = Reanalyze(run.sources, run.manifest)
        /\ UNION run'.batches = Present(run.sources) /\ run'.todo = Removed(run.sources)
    BY <1>t, <1>2 DEF RunState
  <1>4. /\ run.sources = file /\ run.inputs = config /\ run.manifest = config
        /\ \A u \in Units : run.response[u] = None
    BY <1>1 DEF RunFollows, Resolved
  <1>5. PlanOfRun'
    BY <1>t, <1>3, <1>4 DEF PlanOfRun, Reanalyze, Present
  <1>6. ASSUME NEW u \in Units, Outdated(u)
        PROVE  Pending(u)' \/ (run'.pc = "remove" /\ u \in run'.todo)
    <2>1. CASE file[u] = Absent
      BY <1>3, <1>4, <1>6, <2>1 DEF Removed, Outdated, Phase
    <2>2. CASE file[u] # Absent
      <3>1. u \in Reanalyze(file, config) /\ u \in Present(file)
        BY <1>6, <2>2 DEF Outdated, Describes, Reanalyze, Present
      <3> QED  BY <1>3, <1>4, <3>1 DEF Pending
    <2> QED  BY <2>1, <2>2
  <1>7. run'.pc \in {"remove", "analyze"}
    BY <1>3 DEF Phase
  <1>8. \A u \in Units : Outdated(u)' <=> Outdated(u)
    BY <1>1 DEF Outdated, Describes
  <1> QED  BY <1>1, <1>3, <1>4, <1>5, <1>6, <1>7, <1>8
           DEF RunFollows, Beside, Resolved, Fetching, Planned, At

\* A source that is sent to the worker stays pending until its response is committed.
LEMMA AnalyzeFollows ==
    ASSUME TypeOK, RunFollows, NEW batch \in SUBSET Units, AnalyzeBatch(batch)
    PROVE  RunFollows' /\ Beside
  <1>t. run \in RunState
    BY DEF TypeOK
  <1>1. /\ UNCHANGED <<file, config, edits, pastConfigs, inputs, manifest, catalog, snapshots,
                       checkpoint, quiet>>
        /\ run.pc = "analyze" /\ batch \in run.batches
    BY DEF AnalyzeBatch, workspace, store, history, At
  <1>2. /\ run'.pc = "commit" /\ run'.batches = run.batches \ {batch}
        /\ run'.sources = run.sources /\ run'.inputs = run.inputs /\ run'.epoch = run.epoch
        /\ run'.manifest = run.manifest /\ run'.lane = run.lane
        /\ run'.reanalyze = run.reanalyze
        /\ \A u \in Units : run'.response[u] = IF u \in Requested(batch) THEN Analysis(u) ELSE None
    BY <1>t DEF AnalyzeBatch, RunState
  <1>3. PlanOfRun
    BY <1>1 DEF RunFollows, Planned
  <1>4. \A u \in Units : u \in Requested(batch) => Analysis(u) # None
    BY <1>t, <1>3, AnalysisTyped, ConstantsAssumption DEF PlanOfRun, Requested, Present
  <1>5. \A u \in Units : Pending(u) => Pending(u)'
    BY <1>1, <1>2, <1>3, <1>4 DEF Pending, Requested, PlanOfRun
  <1>6. PlanOfRun'
    <2>1. \A u \in Units : /\ Analysis(u).content = run.sources[u]
                           /\ Analysis(u).context = run.manifest
      BY DEF Analysis
    <2>2. \A u \in Requested(batch) : run.sources[u] # Absent
      BY <1>3 DEF PlanOfRun, Requested, Present
    <2> QED  BY <1>2, <1>3, <2>1, <2>2 DEF PlanOfRun, Present
  <1>7. \A u \in Units : Outdated(u)' <=> Outdated(u)
    BY <1>1 DEF Outdated, Describes
  <1> QED  BY <1>1, <1>2, <1>5, <1>6, <1>7 DEF RunFollows, Beside, Resolved, Fetching, Planned, At

\* A response replaces rows by rows of the workspace there is.
LEMMA CommitFollows ==
    ASSUME TypeOK, RunFollows, CommitBatch
    PROVE  RunFollows' /\ Beside
  <1>t. run \in RunState
    BY DEF TypeOK
  <1>1. /\ UNCHANGED <<file, config, edits, pastConfigs, inputs, manifest, catalog,
                       checkpoint, quiet>>
        /\ run.pc = "commit"
        /\ \A u \in Units : snapshots'[u] = IF run.response[u] # None THEN run.response[u]
                                                                      ELSE snapshots[u]
    BY DEF CommitBatch, workspace, history, At
  <1>2. PICK drop :
           run' = [run EXCEPT !.pc = Phase("drop", drop, "analyze"),
                              !.response = [u \in Units |-> None], !.todo = drop]
    BY DEF CommitBatch
  <1>3. /\ run'.pc \in {"drop", "analyze"} /\ run'.batches = run.batches
        /\ run'.sources = run.sources /\ run'.inputs = run.inputs /\ run'.epoch = run.epoch
        /\ run'.manifest = run.manifest /\ run'.lane = run.lane
        /\ run'.reanalyze = run.reanalyze
        /\ \A u \in Units : run'.response[u] = None
    BY <1>t, <1>2 DEF RunState, Phase
  <1>4. /\ PlanOfRun /\ run.sources = file /\ run.manifest = config
        /\ \A u \in Units : Outdated(u) => Pending(u)
    BY <1>1 DEF RunFollows, Planned, Resolved, At
  <1>5. \A u \in Units : run.response[u] # None => ~Outdated(u)'
    BY <1>1, <1>4 DEF PlanOfRun, Outdated, Describes
  <1>6. \A u \in Units : run.response[u] = None => (Outdated(u)' <=> Outdated(u))
    BY <1>1 DEF Outdated, Describes
  <1>7. \A u \in Units : run.response[u] = None => (Pending(u)' <=> Pending(u))
    BY <1>3 DEF Pending
  <1>8. PlanOfRun'
    BY <1>3, <1>4 DEF PlanOfRun, Present
  <1> QED  BY <1>1, <1>3, <1>4, <1>5, <1>6, <1>7, <1>8
           DEF RunFollows, Beside, Resolved, Fetching, Planned, At

\* The tables that make a status fresh are written with the configuration there is,
\* when no outdated row is left.
LEMMA WritesFollow ==
    ASSUME TypeOK, TablesFollow, RunFollows, PublishCatalog \/ PutManifest \/ ReplaceInputs
    PROVE  /\ RunFollows' /\ Beside
           /\ inputs' # inputs => manifest' = config
           /\ manifest' # manifest => catalog' = config
  <1>t. run \in RunState
    BY DEF TypeOK
  <1>1. /\ UNCHANGED <<file, config, edits, pastConfigs, snapshots, checkpoint, quiet>>
        /\ run.pc \in {"analyze", "manifest", "inputs"}
        /\ run'.pc \in {"manifest", "inputs", "checkpoint"}
        /\ run'.sources = run.sources /\ run'.inputs = run.inputs /\ run'.epoch = run.epoch
        /\ run'.manifest = run.manifest /\ run'.lane = run.lane
        /\ run'.response = run.response /\ run'.reanalyze = run.reanalyze
        /\ run'.batches = run.batches
    BY <1>t DEF PublishCatalog, PutManifest, ReplaceInputs, RunState, workspace, history, At
  <1>2. /\ run.sources = file /\ run.inputs = config /\ run.epoch = edits /\ PlanOfRun
        /\ run.pc # "inputs" => run.manifest = config \/ run.pc = "manifest"
        /\ \A u \in Units : Outdated(u) => Pending(u)
    BY <1>1 DEF RunFollows, Planned, Resolved, At
  <1>3. run.manifest = config
    BY <1>1 DEF RunFollows, Resolved, Planned
  <1>4. \A u \in Units : ~Pending(u)
    <2>1. CASE run.pc = "analyze"
      <3>1. BatchesDone
        BY <2>1 DEF PublishCatalog, PutManifest, ReplaceInputs, At
      <3> QED  BY <1>2, <2>1, <3>1 DEF Pending, PlanOfRun, BatchesDone, Requested
    <2>2. CASE run.pc # "analyze"
      BY <1>1, <2>2 DEF RunFollows
    <2> QED  BY <2>1, <2>2
  <1>5. /\ PlanOfRun'
        /\ \A u \in Units : ~Pending(u)' /\ ~Outdated(u)'
    BY <1>1, <1>2, <1>4 DEF PlanOfRun, Pending, Present, Outdated, Describes
  <1>6. CASE PublishCatalog
    <2>1. UNCHANGED <<manifest, inputs>> /\ catalog' = run.manifest /\ run'.pc = "manifest"
      BY <1>t, <1>6 DEF PublishCatalog, RunState
    <2> QED  BY <1>1, <1>2, <1>3, <1>5, <2>1 DEF RunFollows, Beside, Resolved, Fetching, Planned, At
  <1>7. CASE PutManifest
    <2>1. /\ UNCHANGED <<inputs, catalog>> /\ manifest' = run.manifest /\ run'.pc = "inputs"
          /\ run.pc = "manifest" \/ (run.pc = "analyze" /\ ~run.lane)
      BY <1>t, <1>7 DEF PutManifest, RunState, At
    <2>2. catalog = config
      BY <2>1 DEF RunFollows, TablesFollow, Fetching
    <2> QED  BY <1>1, <1>2, <1>3, <1>5, <2>1, <2>2
             DEF RunFollows, Beside, Resolved, Fetching, Planned, At
  <1>8. CASE ReplaceInputs
    <2>1. /\ UNCHANGED <<manifest, catalog>> /\ inputs' = run.inputs
          /\ run.pc = "inputs" /\ run'.pc = "checkpoint"
      BY <1>t, <1>8 DEF ReplaceInputs, RunState, At
    <2>2. manifest = config
      BY <2>1 DEF RunFollows
    <2> QED  BY <1>1, <1>2, <1>3, <1>5, <2>1, <2>2
             DEF RunFollows, Beside, Resolved, Fetching, Planned, At
  <1> QED  BY <1>6, <1>7, <1>8

\* A run that ends complete leaves a store that is current as a whole.
LEMMA EndFollows ==
    ASSUME TypeOK, TablesFollow, RunFollows,
           \/ PutCheckpoint \/ EmptySelectionPanic \/ Abort
           \/ \E batch \in SUBSET Units : SourceVanished(batch)
    PROVE  RunFollows' /\ Beside
  <1>1. run' = Idle /\ UNCHANGED <<workspace, edits, pastConfigs, snapshots, inputs, manifest, catalog>>
    BY DEF PutCheckpoint, EmptySelectionPanic, Abort, SourceVanished, store
  <1>2. RunFollows'
    BY <1>1 DEF RunFollows, Idle, Resolved, Fetching, Planned
  <1>3. \A u \in Units : Outdated(u)' <=> Outdated(u)
    BY <1>1 DEF Outdated, Describes, workspace
  <1>4. CASE PutCheckpoint
    <2>1. run.pc = "checkpoint" /\ checkpoint' = CheckpointOfRun
      BY <1>4 DEF PutCheckpoint, At
    <2>2. /\ run.sources = file /\ run.inputs = config /\ run.manifest = config
          /\ manifest = config /\ inputs = config
          /\ \A u \in Units : ~Outdated(u)
      BY <2>1 DEF RunFollows, Resolved, Planned, At
    <2>3. catalog = config
      BY <2>2 DEF TablesFollow
    <2> QED  BY <1>1, <1>2, <1>3, <2>1, <2>2, <2>3
             DEF Beside, StoreCurrent, CheckpointOfRun, workspace
  <1>5. CASE ~PutCheckpoint
    <2>1. checkpoint' = checkpoint /\ quiet' = 0
      BY <1>5 DEF EmptySelectionPanic, Abort, SourceVanished, store
    <2> QED  BY <1>1, <1>2, <1>3, <2>1 DEF Beside, workspace
  <1> QED  BY <1>4, <1>5

\* A step of a run keeps what it knows, and what every other run relies on.
LEMMA RunStepFollows ==
    ASSUME TypeOK, TablesFollow, RunFollows, RunStep
    PROVE  TypeOK' /\ TablesFollow' /\ RunFollows' /\ Beside
  <1>1. TypeOK'
    <2>1. run.pc = "analyze" =>
             run.manifest # None /\ run.reanalyze \subseteq Present(run.sources)
      BY DEF RunFollows, Planned, PlanOfRun
    <2>2. run.pc = "checkpoint" => run.manifest # None /\ run.inputs # None /\ catalog # None
      BY ConstantsAssumption DEF RunFollows, Planned, PlanOfRun, TablesFollow, TypeOK
    <2> QED  BY <2>1, <2>2, TypeKept DEF Next
  <1>2. CASE PublishCatalog \/ PutManifest \/ ReplaceInputs
    <2>1. /\ RunFollows' /\ Beside
          /\ inputs' # inputs => manifest' = config
          /\ manifest' # manifest => catalog' = config
      BY <1>2, WritesFollow
    <2>2. TablesFollow'
      BY <2>1 DEF TablesFollow, Beside
    <2> QED  BY <1>1, <2>1, <2>2
  <1>3. CASE ~(PublishCatalog \/ PutManifest \/ ReplaceInputs)
    <2>1. RunFollows' /\ Beside
      BY <1>3, StartFollows, RemoveFollows, ResolveFollows, PlanFollows, AnalyzeFollows,
         CommitFollows, EndFollows DEF RunStep
    <2>2. UNCHANGED <<manifest, inputs, catalog>>
      BY <1>3, Writers
    <2> QED  BY <1>1, <2>1, <2>2 DEF TablesFollow, Beside
  <1> QED  BY <1>2, <1>3

\* An edit while no run is active leaves nothing to keep but the order of the tables.
LEMMA EditFollows ==
    ASSUME ~RevertAllowed, TypeOK, TablesFollow, Edit
    PROVE  /\ TypeOK' /\ TablesFollow' /\ UNCHANGED run /\ quiet' = 0
           /\ run.pc = "idle" => RunFollows'
  <1>t. config # None
    BY ConstantsAssumption DEF TypeOK
  <1>1. /\ UNCHANGED <<inputs, manifest, catalog, run>> /\ quiet' = 0
        /\ \/ UNCHANGED <<config, pastConfigs>>
           \/ config' \in Configs \ (pastConfigs \cup {config})
              /\ pastConfigs' = pastConfigs \cup {config}
    BY DEF Edit, EditFile, EditConfig, store
  <1>2. TypeOK'
    <2>1. ASSUME NEW u \in Units, NEW state \in FileState, EditFile(u, state) PROVE TypeOK'
      BY <2>1 DEF TypeOK, EditFile, Inventory, store
    <2>2. ASSUME NEW c \in Configs, EditConfig(c) PROVE TypeOK'
      BY <2>2 DEF TypeOK, EditConfig, store
    <2> QED  BY <2>1, <2>2 DEF Edit
  <1>3. TablesFollow'
    BY <1>1, ConstantsAssumption DEF TablesFollow
  <1>4. run.pc = "idle" => RunFollows'
    <2>1. SUFFICES ASSUME run.pc = "idle" PROVE RunFollows'
      OBVIOUS
    <2>2. run'.pc = "idle"
      BY <1>1, <2>1
    <2> QED  BY <2>2 DEF RunFollows, Resolved, Fetching, Planned
  <1> QED  BY <1>1, <1>2, <1>3, <1>4
=============================================================================
