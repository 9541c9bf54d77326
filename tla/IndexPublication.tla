-------------------------- MODULE IndexPublication --------------------------
(***************************************************************************)
(* One `kide index` invocation publishing a workspace into its SQLite      *)
(* index, and `kide status` judging what the index holds.                  *)
(*                                                                         *)
(* The command is a sequence of short transactions: nothing spans a run.   *)
(* A run may therefore stop (a worker error, an I/O error, a kill) between *)
(* any two of them, and the next invocation starts from whatever they      *)
(* left.  The user edits sources and build files at any time.              *)
(*                                                                         *)
(* A file is its content.  A manifest is the build configuration it was    *)
(* resolved from; a source's context is its manifest; the dependency       *)
(* catalog is the manifest it was discovered for.                          *)
(***************************************************************************)
EXTENDS Naturals, FiniteSets

CONSTANTS
    Units,            \* source units (one source file each)
    Contents,         \* contents a source file can have
    Configs,          \* states of the build and workspace configuration inputs
    Refs,             \* Refs[u]: the units whose declarations u refers to
    Api,              \* Api[c]: the public API fingerprint of content c
    Ids,              \* Ids[c]: the symbol IDs of content c's declarations
    Absent,           \* no such file
    None,             \* no such row

    ForceAllowed,     \* whether `--force` is used
    RevertAllowed,    \* whether an edit may restore an earlier workspace state
    EditsDuringRun,   \* whether the workspace may change while a run is active
    MaxEdits,         \* bound on the number of edits
    MaxFailures       \* bound on the number of runs that stop early

FileState == Contents \cup {Absent}
Inventory == [Units -> FileState]

\* A source_snapshots row with the facts it owns: the content and the context
\* it is recorded under, and the contents its facts were really computed from.
Snapshot == [content : Contents, context : Configs, saw : Inventory]

Checkpoint == [manifest : Configs, inputs : Configs,
               sources : Inventory, catalog : Configs]

ASSUME ConstantsAssumption ==
    /\ Refs \in [Units -> SUBSET Units]
    /\ DOMAIN Api = Contents
    /\ DOMAIN Ids = Contents
    /\ Absent \notin Contents
    /\ None \notin Configs
    /\ None \notin Snapshot
    /\ None \notin Checkpoint
    /\ ForceAllowed \in BOOLEAN
    /\ RevertAllowed \in BOOLEAN
    /\ EditsDuringRun \in BOOLEAN
    /\ MaxEdits \in Nat
    /\ MaxFailures \in Nat

-----------------------------------------------------------------------------

VARIABLES
    (* the workspace *)
    file,           \* what is on disk
    config,         \* the configuration inputs on disk
    (* the store: one variable for each table the commands write *)
    snapshots,      \* source_snapshots and the facts each row owns
    manifest,       \* project_manifests
    catalog,        \* artifact_catalog
    inputs,         \* configuration_inputs
    checkpoint,     \* workspace_checkpoints
    (* the invocation *)
    run,
    (* history and bounds *)
    edits,          \* edits so far
    failures,       \* runs stopped early so far
    pastFiles,      \* inventories an edit left behind (kept unless RevertAllowed)
    pastConfigs,    \* configurations an edit left behind (kept unless RevertAllowed)
    quiet           \* complete runs since the last edit or failure (at most 2)

workspace == <<file, config>>
store == <<snapshots, manifest, catalog, inputs, checkpoint>>
history == <<edits, failures, pastFiles, pastConfigs, quiet>>
vars == <<workspace, store, run, history>>

Phases == {"idle", "force", "resolve", "plan", "remove", "analyze", "commit",
           "drop", "manifest", "inputs", "checkpoint"}

RunState ==
    [pc         : Phases,
     force      : BOOLEAN,
     sources    : Inventory,                  \* discovery.source_units
     inputs     : Configs \cup {None},        \* configuration_input_records
     current    : BOOLEAN,                    \* every input state is Current
     manifest   : Configs \cup {None},        \* resolved_plan.manifest
     single     : BOOLEAN,                    \* selection.batches.len() == 1
     batches    : SUBSET SUBSET Units,        \* selected batches not yet requested
     reanalyze  : SUBSET Units,
     lane       : BOOLEAN,                    \* a dependency lane was started
     response   : [Units -> Snapshot \cup {None}],
     todo       : SUBSET Units,               \* remove_snapshot calls still to make
     dropped    : SUBSET Units,               \* API dependents removed so far
     epoch      : Nat]                        \* edits made before the run began

Idle ==
    [pc |-> "idle", force |-> FALSE, sources |-> [u \in Units |-> Absent],
     inputs |-> None, current |-> FALSE, manifest |-> None, single |-> FALSE,
     batches |-> {}, reanalyze |-> {}, lane |-> FALSE,
     response |-> [u \in Units |-> None], todo |-> {}, dropped |-> {},
     epoch |-> 0]

Present(inventory) == {u \in Units : inventory[u] # Absent}

-----------------------------------------------------------------------------
(* What `kide status` answers. *)

\* source_checkpoint_matches
SourceCheckpointMatches ==
    /\ checkpoint # None
    /\ checkpoint.manifest = manifest
    /\ checkpoint.sources = file

\* checkpoint_matches
CheckpointMatches ==
    /\ SourceCheckpointMatches
    /\ checkpoint.inputs = config
    /\ checkpoint.catalog = catalog

\* counts.stale and counts.unknown: a matching checkpoint stands for every
\* snapshot, otherwise each persisted row is compared with its file.
StaleUnits ==
    IF SourceCheckpointMatches THEN {}
    ELSE {u \in Units : /\ snapshots[u] # None
                        /\ file[u] # Absent
                        /\ snapshots[u].content # file[u]}
UnknownUnits ==
    IF SourceCheckpointMatches THEN {}
    ELSE {u \in Units : snapshots[u] # None /\ file[u] = Absent}

Freshness ==
    IF manifest = None THEN "no_result"
    ELSE IF checkpoint = None THEN "unknown"
    ELSE IF StaleUnits # {} \/ inputs # config \/ ~CheckpointMatches THEN "stale"
    ELSE IF UnknownUnits # {} THEN "unknown"
    ELSE "fresh"

-----------------------------------------------------------------------------
(* Planning: pure functions of the discovered inventory and the store. *)

\* Faulty variant of the next definition: the context is not compared.
ReanalyzeKeepingContext(sources, context) ==
    {u \in Present(sources) :
        \/ snapshots[u] = None
        \/ snapshots[u].content # sources[u]}

\* plan_invalidation / plan_analysis_invalidation: Reanalyze actions.
Reanalyze(sources, context) ==
    {u \in Present(sources) :
        \/ snapshots[u] = None
        \/ snapshots[u].context # context
        \/ snapshots[u].content # sources[u]}

\* Faulty variant of the next definition: deleted sources are forgotten.
RemoveNothing(sources) == {}

\* plan_invalidation / plan_analysis_invalidation: Remove actions.
Removed(sources) ==
    {u \in Units : snapshots[u] # None /\ sources[u] = Absent}

\* select_discovered_with_batch_limit: groups by component and language, cut
\* into chunks of a configurable limit.  Any partition of the sources is one.
Batchings(units) ==
    {P \in SUBSET ((SUBSET units) \ {{}}) :
        /\ UNION P = units
        /\ \A A, B \in P : A # B => A \cap B = {}}

\* The edges stored for u name symbols that are stored for v: a symbol ID holds
\* the offset of the declaration in the text it was analysed from.
EdgesInto(u, v) == Ids[snapshots[u].saw[v]] = Ids[snapshots[v].saw[v]]

\* u and v have facts, and u's hold edges to declarations of v.
Refers(u, v) ==
    /\ v \in Refs[u] \ {u}
    /\ snapshots[u] # None
    /\ snapshots[v] # None
    /\ snapshots[u].saw[v] # Absent

\* dependent_source_units: owners of stored edges into v's stored symbols.
Dependents(v) == {u \in Units : Refers(u, v) /\ EdgesInto(u, v)}

\* api_dependent_invalidations over a response, before it replaces the store.
ApiDependents(response) ==
    UNION {Dependents(v) :
             v \in {w \in Units :
                      /\ response[w] # None
                      /\ snapshots[w] # None
                      /\ Api[snapshots[w].saw[w]] # Api[response[w].saw[w]]}}

\* What the worker returns for u: facts of the files as they are on disk now,
\* under the source unit it was sent.
Analysis(u) ==
    [content |-> run.sources[u],
     context |-> run.manifest,
     saw     |-> [v \in Units |-> IF v \in Refs[u] \cup {u} THEN file[v] ELSE Absent]]

-----------------------------------------------------------------------------
(* The run.  Each action is one transaction or one read. *)

At(phase) == run.pc = phase

\* A phase that removes snapshots one transaction at a time, skipped when empty.
Phase(name, todo, next) == IF todo = {} THEN next ELSE name

\* index_with_source_metadata and the head of index: discovery, then the
\* comparison of the configuration inputs with the persisted ones.
IndexStart(force) ==
    /\ At("idle")
    /\ force => ForceAllowed
    /\ LET todo == IF force THEN Present(file) ELSE {} IN
       run' = [Idle EXCEPT !.pc = Phase("force", todo, "resolve"),
                           !.force = force,
                           !.sources = file,
                           !.inputs = config,
                           !.current = (inputs = config),
                           !.todo = todo,
                           !.epoch = edits]
    /\ UNCHANGED <<workspace, store, history>>

RemoveSnapshot(u) == snapshots' = [snapshots EXCEPT ![u] = None]

\* --force: remove_snapshot for every discovered source.
ForceRemove(u) ==
    /\ At("force")
    /\ u \in run.todo
    /\ RemoveSnapshot(u)
    /\ run' = [run EXCEPT !.todo = @ \ {u},
                          !.pc = Phase("force", run.todo \ {u}, "resolve")]
    /\ UNCHANGED <<workspace, manifest, catalog, inputs, checkpoint, history>>

\* cached_manifest, or resolve_project_manifest: the build worker reads the
\* build files as they are now, not as discovery saw them.
ResolveManifest ==
    /\ At("resolve")
    /\ run' = [run EXCEPT !.pc = "plan",
                          !.manifest = IF ~run.force /\ run.current /\ manifest # None
                                       THEN manifest ELSE config]
    /\ UNCHANGED <<workspace, store, history>>

\* Selection and planning.  One batch takes the cache-aware path, any other
\* number the multi-batch path; they start the dependency lane differently.
PlanSources ==
    /\ At("plan")
    /\ \E batches \in Batchings(Present(run.sources)) :
         LET single == Cardinality(batches) = 1
             again  == Reanalyze(run.sources, run.manifest)
             gone   == Removed(run.sources)
         IN run' = [run EXCEPT !.pc = Phase("remove", gone, "analyze"),
                               !.single = single,
                               !.batches = batches,
                               !.reanalyze = again,
                               !.lane = \/ manifest # run.manifest
                                        \/ ~single /\ again # {},
                               !.todo = gone]
    /\ UNCHANGED <<workspace, store, history>>

\* IndexAction::Remove
RemoveDeleted(u) ==
    /\ At("remove")
    /\ u \in run.todo
    /\ RemoveSnapshot(u)
    /\ run' = [run EXCEPT !.todo = @ \ {u},
                          !.pc = Phase("remove", run.todo \ {u}, "analyze")]
    /\ UNCHANGED <<workspace, manifest, catalog, inputs, checkpoint, history>>

\* The sources of a batch that are sent to the worker.
Requested(batch) == batch \cap run.reanalyze

\* The worker analyses one batch, outside any transaction.
AnalyzeBatch(batch) ==
    /\ At("analyze")
    /\ batch \in run.batches
    /\ Requested(batch) # {}
    /\ \A u \in Requested(batch) : file[u] # Absent
    /\ run' = [run EXCEPT !.pc = "commit",
                          !.batches = @ \ {batch},
                          !.response = [u \in Units |->
                              IF u \in Requested(batch) THEN Analysis(u) ELSE None]]
    /\ UNCHANGED <<workspace, store, history>>

\* A requested file is gone by the time the worker opens it: the worker reports
\* an error and the command returns it.
SourceVanished(batch) ==
    /\ At("analyze")
    /\ batch \in run.batches
    /\ \E u \in Requested(batch) : file[u] = Absent
    /\ run' = Idle
    /\ quiet' = 0
    /\ UNCHANGED <<workspace, store, edits, failures, pastFiles, pastConfigs>>

\* replace_snapshots_batch.  Only the single-batch path computes the units that
\* depend on a changed API, from the rows the commit is about to replace.
CommitBatch ==
    /\ At("commit")
    /\ snapshots' = [u \in Units |-> IF run.response[u] # None THEN run.response[u]
                                                             ELSE snapshots[u]]
    /\ LET drop == IF run.single THEN ApiDependents(run.response) \ run.reanalyze
                                 ELSE {}
       IN run' = [run EXCEPT !.pc = Phase("drop", drop, "analyze"),
                             !.response = [u \in Units |-> None],
                             !.todo = drop]
    /\ UNCHANGED <<workspace, manifest, catalog, inputs, checkpoint, history>>

\* remove_snapshot for one API dependent outside the batch.
DropDependent(u) ==
    /\ At("drop")
    /\ u \in run.todo
    /\ RemoveSnapshot(u)
    /\ run' = [run EXCEPT !.todo = @ \ {u},
                          !.dropped = @ \cup {u},
                          !.pc = Phase("drop", run.todo \ {u}, "analyze")]
    /\ UNCHANGED <<workspace, manifest, catalog, inputs, checkpoint, history>>

\* No selected batch holds a source that is still to be analysed.
BatchesDone == \A batch \in run.batches : Requested(batch) = {}

\* `selection.batches.first().expect(...)`: a workspace without sources has no
\* batch to take the dependency lane's worker from.
EmptySelectionPanic ==
    /\ At("analyze")
    /\ Present(run.sources) = {}
    /\ run.lane
    /\ run' = Idle
    /\ quiet' = 0
    /\ UNCHANGED <<workspace, store, edits, failures, pastFiles, pastConfigs>>

\* Joining the lane: replace_artifact_descriptors.
PublishCatalog ==
    /\ At("analyze")
    /\ BatchesDone
    /\ run.lane
    /\ Present(run.sources) # {}
    /\ catalog' = run.manifest
    /\ run' = [run EXCEPT !.pc = "manifest"]
    /\ UNCHANGED <<workspace, snapshots, manifest, inputs, checkpoint, history>>

\* Faulty variant of the next definition: the manifest before its catalog.
PutManifestWithoutLane ==
    /\ At("manifest") \/ (At("analyze") /\ BatchesDone)
    /\ manifest' = run.manifest
    /\ run' = [run EXCEPT !.pc = "inputs"]
    /\ UNCHANGED <<workspace, snapshots, catalog, inputs, checkpoint, history>>

\* put_manifest, the last write of either orchestrator path.
PutManifest ==
    /\ \/ At("manifest")
       \/ At("analyze") /\ BatchesDone /\ ~run.lane
    /\ manifest' = run.manifest
    /\ run' = [run EXCEPT !.pc = "inputs"]
    /\ UNCHANGED <<workspace, snapshots, catalog, inputs, checkpoint, history>>

\* replace_configuration_inputs with the records discovery read.
ReplaceInputs ==
    /\ At("inputs")
    /\ inputs' = run.inputs
    /\ run' = [run EXCEPT !.pc = "checkpoint"]
    /\ UNCHANGED <<workspace, snapshots, manifest, catalog, checkpoint, history>>

\* Faulty variant of the next definition: the files as they are now, not as discovered.
CheckpointOfCurrentFiles ==
    [manifest |-> run.manifest, inputs |-> run.inputs,
     sources |-> file, catalog |-> catalog]

\* put_workspace_checkpoint; the catalog fingerprint is read back from the store.
CheckpointOfRun ==
    [manifest |-> run.manifest, inputs |-> run.inputs,
     sources |-> run.sources, catalog |-> catalog]

PutCheckpoint ==
    /\ At("checkpoint")
    /\ checkpoint' = CheckpointOfRun
    /\ run' = Idle
    /\ quiet' = IF run.epoch = edits THEN (IF quiet = 0 THEN 1 ELSE 2) ELSE 0
    /\ UNCHANGED <<workspace, snapshots, manifest, catalog, inputs,
                   edits, failures, pastFiles, pastConfigs>>

\* Any `?` of the command, or the end of its process, between two transactions.
Abort ==
    /\ ~At("idle")
    /\ failures < MaxFailures
    /\ failures' = failures + 1
    /\ run' = Idle
    /\ quiet' = 0
    /\ UNCHANGED <<workspace, store, edits, pastFiles, pastConfigs>>

RunStep ==
    \/ \E force \in BOOLEAN : IndexStart(force)
    \/ \E u \in Units : ForceRemove(u)
    \/ ResolveManifest
    \/ PlanSources
    \/ \E u \in Units : RemoveDeleted(u)
    \/ \E batch \in SUBSET Units : AnalyzeBatch(batch)
    \/ \E batch \in SUBSET Units : SourceVanished(batch)
    \/ CommitBatch
    \/ \E u \in Units : DropDependent(u)
    \/ EmptySelectionPanic
    \/ PublishCatalog
    \/ PutManifest
    \/ ReplaceInputs
    \/ PutCheckpoint
    \/ Abort

-----------------------------------------------------------------------------
(* The user. *)

MayEdit ==
    /\ edits < MaxEdits
    /\ EditsDuringRun \/ At("idle")

EditFile(u, state) ==
    LET next == [file EXCEPT ![u] = state] IN
    /\ MayEdit
    /\ state # file[u]
    /\ next \notin pastFiles
    /\ file' = next
    /\ pastFiles' = IF RevertAllowed THEN pastFiles ELSE pastFiles \cup {file}
    /\ edits' = edits + 1
    /\ quiet' = 0
    /\ UNCHANGED <<config, store, run, failures, pastConfigs>>

EditConfig(c) ==
    /\ MayEdit
    /\ c # config
    /\ c \notin pastConfigs
    /\ config' = c
    /\ pastConfigs' = IF RevertAllowed THEN pastConfigs ELSE pastConfigs \cup {config}
    /\ edits' = edits + 1
    /\ quiet' = 0
    /\ UNCHANGED <<file, store, run, failures, pastFiles>>

Edit ==
    \/ \E u \in Units, state \in FileState : EditFile(u, state)
    \/ \E c \in Configs : EditConfig(c)

Init ==
    /\ file \in Inventory
    /\ config \in Configs
    /\ snapshots = [u \in Units |-> None]
    /\ manifest = None
    /\ catalog = None
    /\ inputs = None
    /\ checkpoint = None
    /\ run = Idle
    /\ edits = 0
    /\ failures = 0
    /\ pastFiles = {}
    /\ pastConfigs = {}
    /\ quiet = 0

Next == RunStep \/ Edit

Spec == Init /\ [][Next]_vars

-----------------------------------------------------------------------------
(* Properties. *)

\* Every table and every local of the command holds a value of its type.
TypeOK ==
    /\ file \in Inventory
    /\ config \in Configs
    /\ snapshots \in [Units -> Snapshot \cup {None}]
    /\ manifest \in Configs \cup {None}
    /\ catalog \in Configs \cup {None}
    /\ inputs \in Configs \cup {None}
    /\ checkpoint \in Checkpoint \cup {None}
    /\ run \in RunState
    /\ edits \in Nat
    /\ failures \in Nat
    /\ pastFiles \in SUBSET Inventory
    /\ pastConfigs \in SUBSET Configs
    /\ quiet \in 0..2

Describes(u, sources, context) ==
    /\ snapshots[u] # None
    /\ snapshots[u].content = sources[u]
    /\ snapshots[u].context = context

\* When index is about to write its checkpoint, the store holds exactly the
\* inventory the checkpoint will vouch for, under the manifest it names,
\* whatever failed runs, forced runs and edits came before and whatever the
\* user changed meanwhile: no row of a deleted source, no row recorded under
\* another content or context, and no row missing except API dependents that
\* this very run removed.
PublishedInventory ==
    At("checkpoint") =>
        /\ manifest = run.manifest
        /\ inputs = run.inputs
        /\ \A u \in Units :
              IF run.sources[u] = Absent THEN snapshots[u] = None
              ELSE u \in run.dropped \/ Describes(u, run.sources, run.manifest)

\* `kide index` on a workspace nobody edits converges, whatever state failures
\* left: after one complete run status answers fresh and every stored row is
\* recorded under the content on disk; after two, no row is missing either,
\* so the API dependents the first run removed are back.
QuietRunsConverge ==
    At("idle") =>
        /\ quiet >= 1 =>
              /\ Freshness = "fresh"
              /\ \A u \in Units : snapshots[u] # None => Describes(u, file, manifest)
        /\ quiet = 2 =>
              \A u \in Present(file) : Describes(u, file, manifest)

\* What the comment in status relies on to skip the snapshot query: when it
\* answers fresh, every file has its facts, recorded under the content on disk
\* and the persisted manifest, no deleted file has any, and the manifest and
\* the dependency catalog are those of the current configuration.
FreshMeansCovered ==
    Freshness = "fresh" =>
        /\ manifest = config
        /\ catalog = manifest
        /\ \A u \in Units : IF file[u] = Absent THEN snapshots[u] = None
                                                ELSE Describes(u, file, manifest)

\* ADR 0002: facts are committed only for the content they were computed from.
FactsMatchContent ==
    \A u \in Units : snapshots[u] # None => snapshots[u].saw[u] = snapshots[u].content

\* "Over-invalidates instead of exposing a semantic fact from a prior input": when
\* status answers fresh, the edges stored for a source lead to the declarations
\* stored for the source they point into.
EdgesResolve ==
    Freshness = "fresh" /\ At("idle") =>
        \A u, v \in Units : Refers(u, v) => EdgesInto(u, v)

=============================================================================
