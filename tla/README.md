# kide in TLA+

TLA+ models of kide's indexing core, the TLC runs that check them on small
instances, and TLAPS proofs of the invariants that matter most. kide indexes JVM
workspaces: `kide index` discovers sources and build files, resolves the project
with a build worker, has analysis workers compute facts for the sources that
changed, and writes everything to a SQLite index; `kide status` and the queries
read that index and decide how far it can be trusted.

Paths are relative to the repository. `PROJECT.json` maps every definition that
models code to the lines it stands for.

- [Inventory](#inventory): the system's parts, what is hard about each, and what
  makes each correct
- [Modules](#modules): what each module models and how it corresponds to the code
- [Runs](#runs): what each TLC run asks, its bounds and what it shows
- [Proofs](#proofs): what holds for every value of the constants, and why
- [Findings](#findings) and [what the code does otherwise](#what-the-code-does-otherwise):
  where code and documentation disagree, and behaviour a reader may not expect
- [What is left out](#what-is-left-out) and [Plan](#plan)

## Running

    tlasany M.tla                            parse
    tlc -workers 2 -config X.cfg MCModule    model-check
    tlapm ArtifactProofs.tla                 prove

## Inventory

The command-line crate is `crates/kide-cli`, the library `crates/kide-core`.
Workers are separate processes (Kotlin, under `workers/`) that speak a framed
protobuf protocol over their standard streams.

| Component | State | Operations | What is hard | What makes it correct | Here |
|---|---|---|---|---|---|
| Index publication: `commands/index.rs`, `orchestrator.rs` | none of its own between runs; a run's inventory, plan and responses | `index`, `analyze_manifest` (both paths), dependency lane, checkpoint | a run is a dozen transactions with no enclosing one: failures and kills between any two, edits at any moment, a second invocation | what the checkpoint vouches for is in the store; every state a failure leaves is repaired by the next run | `IndexPublication`, `ConcurrentIndexing` |
| Incremental planning: `freshness.rs`, `incremental_plan.rs` | pure | `plan_invalidation`, `plan_analysis_invalidation`, API dependents | stale rows under another context; dependents of a changed API | nothing stale is kept, nothing fresh is redone | `IndexPublication`, `WorkspaceDiscovery` |
| Status and freshness: `commands/search.rs`, `freshness.rs` | reads the store and the disk | `status`, counts, freshness answer | a fast path that trusts the checkpoint instead of the rows | "fresh" is never said over missing or stale facts | `IndexPublication`, `WorkspaceInventory` |
| Index store: `store.rs` | the SQLite tables | open and migrate; snapshot replacement and removal; manifest, catalog, inputs, checkpoint, blob references, text | migrations are statements without a transaction; a snapshot is spread over twelve tables under foreign keys | a recorded migration is complete; a replacement is all or nothing and keeps the foreign keys | `StoreMigration`, `SnapshotStore`, `FactStore`, `IndexStore`; the other tables in the modules that use them |
| Freshness gate: `commands/freshness_gate.rs` | reads the store and the disk | gate of a semantic query | facts, rows and files are read one after another with no read transaction; owners without a row are dropped | an answer speaks of texts that were there while it was computed | `SemanticQuery` (not `symbols`, `type-at`) |
| Source metadata cache: `commands/source_metadata.rs` | size, mtime and fingerprint per source | reuse of fingerprints | edits between the reads of size, time and text, and between the reads and the store | a reused fingerprint is the file's | `WorkspaceInventory` |
| Discovery and configuration inventory: `discovery.rs`, `workspace.rs`, `input_inventory.rs` | none; recorded inputs in the store | root, walk, components, scopes, contexts, reconciliation of inputs | a component appears or goes and moves sources and scopes; inputs recorded before the build worker reads them | a changed input invalidates the manifest, and no input passes for current while sources move | `WorkspaceDiscovery`, `WorkspaceInventory` |
| Worker supervisor and protocol: `supervisor.rs`, `protocol.rs`, `worker_proto_adapter.rs` | the child process, its pipes, request IDs, last activity | handshake, request, reap, stop, restart | crash at any point, late answers, broken frames, repeated IDs, idle reaping inside a request | an answer belongs to its request, every request ends, no process is left behind | `WorkerSupervisor`, `RequestReply` (not the wire format) |
| Worker registry and batch selection: `worker_registry.rs` | pure | choice of a worker, grouping by component and language, chunking | boundary of the batch limit | batches partition the sources | any partition, in `IndexPublication`; choice by capability in `ProjectQuery` |
| Artifact blob cache: `artifact_cache.rs`, materialization in `orchestrator.rs`, references in `store.rs` | blob files shared by all projects, temporaries, references per index | lookup, removal of invalid blobs, staging, publication, recording, reconciliation | processes racing without a lock, killed anywhere, removal by name, reused process IDs, damage from outside | readers see whole immutable blobs, references are not dangling, a bad blob is rebuilt | `ArtifactCache` |
| Artifact layout and dependency queries: `artifact_blob_layout.rs`, `artifact_proto_adapter.rs`, `artifact_query.rs` | a payload: TOC and sections | encode; open; name, implementation and graph queries, section by section | ordinals across snapshots and blocks, interned strings, three generations of writers, a TOC without a checksum | an answer is what the graph declares, or an error; encoding ends | `ArtifactBlobLayout`, `DependencyQuery` |
| Dependency catalog discovery: `orchestrator.rs` 1003 ff. | artifact descriptors in the store | paged discovery, warm-up | unbounded cursor, lane joined without a bound | the catalog is that of the manifest | one transaction, in `IndexPublication` |
| Text index: `text_index.rs`, text tables of `store.rs` | one document per source | sync, search | one SQL parameter per document; not covered by the checkpoint; files read after their offsets | a reported match is in a text that was there | search and sync in `SemanticQuery`; terms not |
| Project queries and packages: `query_package.rs`, `project_query.rs`, `semantic_query.rs`, `semantic_capability.rs` | read-only | registry, macros, parse, bind, negotiate, select, bounded steps in a worker | shadowing packages, disagreeing requirements, limits, workers that change between two starts | each status word means what it says | `QueryPackages`, `ProjectQuery` |
| Configuration: `config.rs` | pure | layered TOML | precedence | – | not modelled |
| Command-line front end: `lib.rs`, `output.rs` | none | arguments, printing | – | – | not modelled |
| Language workers: `workers/` | per-process caches | Kotlin and build-tool analysis | analysis reads files as they are when it runs | – | what they may answer, in the modules that ask them |

How they interact. `kide index` is one thread that calls discovery, the store,
the planner and the supervisor in turn, plus a second thread, the dependency
lane, that has its own supervisor and is joined before the manifest is written.
The supervisor exchanges frames with one child process; a reader thread puts the
child's frames in a channel the caller waits on with a deadline. The store
serialises single transactions, and nothing serialises two invocations: two
processes may migrate the same index, and one may migrate while another writes.
Blob files are shared by every project of the user; each project records
references to them in its own index. Status and the queries read the workspace,
the store and the blobs, and write nothing the models have; a project query starts
one worker process to learn its capabilities and another for each step.

## Modules

### IndexPublication

One workspace, one invocation at a time, the user editing. The store is one
variable for each table the commands write (`snapshots`, `manifest`, `catalog`,
`inputs`, `checkpoint`); `run` is the command's position and locals; `file` and
`config` are the disk. An action is one transaction or one read of the outside,
because that is what a crash or an edit can separate:

| Action | Code |
|---|---|
| `IndexStart` | `index` up to the comparison of configuration inputs (`index.rs` 160-300) |
| `ForceRemove(u)` | one `remove_snapshot` of `--force` |
| `ResolveManifest` | the cached manifest, or the build worker's |
| `PlanSources` | batch selection, invalidation plan, whether a dependency lane starts |
| `RemoveDeleted(u)` | one `IndexAction::Remove` |
| `AnalyzeBatch(b)`, `SourceVanished(b)` | a worker's answer to one batch |
| `CommitBatch` | `replace_snapshots_batch`, and the API dependents on the single-batch path |
| `DropDependent(u)` | one removal of an API dependent |
| `EmptySelectionPanic` | `batches.first().expect(..)` with no sources |
| `PublishCatalog` | the joined lane's `replace_artifact_descriptors` |
| `PutManifest`, `ReplaceInputs`, `PutCheckpoint` | the last three writes, in the code's order |
| `Abort` | any `?`, or the end of the process, between two of the above |
| `EditFile`, `EditConfig` | the user |

`Freshness` is what `kide status` prints, built from the same comparisons as
`source_checkpoint_matches` and `checkpoint_matches`. `EdgesInto` and `Refers` are the
edges of the stored facts: an edge names a symbol ID (`Ids`, of the content the
referring facts saw), and `EdgesResolve` asks whether that ID is stored.

A file is its content and a fingerprint is what it is the digest of. A manifest is
the configuration it was resolved from. Each stored row also remembers `saw`, the
contents its facts were really computed from: the code has no such column, and
that is the point of `FactsMatchContent`.

### ConcurrentIndexing

Two copies of `IndexPublication`'s run over one workspace and one store, by two
instances that share every variable but `run`. SQLite makes each transaction
atomic and nothing more, so the copies interleave action by action. The proofs cover
every `Units`, `Contents` and `Configs`, and two copies at a time.

### WorkerSupervisor, RequestReply

`RequestReply` is what a caller of `WorkerSupervisor::request` wants: one request
at a time, an answer only to that request, an end to every request.
`WorkerSupervisor` is the code: the child processes, the handle the supervisor
holds, the request IDs the child has seen, the requests it has not read and the
frames it has sent, and a caller that does what `analyze_selected_batch` does
(`is_running`, a handshake when there is no worker, then the batch). `Caller`
holds the caller's steps, `Call` the steps of `request_with_timeout` with one
action per branch of `recv_timeout`'s result, `Environment` the child, which may
answer anything, late, never, or exit, and the clock. `Promise` is the instance of
`RequestReply` under the refinement mapping: a request is being asked while the
caller is inside the call.

### ArtifactCache

Processes of several workspaces around one blob key: `Begin` to `RemoveInvalid`
are the two lookups of `cache_catalog_artifact_with_metrics` and
`materialize_artifact`, `WorkerStages` to `RemoveTemporary` are `publish_stream`
step by step, `OpenPublished` to `Record` the reopening and
`record_artifact_blob`. `LeaveCatalog` and the pair `FindMissing`/`DropReference`
are the other writers of references; `Damage` is the world outside. A temporary is
named after a process ID that is used again after its process ended, as in the
code, so it may be found by a later process.

### SemanticQuery

One command (`definition`, `references` or `callers`, `implementations`, text
search) from its first read to its status, against a user and index runs that
change files and tables in between. An action is one SQL statement or one read of
a file:

| Action | Code |
|---|---|
| `ResolveSymbol`, `ReadLocation`, `CompareLocation`, `FindUnit`, `LocateSymbol` | `resolve_target`: by ID or name, or by location: the text, the comparison with the row, the lookup by offset |
| `ReadSymbol` | `definition`'s lookup, or `target_freshness_problem` |
| `LoadInputs`, `MatchInputs`, `LoadOwner(u)`, `CompareOwner(o)` | `freshness_problem`, for the target or for the answer: all owners are loaded before any is compared |
| `ReadReferences`, `Expand(s)`, `ReadRecord(s)` | `references_to`, one turn of the breadth-first walk, one record of the answer |
| `PrintFact(f)` | `print_short_references`, `print_short_symbols` |
| `Search`, `ReadMatch(m)` | `lexical_matches`: the statement, then one read for each document |
| `Edit`; `CommitRow`, `SyncText`, `ReplaceInputs` | the user; transactions of an index run, with anything that was on disk at some time |

A row is the text its facts were computed from, and facts are constant functions of
that text (`Declares`, `Mentions`, `Subtypes`). `onDisk` and `committed` remember
what happened since the command began, `pastFiles` and `pastInputs` what the disk
has ever held.

### StoreMigration, FactStore, SnapshotStore, IndexStore

`StoreMigration` is `SqliteIndexStore::open` as any number of processes run it: the
batch of version 1, the format stamp, then for each version the look at
`schema_migrations`, the statements of the migration and the INSERT that records
it, each a step that commits by itself and after which the process may be killed.
A schema is the set of its tables and of the columns migrations add or drop;
`Succeeds` says which statements raise an error (an ADD of a column that is there).

`FactStore` is what index commands rely on: a unit has the facts of one snapshot
or none, a call replaces those of all its units at once, and one that does not
return Ok has replaced nothing. `SnapshotStore` is the code: validation before the
transaction, then twelve DELETE statements in their order and one INSERT for each
row, primary keys and representable offsets that can make an INSERT fail, rollback,
COMMIT, crash. `Abstract` is the instance of `FactStore` under the refinement
mapping `FactsIn(rows)`, which asks for exactly the rows of a snapshot and has a
value of its own for anything else.

`IndexStore` composes both: processes migrate and write. The copy of provenance
that version 15 makes (`CopyProvenance`) is a write to the rows of `SnapshotStore`, so
snapshots of older releases are in the initial states. `blank` holds the units
whose `provenance_blob` is NULL: version 1 had no such column, version 2 adds it
without a value, the copy leaves these rows out, and each keeps its NULL, through
every later version, until its unit is written again. `ImplementsFactStore` reads
the facts of a snapshot without asking for its row in `source_provenance`. A writer
waits for no one but another writer.

### WorkspaceDiscovery, WorkspaceInventory

`WorkspaceDiscovery` is a module of pure operators: root, walk, configuration
inputs, component IDs and scopes, contexts, source units, reconciliation and
`plan_invalidation`, as functions of a tree of paths. `WorkspaceInventory` runs
`kide index` over a tree that is edited between any two of its looks, and that may
stop between any two of its transactions:

| Action | Code |
|---|---|
| `Begin(d)` | the root found from the directory kide is called from, and its configuration (`commands/mod.rs` 89-92) |
| `OpenIndex` | the root found once more, the cached rows (`index.rs` 31-36) |
| `Discover` | the root found a third time, the walk, the configuration inputs |
| `StatSource(f)`, `ObserveSource` | size and time of one source, then its fingerprint from the cached row or a read |
| `ResolveManifest` | the stored manifest, or the build worker's of the build files as they are by then; the contexts of the sources, the plan |
| `RemoveSource(u)`, `CommitBatch(b)` | one `remove_snapshot`, one `replace_snapshots_batch`, the dependents of a changed API |
| `PutManifest`, `ReplaceInputs`, `PutCheckpoint` | the last three writes, in the code's order |
| `MaterializeOnly` | `--materialize-only`, which returns before any of this and stores the rows of sizes and times |
| `StoreMetadata` | `replace_source_file_metadata` |
| `Fail` | an error, a panic or a kill, at any step |
| `Write(f)`, `Delete(f)` | the user |

`torn` holds the roots whose rows or manifest are of a resolution of the build
that the recorded inputs are not of: a run that resolved it anew tears them with its
first such write, and a run whose inputs are those its own worker read makes them
whole (`Tear`, `ReplaceInputs`). The context of a component is a function of the
build files in its scope. `PlannedSources` and `Status` are what `index --plan` and
`status` conclude from the tables.

### QueryPackages, ProjectQuery

`QueryPackages` holds the registry (validation, longest exporting package), macro
expansion, the statements of a text and the binding of parameters. `ProjectQuery` is
the command: `Load`, `BindParameters`, `Discover` (the first worker process),
`Negotiate`, `Select` (posting, predicates, limit), then `PlanStep` and `Execute`
(another process, which may be of another version, or not start) for each
capability step, and `Answer`. Every error return is a `Fail` with its cause.

### ArtifactBlobLayout, DependencyQuery

`ArtifactBlobLayout` is the encoding of a dependency graph and its decoding:
ordinals, inherited provenance, detail blocks with shared fields and interned
strings, sections and their places, and what a reader makes of a section. Bytes are
not spelled out; a checksum is what it is taken of, a length counts entries, a
range of bytes that is no section reads as nothing. `DependencyQuery` has a worker
encode (`PlaceSections` is one round of the loop over the TOC), publish, the file
damaged in any field a reader checks, and three kinds of queries walk the
artifacts, one section read at a time, each open of a blob being one read of it.

### Proof and MC modules

The modules whose names end in `Proofs` hold the theorems and extend the module
they are about; `MC*` give the constants their values.

A definition preceded by "Faulty variant of" is not part of a specification. It is
a plausible mistake in the code, kept to show that the property it is paired with
in `PROJECT.json` notices it.

## Runs

| Run | Question | Bounds | Result |
|---|---|---|---|
| `index_publication` | What does the store hold when the checkpoint is written, and what do runs on a quiet workspace converge to? | 2 sources, 2 contents, 2 configurations; 3 edits at any moment, 1 failure, `--force`, edits that restore a state, API changes | holds |
| `fresh_status` | Without `--force`, without restoring edits and with body-only edits: is "fresh" ever said over a store that lacks, mislabels or keeps facts? | the same; 3 edits at any moment, 2 failures | holds |
| `overlapping_runs` | Two invocations interleaved on a workspace edited only between them: what is left when both have ended? | the same; 1 edit, 1 failure, no `--force` | holds |
| `api_dependents` | As `fresh_status`, with API changes, no failure | 3 edits between runs | violated |
| `moved_declarations` | Do the edges stored for unchanged files lead to stored declarations? | 1 edit | violated |
| `worker_supervisor` | Does the supervisor keep `RequestReply`, whatever the worker does and although the caller goes on after errors? | 2 IDs, 4 calls, 3 processes | holds |
| `artifact_cache` | What may readers and references rely on when processes race, fail and leave temporaries? | 2 processes of 2 workspaces, 2 payloads, 2 damages | holds |
| `queries` | What does a query answer while files and tables change under it? | 2 sources, 2 contents, 4 symbols (a chain, a cycle, a dependency's symbol), 1 edit, 1 commit, every kind, JSON and short | holds |
| `index_store` | When is a schema complete, why can an open fail, and is a replacement of facts one step? | 2 processes, no index or one of version 14, 1 kill; 2 units, 8 snapshots that share IDs, repeat a key, overflow an offset, name another unit | holds |
| `project_query` | What does each status of a project query promise? | 4 symbols in 3 units; packages that shadow one another, agree or disagree; about 70 projects; 10 worker advertisements, 28 responses | holds |
| `inventory` | Are reused fingerprints true, is the plan exact, does a quiet status say fresh? | 3 trees, 8 files that come, change and go, a one-letter component, 2 edits at any moment, 2 runs that stop anywhere | holds |
| `dependency_blobs` | Is an answer what the graphs declare, whatever part of a payload is damaged? | 2 artifacts, 3 files of which one is empty, 5 declarations, blocks of 2, 3 writers, 1 damage of every field | holds |

Why the bounds suffice.

- Index runs. Two sources of which the first refers to the second, and two
  contents, are enough for every relation the index keeps: present and deleted, same
  and changed content, a dependency and its dependent, in one batch or two. Two
  configurations tell a cached manifest from a stale one. Three edits are a first
  state, a change, and a change while a run that saw the first change is active. A
  failure leaves some prefix of a run's writes, and a second one a prefix over
  that. `ForceAllowed`, `RevertAllowed` and `EditsDuringRun` switch user behaviour
  off where a run asks a question that is already answered with it on:
  `fresh_status` excludes what `api_dependents` and two observations below show to
  break it.
- Supervisor. Four calls are a handshake and a batch, an error, and the retry on the
  process that replaces the first one; a third process is the restart after the
  restart.
- Blob cache. Two damages are one of a blob and one of its rebuild.
- Queries. One edit and one commit around a query give each order of a changed file,
  a changed row and the query's own reads: a file is compared once with one row, so
  a second change could only undo the first.
- Store. Two openers are every pair of statements in either order; one kill leaves a
  torn index for the other. Versions 0 and 14 have every kind of statement before
  them. The proofs cover all versions, openers, kills, facts and batches.
- Project queries. Each text of `MCProjectQuery` goes wrong, or right, in its own
  way; two steps of one name are enough for an answer that depends on the one before.
- Inventory. A component that appears below the root moves a source, a lockfile and
  the scope of both. Two edits are one before and one during the second run, or one
  after the discovery of a run and one that takes it back; two runs are one that
  stops at any transaction and one that finds what it left.
- Dependency blobs. A full block, a half block and an empty snapshot, names in two
  artifacts, strings long and frequent enough to be interned, languages and
  provenances shared and not. With two damages a reader could be shown one section
  under a matching checksum of another, which the code does not claim to notice.

Properties.

- `PublishedInventory`: at the checkpoint the store is the run's inventory, except
  for the API dependents this run removed.
- `QuietRunsConverge`: one complete run on a quiet workspace makes status fresh and
  every row current; a second one restores dependents the first removed. It is
  stated over a counter of complete runs instead of with fairness, because nobody
  is obliged to run `kide index`.
- `FreshMeansCovered`: what status's fast path relies on. `OverlappingRunsConverge`:
  the same after two runs that overlapped.
- `StreamsInStep`, `NoWorkerLeftBehind`, `AnswersItsRequest`: late and foreign
  frames cannot reach a later request; no process outlives its handle; the
  supervisor implements `RequestReply`, and every request ends.
- `OnlyWholeBlobs`, `BlobsAreImmutable`, `ReferencesHold`, `RebuildsAlone`: what a
  reader may rely on with no damage from outside, and that a damaged or missing
  blob is rebuilt by a process that is left alone.
- `AnswersWereCurrent`: the texts behind an answer with status ok were on disk while
  the query ran, or an index run committed their owner meanwhile. The excuse is
  needed: without it TLC finds an owner that is removed between the lookup of the
  facts and the gate, which drops it (`freshness_gate.rs` 118) and lets the facts of
  a deleted file pass.
- `QuietAnswersAreExact`: with nothing changing, an answer is all that was asked for
  (transitive descendants by a closure definition, in cycles too), stale is said
  only over a difference, and an error only where a location names nothing.
- `SearchReportsRealText`, `PanicNeedsRace`, `QueryEnds`: text matches are of texts
  that were there, the unchecked slice of `generic_type_context` fails only in a
  race, and every query ends.
- `RecordedMeansApplied`, `OpenedIsMigrated`: a recorded migration is complete, and
  an open that returned Ok has the whole schema, although statements of two
  processes interleave and kills leave any prefix. `FailuresHaveCause`: an open
  fails only on a foreign format, on an index a killed process left torn, or next to
  another process that migrates.
- `ImplementsFactStore`, `RollBacksHaveCause`, `ArgumentsHaveApplications`,
  `ProvenanceFollows`: a replacement is one step of `FactStore`; it is rolled back
  only for a fault of its own snapshots or an ID another unit has, never for what
  an earlier call left behind; no argument loses its application; and every
  snapshot that has a provenance has it where a process with an open index reads it,
  whoever copied it, and no other has.
- `NoResultHolds`, `CompleteAnswersAreExact`: "no result" means that nothing
  matches, and "ok" that the answer is exact and fresh, whatever limits, missing
  capabilities and refinements came between. `AnswersWereNegotiated`: an answer that
  was used is of a process that itself advertised the capability it was planned
  with. `MacrosAreSpecific`, `BudgetNeedsSharedUnit`: which package a macro is of, and
  when a budget Core derives itself is exceeded.
- `CachedRowsAreTrue`: a metadata row with a file's size and time has its
  fingerprint. `PlanIsExact`: while reconciliation finds every input current, the
  stored contexts are those the inputs give now, and the plan is the difference in
  content, whatever transactions earlier runs stopped between; the roots in `torn`
  are excepted, and they have to be (see below). `QuietStatusIsFresh`: after a run
  nobody interfered with, status says fresh, whatever failed runs left before it,
  if the manifest has the components discovery found.
- `AnswersAreExact`: an answered dependency query has exactly what the graphs
  declare, and one that fails had a damaged payload before it. `EncodingEnds`: the
  loop that places the sections reaches its fixed point.

Fairness. `WorkerSupervisor` assumes weak fairness of the call in progress,
`SemanticQuery` of the command's own steps, and `DependencyQuery` of the encoder's.
In the supervisor the calling thread runs, and `recv_timeout` returns by its
deadline, which the code passes to every wait; requests end because `TimedOut` is
always possible while the call waits. `write_frame` is taken to return, which is a
limitation (see below). A query is a thread that waits for nothing but SQLite and
the file system. The encoder is one synchronous call that waits for nothing.
Nothing is assumed of the worker, of its caller, of the clock, of the user or of
index runs. The other modules check safety only.

Deadlock is checked except in `WorkerSupervisor` and `WorkspaceInventory`, whose
bounds on calls, edits and runs end them, and in `SemanticQuery` and `ProjectQuery`,
which end with their command.

## Proofs

TLAPS proves, for all sets of sources, contents, configurations, processes,
workspaces, payloads, graphs and trees, for every reference graph and every bound:

| Theorem | Property |
|---|---|
| `IndexPublicationProofs!TypeCorrect` | `TypeOK` |
| `IndexPublicationProofs!PublishedInventoryHolds` | `PublishedInventory` |
| `IndexPublicationProofs!QuietRunsConvergeHolds` | `QuietRunsConverge` |
| `IndexPublicationProofs!FreshRowsAreCurrent` | what fresh means although runs fail and are forced, if no edit restores an earlier state |
| `IndexPublicationProofs!FreshMeansCoveredHolds` | `FreshMeansCovered`, if also no run is forced and no edit changes an API others use |
| `ConcurrentIndexingProofs!OverlappingRunsConvergeHolds` | `OverlappingRunsConverge`, if no edit comes during a run or restores an earlier state |
| `ArtifactProofs!TypeCorrect` | `TypeOK` |
| `ArtifactProofs!OnlyWholeBlobsHolds` | `OnlyWholeBlobs` |
| `ArtifactProofs!ReferencesAlwaysHold` | `ReferencesHold` |
| `ArtifactProofs!PublishedOnce` | `BlobsAreImmutable` |
| `ArtifactProofs!RebuildsAloneHolds` | `RebuildsAlone` |
| `ArtifactProofs!GraphRoundTrip` | decoding the `GraphFacts` of a graph gives the graph back |
| `ArtifactProofs!SectionsAreGood` | each encoded section says what the graph says, and each ordinal is in a block |
| `ArtifactProofs!BytesAreRight` | what a section read accepts of a damaged payload is of a section of that kind |
| `ArtifactProofs!AnswersAreExactHolds` | `AnswersAreExact` |
| `ArtifactProofs!PlacementSettles` | each round of the loop that places sections makes the TOC, which has a longest length, longer, or is the last but one |
| `SemanticQueryProofs!TypeCorrect` | `TypeOK`, under `fresh_only` |
| `SemanticQueryProofs!AnswersWereCurrentHolds` | `AnswersWereCurrent`, under `fresh_only` |
| `SemanticQueryProofs!SearchReportsRealTextHolds` | `SearchReportsRealText`, under `fresh_only` |
| `SemanticQueryProofs!PanicNeedsRaceHolds` | `PanicNeedsRace`, under `fresh_only` |
| `SemanticQueryProofs!QuietAnswersAreExactHolds` | `QuietAnswersAreExact`, under `fresh_only` |
| `WorkerSupervisorProofs!TypeCorrect` | `TypeOK` |
| `WorkerSupervisorProofs!StreamsStayInStep` | `StreamsInStep` |
| `WorkerSupervisorProofs!NoWorkerIsLeftBehind` | `NoWorkerLeftBehind` |
| `WorkerSupervisorProofs!AnswersOnlyItsRequest` | the safety half of `AnswersItsRequest` |
| `IndexStoreProofs!RecordsAreTrue` | `RecordedMeansApplied` |
| `IndexStoreProofs!OpenFindsTheSchema` | `OpenedIsMigrated` |
| `IndexStoreProofs!FailuresHaveCauseHolds` | `FailuresHaveCause` |
| `IndexStoreProofs!IndexTypeOKHolds` | `IndexTypeOK` |
| `IndexStoreProofs!ProvenanceFollowsHolds` | `ProvenanceFollows` |
| `IndexStoreProofs!ArgumentsHaveApplicationsHolds` | `ArgumentsHaveApplications` |
| `IndexStoreProofs!RollBacksHaveCauseHolds` | `RollBacksHaveCause` |
| `IndexStoreProofs!ImplementsFactStoreHolds` | `ImplementsFactStore`, for an index no release before version 6 left |
| `WorkspaceInventoryProofs!CachedRowsStayTrue` | `CachedRowsAreTrue` |
| `WorkspaceInventoryProofs!TypeCorrect` | `TypeOK`, if `None` is no row |
| `WorkspaceInventoryProofs!PlanIsExactHolds` | `PlanIsExact` |
| `WorkspaceInventoryProofs!QuietStatusIsFreshHolds` | `QuietStatusIsFresh`, if `None` is no row |
| `ProjectQueryProofs!TypeCorrect` | `TypeOK` |
| `ProjectQueryProofs!AnswersWereNegotiatedHolds` | `AnswersWereNegotiated` |
| `ProjectQueryProofs!MacrosAreSpecificHolds` | `MacrosAreSpecific` |
| `ProjectQueryProofs!BudgetNeedsSharedUnitHolds` | `BudgetNeedsSharedUnit` |
| `ProjectQueryProofs!NoResultHoldsAlways` | `NoResultHolds`, of an index analysed with the catalog there is |
| `ProjectQueryProofs!CompleteAnswersAreExactHolds` | `CompleteAnswersAreExact`, of such an index |

They rest on the assumptions of the modules, which only say what the constants are.
`ConstantsAssumption` (of `IndexPublication` and of `ConcurrentIndexing`),
`CacheAssumption`, `QueryAssumption`, `SupervisorAssumption`, `MigrationAssumption`
and `InventoryAssumption`: `Absent`, `None` and `Nothing` differ from the values they
stand beside, `Refs`, `WorkspaceOf`, `SizeOf` and the facts of a text are functions,
offsets of a text lie in it, paths are sequences of names, kide is called from a
directory, above which there are only directories, an index is found at a version
there is, the bounds are naturals. `IndexAssumption`: a snapshot has a unit
and a sequence of facts in the tables that hold facts; an argument comes after its
application, as the recursion that writes both goes, any other fact is of the
snapshot's own unit, and the ID of an application is no unit's. `CapsAssumption` and
`ProjectsAssumption`: the caps agree as the two constants of the code do, there are
finitely many symbols and locators, no process is "no worker", and package IDs,
names of macros and the steps of a program are sequences. `LayoutAssumption`: a block
has a capacity, a string is interned from some number of occurrences on, sizes are
naturals and an entry of a section has bytes. `GraphAssumption`: a graph has the
fields of the protocol, options of at most one value, and provenances its snapshot
has, because `decode_file_analysis_snapshot` refuses an index without one
(`worker_proto_adapter.rs` 1225-1238); an encoder is given by what it does of three
things, and the theorems cover each combination of them, also the one that the
Rust encoder is not (see the last section on dependency artifacts). TLC evaluates each on the runs of its module.

Where the table says "if" or "under", the theorem has that hypothesis, and a reader
should know why. `~RevertAllowed` is the model's "no edit restores an earlier state";
without it "fresh" is said over a checkpoint that became true again, which the
section on surprising behaviour describes. `~ForceAllowed` and `NothingToDrop` (no
content changes the API of a unit that another refers to): the failed `--force` run
and the run `api_dependents` show a fresh status with rows missing. `~EditsDuringRun`
is what `overlapping_runs` has: an edit between two discoveries lets the older one
commit last. `Strategy = "fresh_only"`: the gate does nothing otherwise. `NoneIsNoRow`:
`None` stands for a manifest or a checkpoint that is not there, so it differs from
each of them; as there is no set of all manifests, TLC could not evaluate this as an
assumption.
`Complete` and `AnalysedWithCatalog` are explained below.

IndexPublication. `PublishedInventory` speaks of one program point, so it is not
inductive. The invariant `IInv` says what the run has established before:
`Prepared` (inputs and manifest are known once the phases that read them are
over), `PlanOfRun` (the plan and every pending response are for the run's own
inventory and manifest), `Progress` (each source of the inventory is settled in
the store or still pending, each row outside it gone or about to go) and `Written`
(what has been published when nothing is pending any more). Even `TypeOK` needs a
strengthening: that a checkpoint names a catalog depends on the catalog being
written before its manifest, `CatalogFirst`, which the next run's decision not to
start a lane depends on. The step proof has one case per action.

`QuietRunsConverge` counts complete runs that no edit or failure followed. `QuietInv`
is what it needs of the run under way: the files it found are those there are as
long as its epoch is current (`RunEpoch`), no source is in two batches
(`BatchesApart`), a row it dropped is written again or stays away (`DroppedGone`), and
a run after a complete one only ever writes rows that are missing, so that it drops
nobody's dependents (`QuietRun`). `FreshInv` is about the checkpoint: no state an edit
left comes back (`NothingReturns`), current inputs vouch for the manifest and a
current manifest for the catalog, through every order of the last three writes and
any failure between them (`ManifestFollows`), and a checkpoint that matches the
workspace vouches for the rows (`CheckpointHolds`); `CoverInv` adds that no row was
dropped.

ConcurrentIndexing. Each run keeps an invariant of its own (`RunFollows`), and what
one step may do to the tables, seen from the other run, is `Beside`: it writes what
the workspace has or nothing, makes no row outdated, and either leaves the checkpoint
or leaves the store as it should be. `BesideKeeps` shows that a run does not notice
such a step, so that interference freedom is one lemma and not a product of actions.
The step lemmas are those of `IndexPublicationProofs`, taken through an instance for
each process.

ArtifactCache. `IInv` adds to the properties what a process knows at its program
point: it links only whole files of its own (`LinksWholeFiles`), it removes only
after damage (`RemovesOnlyDamaged`), what it records is the length of the blob
that is there (`RecordsTheBlob`), and it still holds a payload while it publishes
(`HoldsItsPayload`). `BlobsAreImmutable` follows step by step: the only actions
that write `blob` are a removal, which the invariant excludes without damage, a
link, which keeps what is there, and damage itself. `RebuildsAlone` has an invariant
of its own, `Undisturbed`: a process that acts alone works only after a miss, has no
temporary in its way, and what it opens is a whole blob (`KnowsTheFiles`).

DependencyQuery. What a payload says is settled in three steps, none of which looks
at a query. Encoding: `EncodedAs` describes the encoded graph place by place,
`GraphRoundTrip` undoes it, `BlockGood` does the same for a block with its shared
fields and interned strings, and `SectionsGood` collects it for all sections of a
payload (`SectionsAreGood`). Damage: `Faithful` is what a bad write leaves, parts
that are a section's or have a checksum of none, and entries with their own kind or
an unknown one; by `BytesAreRight` a checksum that fits ties the bytes to a section
of the entry's kind, wherever offset and length point. A pristine payload opens and
reads wholly (`PristineIsWhole`, over the sums of the lengths before a section).
Reading: the invariant `QueryInv` says that each payload is faithful to sections of
its graph, whole unless damaged, and that the answers so far with those still due of
the artifact in hand (`Due`) are, up to owners no block can show, what the opened
artifacts owe (`Owed`). Opening an artifact adds the same to both sides, each section
read turns what is due into another form, and each block moves a part of it to the
answers. TLC checked `QueryInv` over all states of the run's instance first.
The concatenations and sums are recursive functions, and the facts about them are
by induction over their length, written as well-foundedness of the set of lengths
for which a fact fails.

`PlacementSettles` is the ranking behind `EncodingEnds`, for every graph: a TOC only
moves its sections by the length of the one before, wider offsets never shorten it
(`VarintGrows`), and a round that leaves the length leaves the offsets of the next.
The longest TOC it states counts a number as at most three bytes, as the model does;
a longer varint changes the number and not the argument.

SemanticQuery. An answer is judged after its facts were read, fact by fact, against
rows that may have changed since. `IInv` says what is known of a fact on the way:
it is what its row holds now, or the row was committed since (`FromRows`); in the
gate it is judged, or its owner is still to be loaded, or the loaded owner has the
fact's own text (`GateCovers`); behind the gate it is judged (`Cleared`).
`OnDiskNow` gives the comparison with a file its meaning: the text it equals is one
of those the file has had. Steps of the command change only `query`, so
`StepKeeps`, `BeginKeeps` and `WorldKeeps` reduce each action to what it does to the
command; edits and commits can only add to what was on disk or committed.

`QuietAnswersAreExact` is about a command during which nothing changed. `Exact` says
for each program point which part of the answer is settled: the target is the one
the place names (`Locating`, `Targeted`), the gate has every owner it has not found to
match (`Gated`, `InHand`), and the walk down the hierarchy is closed except at what is
pending, with all of it below the target (`Walked`). When nothing is pending the
visited set is closed under direct subtypes, so it contains the descendants, which
are defined as the intersection of all such sets: this holds in cyclic hierarchies.

WorkerSupervisor. `IInv` says which frames can be where: what the current process
has been sent, has sent and has left in the channel belongs to requests with the
serials of its own calls, a call that waits is waiting for the last of them, and
everything of a process that was stopped is out of reach of the handle. The step
simulation maps each step inside a call to a step of `RequestReply` or to a
stutter.

IndexStore. `Progress` says, for each place in `open`, what the process there has
done: the statements of its batch before the next one, the versions before its own
recorded, the format stamped. It is stable because of `Grows`: whatever the others
do is at most one statement of some migration, and no statement undoes another's
(`StatementUndoesNothing`, which rests on `Columned`: the column that version 2
drops is only made together with its table). Records, format and the whole of the
schema follow. The statements of the fifteen migrations are looked at once, in
`MigrationsKnown`; `IndexSpec` implies `Spec` of the migration, because writers take no
step of it.

`FailuresHaveCause` needs that a statement of a migration not yet recorded finds
nothing of itself there (`Unaltered`), for a process that was alone and untorn all
the time (`Undisturbed`, `Sole`, `OneAlone`), and that the table a column is added to
was made by a version before: `MigrationsPlaced` looks at where each statement of the
fifteen migrations stands, and `NextSucceeds` concludes.

The rows are described by the snapshot each unit has: `Contents` is a function from
units to rows, each set of rows being empty or the rows of one snapshot of that unit,
`Stored` is their union. `Committed` says that what the index has is such a union, and
`Writing` how far the transaction is: the entries before the current one replaced
(`Replaced`), of the current unit's rows those of the tables not yet deleted, or the
first `n` of the new snapshot's. A statement that fails meets a row with its key, and
that row belongs to the snapshot itself or to another unit's contents: this is
`RollBacksHaveCause`. The commit changes the contents as one step of `FactStore` does.
`Copied` joins both halves: nothing is written before the last version is recorded,
and when it is, each provenance there is has been copied (`AllCopied`) and none that
is NULL (`Unblanked`); a commit writes both rows of a unit and takes it out of `blank`. The refinement has a hypothesis of its
own, `Complete`: an index that a release before version 6 wrote lacks the rows of the
tables that came later, so that its units have facts of no snapshot until they are
analysed again, which `FactsIn` calls mixed. The invariants do not
need it: `Part` allows such rows.

WorkspaceInventory. A row may be behind the file, never wrong about it: `TrueRow`
speaks of the row under whatever root the run found, and an edit, being later than
the clock of every row, keeps it. A hit passes a true row's fingerprint to a row
of the same size and time. That the run's root has a table at all needs
`DeepestExists`: of the directories on the way up one is the deepest.

`PlanIsExact` says that nothing but the recorded inputs decides where a source
belongs. `PInv` is its invariant. `StoreFollows` speaks of a root that is not torn:
the contexts of the stored manifest are those its inputs give, each unit is under
the component these inputs give it and has the context of the manifest. A run that
uses the stored manifest keeps this with every single transaction; one that resolved
the build gives it up with its first write and has it again only when the inputs it
records are those its worker read, for which `RunFollows` and `RunPlans` say what has
been written, what is still to be (`changed`, `gone`) and what it will amount to.
`Keyed` says that no two stored units have one ID, so that what a batch leaves alone
is what it does not replace. That inputs determine components at all is
`ComponentsAre`: the build file that makes a directory a component of one build
system, also the one it takes precedence over, is itself below the root and in no
excluded directory, hence an input (`BuildFileIsInput`), so that `Components` is a
function of the paths of the inputs. Reconciliation that finds every input current
has found the same inputs (`CurrentIsSame`), so the components, owners and contexts
of now are the stored ones, and the cached fingerprints the plan compares are the
files' (`TrueObserved`).

`QuietStatusIsFresh` needs what a run nobody interferes with knows at each step
(`QuietInv`): the root it found is found again when looked for from itself
(`RootIsHere`), each source is still to be looked at or was found as it is
(`Observed`), what it plans is the inventory of the tree (`Planned`), and each of the
last writes is there when the next is made (`Settled`). A run may use the stored
manifest; its inputs are then current, and torn or not, the checkpoint is of what
status will find.

ProjectQuery. `IInv` says what the command has at each point: the program of its
project (`Loaded`), a mark for every capability it uses and was refused
(`Negotiated`), and symbols that are the matching ones as far as the answers so far
keep them, unless a mark says otherwise (`Exact`, `Narrowed`); `Verdict` is what the
end makes of it. `MacrosAreSpecific` rests on two prefixes of one name of the same
length being the same. What the query means includes the JVM type of a name, and the
command looks for one ID only, the one the catalog has for the name
(`semantic_query.rs` 235-248). A symbol that was analysed before the catalog had that
name has the other ID (`JavaSemanticExtractor.kt` 173, 327, 564: an annotation that no
dependency declares keeps the ID of its JVM type), and is not found. `AnalysedWithCatalog`
excludes just this, and the run has no such symbol.

Only model-checked: the liveness properties `QueryEnds`, `EncodingEnds` and the
liveness half of `AnswersItsRequest`, because liveness under fairness is out of the
prover's reach. Of `EncodingEnds` the part that could fail, the ranking, is proved.

## Findings

Two runs show code that disagrees with what the repository says of it; the quoted
lines are in `PROJECT.json`.

1. `api_dependents`. On the single-batch path, the dependents of a changed API lose
   their rows after the commit and are not analysed again before the checkpoint:
   the run that changed the API ends with "fresh" and facts missing. The next run
   restores them (`QuietRunsConverge`).
2. `moved_declarations`. A Java symbol ID holds the offset of its declaration, the
   public API fingerprint does not. An edit that moves a declaration changes its ID,
   no dependent is found, and unchanged files keep edges to an ID that is gone;
   `dependent_source_units` does not find these files later either.

## What the code does otherwise

Behaviour met while modelling that a document says otherwise, or that a reader may
not expect. The models have it as it is; no run is spent on it.

Index runs and status:

- `--force` removes the snapshots and leaves the checkpoint. When the run then
  fails, status answers fresh over an empty store (`index.rs` 208).
- The fingerprints of a response are compared with those of the request, both taken
  at discovery. A file edited between discovery and analysis has its new facts
  stored under its old fingerprint, although ADR 0001 258-259 and ADR 0002 186-187
  bind facts to the content they were computed from. `FactsMatchContent` states it.
- With an edit between the discoveries of two overlapping runs, the one that was
  overtaken commits what it discovered earlier under the newer run's checkpoint,
  although freshness-v1 50-51 says that a superseded generation must never publish.
- A run's rows, manifest and inputs are separate commits, with the inputs last
  (`index.rs` 570). What a run stored that failed before its inputs is used again
  when the configuration is restored to the recorded ones (`index.rs` 298): manifest
  and rows then have the contexts of the other configuration, and `index --plan`
  finds nothing to do. The same state is left by a complete run when a build file is
  edited between discovery and the resolution by the worker (`index.rs` 310) and
  then put back. These are the states `torn` names; without the exception TLC
  refutes `PlanIsExact` with either.
- `reconcile_configuration_inputs` names as affected only the new owners of an input
  whose scope moves.
- status scopes the effective configuration to the components of the stored
  manifest, index to those it discovered (`search.rs` 54, `index.rs` 199-202): when
  they differ, status answers stale after every run.
- The root is resolved three times. When a marker is removed in between, discovery works
  above the root and the command panics on its "workspace path" expectation.
- A component that the build worker's manifest does not have fails every run until a
  configuration input changes.
- A component in a directory named `root` has the ID of the workspace root's, and one
  in a directory of a one-letter name shares its scope with the root, because "." is
  as long.
- An edit that keeps a file's size and time is not seen.
- `status` takes the configuration of the directory it is called from, `index` that of
  the root (`commands/mod.rs` 79-90): called from a directory below, where there is no
  `.kide/config.toml`, status compares with other defaults and can say stale after
  every run. `QuietStatusIsFresh` speaks of status called from the root.

Supervisor and store:

- `is_running` does not reap an idle worker; `request` does, and starts a new one,
  which then receives the batch without a handshake, although the comment at
  `orchestrator.rs` 335-336 expects a greeting. `GreetedBeforeBatch` states it.
- A kill between the ALTER of a migration and its record makes every later open
  fail, although ADR 0002 calls migrations "ordered, idempotent".
  `KilledMigrationResumes` states it.
- Snapshots of a version-1 index have no `provenance_blob` (`store.rs` 119) and no
  migration gives them one; version 15 copies only what is not NULL (`store.rs` 243).
  `analysis_inputs` reads the column as bytes (`store.rs` 1226), so a run on the
  single-batch path fails (`orchestrator.rs` 813) until the units are removed, by
  `--force` for one.
- A request that does not encode or whose write fails is an error that keeps the
  worker, also a live one, and its ID stays used (`supervisor.rs` 172-176).

Semantic queries:

- The gate returns at once unless the strategy is `fresh_only`, so retained facts are
  reported as ok under `allow_stale` (freshness-v1 22-24, `config.rs` 27).
- `AnswersWereCurrent` needs its excuse, although freshness-v1 20-21 asks for no
  result "if any fact owner cannot be verified".

Project queries:

- A start given by qualified name is looked up among the locators of dependencies
  only: the name of a declaration of the workspace gives no result
  (semantic-query-packages-v1 212).
- The example of the documentation begins with `use spring.web`, which the parser
  refuses. Commands are found by the stem of their file, and of several limits the
  last one counts.
- One directory under the packages that is refused fails every project query.
- A capability name with a `_` is valid in a manifest and refused in a query.
- The budget that Core derives counts a source unit once and is measured per symbol:
  several symbols of one file exceed it (`BudgetNeedsSharedUnit`).
- A refinement that leaves no symbol keeps the status ok.

Dependency artifacts:

- A detail block has no field for the ordinal of an owner, so a declaration read
  from one has lost a local owner, although the comment at
  `artifact_proto_adapter.rs` 92-94 speaks of one canonical declaration.
- Implementations are looked for in the artifacts that declare the supertype, so
  those of other artifacts are not found.
- The Rust encoder writes empty IDs into the hierarchy postings of a graph whose
  references are ordinals already.
- A candidate without a blob has no symbols, silently; a damaged blob fails the query
  with an error instead of being a miss (dependency-artifact-cache-v1 73-74). A
  section kind that is turned into another known kind is not noticed.

## What is left out

Abstractions of the models above:

- SQLite is taken to make each transaction atomic and durable. Hashes are taken to
  be injective: a fingerprint is what it digests.
- Index runs. A worker reads all files of a batch at one moment. Which batches there
  are is any partition of the sources, a superset of what the registry selects. The
  backend identity (worker version, schema) is fixed, so contexts differ by manifest
  only. Which names a source declares and refers to does not change with its
  content, only their IDs do. The text sync, the source metadata write and the
  artifact warm-up of a run write other tables; their failures are covered by
  `Abort` at the same points. The dependency lane is one step, at its join, without
  its pages; its own worker is not followed when the source lane fails and the
  thread is left detached.
- Supervisor. A write to the child's stdin is one step: a child that stops reading
  with a full pipe would block the caller outside the deadline, and a write that
  fails leaves no part of a frame in the pipe of a live child. A child answers one
  frame per request. The wire format is left out.
- Blob cache. A payload is told apart by its length, and one key is modelled, because
  files of different keys share nothing. A cache hit never records a reference
  (`orchestrator.rs` 625), and the model does as the code does.
- Store. Indexes and columns that no migration changes are left out; so are the
  encodings of records, the number of parameters SQLite allows in one statement, and
  the reads that only select. While the index is in use the steps of a process that
  still migrates are taken before the writer's, with which they commute.
- Semantic queries. One command is followed, and each commit of an index run is one
  step, in any order a run may leave when it fails. The constructor calls that
  `references` adds, the dependency blobs `implementations` falls back to, names
  that several symbols have, and the effective-configuration input are left out;
  the reads of the configuration inputs are one step, and so are the reads of one
  printed line. A document that matches a text query is read once.
- Inventory. The walk and the fingerprints of the configuration inputs are one step,
  and so are the build worker's reads of the build files; what its resolution takes
  from elsewhere (toolchain, downloaded artifacts) stays as it is. `--force`, the
  dependencies, and which files depend on a changed API (any may) are left to
  `IndexPublication`. Every edit gives a file a new time; symbolic links and unreadable directories are left out, and so is the
  order of components.
- Project queries. The index does not change while the query runs, and the order of
  symbols is left out. `normalize` and `select_nested_application_argument` of
  `framework_query.rs` are called by nothing in the program.
- Dependency artifacts. Declarations and their hierarchy: occurrences, references,
  calls and types of a graph are left out, the `SymbolPostings` section, and the
  envelope of a payload. `kind` stands for a declaration's names, ranges and backend
  keys too. Ordinals count from 0, provenance 0 is the snapshot's own, a header is valid or not, a
  TOC is cut between its entries. Encodings and queries do not overlap, because they
  share only a file that is published at once (`ArtifactCache`); the catalog is fixed.

Hazards without a property are listed with their lines and the reason in
`PROJECT.json`.

Not modelled: configuration layering, argument parsing and printing, and the
workers' own analysis. They are pure conversions or lie outside `kide-core`.

## Plan

Done: every module named above, with the proofs listed.

Next, in this order:

1. The view dependents have of an API (`saw`), stated as a property of complete
   runs, with the crash between the commit and the removal of dependents, the
   multi-batch path and added files; `EdgesResolve` is the first part of it.
2. Paging of the dependency catalog, the lane's own supervisor and warm-up,
   composed with `ArtifactCache`.
3. `symbols`, `type-at` and the dependency fallback of `implementations` in
   `SemanticQuery`; chunking of batches as a partition.

Theorems next: those of the properties above, as they come. Every safety property a
passing run checks is a theorem.
