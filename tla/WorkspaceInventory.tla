------------------------- MODULE WorkspaceInventory -------------------------
(***************************************************************************)
(* `kide index` taking the inventory of a workspace while its files are    *)
(* edited, the cache of file sizes and times it leaves behind, and what    *)
(* `kide index --plan` and `kide status` later conclude from both.         *)
(*                                                                         *)
(* The command looks at every file separately: it resolves the root (three *)
(* times) and walks the tree, then asks for each source its size and time, *)
(* and reads it only when the cached row has others.  Only then does the   *)
(* build worker read the build files, and only then is anything stored: in *)
(* a transaction each the sources that are gone, the batches, the          *)
(* manifest, the inputs, the checkpoint and the rows of sizes and times.   *)
(* A run that stops leaves the tables as they are.  What analysis makes of *)
(* a source, --force and the dependencies are left to IndexPublication.    *)
(***************************************************************************)
EXTENDS WorkspaceDiscovery

CONSTANTS
    Paths,            \* the files there can be, as paths from the top
    Contents,         \* what a file can contain
    SizeOf,           \* SizeOf[c]: the number of bytes of content c
    Invocations,      \* the directories kide is called from
    InitialTrees,     \* the trees a behaviour begins with
    WorkerSystems,    \* build systems of the installed worker
    Defaults,         \* the effective configuration without a .kide/config.toml
    None,             \* no such row
    MaxEdits,         \* bound on the number of edits
    MaxRuns           \* bound on the number of index runs

ASSUME InventoryAssumption ==
    /\ Invocations # {} /\ Invocations \subseteq Seq(STRING) /\ Paths \subseteq Seq(STRING)
    \* kide is called from a directory, and what is above it are directories.
    /\ \A d \in Invocations : Ancestors(d) \cap Paths = {}
    /\ InitialTrees \subseteq UNION {[F -> Contents] : F \in SUBSET Paths}
    /\ SizeOf \in [Contents -> Nat]
    /\ MaxEdits \in Nat
    /\ MaxRuns \in Nat

VARIABLES
    tree,             \* the regular files: content and modification time
    store,            \* store[root]: the index database below that root
    run,              \* the index run
    clock,            \* edits so far; the file system's time
    runs,             \* history: runs begun
    quiet,            \* history: root of the last run if it completed and no
                      \* edit came since it began, otherwise None
    torn              \* history: roots where rows or manifest come from a later
                      \* resolution of the build than the inputs

vars == <<tree, store, run, clock, runs, quiet, torn>>

Roots == UNION {Ancestors(d) : d \in Invocations}

\* What stat and a read return; a row of source_file_metadata keeps them.
File == [content : Contents, modified : 0..MaxEdits]
MetadataRow(path, size, modified, content) ==
    [path |-> path, size |-> size, modified |-> modified, content |-> content]

\* The tables this module speaks of.  manifest maps the IDs of the resolved
\* components to their contexts.
EmptyStore == [manifest |-> None, units |-> {}, inputs |-> {}, checkpoint |-> None,
               metadata |-> {}]

\* root is where the rows of sizes and times belong; walked is the root that
\* discovery found and whose other tables are written.  seen holds what the
\* worker resolved the build from, nothing while the stored manifest serves;
\* changed and gone are the sources not yet written and not yet removed.
Idle == [pc |-> "idle", invocation |-> <<>>, configuration |-> None,
         root |-> <<>>, cached |-> {}, walked |-> <<>>, components |-> {},
         inputs |-> {}, todo |-> {}, stat |-> None, observed |-> {},
         manifest |-> None, seen |-> {}, sources |-> {}, changed |-> {}, gone |-> {}]

Init ==
    /\ \E t \in InitialTrees :
         tree = [f \in DOMAIN t |-> [content |-> t[f], modified |-> 0]]
    /\ store = [r \in Roots |-> EmptyStore]
    /\ run = Idle
    /\ clock = 0
    /\ runs = 0
    /\ quiet = None
    /\ torn = {}

-----------------------------------------------------------------------------
(* The workspace. *)

Edited ==
    /\ clock < MaxEdits
    /\ clock' = clock + 1
    /\ quiet' = None
    /\ UNCHANGED <<store, run, runs, torn>>

\* An edit gives a file a time it did not have before.
Write(file) ==
    /\ Edited
    /\ \E c \in Contents :
         tree' = [f \in DOMAIN tree \cup {file} |->
                    IF f = file THEN [content |-> c, modified |-> clock + 1] ELSE tree[f]]

Delete(file) ==
    /\ file \in DOMAIN tree
    /\ Edited
    /\ tree' = [f \in DOMAIN tree \ {file} |-> tree[f]]

-----------------------------------------------------------------------------
(* Reading one file for its fingerprint: observe_source_file. *)

Cached(rows, path, size, modified) ==
    {r \in rows : r.path = path /\ r.size = size /\ r.modified = modified}

\* What a command that only reads takes for the content of the file.
ObservedContent(rows, root, path) ==
    LET file == tree[root \o path]
        hits == Cached(rows, path, SizeOf[file.content], file.modified)
    IN  IF hits = {} THEN file.content ELSE (CHOOSE r \in hits : TRUE).content

EffectiveConfiguration(root) ==
    IF root \o KideConfig \in DOMAIN tree THEN tree[root \o KideConfig].content
    ELSE Defaults

\* effective_configuration_input
EffectiveInput(configuration, ids) ==
    [path |-> EffectiveConfig, fingerprint |-> configuration, components |-> ids]

-----------------------------------------------------------------------------
(* The index run. *)

Step(pc) == run.pc = pc
Stop == run' = Idle

\* The configuration is loaded from the root found first, which must have one.
Begin(invocation) ==
    /\ Step("idle") /\ runs < MaxRuns
    /\ LET root == FindWorkspaceRoot(tree, invocation)
       IN  /\ root \o KideConfig \in DOMAIN tree
           /\ run' = [Idle EXCEPT !.pc = "open", !.invocation = invocation,
                                  !.configuration = EffectiveConfiguration(root)]
           /\ quiet' = root
    /\ runs' = runs + 1
    /\ UNCHANGED <<tree, store, clock, torn>>

\* The rows of the root found second can be reused.
OpenIndex ==
    /\ Step("open")
    /\ LET root == FindWorkspaceRoot(tree, run.invocation)
       IN  run' = [run EXCEPT !.pc = "discover", !.invocation = <<>>, !.root = root,
                              !.cached = store[root].metadata]
    /\ UNCHANGED <<tree, store, clock, runs, quiet, torn>>

\* discover_workspace resolves the root once more, from the root.  When that
\* is another one, the first source fails the "workspace path" expectation.
Discover ==
    /\ Step("discover")
    /\ LET root == FindWorkspaceRoot(tree, run.root)
           components == Components(tree, root)
           files == {root \o p : p \in SourcePaths(tree, root)}
       IN  IF \E f \in files : ~IsPrefix(run.root, f)
           THEN Stop /\ quiet' = None
           ELSE /\ run' = [run EXCEPT
                     !.pc = "observe",
                     !.walked = root,
                     !.components = components,
                     !.inputs = ConfigurationInputs(tree, root)
                                  \cup {EffectiveInput(run.configuration, IdsOf(components))},
                     !.todo = files]
                /\ UNCHANGED quiet
    /\ UNCHANGED <<tree, store, clock, runs, torn>>

\* fs::metadata; a file that is gone by now ends the run.
StatSource(file) ==
    /\ Step("observe") /\ run.stat = None
    /\ file \in run.todo
    /\ IF file \notin DOMAIN tree THEN Stop
       ELSE run' = [run EXCEPT !.stat =
              MetadataRow(WorkspacePath(run.root, file), SizeOf[tree[file].content],
                          tree[file].modified, None)]
    /\ UNCHANGED <<tree, store, clock, runs, quiet, torn>>

\* Faulty variant of the next definition: the row takes size and time read anew.
StatAgainObserveSource ==
    /\ Step("observe") /\ run.stat # None
    /\ LET file == run.root \o run.stat.path
           hits == Cached(run.cached, run.stat.path, run.stat.size, run.stat.modified)
           content == IF hits = {} THEN tree[file].content
                      ELSE (CHOOSE r \in hits : TRUE).content
       IN  /\ file \in DOMAIN tree
           /\ run' = [run EXCEPT
                 !.stat = None, !.todo = @ \ {file},
                 !.observed = @ \cup {MetadataRow(run.stat.path, SizeOf[tree[file].content],
                                                  tree[file].modified, content)}]
    /\ UNCHANGED <<tree, store, clock, runs, quiet, torn>>

\* The cached fingerprint when size and time agree, otherwise a read.
ObserveSource ==
    /\ Step("observe") /\ run.stat # None
    /\ LET file == run.root \o run.stat.path
           hits == Cached(run.cached, run.stat.path, run.stat.size, run.stat.modified)
           Observe(content) ==
             run' = [run EXCEPT !.stat = None, !.todo = @ \ {file},
                                !.observed = @ \cup {[run.stat EXCEPT !.content = content]}]
       IN  \/ \E r \in hits : Observe(r.content)
           \/ hits = {} /\ file \in DOMAIN tree /\ Observe(tree[file].content)
           \/ hits = {} /\ file \notin DOMAIN tree /\ Stop
    /\ UNCHANGED <<tree, store, clock, runs, quiet, torn>>

\* What the build worker reads of the inputs.
BuildInputs(inputs) == {i \in inputs : i.path \notin {KideConfig, EffectiveConfig}}

Contexts(inputs, ids) ==
    [id \in ids |-> <<"resolved", ComponentContext(id, BuildInputs(inputs))>>]

\* The worker resolves the build files as they are now; it need not have every
\* component that discovery would find.
Resolutions ==
    LET components == Components(tree, run.walked)
    IN  {Contexts(ConfigurationInputs(tree, run.walked), ids) :
            ids \in {s \in SUBSET IdsOf(components) :
                       \A c \in components : c.root = <<>> => c.id \in s}}

Discovered ==
    LET PathOf(row) == WorkspacePath(run.walked, run.root \o row.path)
    IN  SourceUnits(run.components, {i \in run.inputs : i.path # EffectiveConfig},
                    [p \in {PathOf(r) : r \in run.observed} |->
                       (CHOOSE r \in run.observed : PathOf(r) = p).content])

\* Faulty variant of the next definition: units keep the context they had.
UncontextedSources(manifest) == Discovered

Sources(manifest) == {[u EXCEPT !.context = manifest[u.component]] : u \in Discovered}

\* The stored manifest serves while every input is current, otherwise the build
\* is resolved.  A source of no component in it, or that no worker takes, ends
\* the run.  What is to be written and removed is planned once.
ResolveManifest ==
    /\ Step("observe") /\ run.todo = {}
    /\ LET stored == store[run.walked]
           reused == stored.manifest # None /\ AllCurrent(stored.inputs, run.inputs)
       IN  \E manifest \in IF reused THEN {stored.manifest} ELSE Resolutions :
             /\ \A u \in Discovered : /\ u.component \in DOMAIN manifest
                                      /\ u.component[1] \in WorkerSystems
             /\ run' = [run EXCEPT
                   !.pc = "sources",
                   !.manifest = manifest,
                   !.seen = IF reused THEN {}
                            ELSE {BuildInputs(ConfigurationInputs(tree, run.walked))},
                   !.sources = Sources(manifest),
                   !.changed = Reanalyzed(Sources(manifest), stored.units),
                   !.gone = Removed(Sources(manifest), stored.units)]
    /\ UNCHANGED <<tree, store, clock, runs, quiet, torn>>

\* The rows of a new resolution are there before its inputs are.
Tear == torn' = IF run.seen = {} THEN torn ELSE torn \cup {run.walked}

Others(units, batch) == {u \in units : \A v \in batch : u.id # v.id}

\* remove_snapshot, for a source that is gone or depends on a changed API.
RemoveSource(unit) ==
    /\ Step("sources") /\ unit \in run.gone
    /\ store' = [store EXCEPT ![run.walked].units = Others(@, {unit})]
    /\ run' = [run EXCEPT !.gone = @ \ {unit}]
    /\ UNCHANGED <<tree, clock, runs, quiet, torn>>

OneLane(units) == \A u, v \in units : u.component = v.component /\ u.language = v.language

\* replace_snapshots_batch.  Where all sources make up one batch, what depends on
\* a changed API is removed after it; IndexPublication models which.
CommitBatch(batch) ==
    /\ Step("sources") /\ run.gone = {}
    /\ batch # {} /\ OneLane(batch)
    /\ LET others == Others(store[run.walked].units, batch)
       IN  /\ store' = [store EXCEPT ![run.walked].units = others \cup batch]
           /\ \E dependents \in IF batch = run.changed /\ OneLane(run.sources)
                                THEN SUBSET others ELSE {{}} :
                run' = [run EXCEPT !.changed = @ \ batch, !.gone = dependents]
    /\ Tear
    /\ UNCHANGED <<tree, clock, runs, quiet>>

\* put_manifest.  Without a source there is no batch to take the worker of the
\* dependencies from, and a run that needs one panics.
PutManifest ==
    /\ Step("sources") /\ run.gone = {} /\ run.changed = {}
    /\ run.sources # {} \/ run.manifest = store[run.walked].manifest
    /\ store' = [store EXCEPT ![run.walked].manifest = run.manifest]
    /\ run' = [run EXCEPT !.pc = "inputs"]
    /\ Tear
    /\ UNCHANGED <<tree, clock, runs, quiet>>

\* replace_configuration_inputs
ReplaceInputs ==
    /\ Step("inputs")
    /\ store' = [store EXCEPT ![run.walked].inputs = run.inputs]
    /\ run' = [run EXCEPT !.pc = "checkpoint"]
    /\ torn' = IF run.seen = {BuildInputs(run.inputs)} THEN torn \ {run.walked} ELSE torn
    /\ UNCHANGED <<tree, clock, runs, quiet>>

Identity(units) == {<<u.id, u.content>> : u \in units}
Checkpoint(manifest, inputs, units) ==
    [manifest |-> manifest, inputs |-> inputs, sources |-> Identity(units)]

\* put_workspace_checkpoint
PutCheckpoint ==
    /\ Step("checkpoint")
    /\ store' = [store EXCEPT ![run.walked].checkpoint =
                               Checkpoint(run.manifest, run.inputs, run.sources)]
    /\ run' = [run EXCEPT !.pc = "metadata"]
    /\ UNCHANGED <<tree, clock, runs, quiet, torn>>

\* --materialize-only returns before any of this.
MaterializeOnly ==
    /\ Step("observe") /\ run.todo = {}
    /\ run' = [run EXCEPT !.pc = "metadata"]
    /\ quiet' = None
    /\ UNCHANGED <<tree, store, clock, runs, torn>>

\* replace_source_file_metadata
StoreMetadata ==
    /\ Step("metadata")
    /\ store' = [store EXCEPT ![run.root].metadata = run.observed]
    /\ Stop
    /\ UNCHANGED <<tree, clock, runs, quiet, torn>>

\* An error, a panic or a kill.
Fail ==
    /\ ~Step("idle")
    /\ Stop
    /\ quiet' = None
    /\ UNCHANGED <<tree, store, clock, runs, torn>>

Next ==
    \/ \E f \in Paths : Write(f) \/ Delete(f)
    \/ \E d \in Invocations : Begin(d)
    \/ OpenIndex
    \/ Discover
    \/ \E f \in run.todo : StatSource(f)
    \/ ObserveSource
    \/ ResolveManifest
    \/ \E u \in run.gone : RemoveSource(u)
    \/ \E batch \in SUBSET run.changed : CommitBatch(batch)
    \/ PutManifest
    \/ ReplaceInputs
    \/ PutCheckpoint
    \/ MaterializeOnly
    \/ StoreMetadata
    \/ Fail

Spec == Init /\ [][Next]_vars

-----------------------------------------------------------------------------
(* The commands that only read. *)

DiscoveredNow(root) ==
    SourceUnits(Components(tree, root), ConfigurationInputs(tree, root),
                [p \in SourcePaths(tree, root) |->
                   ObservedContent(store[root].metadata, root, p)])

\* plan_with_source_metadata: the contexts are those of the stored manifest
\* while every input is current.
InputsNow(root) ==
    ConfigurationInputs(tree, root)
        \cup {EffectiveInput(EffectiveConfiguration(root), IdsOf(Components(tree, root)))}

ConfigurationCurrent(root) == AllCurrent(store[root].inputs, InputsNow(root))

PlannedSources(root) ==
    {IF /\ ConfigurationCurrent(root)
        /\ store[root].manifest # None
        /\ u.component \in DOMAIN store[root].manifest
     THEN [u EXCEPT !.context = store[root].manifest[u.component]] ELSE u :
        u \in DiscoveredNow(root)}

\* Faulty variant of the next definition: the effective configuration is no input.
StatusWithoutEffective(workspace) ==
    LET root == FindWorkspaceRoot(tree, workspace)
        stored == store[root]
        inputs == ConfigurationInputs(tree, root)
    IN  CASE stored.manifest = None -> "no_result"
          [] stored.manifest # None /\ stored.checkpoint = None -> "unknown"
          [] /\ stored.checkpoint # None
             /\ AllCurrent(stored.inputs, inputs)
             /\ stored.checkpoint
                  = Checkpoint(stored.manifest, inputs, DiscoveredNow(root)) -> "fresh"
          [] OTHER -> "stale"

\* status: the same inventory, but the configuration is that of the directory
\* it is called from, and the effective input is scoped to the components of the
\* stored manifest.  Comparing the rows themselves adds nothing: they are only
\* looked at when the checkpoint is of other sources.
Status(workspace) ==
    LET root == FindWorkspaceRoot(tree, workspace)
        stored == store[root]
        inputs == ConfigurationInputs(tree, root)
                    \cup {EffectiveInput(EffectiveConfiguration(workspace),
                                         DOMAIN stored.manifest)}
    IN  CASE stored.manifest = None -> "no_result"
          [] stored.manifest # None /\ stored.checkpoint = None -> "unknown"
          [] /\ stored.checkpoint # None
             /\ AllCurrent(stored.inputs, inputs)
             /\ stored.checkpoint
                  = Checkpoint(stored.manifest, inputs, DiscoveredNow(root)) -> "fresh"
          [] OTHER -> "stale"

-----------------------------------------------------------------------------

\* The state has the shape the tables and the run are declared with: what is
\* stored has contexts the build was resolved to, never those of discovery, and
\* a checkpoint only where a manifest is.
TypeOK ==
    /\ DOMAIN tree \subseteq Paths
    /\ \A f \in DOMAIN tree : tree[f] \in File
    /\ \A r \in Roots : /\ \A m \in store[r].metadata :
                              m.content \in Contents /\ m.modified \in 0..MaxEdits
                        /\ \A u \in store[r].units : u.context[1] = "resolved"
                        /\ store[r].checkpoint # None => store[r].manifest # None
    /\ run.root \in Roots
    /\ quiet \in Roots \cup {None}
    /\ torn \subseteq Roots

Here(root) == FindWorkspaceRoot(tree, root) = root

\* source_metadata.rs: a row whose size and time are those of the file has
\* the fingerprint of what the file contains, whatever was edited while the
\* run that wrote the row was looking: a cached answer is never another
\* file content's.
CachedRowsAreTrue ==
    \A r \in Roots : \A m \in store[r].metadata :
        LET file == r \o m.path
        IN  (file \in DOMAIN tree /\ m.modified = tree[file].modified
              /\ m.size = SizeOf[tree[file].content])
              => m.content = tree[file].content

\* index.rs, `--plan` and the next run's reuse: while reconciliation finds
\* every configuration input current, the stored contexts are those the
\* inputs give now, what is planned for analysis are exactly the files whose
\* content is not the indexed one, and what is removed exactly the indexed
\* files that are gone.  No edit of a build file that passes for current moves
\* a source to another component or context, and no run that stopped between
\* two of its transactions leaves a plan that says otherwise: unless it, or a
\* build file edited between discovery and resolution, left rows or a manifest
\* of another resolution than the recorded inputs, and no run since resolved
\* the build anew.
PlanIsExact ==
    \A r \in Roots \ torn :
        (Here(r) /\ store[r].manifest # None /\ ConfigurationCurrent(r)) =>
            /\ store[r].manifest
                 = Contexts(InputsNow(r), DOMAIN store[r].manifest)
            /\ {u.path : u \in Reanalyzed(PlannedSources(r), store[r].units)}
                 = {p \in SourcePaths(tree, r) :
                      ~\E u \in store[r].units : /\ u.path = p
                                                 /\ u.content = tree[r \o p].content}
            /\ {u.path : u \in Removed(PlannedSources(r), store[r].units)}
                 = {u.path : u \in store[r].units} \ SourcePaths(tree, r)

\* commands/search.rs: after a run that completed without an edit meanwhile
\* or since, status called from the root answers fresh, whatever earlier runs
\* left in the tables, provided the manifest the worker resolved has the
\* components that discovery found.
QuietStatusIsFresh ==
    (quiet # None /\ Step("idle")
       /\ DOMAIN store[quiet].manifest = IdsOf(Components(tree, quiet)))
      => Status(quiet) = "fresh"
=============================================================================
