------------------------- MODULE WorkspaceDiscovery -------------------------
(***************************************************************************)
(* What a command makes of a directory tree before any worker runs: where  *)
(* the workspace begins, which files are configuration inputs and which    *)
(* are sources, the components they fall into, the configuration context   *)
(* of each, and how a later tree differs from a stored inventory.          *)
(*                                                                         *)
(* Everything here is a function of the tree.  A path is the sequence of   *)
(* its names from the top of the file system; a tree maps the paths of the *)
(* regular files to what `stat` and a read of the file return, so that a   *)
(* directory is a prefix of a path and a symbolic link, which no walk      *)
(* follows, is left out.  A fingerprint is what it is taken of.            *)
(***************************************************************************)
EXTENDS Naturals, FiniteSets, SequencesExt

CONSTANTS
    KotlinFiles,      \* file names with the extension kt or kts
    JavaFiles,        \* file names with the extension java
    Lockfiles,        \* file names that end in .lockfile
    OneLetterNames    \* directory names as long as "."

\* The names that mark a component's build system, the strongest first.
BuildFiles ==
    << [system |-> "gradle", names |-> {"build.gradle", "build.gradle.kts"}],
       [system |-> "maven", names |-> {"pom.xml"}],
       [system |-> "cargo", names |-> {"Cargo.toml"}],
       [system |-> "npm", names |-> {"package.json"}] >>
ComponentFiles == UNION {BuildFiles[i].names : i \in DOMAIN BuildFiles}

\* CONFIGURATION_FILE_NAMES
Settings == {"settings.gradle", "settings.gradle.kts"}
ConfigurationFileNames ==
    Settings \cup ComponentFiles
        \cup {"gradle.properties", "libs.versions.toml", "gradle.lockfile",
              "maven.config", "maven-wrapper.properties", "package-lock.json",
              "npm-shrinkwrap.json", "pnpm-lock.yaml", "pnpm-workspace.yaml",
              "yarn.lock", ".yarnrc.yml", "bun.lock", "bun.lockb", ".npmrc"}

\* EXCLUDED_DIRECTORIES
ExcludedDirectories ==
    {".git", ".gradle", ".idea", ".kide", "build", "node_modules", "out", "target"}

KideConfig == <<".kide", "config.toml">>
EffectiveConfig == <<".kide", "effective-config">>
GradleWrapper == <<"gradle", "wrapper", "gradle-wrapper.properties">>

-----------------------------------------------------------------------------
(* workspace.rs: the root of the workspace. *)

Ancestors(path) == {SubSeq(path, 1, n) : n \in 0..Len(path)}
Deepest(paths) == CHOOSE p \in paths : \A q \in paths : Len(q) <= Len(p)

HasRegularFile(tree, directory, names) ==
    \E name \in names : Append(directory, name) \in DOMAIN tree
HasDirectory(tree, directory, name) ==
    \E file \in DOMAIN tree : IsStrictPrefix(Append(directory, name), file)

\* The nearest Gradle settings win over the nearest configuration file, and
\* that over the nearest Git repository.
FindWorkspaceRoot(tree, invocation) ==
    LET start == IF invocation \in DOMAIN tree THEN Front(invocation) ELSE invocation
        settings == {d \in Ancestors(start) : HasRegularFile(tree, d, Settings)}
        build == {d \in Ancestors(start) : HasRegularFile(tree, d, ConfigurationFileNames)}
        git == {d \in Ancestors(start) : HasDirectory(tree, d, ".git")}
    IN  Deepest(CASE settings # {} -> settings
                  [] settings = {} /\ build # {} -> build
                  [] settings = {} /\ build = {} /\ git # {} -> git
                  [] OTHER -> {start})

\* workspace_path: a path below the root, as the index stores it.
WorkspacePath(root, path) == SubSeq(path, Len(root) + 1, Len(path))

-----------------------------------------------------------------------------
(* discovery.rs: files, components and sources; input_inventory.rs: the     *)
(* configuration inputs.  From here on paths are relative to the root.      *)

\* collect_files
CollectedFiles(tree, root) ==
    {WorkspacePath(root, file) :
        file \in {f \in DOMAIN tree :
            /\ IsStrictPrefix(root, f)
            /\ \A i \in (Len(root) + 1)..(Len(f) - 1) : f[i] \notin ExcludedDirectories}}

IsConfigurationInput(path) ==
    \/ Last(path) \in ConfigurationFileNames \cup Lockfiles
    \/ path \in {GradleWrapper, KideConfig}

ConfigurationPaths(tree, root) ==
    {p \in CollectedFiles(tree, root) : IsConfigurationInput(p)}
        \cup (IF root \o KideConfig \in DOMAIN tree THEN {KideConfig} ELSE {})

ComponentRoots(tree, root) ==
    {Front(p) : p \in {q \in ConfigurationPaths(tree, root) : Last(q) \in ComponentFiles}}
        \cup {<<>>}

BuildSystemFor(tree, directory) ==
    LET found == {i \in DOMAIN BuildFiles :
                    HasRegularFile(tree, directory, BuildFiles[i].names)}
    IN  IF found = {} THEN "filesystem"
        ELSE BuildFiles[CHOOSE i \in found : \A j \in found : i <= j].system

\* The ID is made of the build system and of the root's path, "root" for the
\* workspace root: a component in a directory of that name shares it.
MakeComponent(tree, root, directory) ==
    [root |-> directory,
     id |-> <<BuildSystemFor(tree, root \o directory),
              IF directory = <<>> THEN <<"root">> ELSE directory>>]

Components(tree, root) ==
    {MakeComponent(tree, root, d) : d \in ComponentRoots(tree, root)}

IdsOf(components) == {c.id : c \in components}

\* The components an input can invalidate.  The deepest root is the one with
\* the longest text, and "." is as long as the name of a one-letter directory.
ComponentScope(path, components) ==
    LET owners == {c \in components : IsPrefix(c.root, path)}
        deepest == Deepest({c.root : c \in owners})
        longest == {deepest} \cup (IF Len(deepest) = 1 /\ deepest[1] \in OneLetterNames
                                   THEN {<<>>} ELSE {})
    IN  IF Len(path) = 1 \/ path = KideConfig THEN IdsOf(components)
        ELSE IdsOf({c \in owners : c.root \in longest})

ConfigurationInputs(tree, root) ==
    {[path |-> p, fingerprint |-> tree[root \o p].content,
      components |-> ComponentScope(p, Components(tree, root))] :
        p \in ConfigurationPaths(tree, root)}

\* component_context_fingerprint
ComponentContext(id, inputs) ==
    {<<i.path, i.fingerprint>> : i \in {j \in inputs : id \in j.components}}

LanguageFor(path) ==
    CASE Last(path) \in KotlinFiles -> "kotlin"
      [] Last(path) \in JavaFiles -> "java"
      [] OTHER -> "none"

SourcePaths(tree, root) ==
    {p \in CollectedFiles(tree, root) : ~IsConfigurationInput(p) /\ LanguageFor(p) # "none"}

SourceOrigin(path) ==
    IF \E i \in DOMAIN path : path[i] = "generated" THEN "generated" ELSE "source"

\* A source belongs to the deepest component around it.  content[p] is what
\* the caller's source_fingerprint answered for p.
SourceUnits(components, inputs, content) ==
    {LET owner == CHOOSE c \in components :
                    c.root = Deepest({d.root : d \in {e \in components : IsPrefix(e.root, p)}})
     IN  [id |-> <<owner.id, p>>, component |-> owner.id, path |-> p,
          language |-> LanguageFor(p), origin |-> SourceOrigin(p),
          content |-> content[p],
          context |-> <<"discovered", ComponentContext(owner.id, inputs)>>] :
        p \in DOMAIN content}

-----------------------------------------------------------------------------
(* What changed since an inventory was stored. *)

\* reconcile_configuration_inputs
InputState(path, persisted, current) ==
    LET previous == {i \in persisted : i.path = path}
        next == {i \in current : i.path = path}
    IN  CASE previous = {} -> "added"
          [] next = {} -> "missing"
          [] previous # {} /\ next # {} /\ previous # next -> "changed"
          [] OTHER -> "current"

\* Faulty variant of the next definition: an added input is overlooked.
PersistedCurrent(persisted, current) ==
    \A path \in {i.path : i \in persisted} :
        InputState(path, persisted, current) = "current"

AllCurrent(persisted, current) ==
    \A path \in {i.path : i \in persisted \cup current} :
        InputState(path, persisted, current) = "current"

\* plan_invalidation: what to analyse, what to drop; the rest is reused.
Reanalyzed(current, persisted) ==
    {u \in current : ~\E v \in persisted : /\ v.id = u.id
                                          /\ v.context = u.context
                                          /\ v.content = u.content}
Removed(current, persisted) ==
    {v \in persisted : \A u \in current : u.id # v.id}
=============================================================================
