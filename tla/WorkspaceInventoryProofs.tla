----------------------- MODULE WorkspaceInventoryProofs -----------------------
(***************************************************************************)
(* Proofs about the cache of file sizes and times, the plan of the next    *)
(* run and the answer of status, for any workspace, any places kide is     *)
(* called from, and any number of edits and index runs.                    *)
(***************************************************************************)
EXTENDS WorkspaceInventory, SequenceTheorems, WellFoundedInduction, TLAPS

-----------------------------------------------------------------------------
(* The root a command finds is an ancestor of where it looks from.          *)

\* Of the directories on the way up one is the deepest.
LEMMA DeepestExists ==
    ASSUME NEW n \in Nat, NEW dirs, dirs # {}, \A d \in dirs : Len(d) \in 0 .. n
    PROVE  Deepest(dirs) \in dirs
<1> DEFINE heights == {n - Len(d) : d \in dirs}
<1>1. heights \subseteq Nat /\ heights # {}
  OBVIOUS
<1>2. PICK least \in heights : \A h \in heights : <<h, least>> \notin OpToRel(<, Nat)
  <2> HIDE DEF heights
  <2> QED
    BY <1>1, NatLessThanWellFounded, WFMin
<1>3. \A h \in heights : ~(h < least)
  <2> SUFFICES ASSUME NEW h \in heights, h < least PROVE FALSE
    OBVIOUS
  <2>1. <<h, least>> \in OpToRel(<, Nat)
    BY <1>1 DEF OpToRel
  <2> QED
    BY <1>2, <2>1
<1>4. PICK d \in dirs : least = n - Len(d)
  BY <1>2
<1>5. \A e \in dirs : Len(e) <= Len(d)
  <2> SUFFICES ASSUME NEW e \in dirs PROVE Len(e) <= Len(d)
    OBVIOUS
  <2>1. ~(n - Len(e) < n - Len(d))
    BY <1>3, <1>4
  <2>2. Len(e) \in 0 .. n /\ Len(d) \in 0 .. n
    OBVIOUS
  <2> QED
    BY <2>1, <2>2
<1> QED
  BY <1>5 DEF Deepest

LEMMA AncestorLength ==
    ASSUME NEW path \in Seq(STRING), NEW d \in Ancestors(path)
    PROVE  Len(d) \in 0 .. Len(path)
<1>1. PICK n \in 0 .. Len(path) : d = SubSeq(path, 1, n)
  BY DEF Ancestors
<1>2. Len(path) \in Nat
  BY LenProperties
<1>3. Len(d) = IF 1 <= n THEN n - 1 + 1 ELSE 0
  BY <1>1, <1>2, SubSeqProperties
<1> QED
  BY <1>2, <1>3

LEMMA SelfIsAncestor ==
    ASSUME NEW path \in Seq(STRING)
    PROVE  path \in Ancestors(path)
<1>1. Len(path) \in Nat /\ SubSeq(path, 1, Len(path)) = path
  BY LenProperties, SubSeqFull
<1>2. Len(path) \in 0 .. Len(path)
  BY <1>1
<1> QED
  BY <1>1, <1>2 DEF Ancestors

LEMMA RootIsAncestor ==
    ASSUME NEW t, NEW d \in Seq(STRING), d \notin DOMAIN t
    PROVE  FindWorkspaceRoot(t, d) \in Ancestors(d)
<1> DEFINE settings == {e \in Ancestors(d) : HasRegularFile(t, e, Settings)}
           build == {e \in Ancestors(d) : HasRegularFile(t, e, ConfigurationFileNames)}
           git == {e \in Ancestors(d) : HasDirectory(t, e, ".git")}
           found == CASE settings # {} -> settings
                      [] settings = {} /\ build # {} -> build
                      [] settings = {} /\ build = {} /\ git # {} -> git
                      [] OTHER -> {d}
<1>1. FindWorkspaceRoot(t, d) = Deepest(found)
  BY DEF FindWorkspaceRoot
<1>2. d \in Ancestors(d)
  BY SelfIsAncestor
<1>3. found # {} /\ found \subseteq Ancestors(d)
  BY <1>2
<1>4. Len(d) \in Nat
  BY LenProperties
<1> HIDE DEF found
<1>5. Deepest(found) \in found
  BY <1>3, <1>4, AncestorLength, DeepestExists
<1> QED
  BY <1>1, <1>3, <1>5

LEMMA AncestorsOfAncestor ==
    ASSUME NEW d \in Seq(STRING), NEW r \in Ancestors(d)
    PROVE  r \in Seq(STRING) /\ Ancestors(r) \subseteq Ancestors(d)
<1>1. PICK n \in 0 .. Len(d) : r = SubSeq(d, 1, n)
  BY DEF Ancestors
<1>2. Len(d) \in Nat /\ n \in Nat /\ n <= Len(d)
  BY <1>1, LenProperties
<1>3. \A i \in 1 .. n : d[i] \in STRING
  <2> TAKE i \in 1 .. n
  <2>1. i \in 1 .. Len(d)
    BY <1>2
  <2> QED
    BY <2>1, ElementOfSeq
<1>4. /\ r \in Seq(STRING)
      /\ Len(r) = IF 1 <= n THEN n - 1 + 1 ELSE 0
  <2>1. 1 \in Int /\ n \in Int
    BY <1>2
  <2> QED
    BY <1>1, <1>3, <2>1, SubSeqProperties
<1>5. ASSUME NEW m \in 0 .. Len(r) PROVE SubSeq(r, 1, m) = SubSeq(d, 1, m) /\ m \in 0 .. Len(d)
  <2>1. Len(r) = n /\ m \in 0 .. n /\ m \in 0 .. Len(d) /\ m \in Int
    BY <1>2, <1>4
  <2>2. CASE m = 0
    <3>1. m < 1 /\ 1 \in Int
      BY <2>2
    <3>2. SubSeq(r, 1, m) = << >> /\ SubSeq(d, 1, m) = << >>
      BY <2>1, <3>1, SubSeqEmpty
    <3> QED
      BY <2>1, <3>2
  <2>3. CASE m # 0
    <3>1. /\ 1 \in 1 .. Len(d) /\ n \in 1 .. Len(d) /\ 1 \in 1 .. n - 1 + 1 /\ m \in 1 .. n - 1 + 1
          /\ 1 + 1 - 1 = 1 /\ 1 + m - 1 = m
      BY <1>2, <2>1, <2>3
    <3>2. SubSeq(SubSeq(d, 1, n), 1, m) = SubSeq(d, 1 + 1 - 1, 1 + m - 1)
      BY <1>4, <3>1, SubSeqOfSubSeq
    <3> QED
      BY <1>1, <2>1, <3>1, <3>2
  <2> QED
    BY <2>2, <2>3
<1>6. ASSUME NEW e \in Ancestors(r) PROVE e \in Ancestors(d)
  <2>1. PICK m \in 0 .. Len(r) : e = SubSeq(r, 1, m)
    BY DEF Ancestors
  <2> QED
    BY <1>5, <2>1 DEF Ancestors
<1> QED
  BY <1>4, <1>6

Names == STRING \cup ComponentFiles \cup {".kide", "config.toml"}

LEMMA PathNames == ASSUME NEW p \in Seq(STRING) PROVE p \in Seq(Names)
<1> DEFINE N == Names
<1>1. STRING \subseteq N
  BY DEF Names
<1> HIDE DEF N
<1>2. p \in Seq(N)
  BY <1>1, SeqMonotonic
<1> QED
  BY <1>2 DEF N

LEMMA RootPaths ==
    ASSUME NEW r \in Roots
    PROVE  /\ r \in Seq(STRING) /\ r \in Seq(Names) /\ r \notin Paths
           /\ Ancestors(r) \subseteq Roots
<1>1. PICK d \in Invocations : r \in Ancestors(d)
  BY DEF Roots
<1>2. d \in Seq(STRING) /\ Ancestors(d) \cap Paths = {}
  BY InventoryAssumption
<1>3. r \in Seq(STRING) /\ Ancestors(r) \subseteq Ancestors(d)
  BY <1>1, <1>2, AncestorsOfAncestor
<1> QED
  BY <1>1, <1>2, <1>3, PathNames DEF Roots

LEMMA EmptyRoot == << >> \in Roots
<1>1. PICK d \in Invocations : d \in Seq(STRING)
  BY InventoryAssumption
<1>2. Len(d) \in Nat
  BY <1>1, LenProperties
<1>3. 0 \in 0 .. Len(d) /\ 0 < 1 /\ 0 \in Int /\ 1 \in Int
  BY <1>2
<1>4. SubSeq(d, 1, 0) = << >>
  BY <1>3, SubSeqEmpty
<1>5. << >> \in Ancestors(d)
  BY <1>3, <1>4 DEF Ancestors
<1> QED
  BY <1>1, <1>5 DEF Roots

-----------------------------------------------------------------------------
(* The invariant.                                                           *)

\* A row may be behind the file, but when it is not it has the file's content.
TrueRow(root, m) ==
    LET file == root \o m.path
    IN  /\ m.modified \in 0 .. clock
        /\ (file \in DOMAIN tree /\ m.modified = tree[file].modified
              /\ m.size = SizeOf[tree[file].content])
             => m.content = tree[file].content

TrueRows(root, rows) == \A m \in rows : TrueRow(root, m)

\* No file is newer than the clock.
Clocked ==
    /\ clock \in Nat
    /\ DOMAIN tree \subseteq Paths
    /\ \A f \in DOMAIN tree : tree[f].modified \in 0 .. clock

Tables(m, u, i, c, d) ==
    [manifest |-> m, units |-> u, inputs |-> i, checkpoint |-> c, metadata |-> d]

Shaped(s) == s = Tables(s.manifest, s.units, s.inputs, s.checkpoint, s.metadata)

RunShaped ==
    run = [pc |-> run.pc, invocation |-> run.invocation, configuration |-> run.configuration,
           root |-> run.root, cached |-> run.cached, walked |-> run.walked,
           components |-> run.components, inputs |-> run.inputs, todo |-> run.todo,
           stat |-> run.stat, observed |-> run.observed, manifest |-> run.manifest,
           seen |-> run.seen, sources |-> run.sources, changed |-> run.changed,
           gone |-> run.gone]

\* The size and time a source had when the run asked.
StatShaped ==
    run.stat # None =>
        /\ run.stat = MetadataRow(run.stat.path, run.stat.size, run.stat.modified, None)
        /\ run.stat.modified \in 0 .. clock

RunRooted ==
    /\ run.root \in Roots /\ run.walked \in Roots
    /\ run.pc = "open" => run.invocation \in Invocations /\ run.observed = {}

IInv ==
    /\ Clocked
    /\ DOMAIN store = Roots
    /\ \A r \in Roots : Shaped(store[r]) /\ TrueRows(r, store[r].metadata)
    /\ RunShaped /\ StatShaped /\ RunRooted
    /\ TrueRows(run.root, run.cached) /\ TrueRows(run.root, run.observed)

LEMMA TreePaths ==
    ASSUME IInv
    PROVE  DOMAIN tree \subseteq Seq(Names) /\ Roots \cap DOMAIN tree = {}
<1>1. DOMAIN tree \subseteq Paths /\ Paths \subseteq Seq(STRING)
  BY InventoryAssumption DEF IInv, Clocked
<1>2. \A p \in DOMAIN tree : p \in Seq(Names)
  BY <1>1, PathNames
<1> QED
  BY <1>1, <1>2, RootPaths

LEMMA FoundRoot ==
    ASSUME IInv, NEW r \in Roots
    PROVE  FindWorkspaceRoot(tree, r) \in Roots
BY RootPaths, TreePaths, RootIsAncestor

LEMMA InvocationIsRoot == Invocations \subseteq Roots
BY SelfIsAncestor, InventoryAssumption DEF Roots

-----------------------------------------------------------------------------
(* The steps of the run in the words of the proofs.                         *)

\* What a step leaves as it is: the files looked at, what was discovered, and
\* what is to be stored.
LooksSame ==
    /\ run'.root = run.root /\ run'.cached = run.cached
    /\ run'.observed = run.observed /\ run'.stat = run.stat
FoundSame ==
    run'.walked = run.walked /\ run'.components = run.components /\ run'.inputs = run.inputs
PlanSame ==
    run'.manifest = run.manifest /\ run'.seen = run.seen /\ run'.sources = run.sources
GoesOn == RunShaped' /\ LooksSame /\ FoundSame /\ PlanSame /\ tree' = tree /\ clock' = clock

LEMMA BeginIs ==
    ASSUME IInv, NEW d \in Invocations, Begin(d)
    PROVE  LET root == FindWorkspaceRoot(tree, d)
           IN  /\ root \in Roots /\ quiet' = root
               /\ run'.pc = "open" /\ run'.invocation = d
               /\ run'.configuration = EffectiveConfiguration(root)
               /\ run'.root = << >> /\ run'.walked = << >> /\ run'.cached = {}
               /\ run'.observed = {} /\ run'.stat = None /\ RunShaped'
               /\ UNCHANGED <<tree, store, clock, torn>>
<1> DEFINE root == FindWorkspaceRoot(tree, d)
           configuration == EffectiveConfiguration(root)
<1>1. root \in Roots
  BY InvocationIsRoot, FoundRoot
<1>2. /\ run' = [Idle EXCEPT !.pc = "open", !.invocation = d, !.configuration = configuration]
      /\ quiet' = root /\ UNCHANGED <<tree, store, clock, torn>>
  BY DEF Begin
<1> HIDE DEF root, configuration
<1>3. /\ run'.pc = "open" /\ run'.invocation = d /\ run'.configuration = configuration
      /\ run'.root = << >> /\ run'.walked = << >> /\ run'.cached = {}
      /\ run'.observed = {} /\ run'.stat = None /\ RunShaped'
  BY <1>2 DEF Idle, RunShaped
<1> QED
  BY <1>1, <1>2, <1>3 DEF root, configuration

LEMMA OpenIs ==
    ASSUME IInv, OpenIndex
    PROVE  LET root == FindWorkspaceRoot(tree, run.invocation)
           IN  /\ root \in Roots /\ run.pc = "open" /\ run'.pc = "discover"
               /\ run'.root = root /\ run'.cached = store[root].metadata
               /\ run'.observed = run.observed /\ run'.stat = run.stat
               /\ run'.configuration = run.configuration
               /\ FoundSame /\ RunShaped' /\ UNCHANGED <<tree, store, clock, quiet, torn>>
<1> DEFINE root == FindWorkspaceRoot(tree, run.invocation)
           rows == store[root].metadata
<1>1. run.pc = "open" /\ RunShaped
  BY DEF OpenIndex, Step, IInv
<1>2. root \in Roots
  BY <1>1, InvocationIsRoot, FoundRoot DEF IInv, RunRooted
<1>3. /\ run' = [run EXCEPT !.pc = "discover", !.invocation = <<>>, !.root = root,
                            !.cached = rows]
      /\ UNCHANGED <<tree, store, clock, quiet, torn>>
  BY DEF OpenIndex
<1> HIDE DEF root, rows
<1>4. /\ run'.pc = "discover" /\ run'.root = root /\ run'.cached = rows
      /\ run'.observed = run.observed /\ run'.stat = run.stat
      /\ run'.configuration = run.configuration /\ FoundSame /\ RunShaped'
  BY <1>1, <1>3 DEF RunShaped, FoundSame
<1> QED
  BY <1>1, <1>2, <1>3, <1>4 DEF root, rows

LEMMA DiscoverIs ==
    ASSUME IInv, Discover
    PROVE  /\ run.pc = "discover" /\ UNCHANGED <<tree, store, clock, torn>>
           /\ \/ Stop /\ quiet' = None
              \/ LET root == FindWorkspaceRoot(tree, run.root)
                     ids == IdsOf(Components(tree, root))
                 IN  /\ LooksSame /\ RunShaped' /\ quiet' = quiet
                     /\ run'.pc = "observe" /\ run'.walked = root /\ root \in Roots
                     /\ run'.components = Components(tree, root)
                     /\ run'.inputs = ConfigurationInputs(tree, root)
                                        \cup {EffectiveInput(run.configuration, ids)}
                     /\ run'.todo = {root \o p : p \in SourcePaths(tree, root)}
<1> DEFINE root == FindWorkspaceRoot(tree, run.root)
           components == Components(tree, root)
           inputs == ConfigurationInputs(tree, root)
                       \cup {EffectiveInput(run.configuration, IdsOf(components))}
           files == {root \o p : p \in SourcePaths(tree, root)}
<1>1. /\ run.pc = "discover" /\ UNCHANGED <<tree, store, clock, torn>>
      /\ \/ Stop /\ quiet' = None
         \/ /\ run' = [run EXCEPT !.pc = "observe", !.walked = root,
                                  !.components = components, !.inputs = inputs, !.todo = files]
            /\ quiet' = quiet
  BY DEF Discover, Step
<1>2. RunShaped /\ root \in Roots
  BY FoundRoot DEF IInv, RunRooted
<1> HIDE DEF root, components, inputs, files
<1>3. run' = [run EXCEPT !.pc = "observe", !.walked = root, !.components = components,
                         !.inputs = inputs, !.todo = files]
        => /\ LooksSame /\ RunShaped' /\ run'.pc = "observe" /\ run'.walked = root
           /\ run'.components = components /\ run'.inputs = inputs /\ run'.todo = files
  BY <1>2 DEF RunShaped, LooksSame
<1> QED
  BY <1>1, <1>2, <1>3 DEF root, components, inputs, files

LEMMA StatIs ==
    ASSUME IInv, NEW file, StatSource(file)
    PROVE  /\ run.pc = "observe" /\ file \in run.todo /\ run.stat = None
           /\ UNCHANGED <<tree, store, clock, quiet, torn>>
           /\ \/ file \notin DOMAIN tree /\ Stop
              \/ /\ file \in DOMAIN tree
                 /\ RunShaped' /\ FoundSame /\ run'.pc = run.pc /\ run'.root = run.root
                 /\ run'.cached = run.cached /\ run'.observed = run.observed
                 /\ run'.todo = run.todo
                 /\ run'.stat = MetadataRow(WorkspacePath(run.root, file),
                                            SizeOf[tree[file].content],
                                            tree[file].modified, None)
<1> DEFINE row == MetadataRow(WorkspacePath(run.root, file), SizeOf[tree[file].content],
                              tree[file].modified, None)
<1>1. /\ run.pc = "observe" /\ file \in run.todo /\ run.stat = None
      /\ UNCHANGED <<tree, store, clock, quiet, torn>>
      /\ \/ file \notin DOMAIN tree /\ Stop
         \/ file \in DOMAIN tree /\ run' = [run EXCEPT !.stat = row]
  BY DEF StatSource, Step
<1>2. RunShaped
  BY DEF IInv
<1> HIDE DEF row
<1>3. run' = [run EXCEPT !.stat = row]
        => /\ RunShaped' /\ FoundSame /\ run'.pc = run.pc /\ run'.root = run.root
           /\ run'.cached = run.cached /\ run'.observed = run.observed
           /\ run'.todo = run.todo /\ run'.stat = row
  BY <1>2 DEF RunShaped, FoundSame
<1> QED
  BY <1>1, <1>3 DEF row

LEMMA ObserveIs ==
    ASSUME IInv, ObserveSource
    PROVE  LET p == run.stat.path
               file == run.root \o p
               hits == Cached(run.cached, p, run.stat.size, run.stat.modified)
           IN  /\ run.pc = "observe" /\ run.stat # None
               /\ UNCHANGED <<tree, store, clock, quiet, torn>>
               /\ \/ file \notin DOMAIN tree /\ Stop
                  \/ \E content :
                       /\ \/ \E m \in hits : content = m.content
                          \/ file \in DOMAIN tree /\ content = tree[file].content
                       /\ RunShaped' /\ FoundSame /\ run'.pc = run.pc /\ run'.root = run.root
                       /\ run'.cached = run.cached /\ run'.stat = None
                       /\ run'.todo = run.todo \ {file}
                       /\ run'.observed = run.observed \cup
                            {MetadataRow(p, run.stat.size, run.stat.modified, content)}
<1> DEFINE p == run.stat.path
           file == run.root \o p
           hits == Cached(run.cached, p, run.stat.size, run.stat.modified)
           Row(content) == MetadataRow(p, run.stat.size, run.stat.modified, content)
           Taken(row) == run' = [run EXCEPT !.stat = None, !.todo = @ \ {file},
                                           !.observed = @ \cup {row}]
<1>1. /\ run.pc = "observe" /\ run.stat # None
      /\ UNCHANGED <<tree, store, clock, quiet, torn>> /\ RunShaped
      /\ run.stat = Row(None)
  BY DEF ObserveSource, Step, IInv, StatShaped
<1>2. ASSUME NEW content PROVE [run.stat EXCEPT !.content = content] = Row(content)
  BY <1>1 DEF MetadataRow
<1>3. \/ file \notin DOMAIN tree /\ Stop
      \/ \E m \in hits : Taken([run.stat EXCEPT !.content = m.content])
      \/ file \in DOMAIN tree /\ Taken([run.stat EXCEPT !.content = tree[file].content])
  BY DEF ObserveSource
<1>4. ASSUME NEW row, Taken(row)
      PROVE  /\ RunShaped' /\ FoundSame /\ run'.pc = run.pc /\ run'.root = run.root
             /\ run'.cached = run.cached /\ run'.stat = None
             /\ run'.todo = run.todo \ {file} /\ run'.observed = run.observed \cup {row}
  <2> HIDE DEF file
  <2> QED
    BY <1>1, <1>4 DEF RunShaped, FoundSame
<1>5. \/ file \notin DOMAIN tree /\ Stop
      \/ \E content : /\ \/ \E m \in hits : content = m.content
                         \/ file \in DOMAIN tree /\ content = tree[file].content
                      /\ Taken(Row(content))
  <2> HIDE DEF hits, file, Taken, Row
  <2> QED
    BY <1>2, <1>3
<1> HIDE DEF hits, file, Taken, Row
<1>6. \/ file \notin DOMAIN tree /\ Stop
      \/ \E content : /\ \/ \E m \in hits : content = m.content
                         \/ file \in DOMAIN tree /\ content = tree[file].content
                      /\ RunShaped' /\ FoundSame /\ run'.pc = run.pc /\ run'.root = run.root
                      /\ run'.cached = run.cached /\ run'.stat = None
                      /\ run'.todo = run.todo \ {file}
                      /\ run'.observed = run.observed \cup {Row(content)}
  BY <1>4, <1>5
<1> QED
  BY <1>1, <1>6 DEF hits, file, Row

LEMMA ResolveIs ==
    ASSUME IInv, ResolveManifest
    PROVE  LET stored == store[run.walked]
           IN  /\ run.pc = "observe" /\ run.todo = {}
               /\ UNCHANGED <<tree, store, clock, quiet, torn>>
               /\ RunShaped' /\ LooksSame /\ FoundSame /\ run'.pc = "sources"
               /\ \A u \in Discovered : u.component \in DOMAIN run'.manifest
               /\ run'.sources = Sources(run'.manifest)
               /\ run'.changed = Reanalyzed(run'.sources, stored.units)
               /\ run'.gone = Removed(run'.sources, stored.units)
               /\ \/ /\ run'.seen = {} /\ run'.manifest = stored.manifest
                     /\ stored.manifest # None /\ AllCurrent(stored.inputs, run.inputs)
                  \/ \E inputs, ids : /\ run'.seen = {BuildInputs(inputs)}
                                      /\ run'.manifest = Contexts(inputs, ids)
<1> DEFINE stored == store[run.walked]
           reused == stored.manifest # None /\ AllCurrent(stored.inputs, run.inputs)
           found == BuildInputs(ConfigurationInputs(tree, run.walked))
<1>1. /\ run.pc = "observe" /\ run.todo = {} /\ RunShaped
      /\ UNCHANGED <<tree, store, clock, quiet, torn>>
  BY DEF ResolveManifest, Step, IInv
<1>2. PICK manifest \in IF reused THEN {stored.manifest} ELSE Resolutions :
        /\ \A u \in Discovered : u.component \in DOMAIN manifest
        /\ run' = [run EXCEPT
              !.pc = "sources", !.manifest = manifest,
              !.seen = IF reused THEN {} ELSE {found},
              !.sources = Sources(manifest),
              !.changed = Reanalyzed(Sources(manifest), stored.units),
              !.gone = Removed(Sources(manifest), stored.units)]
  BY DEF ResolveManifest
<1> DEFINE seen == IF reused THEN {} ELSE {found}
           sources == Sources(manifest)
           changed == Reanalyzed(sources, stored.units)
           gone == Removed(sources, stored.units)
<1>3. run' = [run EXCEPT !.pc = "sources", !.manifest = manifest, !.seen = seen,
                         !.sources = sources, !.changed = changed, !.gone = gone]
  BY <1>2
<1>4. \/ seen = {} /\ manifest = stored.manifest /\ reused
      \/ \E inputs, ids : seen = {BuildInputs(inputs)} /\ manifest = Contexts(inputs, ids)
  <2>1. CASE reused
    BY <1>2, <2>1
  <2>2. CASE ~reused
    <3>1. manifest \in Resolutions /\ seen = {found}
      BY <1>2, <2>2
    <3>2. \E ids : manifest = Contexts(ConfigurationInputs(tree, run.walked), ids)
      BY <3>1 DEF Resolutions
    <3> QED
      BY <3>1, <3>2
  <2> QED
    BY <2>1, <2>2
<1> HIDE DEF seen, sources, changed, gone
<1>5. /\ RunShaped' /\ LooksSame /\ FoundSame /\ run'.pc = "sources"
      /\ run'.manifest = manifest /\ run'.seen = seen /\ run'.sources = sources
      /\ run'.changed = changed /\ run'.gone = gone
  BY <1>1, <1>3 DEF RunShaped, LooksSame, FoundSame
<1> QED
  BY <1>1, <1>2, <1>4, <1>5 DEF sources, changed, gone

\* A step writes one table of one root.
Wrote(w, tables) ==
    /\ DOMAIN store' = Roots /\ store'[w] = tables
    /\ \A r \in Roots \ {w} : store'[r] = store[r]

LEMMA PutIs ==
    ASSUME IInv, NEW w \in Roots, NEW v
    PROVE  LET s == store[w]
           IN  /\ store' = [store EXCEPT ![w].manifest = v]
                    => Wrote(w, Tables(v, s.units, s.inputs, s.checkpoint, s.metadata))
               /\ store' = [store EXCEPT ![w].units = v]
                    => Wrote(w, Tables(s.manifest, v, s.inputs, s.checkpoint, s.metadata))
               /\ store' = [store EXCEPT ![w].inputs = v]
                    => Wrote(w, Tables(s.manifest, s.units, v, s.checkpoint, s.metadata))
               /\ store' = [store EXCEPT ![w].checkpoint = v]
                    => Wrote(w, Tables(s.manifest, s.units, s.inputs, v, s.metadata))
               /\ store' = [store EXCEPT ![w].metadata = v]
                    => Wrote(w, Tables(s.manifest, s.units, s.inputs, s.checkpoint, v))
<1> DEFINE s == store[w]
<1>1. DOMAIN store = Roots /\ s = Tables(s.manifest, s.units, s.inputs, s.checkpoint, s.metadata)
  BY DEF IInv, Shaped
<1>2. ASSUME NEW t, store' = [store EXCEPT ![w] = t] PROVE Wrote(w, t)
  BY <1>1, <1>2 DEF Wrote
<1> HIDE DEF s
<1>3. /\ [s EXCEPT !.manifest = v] = Tables(v, s.units, s.inputs, s.checkpoint, s.metadata)
      /\ [s EXCEPT !.units = v] = Tables(s.manifest, v, s.inputs, s.checkpoint, s.metadata)
      /\ [s EXCEPT !.inputs = v] = Tables(s.manifest, s.units, v, s.checkpoint, s.metadata)
      /\ [s EXCEPT !.checkpoint = v] = Tables(s.manifest, s.units, s.inputs, v, s.metadata)
      /\ [s EXCEPT !.metadata = v] = Tables(s.manifest, s.units, s.inputs, s.checkpoint, v)
  BY <1>1 DEF Tables
<1>4. /\ store' = [store EXCEPT ![w].manifest = v]
           => store' = [store EXCEPT ![w] = [s EXCEPT !.manifest = v]]
      /\ store' = [store EXCEPT ![w].units = v]
           => store' = [store EXCEPT ![w] = [s EXCEPT !.units = v]]
      /\ store' = [store EXCEPT ![w].inputs = v]
           => store' = [store EXCEPT ![w] = [s EXCEPT !.inputs = v]]
      /\ store' = [store EXCEPT ![w].checkpoint = v]
           => store' = [store EXCEPT ![w] = [s EXCEPT !.checkpoint = v]]
      /\ store' = [store EXCEPT ![w].metadata = v]
           => store' = [store EXCEPT ![w] = [s EXCEPT !.metadata = v]]
  BY DEF s
<1> QED
  BY <1>2, <1>3, <1>4 DEF s

\* What a step does to the tables of one root that are no rows of sizes and times.
LEMMA WroteFields ==
    ASSUME NEW w \in Roots, NEW m, NEW u, NEW i, NEW c, NEW d, Wrote(w, Tables(m, u, i, c, d))
    PROVE  /\ store'[w].manifest = m /\ store'[w].units = u /\ store'[w].inputs = i
           /\ store'[w].checkpoint = c /\ store'[w].metadata = d /\ Shaped(store'[w])
BY DEF Wrote, Tables, Shaped

LEMMA RemoveIs ==
    ASSUME IInv, NEW u \in run.gone, RemoveSource(u)
    PROVE  LET s == store[run.walked]
           IN  /\ run.pc = "sources" /\ run'.pc = "sources" /\ UNCHANGED <<quiet, torn>>
               /\ GoesOn /\ run'.changed = run.changed /\ run'.gone = run.gone \ {u}
               /\ Wrote(run.walked, Tables(s.manifest, Others(s.units, {u}), s.inputs,
                                           s.checkpoint, s.metadata))
<1> DEFINE left == Others(store[run.walked].units, {u})
<1>1. /\ run.pc = "sources" /\ UNCHANGED <<tree, clock, quiet, torn>>
      /\ run' = [run EXCEPT !.gone = @ \ {u}]
      /\ store' = [store EXCEPT ![run.walked].units = left]
  BY DEF RemoveSource, Step
<1>2. RunShaped /\ run.walked \in Roots
  BY DEF IInv, RunRooted
<1> HIDE DEF left
<1>3. /\ GoesOn /\ run'.pc = run.pc /\ run'.changed = run.changed
      /\ run'.gone = run.gone \ {u}
  BY <1>1, <1>2 DEF RunShaped, GoesOn, LooksSame, FoundSame, PlanSame
<1> QED
  BY <1>1, <1>2, <1>3, PutIs DEF left

LEMMA CommitIs ==
    ASSUME IInv, NEW batch \in SUBSET run.changed, CommitBatch(batch)
    PROVE  LET s == store[run.walked]
               others == Others(s.units, batch)
           IN  /\ run.pc = "sources" /\ run'.pc = "sources" /\ quiet' = quiet /\ Tear
               /\ GoesOn /\ run.gone = {} /\ run'.changed = run.changed \ batch
               /\ run'.gone \subseteq others
               /\ Wrote(run.walked, Tables(s.manifest, others \cup batch, s.inputs,
                                           s.checkpoint, s.metadata))
<1> DEFINE others == Others(store[run.walked].units, batch)
           units == others \cup batch
<1>1. /\ run.pc = "sources" /\ UNCHANGED <<tree, clock, quiet>> /\ Tear /\ run.gone = {}
      /\ store' = [store EXCEPT ![run.walked].units = units]
  BY DEF CommitBatch, Step
<1>2. PICK dependents \in SUBSET others :
        run' = [run EXCEPT !.changed = @ \ batch, !.gone = dependents]
  BY DEF CommitBatch
<1>3. RunShaped /\ run.walked \in Roots
  BY DEF IInv, RunRooted
<1> HIDE DEF units, others
<1>4. /\ GoesOn /\ run'.pc = run.pc /\ run'.changed = run.changed \ batch
      /\ run'.gone = dependents
  BY <1>1, <1>2, <1>3 DEF RunShaped, GoesOn, LooksSame, FoundSame, PlanSame
<1>5. Wrote(run.walked, Tables(store[run.walked].manifest, units, store[run.walked].inputs,
                               store[run.walked].checkpoint, store[run.walked].metadata))
  BY <1>1, <1>3, PutIs
<1> QED
  BY <1>1, <1>2, <1>4, <1>5 DEF units, others

LEMMA PutManifestIs ==
    ASSUME IInv, PutManifest
    PROVE  LET s == store[run.walked]
           IN  /\ run.pc = "sources" /\ run'.pc = "inputs" /\ quiet' = quiet /\ Tear
               /\ GoesOn /\ run.gone = {} /\ run.changed = {}
               /\ run'.changed = run.changed /\ run'.gone = run.gone
               /\ Wrote(run.walked, Tables(run.manifest, s.units, s.inputs, s.checkpoint,
                                           s.metadata))
<1>1. /\ run.pc = "sources" /\ UNCHANGED <<tree, clock, quiet>> /\ Tear
      /\ run.gone = {} /\ run.changed = {} /\ run' = [run EXCEPT !.pc = "inputs"]
      /\ store' = [store EXCEPT ![run.walked].manifest = run.manifest]
  BY DEF PutManifest, Step
<1>2. RunShaped /\ run.walked \in Roots
  BY DEF IInv, RunRooted
<1>3. /\ GoesOn /\ run'.pc = "inputs" /\ run'.changed = run.changed /\ run'.gone = run.gone
  BY <1>1, <1>2 DEF RunShaped, GoesOn, LooksSame, FoundSame, PlanSame
<1> QED
  BY <1>1, <1>2, <1>3, PutIs

LEMMA ReplaceInputsIs ==
    ASSUME IInv, ReplaceInputs
    PROVE  LET s == store[run.walked]
           IN  /\ run.pc = "inputs" /\ run'.pc = "checkpoint" /\ quiet' = quiet /\ GoesOn
               /\ torn' = IF run.seen = {BuildInputs(run.inputs)} THEN torn \ {run.walked}
                          ELSE torn
               /\ Wrote(run.walked, Tables(s.manifest, s.units, run.inputs, s.checkpoint,
                                           s.metadata))
<1>1. /\ run.pc = "inputs" /\ UNCHANGED <<tree, clock, quiet>>
      /\ run' = [run EXCEPT !.pc = "checkpoint"]
      /\ torn' = IF run.seen = {BuildInputs(run.inputs)} THEN torn \ {run.walked} ELSE torn
      /\ store' = [store EXCEPT ![run.walked].inputs = run.inputs]
  BY DEF ReplaceInputs, Step
<1>2. RunShaped /\ run.walked \in Roots
  BY DEF IInv, RunRooted
<1>3. GoesOn /\ run'.pc = "checkpoint"
  BY <1>1, <1>2 DEF RunShaped, GoesOn, LooksSame, FoundSame, PlanSame
<1> QED
  BY <1>1, <1>2, <1>3, PutIs

LEMMA PutCheckpointIs ==
    ASSUME IInv, PutCheckpoint
    PROVE  LET s == store[run.walked]
           IN  /\ run.pc = "checkpoint" /\ run'.pc = "metadata" /\ UNCHANGED <<quiet, torn>>
               /\ GoesOn
               /\ Wrote(run.walked, Tables(s.manifest, s.units, s.inputs,
                                           Checkpoint(run.manifest, run.inputs, run.sources),
                                           s.metadata))
<1> DEFINE checkpoint == Checkpoint(run.manifest, run.inputs, run.sources)
<1>1. /\ run.pc = "checkpoint" /\ UNCHANGED <<tree, clock, quiet, torn>>
      /\ run' = [run EXCEPT !.pc = "metadata"]
      /\ store' = [store EXCEPT ![run.walked].checkpoint = checkpoint]
  BY DEF PutCheckpoint, Step
<1>2. RunShaped /\ run.walked \in Roots
  BY DEF IInv, RunRooted
<1> HIDE DEF checkpoint
<1>3. GoesOn /\ run'.pc = "metadata"
  BY <1>1, <1>2 DEF RunShaped, GoesOn, LooksSame, FoundSame, PlanSame
<1> QED
  BY <1>1, <1>2, <1>3, PutIs DEF checkpoint

LEMMA MaterializeIs ==
    ASSUME IInv, MaterializeOnly
    PROVE  /\ run.pc = "observe" /\ run'.pc = "metadata" /\ quiet' = None
           /\ UNCHANGED <<store, torn>> /\ GoesOn
<1>1. /\ run.pc = "observe" /\ UNCHANGED <<tree, clock, store, torn>> /\ quiet' = None
      /\ run' = [run EXCEPT !.pc = "metadata"] /\ RunShaped
  BY DEF MaterializeOnly, Step, IInv
<1> QED
  BY <1>1 DEF RunShaped, GoesOn, LooksSame, FoundSame, PlanSame

LEMMA StoreMetadataIs ==
    ASSUME IInv, StoreMetadata
    PROVE  LET s == store[run.root]
           IN  /\ run.pc = "metadata" /\ UNCHANGED <<tree, clock, quiet, torn>> /\ run' = Idle
               /\ Wrote(run.root, Tables(s.manifest, s.units, s.inputs, s.checkpoint,
                                         run.observed))
<1>1. run.root \in Roots
  BY DEF IInv, RunRooted
<1> QED
  BY <1>1, PutIs DEF StoreMetadata, Step, Stop

-----------------------------------------------------------------------------
(* One lemma for each step.                                                 *)

LEMMA InitKeeps ==
    ASSUME Init
    PROVE  IInv
<1>1. PICK t \in InitialTrees : tree = [f \in DOMAIN t |-> [content |-> t[f], modified |-> 0]]
  BY DEF Init
<1>2. PICK F \in SUBSET Paths : t \in [F -> Contents]
  BY InventoryAssumption
<1>3. Clocked
  BY <1>1, <1>2 DEF Init, Clocked
<1>4. DOMAIN store = Roots /\ \A r \in Roots : Shaped(store[r]) /\ TrueRows(r, store[r].metadata)
  BY DEF Init, EmptyStore, Tables, Shaped, TrueRows
<1>5. RunShaped /\ StatShaped /\ RunRooted /\ run.cached = {} /\ run.observed = {}
  BY EmptyRoot DEF Init, Idle, RunShaped, StatShaped, RunRooted
<1> QED
  BY <1>3, <1>4, <1>5 DEF IInv, TrueRows

LEMMA EditKeepsRow ==
    ASSUME Clocked, clock' = clock + 1, NEW file,
           \A f \in DOMAIN tree' \ {file} : f \in DOMAIN tree /\ tree'[f] = tree[f],
           file \in DOMAIN tree' => tree'[file].modified = clock + 1,
           NEW root, NEW m, TrueRow(root, m)
    PROVE  TrueRow(root, m)'
<1>1. m.modified \in 0 .. clock /\ clock \in Nat
  BY DEF Clocked, TrueRow
<1>2. m.modified \in 0 .. clock' /\ m.modified # clock + 1
  BY <1>1
<1>3. CASE root \o m.path = file
  BY <1>2, <1>3 DEF TrueRow
<1>4. CASE root \o m.path # file
  BY <1>2, <1>4 DEF TrueRow
<1> QED
  BY <1>3, <1>4

LEMMA EditKeeps ==
    ASSUME IInv, NEW file \in Paths, Write(file) \/ Delete(file)
    PROVE  IInv'
<1>1. clock' = clock + 1 /\ clock \in Nat /\ UNCHANGED <<store, run>>
  BY DEF Write, Delete, Edited, IInv, Clocked
<1>2. /\ \A f \in DOMAIN tree' \ {file} : f \in DOMAIN tree /\ tree'[f] = tree[f]
      /\ file \in DOMAIN tree' => tree'[file].modified = clock + 1
      /\ DOMAIN tree' \subseteq DOMAIN tree \cup {file}
  <2>1. CASE Write(file)
    <3>1. PICK c \in Contents :
            tree' = [f \in DOMAIN tree \cup {file} |->
                        IF f = file THEN [content |-> c, modified |-> clock + 1] ELSE tree[f]]
      BY <2>1 DEF Write
    <3> QED
      BY <3>1
  <2>2. CASE Delete(file)
    BY <2>2 DEF Delete
  <2> QED
    BY <2>1, <2>2
<1>3. Clocked'
  <2>1. DOMAIN tree' \subseteq Paths
    BY <1>2 DEF IInv, Clocked
  <2>2. ASSUME NEW f \in DOMAIN tree' PROVE tree'[f].modified \in 0 .. clock'
    <3>1. CASE f = file
      BY <1>1, <1>2, <3>1
    <3>2. CASE f # file
      <4>1. tree'[f].modified \in 0 .. clock
        BY <1>2, <3>2 DEF IInv, Clocked
      <4> QED
        BY <1>1, <4>1
    <3> QED
      BY <3>1, <3>2
  <2> QED
    BY <1>1, <2>1, <2>2 DEF Clocked
<1>4. ASSUME NEW root, NEW rows, TrueRows(root, rows) PROVE TrueRows(root, rows)'
  BY <1>1, <1>2, <1>4, EditKeepsRow DEF TrueRows, IInv
<1>5. RunShaped' /\ StatShaped' /\ RunRooted'
  BY <1>1 DEF IInv, RunShaped, StatShaped, RunRooted
<1>6. \A r \in Roots : Shaped(store[r])' /\ TrueRows(r, store[r].metadata)'
  BY <1>1, <1>4 DEF IInv, Shaped
<1>7. TrueRows(run.root, run.cached)' /\ TrueRows(run.root, run.observed)'
  BY <1>1, <1>4 DEF IInv
<1> QED
  BY <1>1, <1>3, <1>5, <1>6, <1>7 DEF IInv

\* A step of the run that writes no table.
\* A step of the run that writes no table.
LEMMA RunKeeps ==
    ASSUME IInv, UNCHANGED <<tree, store, clock>>, RunShaped', StatShaped', RunRooted',
           TrueRows(run'.root, run'.cached), TrueRows(run'.root, run'.observed)
    PROVE  IInv'
BY DEF IInv, Clocked, Shaped, Tables, TrueRows, TrueRow

LEMMA StopKeeps ==
    ASSUME IInv, UNCHANGED <<tree, store, clock>>, Stop
    PROVE  IInv'
<1>1. RunShaped' /\ StatShaped' /\ RunRooted' /\ run'.cached = {} /\ run'.observed = {}
  BY EmptyRoot DEF Stop, Idle, RunShaped, StatShaped, RunRooted
<1> QED
  BY <1>1, RunKeeps DEF TrueRows

LEMMA BeginKeeps ==
    ASSUME IInv, NEW d \in Invocations, Begin(d)
    PROVE  IInv'
<1>1. /\ run'.pc = "open" /\ run'.invocation = d /\ run'.root = << >> /\ run'.walked = << >>
      /\ run'.cached = {} /\ run'.observed = {} /\ run'.stat = None /\ RunShaped'
      /\ UNCHANGED <<tree, store, clock>>
  BY BeginIs
<1>2. StatShaped' /\ RunRooted'
  BY <1>1, EmptyRoot DEF StatShaped, RunRooted
<1> QED
  BY <1>1, <1>2, RunKeeps DEF TrueRows

LEMMA OpenKeeps ==
    ASSUME IInv, OpenIndex
    PROVE  IInv'
<1> DEFINE root == FindWorkspaceRoot(tree, run.invocation)
<1>1. /\ root \in Roots /\ run.pc = "open" /\ run'.pc = "discover"
      /\ run'.root = root /\ run'.cached = store[root].metadata
      /\ run'.observed = run.observed /\ run'.stat = run.stat
      /\ FoundSame /\ RunShaped' /\ UNCHANGED <<tree, store, clock>>
  BY OpenIs
<1> HIDE DEF root
<1>2. StatShaped' /\ RunRooted' /\ run'.observed = {}
  BY <1>1 DEF IInv, StatShaped, RunRooted, FoundSame
<1>3. TrueRows(root, store[root].metadata)
  BY <1>1 DEF IInv
<1> QED
  BY <1>1, <1>2, <1>3, RunKeeps DEF TrueRows

LEMMA DiscoverKeeps ==
    ASSUME IInv, Discover
    PROVE  IInv'
<1>1. UNCHANGED <<tree, store, clock>>
  BY DiscoverIs
<1>2. Stop \/ /\ LooksSame /\ RunShaped' /\ run'.pc = "observe" /\ run'.walked \in Roots
  BY DiscoverIs
<1>3. CASE LooksSame /\ RunShaped' /\ run'.pc = "observe" /\ run'.walked \in Roots
  <2>1. StatShaped' /\ RunRooted'
    BY <1>1, <1>3 DEF IInv, StatShaped, RunRooted, LooksSame
  <2> QED
    BY <1>1, <1>3, <2>1, RunKeeps DEF IInv, LooksSame
<1> QED
  BY <1>1, <1>2, <1>3, StopKeeps

LEMMA StatSourceKeeps ==
    ASSUME IInv, NEW file, StatSource(file)
    PROVE  IInv'
<1> DEFINE row == MetadataRow(WorkspacePath(run.root, file), SizeOf[tree[file].content],
                              tree[file].modified, None)
<1>1. /\ run.pc = "observe" /\ UNCHANGED <<tree, store, clock>>
      /\ \/ Stop
         \/ /\ file \in DOMAIN tree /\ run'.stat = row
            /\ RunShaped' /\ FoundSame /\ run'.pc = run.pc /\ run'.root = run.root
            /\ run'.cached = run.cached /\ run'.observed = run.observed
  BY StatIs
<1>2. CASE file \in DOMAIN tree /\ run'.stat = row
  <2>1. /\ row = MetadataRow(row.path, row.size, row.modified, None)
        /\ row.modified \in 0 .. clock
    BY <1>2 DEF MetadataRow, IInv, Clocked
  <2> HIDE DEF row
  <2>2. StatShaped'
    BY <1>1, <1>2, <2>1 DEF StatShaped
  <2>3. ~Stop => RunRooted'
    BY <1>1 DEF IInv, RunRooted, FoundSame
  <2> QED
    BY <1>1, <2>2, <2>3, StopKeeps, RunKeeps DEF IInv
<1> QED
  BY <1>1, <1>2, StopKeeps

\* The fingerprint of a hit is that of the row, the row that of the file when its
\* size and time are the file's: so the row observed is true, whenever the file
\* was edited.
LEMMA ObserveSourceKeeps ==
    ASSUME IInv, ObserveSource
    PROVE  IInv'
<1> DEFINE p == run.stat.path
           file == run.root \o p
           hits == Cached(run.cached, p, run.stat.size, run.stat.modified)
           Row(content) == MetadataRow(p, run.stat.size, run.stat.modified, content)
<1>1. /\ run.pc = "observe" /\ run.stat # None /\ UNCHANGED <<tree, store, clock>>
  BY ObserveIs
<1>2. \/ Stop
      \/ \E content :
           /\ \/ \E m \in hits : content = m.content
              \/ file \in DOMAIN tree /\ content = tree[file].content
           /\ RunShaped' /\ FoundSame /\ run'.pc = run.pc /\ run'.root = run.root
           /\ run'.cached = run.cached /\ run'.stat = None
           /\ run'.observed = run.observed \cup {Row(content)}
  BY ObserveIs
<1>3. run.stat.modified \in 0 .. clock
  BY <1>1 DEF IInv, StatShaped
<1>4. ASSUME NEW content
      PROVE  /\ Row(content).path = p /\ Row(content).size = run.stat.size
             /\ Row(content).modified = run.stat.modified /\ Row(content).content = content
  BY DEF MetadataRow
<1> HIDE DEF Row
<1>5. ASSUME NEW m \in hits PROVE TrueRow(run.root, Row(m.content))
  <2>1. /\ TrueRow(run.root, m) /\ m.path = p /\ m.size = run.stat.size
        /\ m.modified = run.stat.modified
    BY <1>5 DEF Cached, IInv, TrueRows
  <2> HIDE DEF hits, p
  <2> QED
    BY <1>4, <2>1 DEF TrueRow
<1>6. ASSUME file \in DOMAIN tree PROVE TrueRow(run.root, Row(tree[file].content))
  BY <1>3, <1>4 DEF TrueRow
<1> HIDE DEF hits, file, p
<1>7. CASE ~Stop
  <2>1. PICK content :
           /\ \/ \E m \in hits : content = m.content
              \/ file \in DOMAIN tree /\ content = tree[file].content
           /\ RunShaped' /\ FoundSame /\ run'.pc = run.pc /\ run'.root = run.root
           /\ run'.cached = run.cached /\ run'.stat = None
           /\ run'.observed = run.observed \cup {Row(content)}
    BY <1>2, <1>7
  <2>2. TrueRow(run.root, Row(content))
    BY <1>5, <1>6, <2>1
  <2>3. StatShaped' /\ RunRooted'
    BY <1>1, <2>1 DEF IInv, StatShaped, RunRooted, FoundSame
  <2>4. TrueRows(run'.root, run'.observed) /\ TrueRows(run'.root, run'.cached)
    BY <2>1, <2>2 DEF IInv, TrueRows
  <2> QED
    BY <1>1, <2>1, <2>3, <2>4, RunKeeps
<1> QED
  BY <1>1, <1>7, StopKeeps

\* A step after the last source was looked at, which may write a table.
LEMMA GoesOnKeeps ==
    ASSUME IInv, RunShaped', LooksSame, FoundSame, UNCHANGED <<tree, clock>>, run'.pc # "open",
           DOMAIN store' = Roots,
           \A r \in Roots : Shaped(store'[r]) /\ store'[r].metadata = store[r].metadata
    PROVE  IInv'
<1>1. StatShaped' /\ RunRooted' /\ Clocked'
  BY DEF IInv, StatShaped, RunRooted, Clocked, LooksSame, FoundSame
<1>2. ASSUME NEW root, NEW rows, TrueRows(root, rows) PROVE TrueRows(root, rows)'
  BY <1>2 DEF TrueRows, TrueRow
<1>3. \A r \in Roots : Shaped(store[r])' /\ TrueRows(r, store[r].metadata)'
  BY <1>2 DEF IInv
<1>4. TrueRows(run.root, run.cached)' /\ TrueRows(run.root, run.observed)'
  BY <1>2 DEF IInv, LooksSame
<1> QED
  BY <1>1, <1>3, <1>4 DEF IInv

LEMMA WriteKeeps ==
    ASSUME IInv, GoesOn, run'.pc # "open", NEW m, NEW u, NEW i, NEW c,
           Wrote(run.walked, Tables(m, u, i, c, store[run.walked].metadata))
    PROVE  IInv'
<1>1. run.walked \in Roots
  BY DEF IInv, RunRooted
<1>2. /\ store'[run.walked].metadata = store[run.walked].metadata
      /\ Shaped(store'[run.walked])
  BY <1>1, WroteFields
<1>3. DOMAIN store' = Roots /\ \A r \in Roots \ {run.walked} : store'[r] = store[r]
  BY DEF Wrote
<1>4. ASSUME NEW r \in Roots PROVE Shaped(store'[r]) /\ store'[r].metadata = store[r].metadata
  <2>1. CASE r = run.walked
    BY <1>2, <2>1
  <2>2. CASE r # run.walked
    BY <1>3, <2>2 DEF IInv
  <2> QED
    BY <2>1, <2>2
<1> QED
  BY <1>3, <1>4, GoesOnKeeps DEF GoesOn

LEMMA TableStepsKeep ==
    ASSUME IInv,
           \/ ResolveManifest \/ PutManifest \/ ReplaceInputs \/ PutCheckpoint \/ MaterializeOnly
           \/ \E u \in run.gone : RemoveSource(u)
           \/ \E batch \in SUBSET run.changed : CommitBatch(batch)
    PROVE  IInv'
<1>1. CASE ResolveManifest
  <2>1. /\ RunShaped' /\ LooksSame /\ FoundSame /\ UNCHANGED <<tree, store, clock>>
        /\ run'.pc = "sources"
    BY <1>1, ResolveIs
  <2> QED
    BY <2>1, GoesOnKeeps DEF IInv
<1>2. CASE MaterializeOnly
  <2>1. GoesOn /\ store' = store /\ run'.pc = "metadata"
    BY <1>2, MaterializeIs
  <2> QED
    BY <2>1, GoesOnKeeps DEF IInv, GoesOn
<1>3. CASE PutManifest
  BY <1>3, PutManifestIs, WriteKeeps
<1>4. CASE ReplaceInputs
  BY <1>4, ReplaceInputsIs, WriteKeeps
<1>5. CASE PutCheckpoint
  BY <1>5, PutCheckpointIs, WriteKeeps
<1>6. ASSUME NEW u \in run.gone, RemoveSource(u) PROVE IInv'
  BY <1>6, RemoveIs, WriteKeeps
<1>7. ASSUME NEW batch \in SUBSET run.changed, CommitBatch(batch) PROVE IInv'
  BY <1>7, CommitIs, WriteKeeps
<1> QED
  BY <1>1, <1>2, <1>3, <1>4, <1>5, <1>6, <1>7

LEMMA StoreMetadataKeeps ==
    ASSUME IInv, StoreMetadata
    PROVE  IInv'
<1>1. /\ UNCHANGED <<tree, clock>> /\ run' = Idle /\ run.root \in Roots
      /\ \E m, u, i, c : Wrote(run.root, Tables(m, u, i, c, run.observed))
  BY StoreMetadataIs DEF IInv, RunRooted
<1>2. /\ store'[run.root].metadata = run.observed /\ Shaped(store'[run.root])
      /\ DOMAIN store' = Roots /\ \A r \in Roots \ {run.root} : store'[r] = store[r]
  BY <1>1, WroteFields DEF Wrote
<1>3. ASSUME NEW root, NEW rows, TrueRows(root, rows) PROVE TrueRows(root, rows)'
  BY <1>1, <1>3 DEF TrueRows, TrueRow
<1>4. ASSUME NEW r \in Roots PROVE Shaped(store'[r]) /\ TrueRows(r, store'[r].metadata)
  <2>1. CASE r = run.root
    BY <1>2, <2>1 DEF IInv
  <2>2. CASE r # run.root
    BY <1>2, <2>2 DEF IInv
  <2> QED
    BY <2>1, <2>2
<1>5. RunShaped' /\ StatShaped' /\ RunRooted' /\ run'.cached = {} /\ run'.observed = {}
  BY <1>1, EmptyRoot DEF Idle, RunShaped, StatShaped, RunRooted
<1>6. \A r \in Roots : Shaped(store[r])' /\ TrueRows(r, store[r].metadata)'
  BY <1>3, <1>4
<1>7. TrueRows(run.root, run.cached)' /\ TrueRows(run.root, run.observed)'
  BY <1>5 DEF TrueRows
<1> QED
  BY <1>1, <1>2, <1>5, <1>6, <1>7 DEF IInv, Clocked

LEMMA NextKeeps ==
    ASSUME IInv, [Next]_vars
    PROVE  IInv'
<1>1. CASE UNCHANGED vars
  <2>1. UNCHANGED <<tree, store, run, clock>>
    BY <1>1 DEF vars
  <2>2. RunShaped' /\ StatShaped' /\ RunRooted'
    BY <2>1 DEF IInv, RunShaped, StatShaped, RunRooted
  <2>3. TrueRows(run'.root, run'.cached) /\ TrueRows(run'.root, run'.observed)
    BY <2>1 DEF IInv
  <2> QED
    BY <2>1, <2>2, <2>3, RunKeeps
<1>2. CASE Fail
  BY <1>2, StopKeeps DEF Fail
<1> QED
  BY <1>1, <1>2, EditKeeps, BeginKeeps, OpenKeeps, DiscoverKeeps, StatSourceKeeps,
     ObserveSourceKeeps, TableStepsKeep, StoreMetadataKeeps DEF Next

-----------------------------------------------------------------------------
(* The theorem.                                                             *)

\* A row of source_file_metadata that has a file's size and time has its
\* fingerprint, for any number of edits between the reads of a run
\* (source_metadata.rs, observe_source_file).
THEOREM CachedRowsStayTrue == Spec => []CachedRowsAreTrue
<1>1. IInv => CachedRowsAreTrue
  BY DEF IInv, TrueRows, TrueRow, CachedRowsAreTrue
<1> QED
  BY <1>1, InitKeeps, NextKeeps, PTL DEF Spec

-----------------------------------------------------------------------------
(* Paths: what lies below a root, and what the walk of a tree finds.        *)

LEMMA BelowRoot ==
    ASSUME NEW r \in Seq(Names), NEW p \in Seq(Names), p # << >>
    PROVE  /\ r \o p \in Seq(Names) /\ Len(r \o p) = Len(r) + Len(p)
           /\ \A i \in 1 .. Len(p) : (r \o p)[Len(r) + i] = p[i]
           /\ IsStrictPrefix(r, r \o p) /\ WorkspacePath(r, r \o p) = p
<1> DEFINE N == Names
           f == r \o p
<1>1. r \in Seq(N) /\ p \in Seq(N)
  OBVIOUS
<1> HIDE DEF N
<1>2. Len(r) \in Nat /\ Len(p) \in Nat \ {0}
  BY <1>1, LenProperties, EmptySeq
<1>3. /\ f \in Seq(N) /\ Len(f) = Len(r) + Len(p)
      /\ \A i \in 1 .. Len(r) + Len(p) : f[i] = IF i <= Len(r) THEN r[i] ELSE p[i - Len(r)]
  BY <1>1, ConcatProperties
<1> HIDE DEF f
<1>4. \A i \in 1 .. Len(p) : f[Len(r) + i] = p[i]
  <2> TAKE i \in 1 .. Len(p)
  <2>1. Len(r) + i \in 1 .. Len(r) + Len(p) /\ ~(Len(r) + i <= Len(r))
        /\ (Len(r) + i) - Len(r) = i
    BY <1>2
  <2> QED
    BY <1>3, <2>1
<1>5. SubSeq(f, 1, Len(r)) = r /\ SubSeq(r, 1, Len(r)) = r
  <2>1. SubSeq(r, 1, Len(r)) = r
    BY <1>1, SubSeqFull
  <2>2. \A i \in 1 .. Len(r) : f[i] = r[i]
    <3> TAKE i \in 1 .. Len(r)
    <3>1. i \in 1 .. Len(r) + Len(p) /\ i <= Len(r)
      BY <1>2
    <3> QED
      BY <1>3, <3>1
  <2>3. \A i \in 1 .. Len(r) : f[i] \in N
    BY <1>1, <2>2, ElementOfSeq
  <2>4. /\ SubSeq(f, 1, Len(r)) \in Seq(N) /\ Len(SubSeq(f, 1, Len(r))) = Len(r)
        /\ \A i \in 1 .. Len(r) : SubSeq(f, 1, Len(r))[i] = f[i]
    <3>1. 1 \in Int /\ Len(r) \in Int /\ Len(r) - 1 + 1 = Len(r)
          /\ (IF 1 <= Len(r) THEN Len(r) - 1 + 1 ELSE 0) = Len(r)
      BY <1>2
    <3>2. \A i \in 1 .. Len(r) - 1 + 1 : SubSeq(f, 1, Len(r))[i] = f[1 + i - 1]
      BY <2>3, <3>1, SubSeqProperties
    <3>3. \A i \in 1 .. Len(r) : 1 + i - 1 = i
      OBVIOUS
    <3>4. /\ SubSeq(f, 1, Len(r)) \in Seq(N)
          /\ Len(SubSeq(f, 1, Len(r))) = IF 1 <= Len(r) THEN Len(r) - 1 + 1 ELSE 0
      BY <2>3, <3>1, SubSeqProperties
    <3> QED
      BY <3>1, <3>2, <3>3, <3>4
  <2>5. SubSeq(f, 1, Len(r)) = r
    BY <1>1, <2>2, <2>4, SeqEqual
  <2> QED
    BY <2>1, <2>5
<1>6. SubSeq(f, Len(r) + 1, Len(f)) = p
  <2>1. Len(r) + 1 \in Int /\ Len(f) \in Int /\ Len(r) + 1 <= Len(f)
        /\ Len(f) - (Len(r) + 1) + 1 = Len(p)
    BY <1>2, <1>3
  <2>2. \A i \in Len(r) + 1 .. Len(f) : f[i] \in N
    <3> TAKE i \in Len(r) + 1 .. Len(f)
    <3>1. i \in 1 .. Len(f)
      BY <1>2
    <3> QED
      BY <1>3, <3>1, ElementOfSeq
  <2>3. /\ SubSeq(f, Len(r) + 1, Len(f)) \in Seq(N)
        /\ Len(SubSeq(f, Len(r) + 1, Len(f))) = Len(p)
        /\ \A i \in 1 .. Len(p) : SubSeq(f, Len(r) + 1, Len(f))[i] = f[(Len(r) + 1) + i - 1]
    BY <2>1, <2>2, SubSeqProperties
  <2>4. \A i \in 1 .. Len(p) : (Len(r) + 1) + i - 1 = Len(r) + i
    BY <1>2
  <2>5. \A i \in 1 .. Len(p) : SubSeq(f, Len(r) + 1, Len(f))[i] = p[i]
    BY <1>4, <2>3, <2>4
  <2> QED
    BY <1>1, <2>3, <2>5, SeqEqual
<1>7. Len(r) <= Len(f) /\ r # f
  BY <1>2, <1>3
<1> QED
  BY <1>3, <1>4, <1>5, <1>6, <1>7 DEF f, N, IsStrictPrefix, IsPrefix, WorkspacePath

LEMMA RootAndRest ==
    ASSUME NEW r \in Seq(Names), NEW f \in Seq(Names), IsStrictPrefix(r, f)
    PROVE  /\ WorkspacePath(r, f) \in Seq(Names) /\ WorkspacePath(r, f) # << >>
           /\ r \o WorkspacePath(r, f) = f
<1> DEFINE N == Names
           p == WorkspacePath(r, f)
<1>1. r \in Seq(N) /\ f \in Seq(N)
  OBVIOUS
<1> HIDE DEF N
<1>2. Len(r) \in Nat /\ Len(f) \in Nat /\ Len(r) <= Len(f)
      /\ SubSeq(r, 1, Len(r)) = SubSeq(f, 1, Len(r)) /\ r # f
  BY <1>1, LenProperties DEF IsStrictPrefix, IsPrefix
<1>3. SubSeq(f, 1, Len(r)) = r /\ SubSeq(f, 1, Len(f)) = f
  BY <1>1, <1>2, SubSeqFull
<1>4. SubSeq(f, 1, Len(r)) \o SubSeq(f, Len(r) + 1, Len(f)) = f
  <2>1. CASE Len(f) = 0
    <3>1. Len(r) = Len(f)
      BY <1>2, <2>1
    <3> QED
      BY <1>2, <1>3, <3>1
  <2>2. CASE Len(f) # 0
    <3>1. 1 \in 1 .. Len(f) + 1 /\ Len(r) \in 1 - 1 .. Len(f) /\ Len(f) \in Len(r) .. Len(f)
      BY <1>2, <2>2
    <3>2. SubSeq(f, 1, Len(r)) \o SubSeq(f, Len(r) + 1, Len(f)) = SubSeq(f, 1, Len(f))
      BY <1>1, <3>1, ConcatAdjacentSubSeq
    <3> QED
      BY <1>3, <3>2
  <2> QED
    BY <2>1, <2>2
<1>5. p \in Seq(N)
  <2>1. \A i \in Len(r) + 1 .. Len(f) : f[i] \in N
    <3> TAKE i \in Len(r) + 1 .. Len(f)
    <3>1. i \in 1 .. Len(f)
      BY <1>2
    <3> QED
      BY <1>1, <3>1, ElementOfSeq
  <2>2. Len(r) + 1 \in Int /\ Len(f) \in Int
    BY <1>2
  <2> QED
    BY <2>1, <2>2, SubSeqProperties DEF WorkspacePath
<1>6. r \o p = f
  BY <1>3, <1>4 DEF WorkspacePath
<1>7. p # << >>
  BY <1>1, <1>2, <1>6, ConcatEmptySeq
<1> QED
  BY <1>5, <1>6, <1>7 DEF N

LEMMA SamePath ==
    ASSUME NEW r \in Seq(Names), NEW p \in Seq(Names), NEW q \in Seq(Names),
           p # << >>, q # << >>, r \o p = r \o q
    PROVE  p = q
BY BelowRoot

\* The walk finds the files below the root that are in no excluded directory.
LEMMA Collected ==
    ASSUME NEW t, DOMAIN t \subseteq Seq(Names), NEW r \in Seq(Names), NEW p
    PROVE  p \in CollectedFiles(t, r) <=>
               /\ p \in Seq(Names) /\ p # << >> /\ r \o p \in DOMAIN t
               /\ \A i \in 1 .. Len(p) - 1 : p[i] \notin ExcludedDirectories
<1> DEFINE Found(f) == \A i \in (Len(r) + 1) .. (Len(f) - 1) : f[i] \notin ExcludedDirectories
<1> HIDE DEF Found
<1>1. ASSUME NEW q \in Seq(Names), q # << >>
      PROVE  Found(r \o q) <=> \A i \in 1 .. Len(q) - 1 : q[i] \notin ExcludedDirectories
  <2>1. /\ Len(r) \in Nat /\ Len(q) \in Nat \ {0} /\ Len(r \o q) = Len(r) + Len(q)
        /\ \A i \in 1 .. Len(q) : (r \o q)[Len(r) + i] = q[i]
    BY <1>1, BelowRoot, LenProperties, EmptySeq
  <2>2. ASSUME Found(r \o q), NEW i \in 1 .. Len(q) - 1 PROVE q[i] \notin ExcludedDirectories
    <3>1. Len(r) + i \in (Len(r) + 1) .. (Len(r \o q) - 1) /\ i \in 1 .. Len(q)
      BY <2>1
    <3> QED
      BY <2>1, <2>2, <3>1 DEF Found
  <2>3. ASSUME \A i \in 1 .. Len(q) - 1 : q[i] \notin ExcludedDirectories,
               NEW j \in (Len(r) + 1) .. (Len(r \o q) - 1)
        PROVE  (r \o q)[j] \notin ExcludedDirectories
    <3>1. j - Len(r) \in 1 .. Len(q) - 1 /\ j - Len(r) \in 1 .. Len(q) /\ Len(r) + (j - Len(r)) = j
      BY <2>1
    <3> QED
      BY <2>1, <2>3, <3>1
  <2> QED
    BY <2>2, <2>3 DEF Found
<1>2. ASSUME p \in CollectedFiles(t, r)
      PROVE  /\ p \in Seq(Names) /\ p # << >> /\ r \o p \in DOMAIN t
             /\ \A i \in 1 .. Len(p) - 1 : p[i] \notin ExcludedDirectories
  <2>1. PICK f \in DOMAIN t : IsStrictPrefix(r, f) /\ Found(f) /\ p = WorkspacePath(r, f)
    BY <1>2 DEF CollectedFiles, Found
  <2>2. p \in Seq(Names) /\ p # << >> /\ r \o p = f
    BY <2>1, RootAndRest
  <2> QED
    BY <1>1, <2>1, <2>2
<1>3. ASSUME p \in Seq(Names), p # << >>, r \o p \in DOMAIN t,
             \A i \in 1 .. Len(p) - 1 : p[i] \notin ExcludedDirectories
      PROVE  p \in CollectedFiles(t, r)
  <2>1. IsStrictPrefix(r, r \o p) /\ Found(r \o p) /\ p = WorkspacePath(r, r \o p)
    BY <1>1, <1>3, BelowRoot
  <2> QED
    BY <1>3, <2>1 DEF CollectedFiles, Found
<1> QED
  BY <1>2, <1>3

-----------------------------------------------------------------------------
(* The components are a function of the paths of the configuration inputs:  *)
(* a build file beside another one, stronger or weaker, is an input itself. *)

RootsFrom(paths) == {Front(p) : p \in {q \in paths : Last(q) \in ComponentFiles}} \cup {<< >>}

SystemFrom(paths, d) ==
    LET found == {i \in DOMAIN BuildFiles :
                    \E name \in BuildFiles[i].names : Append(d, name) \in paths}
    IN  IF found = {} THEN "filesystem"
        ELSE BuildFiles[CHOOSE i \in found : \A j \in found : i <= j].system

ComponentsFrom(paths) ==
    {[root |-> d,
      id |-> <<SystemFrom(paths, d), IF d = << >> THEN <<"root">> ELSE d>>] :
        d \in RootsFrom(paths)}

PathsOf(inputs) == {i.path : i \in inputs} \ {EffectiveConfig}

\* The effective configuration is no file of the workspace.
LEMMA EffectiveApart ==
    ASSUME NEW t, DOMAIN t \subseteq Seq(Names), NEW r \in Seq(Names)
    PROVE  EffectiveConfig \notin ConfigurationPaths(t, r)
<1>1. EffectiveConfig # KideConfig /\ Len(EffectiveConfig) = 2 /\ EffectiveConfig[1] = ".kide"
  BY DEF EffectiveConfig, KideConfig
<1>2. 1 \in 1 .. Len(EffectiveConfig) - 1 /\ ".kide" \in ExcludedDirectories
  BY <1>1 DEF ExcludedDirectories
<1>3. EffectiveConfig \notin CollectedFiles(t, r)
  BY <1>1, <1>2, Collected
<1> QED
  BY <1>1, <1>3 DEF ConfigurationPaths

LEMMA InputPaths ==
    ASSUME NEW t, DOMAIN t \subseteq Seq(Names), NEW r \in Seq(Names),
           NEW e, e.path = EffectiveConfig
    PROVE  PathsOf(ConfigurationInputs(t, r) \cup {e}) = ConfigurationPaths(t, r)
<1> DEFINE paths == {i.path : i \in ConfigurationInputs(t, r) \cup {e}}
<1>1. \A p \in ConfigurationPaths(t, r) : p \in paths
  <2> TAKE p \in ConfigurationPaths(t, r)
  <2> DEFINE i == [path |-> p, fingerprint |-> t[r \o p].content,
                   components |-> ComponentScope(p, Components(t, r))]
  <2>1. i \in ConfigurationInputs(t, r) /\ i.path = p
    BY DEF ConfigurationInputs
  <2> QED
    BY <2>1
<1>2. \A i \in ConfigurationInputs(t, r) : i.path \in ConfigurationPaths(t, r)
  BY DEF ConfigurationInputs
<1> QED
  BY <1>1, <1>2, EffectiveApart DEF PathsOf

LEMMA BuildFileNames ==
    /\ \A i \in DOMAIN BuildFiles : BuildFiles[i].names \subseteq ComponentFiles
    /\ ComponentFiles \subseteq {"build.gradle", "build.gradle.kts", "pom.xml", "Cargo.toml",
                                "package.json"}
<1>1. /\ BuildFiles[1].names = {"build.gradle", "build.gradle.kts"}
      /\ BuildFiles[2].names = {"pom.xml"} /\ BuildFiles[3].names = {"Cargo.toml"}
      /\ BuildFiles[4].names = {"package.json"}
      /\ DOMAIN BuildFiles = {1, 2, 3, 4}
  BY DEF BuildFiles
<1> QED
  BY <1>1 DEF ComponentFiles

\* A component's root is the workspace root, or a directory that the walk entered.
LEMMA RootsAreWalked ==
    ASSUME NEW t, DOMAIN t \subseteq Seq(Names), NEW r \in Seq(Names),
           NEW d \in ComponentRoots(t, r)
    PROVE  /\ d \in Seq(Names)
           /\ \A i \in 1 .. Len(d) : d[i] \notin ExcludedDirectories
<1> DEFINE N == Names
<1>1. CASE d = << >>
  BY <1>1
<1>2. CASE d # << >>
  <2>1. PICK p \in ConfigurationPaths(t, r) : Last(p) \in ComponentFiles /\ d = Front(p)
    BY <1>2 DEF ComponentRoots
  <2>2. p # KideConfig
    <3>1. Last(KideConfig) = "config.toml"
      BY DEF KideConfig, Last
    <3> QED
      BY <2>1, <3>1, BuildFileNames
  <2>3. p \in CollectedFiles(t, r)
    BY <2>2 DEF ConfigurationPaths
  <2>4. /\ p \in Seq(N) /\ p # << >>
        /\ \A i \in 1 .. Len(p) - 1 : p[i] \notin ExcludedDirectories
    BY <2>3, Collected
  <2> HIDE DEF N
  <2>5. Len(p) \in Nat \ {0} /\ \A i \in 1 .. Len(p) : p[i] \in N
    BY <2>4, EmptySeq, ElementOfSeq
  <2>6. \A i \in 1 .. Len(p) - 1 : p[i] \in N
    BY <2>5
  <2>7. 1 \in Int /\ Len(p) - 1 \in Int /\ (Len(p) - 1) - 1 + 1 = Len(p) - 1
        /\ (IF 1 <= Len(p) - 1 THEN (Len(p) - 1) - 1 + 1 ELSE 0) = Len(p) - 1
    <3> DEFINE n == Len(p)
    <3>1. n \in Nat \ {0}
      BY <2>5
    <3> HIDE DEF n
    <3>2. 1 \in Int /\ n - 1 \in Int /\ (n - 1) - 1 + 1 = n - 1
      BY <3>1
    <3>3. CASE n = 1
      BY <3>2, <3>3 DEF n
    <3>4. CASE n # 1
      BY <3>1, <3>2, <3>4 DEF n
    <3> QED
      BY <3>3, <3>4
  <2>8. /\ d \in Seq(N)
        /\ Len(d) = IF 1 <= Len(p) - 1 THEN (Len(p) - 1) - 1 + 1 ELSE 0
        /\ \A i \in 1 .. (Len(p) - 1) - 1 + 1 : d[i] = p[1 + i - 1]
    BY <2>1, <2>6, <2>7, SubSeqProperties DEF Front
  <2>9. \A i \in 1 .. Len(d) : 1 + i - 1 = i
    OBVIOUS
  <2> QED
    BY <2>4, <2>7, <2>8, <2>9 DEF N
<1> QED
  BY <1>1, <1>2

LEMMA BuildFileIsInput ==
    ASSUME NEW t, DOMAIN t \subseteq Seq(Names), NEW r \in Seq(Names),
           NEW d \in ComponentRoots(t, r), NEW name \in ComponentFiles
    PROVE  Append(r \o d, name) \in DOMAIN t <=> Append(d, name) \in ConfigurationPaths(t, r)
<1> DEFINE N == Names
           p == Append(d, name)
<1>1. r \in Seq(N) /\ d \in Seq(N) /\ name \in N
  BY RootsAreWalked DEF Names
<1>2. \A i \in 1 .. Len(d) : d[i] \notin ExcludedDirectories
  BY RootsAreWalked
<1> HIDE DEF N
<1>3. /\ p \in Seq(N) /\ p # << >> /\ Len(p) = Len(d) + 1
      /\ \A i \in 1 .. Len(d) : p[i] = d[i] /\ p[Len(d) + 1] = name
  BY <1>1, AppendProperties
<1>4. Append(r \o d, name) = r \o p
  <2>1. r \o d \in Seq(N) /\ <<name>> \in Seq(N)
    BY <1>1, ConcatProperties
  <2>2. Append(r \o d, name) = (r \o d) \o <<name>> /\ p = d \o <<name>>
    BY <1>1, <2>1, AppendIsConcat
  <2> QED
    BY <1>1, <2>1, <2>2, ConcatAssociative
<1>5. Len(d) \in Nat /\ Last(p) = name
  <2>1. Len(d) \in Nat /\ p[Len(d) + 1] = name
    BY <1>1, LenProperties, AppendProperties
  <2> QED
    BY <1>3, <2>1 DEF Last
<1>6. IsConfigurationInput(p) /\ p # KideConfig
  <2>1. name \in ConfigurationFileNames /\ name # "config.toml"
    BY BuildFileNames DEF ConfigurationFileNames
  <2>2. Last(KideConfig) = "config.toml"
    BY DEF KideConfig, Last
  <2> QED
    BY <1>5, <2>1, <2>2 DEF IsConfigurationInput
<1>7. \A i \in 1 .. Len(p) - 1 : p[i] \notin ExcludedDirectories
  BY <1>2, <1>3, <1>5
<1>8. p \in CollectedFiles(t, r) <=> r \o p \in DOMAIN t
  <2>1. p \in Seq(Names)
    BY <1>3 DEF N
  <2> QED
    BY <1>3, <1>7, <2>1, Collected
<1> QED
  BY <1>4, <1>6, <1>8 DEF ConfigurationPaths

LEMMA ComponentsAre ==
    ASSUME NEW t, DOMAIN t \subseteq Seq(Names), NEW r \in Seq(Names)
    PROVE  Components(t, r) = ComponentsFrom(ConfigurationPaths(t, r))
<1> DEFINE C == ConfigurationPaths(t, r)
<1>1. ComponentRoots(t, r) = RootsFrom(C)
  BY DEF ComponentRoots, RootsFrom
<1>2. ASSUME NEW d \in ComponentRoots(t, r)
      PROVE  BuildSystemFor(t, r \o d) = SystemFrom(C, d)
  <2>1. ASSUME NEW i \in DOMAIN BuildFiles
        PROVE  HasRegularFile(t, r \o d, BuildFiles[i].names)
                   <=> \E name \in BuildFiles[i].names : Append(d, name) \in C
    BY <1>2, BuildFileIsInput, BuildFileNames DEF HasRegularFile
  <2> DEFINE here == {i \in DOMAIN BuildFiles :
                        HasRegularFile(t, r \o d, BuildFiles[i].names)}
             found == {i \in DOMAIN BuildFiles :
                        \E name \in BuildFiles[i].names : Append(d, name) \in C}
  <2>2. here = found
    BY <2>1
  <2> HIDE DEF here, found
  <2>3. BuildSystemFor(t, r \o d) =
            IF here = {} THEN "filesystem"
            ELSE BuildFiles[CHOOSE i \in here : \A j \in here : i <= j].system
    BY DEF BuildSystemFor, here
  <2>4. SystemFrom(C, d) =
            IF found = {} THEN "filesystem"
            ELSE BuildFiles[CHOOSE i \in found : \A j \in found : i <= j].system
    BY DEF SystemFrom, found
  <2> QED
    BY <2>2, <2>3, <2>4
<1> HIDE DEF C
<1>3. \A d \in ComponentRoots(t, r) :
        MakeComponent(t, r, d) = [root |-> d,
           id |-> <<SystemFrom(C, d), IF d = << >> THEN <<"root">> ELSE d>>]
  BY <1>2 DEF MakeComponent
<1> QED
  BY <1>1, <1>3 DEF Components, ComponentsFrom, C

-----------------------------------------------------------------------------
(* What the stored units and contexts were computed from.                   *)

Owner(components, p) ==
    CHOOSE c \in components :
        c.root = Deepest({d.root : d \in {e \in components : IsPrefix(e.root, p)}})

\* A unit under the component that the components give, and under its context.
Follows(u, components, manifest) ==
    /\ u.component = Owner(components, u.path).id
    /\ u.id = <<u.component, u.path>>
    /\ u.component \in DOMAIN manifest /\ u.context = manifest[u.component]

StoreFollows(s) ==
    s.manifest # None =>
        /\ s.manifest = Contexts(s.inputs, DOMAIN s.manifest)
        /\ \A v \in s.units : Follows(v, ComponentsFrom(PathsOf(s.inputs)), s.manifest)

\* One row for an ID, which names component and path.
Keyed(units) ==
    /\ \A v \in units : v.id = <<v.component, v.path>>
    /\ \A v, x \in units : v.id = x.id => v = x

RunFollows == run.pc = "observe" => run.components = ComponentsFrom(PathsOf(run.inputs))

\* What the run is to store, and how far it has come: a stored unit that does not
\* follow is still to be removed or replaced.
RunPlans ==
    run.pc \in {"sources", "inputs"} =>
        LET stored == store[run.walked]
            components == ComponentsFrom(PathsOf(run.inputs))
        IN  /\ \A u \in run.sources : Follows(u, components, run.manifest)
            /\ Keyed(run.sources) /\ run.changed \subseteq run.sources
            /\ run.seen = {} => /\ stored.manifest = run.manifest /\ run.manifest # None
                                /\ stored.inputs = run.inputs
            /\ run.seen # {} => \E inputs : /\ run.seen = {BuildInputs(inputs)}
                                            /\ run.manifest = Contexts(inputs, DOMAIN run.manifest)
            /\ \A v \in stored.units : \/ v \in run.gone
                                       \/ Follows(v, components, run.manifest)
                                       \/ \E u \in run.changed : v.id = u.id
            /\ run.pc = "inputs" => /\ run.gone = {} /\ run.changed = {}
                                    /\ stored.manifest = run.manifest
                                    /\ run.seen # {} => run.walked \in torn

PInv ==
    /\ IInv /\ RunFollows /\ RunPlans
    /\ \A r \in Roots : Keyed(store[r].units)
    /\ \A r \in Roots \ torn : StoreFollows(store[r])

\* Reconciliation that finds every input current has found the same inputs.
LEMMA CurrentIsSame ==
    ASSUME NEW persisted, NEW current
    PROVE  AllCurrent(persisted, current) <=> persisted = current
<1> DEFINE Of(inputs, path) == {i \in inputs : i.path = path}
<1>1. ASSUME NEW path
      PROVE  InputState(path, persisted, current) = "current"
                 <=> /\ Of(persisted, path) # {} /\ Of(current, path) # {}
                     /\ Of(persisted, path) = Of(current, path)
  <2> DEFINE P == Of(persisted, path)
             C == Of(current, path)
  <2>1. InputState(path, persisted, current) =
            CASE P = {} -> "added"
              [] C = {} -> "missing"
              [] P # {} /\ C # {} /\ P # C -> "changed"
              [] OTHER -> "current"
    BY DEF InputState
  <2> HIDE DEF P, C
  <2>2. InputState(path, persisted, current) = "current" <=> P # {} /\ C # {} /\ P = C
    <3>1. CASE P = {}
      BY <2>1, <3>1
    <3>2. CASE P # {} /\ C = {}
      BY <2>1, <3>2
    <3>3. CASE P # {} /\ C # {}
      BY <2>1, <3>3
    <3> QED
      BY <3>1, <3>2, <3>3
  <2> QED
    BY <2>2 DEF P, C
<1>2. ASSUME AllCurrent(persisted, current) PROVE persisted = current
  <2>1. ASSUME NEW i \in persisted \cup current PROVE i \in persisted /\ i \in current
    <3>1. InputState(i.path, persisted, current) = "current"
      BY <1>2 DEF AllCurrent
    <3>2. Of(persisted, i.path) = Of(current, i.path)
      BY <1>1, <3>1
    <3>3. i \in Of(persisted, i.path) \/ i \in Of(current, i.path)
      OBVIOUS
    <3>4. i \in Of(persisted, i.path) /\ i \in Of(current, i.path)
      BY <3>2, <3>3
    <3> QED
      BY <3>4
  <2> QED
    BY <2>1
<1>3. ASSUME persisted = current PROVE AllCurrent(persisted, current)
  <2>1. ASSUME NEW i \in persisted \cup current
        PROVE  InputState(i.path, persisted, current) = "current"
    <3>1. i \in Of(persisted, i.path) /\ Of(persisted, i.path) = Of(current, i.path)
      BY <1>3
    <3> QED
      BY <1>1, <3>1
  <2> QED
    BY <2>1 DEF AllCurrent
<1> QED
  BY <1>2, <1>3

LEMMA ContextsOf ==
    ASSUME NEW inputs, NEW ids
    PROVE  /\ DOMAIN Contexts(inputs, ids) = ids
           /\ Contexts(inputs, ids) = Contexts(inputs, DOMAIN Contexts(inputs, ids))
<1>1. DOMAIN Contexts(inputs, ids) = ids
  BY DEF Contexts
<1> QED
  BY <1>1

\* There is one unit for each source, whatever its context is set to.
LEMMA UnitOfSource ==
    ASSUME NEW components, NEW inputs, NEW content,
           NEW u \in SourceUnits(components, inputs, content)
    PROVE  /\ u.path \in DOMAIN content
           /\ u.component = Owner(components, u.path).id
           /\ u.id = <<u.component, u.path>> /\ u.content = content[u.path]
           /\ \A k : LET v == [u EXCEPT !.context = k]
                     IN  /\ v.path = u.path /\ v.component = u.component /\ v.id = u.id
                         /\ v.content = u.content /\ v.context = k
<1>1. PICK p \in DOMAIN content :
        u = [id |-> <<Owner(components, p).id, p>>, component |-> Owner(components, p).id,
             path |-> p, language |-> LanguageFor(p), origin |-> SourceOrigin(p),
             content |-> content[p],
             context |-> <<"discovered", ComponentContext(Owner(components, p).id, inputs)>>]
  BY DEF SourceUnits, Owner
<1> QED
  BY <1>1

LEMMA SourceHasUnit ==
    ASSUME NEW components, NEW inputs, NEW content, NEW p \in DOMAIN content
    PROVE  \E u \in SourceUnits(components, inputs, content) : u.path = p
<1> DEFINE u == [id |-> <<Owner(components, p).id, p>>, component |-> Owner(components, p).id,
                 path |-> p, language |-> LanguageFor(p), origin |-> SourceOrigin(p),
                 content |-> content[p],
                 context |-> <<"discovered", ComponentContext(Owner(components, p).id, inputs)>>]
<1>1. u \in SourceUnits(components, inputs, content)
  BY DEF SourceUnits, Owner
<1>2. u.path = p
  OBVIOUS
<1> QED
  BY <1>1, <1>2

\* Publish in the words of the proofs.
LEMMA OneUnitForAPath ==
    ASSUME NEW components, NEW inputs, NEW content,
           NEW u \in SourceUnits(components, inputs, content),
           NEW v \in SourceUnits(components, inputs, content), u.path = v.path
    PROVE  u = v
<1> DEFINE Unit(p) ==
             [id |-> <<Owner(components, p).id, p>>, component |-> Owner(components, p).id,
              path |-> p, language |-> LanguageFor(p), origin |-> SourceOrigin(p),
              content |-> content[p],
              context |-> <<"discovered", ComponentContext(Owner(components, p).id, inputs)>>]
<1>1. PICK p \in DOMAIN content : u = Unit(p)
  BY DEF SourceUnits, Owner
<1>2. PICK q \in DOMAIN content : v = Unit(q)
  BY DEF SourceUnits, Owner
<1>3. u.path = p /\ v.path = q
  BY <1>1, <1>2
<1> HIDE DEF Unit
<1> QED
  BY <1>1, <1>2, <1>3

\* Contexts see only what the build worker reads.
LEMMA SameBuildSameContexts ==
    ASSUME NEW inputs, NEW others, NEW ids, BuildInputs(inputs) = BuildInputs(others)
    PROVE  Contexts(inputs, ids) = Contexts(others, ids)
BY DEF Contexts

LEMMA InputsGiveComponents ==
    ASSUME IInv, NEW r \in Roots, NEW c, NEW ids
    PROVE  Components(tree, r)
             = ComponentsFrom(PathsOf(ConfigurationInputs(tree, r) \cup {EffectiveInput(c, ids)}))
<1> DEFINE e == EffectiveInput(c, ids)
<1>1. e.path = EffectiveConfig
  BY DEF EffectiveInput
<1> HIDE DEF e
<1>2. PathsOf(ConfigurationInputs(tree, r) \cup {e}) = ConfigurationPaths(tree, r)
  BY <1>1, RootPaths, TreePaths, InputPaths
<1>3. Components(tree, r) = ComponentsFrom(ConfigurationPaths(tree, r))
  BY RootPaths, TreePaths, ComponentsAre
<1> QED
  BY <1>2, <1>3 DEF e

-----------------------------------------------------------------------------
(* One lemma for each step that changes what the store was computed from.   *)

\* The units to store have one component, context and ID each.
LEMMA SourcesFollow ==
    ASSUME run.components = ComponentsFrom(PathsOf(run.inputs)), NEW manifest,
           \A u \in Discovered : u.component \in DOMAIN manifest
    PROVE  /\ \A v \in Sources(manifest) :
                  Follows(v, ComponentsFrom(PathsOf(run.inputs)), manifest)
           /\ Keyed(Sources(manifest))
<1> DEFINE Stored(u) == [u EXCEPT !.context = manifest[u.component]]
<1>1. \A u \in Discovered :
        /\ u.component = Owner(run.components, u.path).id
        /\ u.id = <<u.component, u.path>>
        /\ Stored(u).path = u.path /\ Stored(u).component = u.component /\ Stored(u).id = u.id
        /\ Stored(u).context = manifest[u.component]
  BY UnitOfSource DEF Discovered
<1>2. \A u, v \in Discovered : u.path = v.path => u = v
  BY OneUnitForAPath DEF Discovered
<1>3. Sources(manifest) = {Stored(u) : u \in Discovered}
  BY DEF Sources
<1> HIDE DEF Stored
<1>4. \A v \in Sources(manifest) : Follows(v, ComponentsFrom(PathsOf(run.inputs)), manifest)
  BY <1>1, <1>3 DEF Follows
<1>5. \A v, x \in Sources(manifest) : v.id = x.id => v = x
  <2> SUFFICES ASSUME NEW v \in Sources(manifest), NEW x \in Sources(manifest), v.id = x.id
               PROVE  v = x
    OBVIOUS
  <2>1. PICK u \in Discovered : v = Stored(u)
    BY <1>3
  <2>2. PICK y \in Discovered : x = Stored(y)
    BY <1>3
  <2>3. <<u.component, u.path>> = <<y.component, y.path>>
    BY <1>1, <2>1, <2>2
  <2> QED
    BY <1>2, <2>1, <2>2, <2>3
<1> QED
  BY <1>4, <1>5 DEF Keyed, Follows

\* What is neither gone nor changed is stored as it is to be.
LEMMA PlanCovers ==
    ASSUME NEW sources, NEW units, NEW components, NEW manifest, Keyed(units),
           \A u \in sources : Follows(u, components, manifest), NEW v \in units
    PROVE  \/ v \in Removed(sources, units)
           \/ Follows(v, components, manifest)
           \/ \E u \in Reanalyzed(sources, units) : v.id = u.id
<1> SUFFICES ASSUME v \notin Removed(sources, units),
                    ~\E u \in Reanalyzed(sources, units) : v.id = u.id
             PROVE  Follows(v, components, manifest)
  OBVIOUS
<1>1. PICK u \in sources : u.id = v.id
  BY DEF Removed
<1>2. u \notin Reanalyzed(sources, units)
  BY <1>1
<1>3. PICK x \in units : x.id = u.id /\ x.context = u.context
  BY <1>2 DEF Reanalyzed
<1>4. x = v
  BY <1>1, <1>3 DEF Keyed
<1>5. Follows(u, components, manifest) /\ v.id = <<v.component, v.path>>
  BY DEF Keyed
<1>6. <<v.component, v.path>> = <<u.component, u.path>> /\ v.context = u.context
  BY <1>1, <1>3, <1>4, <1>5 DEF Follows
<1> QED
  BY <1>5, <1>6 DEF Follows

\* A step that leaves store and torn as they are.
LEMMA StoreStays ==
    ASSUME PInv, IInv', RunFollows', RunPlans', UNCHANGED <<store, torn>>
    PROVE  PInv'
BY DEF PInv

LEMMA ResolvePlans ==
    ASSUME PInv, ResolveManifest
    PROVE  PInv'
<1> DEFINE stored == store[run.walked]
           components == ComponentsFrom(PathsOf(run.inputs))
<1>1. /\ IInv /\ run.walked \in Roots /\ Keyed(stored.units)
      /\ run.components = components
  BY DEF PInv, IInv, RunRooted, RunFollows, ResolveManifest, Step
<1>2. /\ FoundSame /\ run'.pc = "sources" /\ UNCHANGED <<store, torn>>
      /\ \A u \in Discovered : u.component \in DOMAIN run'.manifest
      /\ run'.sources = Sources(run'.manifest)
      /\ run'.changed = Reanalyzed(run'.sources, stored.units)
      /\ run'.gone = Removed(run'.sources, stored.units)
      /\ \/ /\ run'.seen = {} /\ run'.manifest = stored.manifest
            /\ stored.manifest # None /\ AllCurrent(stored.inputs, run.inputs)
         \/ \E inputs, ids : /\ run'.seen = {BuildInputs(inputs)}
                             /\ run'.manifest = Contexts(inputs, ids)
  BY <1>1, ResolveIs
<1>3. /\ \A u \in run'.sources : Follows(u, components, run'.manifest)
      /\ Keyed(run'.sources)
  BY <1>1, <1>2, SourcesFollow
<1>4. run'.changed \subseteq run'.sources
  BY <1>2 DEF Reanalyzed
<1>5. \A v \in stored.units : \/ v \in run'.gone
                              \/ Follows(v, components, run'.manifest)
                              \/ \E u \in run'.changed : v.id = u.id
  BY <1>1, <1>2, <1>3, PlanCovers
<1>6. \/ /\ run'.seen = {} /\ stored.manifest = run'.manifest /\ run'.manifest # None
         /\ stored.inputs = run.inputs
      \/ \E inputs : /\ run'.seen = {BuildInputs(inputs)}
                     /\ run'.manifest = Contexts(inputs, DOMAIN run'.manifest)
  BY <1>2, CurrentIsSame, ContextsOf
<1>7. store'[run'.walked] = stored /\ ComponentsFrom(PathsOf(run'.inputs)) = components
      /\ run'.walked = run.walked
  BY <1>2 DEF FoundSame
<1> HIDE DEF stored, components
<1>8. RunPlans'
  <2>1. /\ run'.seen = {} => /\ stored.manifest = run'.manifest /\ run'.manifest # None
                             /\ stored.inputs = run.inputs
        /\ run'.seen # {} => \E inputs : /\ run'.seen = {BuildInputs(inputs)}
                                         /\ run'.manifest = Contexts(inputs, DOMAIN run'.manifest)
    BY <1>6
  <2> QED
    BY <1>2, <1>3, <1>4, <1>5, <1>7, <2>1 DEF RunPlans, FoundSame
<1>9. RunFollows' /\ IInv'
  BY <1>1, <1>2, TableStepsKeep DEF RunFollows
<1> QED
  BY <1>2, <1>8, <1>9, StoreStays

LEMMA RemovePlans ==
    ASSUME PInv, NEW u \in run.gone, RemoveSource(u)
    PROVE  PInv'
<1> DEFINE s == store[run.walked]
           left == Others(s.units, {u})
           components == ComponentsFrom(PathsOf(run.inputs))
<1>1. IInv /\ run.walked \in Roots /\ Keyed(s.units)
  BY DEF PInv, IInv, RunRooted
<1>2. /\ run.pc = "sources" /\ run'.pc = "sources" /\ torn' = torn
      /\ GoesOn /\ run'.changed = run.changed /\ run'.gone = run.gone \ {u}
      /\ Wrote(run.walked, Tables(s.manifest, left, s.inputs, s.checkpoint, s.metadata))
  BY <1>1, RemoveIs
<1>3. left \subseteq s.units /\ \A v \in left : v.id # u.id
  BY DEF Others
<1>4. /\ store'[run.walked].manifest = s.manifest /\ store'[run.walked].units = left
      /\ store'[run.walked].inputs = s.inputs
      /\ \A r \in Roots \ {run.walked} : store'[r] = store[r]
  BY <1>1, <1>2, WroteFields DEF Wrote
<1>5. run'.walked = run.walked /\ run'.inputs = run.inputs /\ run'.manifest = run.manifest
      /\ run'.seen = run.seen /\ run'.sources = run.sources
  BY <1>2 DEF GoesOn, FoundSame, PlanSame
<1> HIDE DEF left, s, components
<1>6. /\ \A x \in run.sources : Follows(x, components, run.manifest)
      /\ Keyed(run.sources) /\ run.changed \subseteq run.sources
      /\ run.seen = {} => /\ s.manifest = run.manifest /\ run.manifest # None
                          /\ s.inputs = run.inputs
      /\ run.seen # {} => \E inputs : /\ run.seen = {BuildInputs(inputs)}
                                      /\ run.manifest = Contexts(inputs, DOMAIN run.manifest)
      /\ \A v \in s.units : \/ v \in run.gone
                            \/ Follows(v, components, run.manifest)
                            \/ \E x \in run.changed : v.id = x.id
  BY <1>2 DEF PInv, RunPlans, s, components
<1>7. \A v \in left : \/ v \in run'.gone
                      \/ Follows(v, components, run.manifest)
                      \/ \E x \in run'.changed : v.id = x.id
  BY <1>2, <1>3, <1>6
<1>8. RunPlans'
  BY <1>2, <1>4, <1>5, <1>6, <1>7 DEF RunPlans, components
<1>9. \A r \in Roots : Keyed(store'[r].units)
  BY <1>1, <1>3, <1>4 DEF PInv, Keyed, s
<1>10. \A r \in Roots \ torn' : StoreFollows(store'[r])
  BY <1>2, <1>3, <1>4 DEF PInv, StoreFollows, s
<1>11. RunFollows' /\ IInv'
  BY <1>1, <1>2, TableStepsKeep DEF RunFollows
<1> QED
  BY <1>8, <1>9, <1>10, <1>11 DEF PInv

LEMMA CommitPlans ==
    ASSUME PInv, NEW batch \in SUBSET run.changed, CommitBatch(batch)
    PROVE  PInv'
<1> DEFINE s == store[run.walked]
           others == Others(s.units, batch)
           components == ComponentsFrom(PathsOf(run.inputs))
<1>1. IInv /\ run.walked \in Roots /\ Keyed(s.units)
  BY DEF PInv, IInv, RunRooted
<1>2. /\ run.pc = "sources" /\ run'.pc = "sources" /\ Tear
      /\ GoesOn /\ run.gone = {} /\ run'.changed = run.changed \ batch
      /\ Wrote(run.walked, Tables(s.manifest, others \cup batch, s.inputs, s.checkpoint,
                                  s.metadata))
  BY <1>1, CommitIs
<1>3. others \subseteq s.units /\ \A v \in others : \A u \in batch : v.id # u.id
  BY DEF Others
<1>4. /\ store'[run.walked].manifest = s.manifest
      /\ store'[run.walked].units = others \cup batch
      /\ store'[run.walked].inputs = s.inputs
      /\ \A r \in Roots \ {run.walked} : store'[r] = store[r]
  <2> DEFINE units == others \cup batch
  <2> HIDE DEF units, others, s
  <2>1. Wrote(run.walked, Tables(s.manifest, units, s.inputs, s.checkpoint, s.metadata))
    BY <1>2 DEF units
  <2> QED
    BY <1>1, <2>1, WroteFields DEF Wrote, units
<1>5. run'.walked = run.walked /\ run'.inputs = run.inputs /\ run'.manifest = run.manifest
      /\ run'.seen = run.seen /\ run'.sources = run.sources
  BY <1>2 DEF GoesOn, FoundSame, PlanSame
<1> HIDE DEF others, s, components
<1>6. /\ \A x \in run.sources : Follows(x, components, run.manifest)
      /\ Keyed(run.sources) /\ run.changed \subseteq run.sources
      /\ run.seen = {} => /\ s.manifest = run.manifest /\ run.manifest # None
                          /\ s.inputs = run.inputs
      /\ run.seen # {} => \E inputs : /\ run.seen = {BuildInputs(inputs)}
                                      /\ run.manifest = Contexts(inputs, DOMAIN run.manifest)
      /\ \A v \in s.units : \/ v \in run.gone
                            \/ Follows(v, components, run.manifest)
                            \/ \E x \in run.changed : v.id = x.id
  BY <1>2 DEF PInv, RunPlans, s, components
<1>7. batch \subseteq run.sources /\ \A v \in batch : Follows(v, components, run.manifest)
  BY <1>6
<1>8. \A v \in others \cup batch : \/ v \in run'.gone
                                   \/ Follows(v, components, run.manifest)
                                   \/ \E x \in run'.changed : v.id = x.id
  BY <1>2, <1>3, <1>6, <1>7
<1>9. RunPlans'
  <2>1. run'.changed \subseteq run'.sources
    BY <1>2, <1>5, <1>6
  <2> QED
    BY <1>2, <1>4, <1>5, <1>6, <1>8, <2>1 DEF RunPlans, components
<1>10. \A r \in Roots : Keyed(store'[r].units)
  <2>1. Keyed(others \cup batch)
    BY <1>1, <1>3, <1>6, <1>7 DEF Keyed
  <2> QED
    BY <1>4, <2>1 DEF PInv
<1>11. \A r \in Roots \ torn' : StoreFollows(store'[r])
  <2> SUFFICES ASSUME NEW r \in Roots \ torn' PROVE StoreFollows(store'[r])
    OBVIOUS
  <2>1. r \notin torn /\ (r = run.walked => run.seen = {})
    BY <1>2 DEF Tear
  <2>2. StoreFollows(store[r])
    BY <2>1 DEF PInv
  <2>3. CASE r # run.walked
    BY <1>4, <2>2, <2>3
  <2>4. CASE r = run.walked
    <3>1. /\ s.manifest = run.manifest /\ s.manifest # None /\ StoreFollows(s)
          /\ components = ComponentsFrom(PathsOf(s.inputs))
      BY <1>6, <2>1, <2>2, <2>4 DEF s, components
    <3>2. \A v \in others \cup batch : Follows(v, components, s.manifest)
      BY <1>3, <1>7, <3>1 DEF StoreFollows
    <3> QED
      BY <1>4, <2>4, <3>1, <3>2 DEF StoreFollows
  <2> QED
    BY <2>3, <2>4
<1>12. RunFollows' /\ IInv'
  BY <1>1, <1>2, TableStepsKeep DEF RunFollows
<1> QED
  BY <1>9, <1>10, <1>11, <1>12 DEF PInv

LEMMA PutManifestPlans ==
    ASSUME PInv, PutManifest
    PROVE  PInv'
<1> DEFINE s == store[run.walked]
           components == ComponentsFrom(PathsOf(run.inputs))
<1>1. IInv /\ run.walked \in Roots
  BY DEF PInv, IInv, RunRooted
<1>2. /\ run.pc = "sources" /\ run'.pc = "inputs" /\ Tear
      /\ GoesOn /\ run.gone = {} /\ run.changed = {}
      /\ run'.changed = run.changed /\ run'.gone = run.gone
      /\ Wrote(run.walked, Tables(run.manifest, s.units, s.inputs, s.checkpoint, s.metadata))
  BY <1>1, PutManifestIs
<1>3. /\ store'[run.walked].manifest = run.manifest /\ store'[run.walked].units = s.units
      /\ store'[run.walked].inputs = s.inputs
      /\ \A r \in Roots \ {run.walked} : store'[r] = store[r]
  BY <1>1, <1>2, WroteFields DEF Wrote
<1>4. run'.walked = run.walked /\ run'.inputs = run.inputs /\ run'.manifest = run.manifest
      /\ run'.seen = run.seen /\ run'.sources = run.sources
  BY <1>2 DEF GoesOn, FoundSame, PlanSame
<1>5. /\ \A x \in run.sources : Follows(x, components, run.manifest)
      /\ Keyed(run.sources)
      /\ run.seen = {} => /\ s.manifest = run.manifest /\ run.manifest # None
                          /\ s.inputs = run.inputs
      /\ run.seen # {} => \E inputs : /\ run.seen = {BuildInputs(inputs)}
                                      /\ run.manifest = Contexts(inputs, DOMAIN run.manifest)
      /\ \A v \in s.units : Follows(v, components, run.manifest)
  BY <1>2 DEF PInv, RunPlans
<1> HIDE DEF s, components
<1>6. run.seen # {} => run.walked \in torn'
  BY <1>2 DEF Tear
<1>7. RunPlans'
  BY <1>2, <1>3, <1>4, <1>5, <1>6 DEF RunPlans, components
<1>8. \A r \in Roots : Keyed(store'[r].units)
  BY <1>3 DEF PInv, s
<1>9. \A r \in Roots \ torn' : StoreFollows(store'[r])
  <2> SUFFICES ASSUME NEW r \in Roots \ torn' PROVE StoreFollows(store'[r])
    OBVIOUS
  <2>1. r \notin torn /\ (r = run.walked => run.seen = {})
    BY <1>2 DEF Tear
  <2>2. StoreFollows(store[r])
    BY <2>1 DEF PInv
  <2>3. CASE r # run.walked
    BY <1>3, <2>2, <2>3
  <2>4. CASE r = run.walked
    <3>1. s.manifest = run.manifest
      BY <1>5, <2>1, <2>4
    <3> QED
      BY <1>3, <2>2, <2>4, <3>1 DEF StoreFollows, s
  <2> QED
    BY <2>3, <2>4
<1>10. RunFollows' /\ IInv'
  BY <1>1, <1>2, TableStepsKeep DEF RunFollows
<1> QED
  BY <1>7, <1>8, <1>9, <1>10 DEF PInv

\* The inputs make the tables whole when they are those the worker resolved.
LEMMA ReplaceInputsPlans ==
    ASSUME PInv, ReplaceInputs
    PROVE  PInv'
<1> DEFINE s == store[run.walked]
           components == ComponentsFrom(PathsOf(run.inputs))
<1>1. IInv /\ run.walked \in Roots
  BY DEF PInv, IInv, RunRooted
<1>2. /\ run.pc = "inputs" /\ run'.pc = "checkpoint"
      /\ torn' = IF run.seen = {BuildInputs(run.inputs)} THEN torn \ {run.walked} ELSE torn
      /\ Wrote(run.walked, Tables(s.manifest, s.units, run.inputs, s.checkpoint, s.metadata))
  BY <1>1, ReplaceInputsIs
<1>3. /\ store'[run.walked].manifest = s.manifest /\ store'[run.walked].units = s.units
      /\ store'[run.walked].inputs = run.inputs
      /\ \A r \in Roots \ {run.walked} : store'[r] = store[r]
  BY <1>1, <1>2, WroteFields DEF Wrote
<1>4. /\ run.seen = {} => s.inputs = run.inputs
      /\ run.seen # {} => \E inputs : /\ run.seen = {BuildInputs(inputs)}
                                      /\ run.manifest = Contexts(inputs, DOMAIN run.manifest)
      /\ \A v \in s.units : Follows(v, components, run.manifest)
      /\ s.manifest = run.manifest
      /\ run.seen # {} => run.walked \in torn
  BY <1>2 DEF PInv, RunPlans
<1> HIDE DEF s, components
<1>5. \A r \in Roots : Keyed(store'[r].units)
  BY <1>3 DEF PInv, s
<1>6. \A r \in Roots \ torn' : StoreFollows(store'[r])
  <2> SUFFICES ASSUME NEW r \in Roots \ torn' PROVE StoreFollows(store'[r])
    OBVIOUS
  <2>1. CASE r # run.walked
    <3>1. r \notin torn
      BY <1>2, <2>1
    <3> QED
      BY <1>3, <2>1, <3>1 DEF PInv
  <2>2. CASE r = run.walked /\ r \notin torn
    <3>1. StoreFollows(s) /\ s.inputs = run.inputs
      BY <1>4, <2>2 DEF PInv, s
    <3> QED
      BY <1>3, <2>2, <3>1 DEF StoreFollows
  <2>3. CASE r = run.walked /\ r \in torn
    <3>1. run.seen = {BuildInputs(run.inputs)}
      BY <1>2, <2>3
    <3>2. PICK inputs : /\ BuildInputs(inputs) = BuildInputs(run.inputs)
                        /\ run.manifest = Contexts(inputs, DOMAIN run.manifest)
      BY <1>4, <3>1
    <3>3. run.manifest = Contexts(run.inputs, DOMAIN run.manifest)
      BY <3>2, SameBuildSameContexts
    <3> QED
      BY <1>3, <1>4, <2>3, <3>3 DEF StoreFollows, components
  <2> QED
    BY <2>1, <2>2, <2>3
<1>7. RunFollows' /\ RunPlans' /\ IInv'
  BY <1>1, <1>2, TableStepsKeep DEF RunFollows, RunPlans
<1> QED
  BY <1>5, <1>6, <1>7 DEF PInv

\* The steps that write the checkpoint or the sizes and times of files.
LEMMA OtherTables ==
    ASSUME PInv, NEW w \in Roots, NEW c, NEW d, torn' = torn,
           Wrote(w, Tables(store[w].manifest, store[w].units, store[w].inputs, c, d))
    PROVE  /\ \A r \in Roots : /\ store'[r].manifest = store[r].manifest
                               /\ store'[r].units = store[r].units
                               /\ store'[r].inputs = store[r].inputs
           /\ \A r \in Roots : Keyed(store'[r].units)
           /\ \A r \in Roots \ torn' : StoreFollows(store'[r])
<1>1. /\ store'[w].manifest = store[w].manifest /\ store'[w].units = store[w].units
      /\ store'[w].inputs = store[w].inputs
      /\ \A r \in Roots \ {w} : store'[r] = store[r]
  BY WroteFields DEF Wrote
<1>2. \A r \in Roots : /\ store'[r].manifest = store[r].manifest
                       /\ store'[r].units = store[r].units
                       /\ store'[r].inputs = store[r].inputs
  BY <1>1
<1> QED
  BY <1>2 DEF PInv, StoreFollows

LEMMA PutCheckpointPlans ==
    ASSUME PInv, PutCheckpoint
    PROVE  PInv'
<1>1. IInv /\ run.walked \in Roots
  BY DEF PInv, IInv, RunRooted
<1>2. /\ run'.pc = "metadata" /\ torn' = torn
      /\ \E c, d : Wrote(run.walked, Tables(store[run.walked].manifest, store[run.walked].units,
                                            store[run.walked].inputs, c, d))
  BY <1>1, PutCheckpointIs
<1>3. RunFollows' /\ RunPlans' /\ IInv'
  BY <1>1, <1>2, TableStepsKeep DEF RunFollows, RunPlans
<1> QED
  BY <1>1, <1>2, <1>3, OtherTables DEF PInv

LEMMA StoreMetadataPlans ==
    ASSUME PInv, StoreMetadata
    PROVE  PInv'
<1>1. IInv /\ run.root \in Roots
  BY DEF PInv, IInv, RunRooted
<1>2. /\ run' = Idle /\ torn' = torn
      /\ \E c, d : Wrote(run.root, Tables(store[run.root].manifest, store[run.root].units,
                                          store[run.root].inputs, c, d))
  BY <1>1, StoreMetadataIs
<1>3. RunFollows' /\ RunPlans' /\ IInv'
  BY <1>1, <1>2, StoreMetadataKeeps DEF RunFollows, RunPlans, Idle
<1> QED
  BY <1>1, <1>2, <1>3, OtherTables DEF PInv

\* Up to the resolution nothing is planned or stored.
LEMMA LookingPlans ==
    ASSUME PInv,
           \/ \E d \in Invocations : Begin(d)
           \/ OpenIndex \/ Discover \/ \E f \in run.todo : StatSource(f)
           \/ ObserveSource \/ MaterializeOnly \/ Fail
    PROVE  PInv'
<1>1. IInv
  BY DEF PInv
<1>2. CASE Stop /\ UNCHANGED <<tree, store, clock, torn>>
  <2>1. RunFollows' /\ RunPlans' /\ IInv'
    BY <1>1, <1>2, StopKeeps DEF Stop, Idle, RunFollows, RunPlans
  <2> QED
    BY <1>2, <2>1, StoreStays
<1>3. ASSUME NEW d \in Invocations, Begin(d) PROVE PInv'
  <2>1. run'.pc = "open" /\ UNCHANGED <<store, torn>>
    BY <1>1, <1>3, BeginIs
  <2>2. RunFollows' /\ RunPlans' /\ IInv'
    BY <1>1, <1>3, <2>1, BeginKeeps DEF RunFollows, RunPlans
  <2> QED
    BY <2>1, <2>2, StoreStays
<1>4. CASE OpenIndex
  <2>1. run'.pc = "discover" /\ UNCHANGED <<store, torn>>
    BY <1>1, <1>4, OpenIs
  <2>2. RunFollows' /\ RunPlans' /\ IInv'
    BY <1>1, <1>4, <2>1, OpenKeeps DEF RunFollows, RunPlans
  <2> QED
    BY <2>1, <2>2, StoreStays
<1>5. CASE Discover
  <2> DEFINE root == FindWorkspaceRoot(tree, run.root)
             ids == IdsOf(Components(tree, root))
  <2>1. /\ UNCHANGED <<tree, store, clock, torn>>
        /\ \/ Stop
           \/ /\ run'.pc = "observe" /\ root \in Roots
              /\ run'.components = Components(tree, root)
              /\ run'.inputs = ConfigurationInputs(tree, root)
                                 \cup {EffectiveInput(run.configuration, ids)}
    BY <1>1, <1>5, DiscoverIs
  <2>2. CASE ~Stop
    <3>1. RunFollows'
      BY <1>1, <2>1, <2>2, InputsGiveComponents DEF RunFollows
    <3>2. RunPlans' /\ IInv'
      BY <1>1, <1>5, <2>1, <2>2, DiscoverKeeps DEF RunPlans
    <3> QED
      BY <2>1, <3>1, <3>2, StoreStays
  <2> QED
    BY <1>2, <2>1, <2>2
<1>6. ASSUME NEW f \in run.todo, StatSource(f) PROVE PInv'
  <2>1. /\ UNCHANGED <<tree, store, clock, torn>> /\ run.pc = "observe"
        /\ Stop \/ (run'.pc = run.pc /\ FoundSame)
    BY <1>1, <1>6, StatIs
  <2>2. ~Stop => RunFollows' /\ RunPlans' /\ IInv'
    BY <1>1, <1>6, <2>1, StatSourceKeeps DEF PInv, RunFollows, RunPlans, FoundSame
  <2> QED
    BY <1>2, <2>1, <2>2, StoreStays
<1>7. CASE ObserveSource
  <2>1. /\ UNCHANGED <<tree, store, clock, torn>> /\ run.pc = "observe"
        /\ Stop \/ (run'.pc = run.pc /\ FoundSame)
    BY <1>1, <1>7, ObserveIs
  <2>2. ~Stop => RunFollows' /\ RunPlans' /\ IInv'
    BY <1>1, <1>7, <2>1, ObserveSourceKeeps DEF PInv, RunFollows, RunPlans, FoundSame
  <2> QED
    BY <1>2, <2>1, <2>2, StoreStays
<1>8. CASE MaterializeOnly
  <2>1. run'.pc = "metadata" /\ UNCHANGED <<store, torn>>
    BY <1>1, <1>8, MaterializeIs
  <2>2. RunFollows' /\ RunPlans' /\ IInv'
    BY <1>1, <1>8, <2>1, TableStepsKeep DEF RunFollows, RunPlans
  <2> QED
    BY <2>1, <2>2, StoreStays
<1>9. CASE Fail
  BY <1>2, <1>9 DEF Fail
<1> QED
  BY <1>3, <1>4, <1>5, <1>6, <1>7, <1>8, <1>9

LEMMA PlanInvariant == Spec => []PInv
<1>1. Init => PInv
  <2> SUFFICES ASSUME Init PROVE PInv
    OBVIOUS
  <2>1. IInv /\ run.pc = "idle"
    BY InitKeeps DEF Init, Idle
  <2>2. \A r \in Roots : store[r].manifest = None /\ store[r].units = {}
    BY DEF Init, EmptyStore
  <2> QED
    BY <2>1, <2>2 DEF PInv, RunFollows, RunPlans, StoreFollows, Keyed
<1>2. PInv /\ [Next]_vars => PInv'
  <2> SUFFICES ASSUME PInv, [Next]_vars PROVE PInv'
    OBVIOUS
  <2>1. IInv'
    BY NextKeeps DEF PInv
  <2>2. CASE UNCHANGED <<store, run, torn>>
    <3>1. RunFollows' /\ RunPlans'
      BY <2>2 DEF PInv, RunFollows, RunPlans
    <3> QED
      BY <2>1, <2>2, <3>1, StoreStays
  <2>3. (\E f \in Paths : Write(f) \/ Delete(f)) \/ UNCHANGED vars
          => UNCHANGED <<store, run, torn>>
    BY DEF Write, Delete, Edited, vars
  <2> QED
    BY <2>2, <2>3, LookingPlans, ResolvePlans, RemovePlans, CommitPlans, PutManifestPlans,
       ReplaceInputsPlans, PutCheckpointPlans, StoreMetadataPlans DEF Next
<1> QED
  BY <1>1, <1>2, PTL DEF Spec

-----------------------------------------------------------------------------
(* The plan.                                                                *)

\* A source that is discovered now, under the content that is read of it.
LEMMA TrueObserved ==
    ASSUME IInv, NEW r \in Roots, NEW p \in SourcePaths(tree, r)
    PROVE  /\ r \o p \in DOMAIN tree /\ p \in Seq(Names) /\ p # << >>
           /\ ObservedContent(store[r].metadata, r, p) = tree[r \o p].content
<1> DEFINE file == tree[r \o p]
           rows == store[r].metadata
           hits == Cached(rows, p, SizeOf[file.content], file.modified)
<1>1. r \o p \in DOMAIN tree /\ p \in Seq(Names) /\ p # << >>
  <2>1. p \in CollectedFiles(tree, r)
    BY DEF SourcePaths
  <2> QED
    BY <2>1, RootPaths, TreePaths, Collected
<1>2. ObservedContent(rows, r, p) = IF hits = {} THEN file.content
                                    ELSE (CHOOSE m \in hits : TRUE).content
  BY DEF ObservedContent
<1>3. ASSUME NEW m \in hits PROVE m.content = file.content
  <2>1. /\ TrueRow(r, m) /\ m.path = p /\ m.size = SizeOf[file.content]
        /\ m.modified = file.modified
    BY <1>3 DEF Cached, IInv, TrueRows
  <2> QED
    BY <1>1, <2>1 DEF TrueRow
<1> HIDE DEF file, hits, rows
<1>4. ObservedContent(rows, r, p) = file.content
  BY <1>2, <1>3
<1> QED
  BY <1>1, <1>4 DEF file, rows

LEMMA UnitsNow ==
    ASSUME IInv, NEW r \in Roots
    PROVE  /\ \A u \in DiscoveredNow(r) :
                  /\ u.path \in SourcePaths(tree, r)
                  /\ u.component = Owner(Components(tree, r), u.path).id
                  /\ u.id = <<u.component, u.path>>
                  /\ u.content = tree[r \o u.path].content
                  /\ \A k : LET v == [u EXCEPT !.context = k]
                            IN  /\ v.path = u.path /\ v.component = u.component /\ v.id = u.id
                                /\ v.content = u.content /\ v.context = k
           /\ \A p \in SourcePaths(tree, r) : \E u \in DiscoveredNow(r) : u.path = p
<1> DEFINE content == [p \in SourcePaths(tree, r) |->
                          ObservedContent(store[r].metadata, r, p)]
           components == Components(tree, r)
           inputs == ConfigurationInputs(tree, r)
<1>1. /\ DOMAIN content = SourcePaths(tree, r)
      /\ \A p \in SourcePaths(tree, r) : content[p] = tree[r \o p].content
  BY TrueObserved
<1>2. DiscoveredNow(r) = SourceUnits(components, inputs, content)
  BY DEF DiscoveredNow
<1> HIDE DEF content, inputs
<1>3. ASSUME NEW u \in DiscoveredNow(r)
      PROVE  /\ u.path \in SourcePaths(tree, r)
             /\ u.component = Owner(components, u.path).id
             /\ u.id = <<u.component, u.path>> /\ u.content = content[u.path]
             /\ \A k : LET v == [u EXCEPT !.context = k]
                       IN  /\ v.path = u.path /\ v.component = u.component /\ v.id = u.id
                           /\ v.content = u.content /\ v.context = k
  <2> HIDE DEF components
  <2> QED
    BY <1>1, <1>2, UnitOfSource
<1>4. \A p \in SourcePaths(tree, r) : \E u \in DiscoveredNow(r) : u.path = p
  BY <1>1, <1>2, SourceHasUnit
<1> QED
  BY <1>1, <1>3, <1>4

LEMMA PlannedNow ==
    ASSUME IInv, NEW r \in Roots, store[r].manifest # None, ConfigurationCurrent(r)
    PROVE  /\ \A v \in PlannedSources(r) :
                  /\ v.path \in SourcePaths(tree, r)
                  /\ v.component = Owner(Components(tree, r), v.path).id
                  /\ v.id = <<v.component, v.path>>
                  /\ v.content = tree[r \o v.path].content
                  /\ v.component \in DOMAIN store[r].manifest =>
                        v.context = store[r].manifest[v.component]
           /\ \A p \in SourcePaths(tree, r) : \E v \in PlannedSources(r) : v.path = p
<1> DEFINE M == store[r].manifest
           Plan(u) == IF u.component \in DOMAIN M
                      THEN [u EXCEPT !.context = M[u.component]] ELSE u
<1>1. PlannedSources(r) = {Plan(u) : u \in DiscoveredNow(r)}
  BY DEF PlannedSources
<1>2. ASSUME NEW u \in DiscoveredNow(r)
      PROVE  /\ Plan(u).path = u.path /\ Plan(u).component = u.component
             /\ Plan(u).id = u.id /\ Plan(u).content = u.content
             /\ u.component \in DOMAIN M => Plan(u).context = M[u.component]
  <2>1. CASE u.component \in DOMAIN M
    <3> DEFINE k == M[u.component]
    <3>1. Plan(u) = [u EXCEPT !.context = k]
      BY <2>1
    <3> HIDE DEF k
    <3>2. LET v == [u EXCEPT !.context = k]
          IN  /\ v.path = u.path /\ v.component = u.component /\ v.id = u.id
              /\ v.content = u.content /\ v.context = k
      BY UnitsNow
    <3> HIDE DEF Plan
    <3> QED
      BY <3>1, <3>2 DEF k
  <2>2. CASE u.component \notin DOMAIN M
    BY <2>2
  <2> QED
    BY <2>1, <2>2
<1> HIDE DEF Plan
<1>3. ASSUME NEW v \in PlannedSources(r)
      PROVE  /\ v.path \in SourcePaths(tree, r)
             /\ v.component = Owner(Components(tree, r), v.path).id
             /\ v.id = <<v.component, v.path>>
             /\ v.content = tree[r \o v.path].content
             /\ v.component \in DOMAIN M => v.context = M[v.component]
  <2>1. PICK u \in DiscoveredNow(r) : v = Plan(u)
    BY <1>1
  <2>2. /\ u.path \in SourcePaths(tree, r)
        /\ u.component = Owner(Components(tree, r), u.path).id
        /\ u.id = <<u.component, u.path>>
        /\ u.content = tree[r \o u.path].content
    BY UnitsNow
  <2> QED
    BY <1>2, <2>1, <2>2
<1>4. ASSUME NEW p \in SourcePaths(tree, r) PROVE \E v \in PlannedSources(r) : v.path = p
  <2>1. PICK u \in DiscoveredNow(r) : u.path = p
    BY UnitsNow
  <2> QED
    BY <1>1, <1>2, <2>1
<1> QED
  BY <1>3, <1>4

LEMMA ExactPlan ==
    ASSUME PInv, NEW r \in Roots \ torn, store[r].manifest # None, ConfigurationCurrent(r)
    PROVE  /\ store[r].manifest = Contexts(InputsNow(r), DOMAIN store[r].manifest)
           /\ {u.path : u \in Reanalyzed(PlannedSources(r), store[r].units)}
                = {p \in SourcePaths(tree, r) :
                     ~\E u \in store[r].units : /\ u.path = p
                                                /\ u.content = tree[r \o p].content}
           /\ {u.path : u \in Removed(PlannedSources(r), store[r].units)}
                = {u.path : u \in store[r].units} \ SourcePaths(tree, r)
<1> DEFINE M == store[r].manifest
           planned == PlannedSources(r)
           units == store[r].units
           sources == SourcePaths(tree, r)
           components == Components(tree, r)
<1>1. store[r].inputs = InputsNow(r)
  BY CurrentIsSame DEF ConfigurationCurrent
<1>2. StoreFollows(store[r]) /\ IInv
  BY DEF PInv
<1>3. ComponentsFrom(PathsOf(store[r].inputs)) = components
  BY <1>1, <1>2, InputsGiveComponents DEF InputsNow
<1>4. \A v \in units : /\ v.component = Owner(components, v.path).id
                       /\ v.id = <<v.component, v.path>>
                       /\ v.component \in DOMAIN M /\ v.context = M[v.component]
  BY <1>2, <1>3 DEF StoreFollows, Follows
<1>5. /\ \A v \in planned : /\ v.path \in sources
                            /\ v.component = Owner(components, v.path).id
                            /\ v.id = <<v.component, v.path>>
                            /\ v.content = tree[r \o v.path].content
                            /\ v.component \in DOMAIN M => v.context = M[v.component]
      /\ \A p \in sources : \E v \in planned : v.path = p
  BY <1>2, PlannedNow
<1>6. M = Contexts(InputsNow(r), DOMAIN M)
  BY <1>1, <1>2 DEF StoreFollows
<1> HIDE DEF M, planned, units, sources, components
<1>7. ASSUME NEW u \in planned, NEW v \in units
      PROVE  v.id = u.id <=> v.path = u.path
  BY <1>4, <1>5
<1>8. ASSUME NEW u \in planned
      PROVE  u \in Reanalyzed(planned, units)
                 <=> ~\E v \in units : v.path = u.path /\ v.content = tree[r \o u.path].content
  <2>1. ASSUME NEW v \in units
        PROVE  /\ v.id = u.id /\ v.context = u.context /\ v.content = u.content
               <=> v.path = u.path /\ v.content = tree[r \o u.path].content
    <3>1. v.path = u.path => v.context = u.context
      BY <1>4, <1>5
    <3> QED
      BY <1>5, <1>7, <3>1
  <2> QED
    BY <2>1 DEF Reanalyzed
<1>9. {u.path : u \in Reanalyzed(planned, units)}
        = {p \in sources : ~\E v \in units : v.path = p /\ v.content = tree[r \o p].content}
  <2>1. Reanalyzed(planned, units) \subseteq planned
    BY DEF Reanalyzed
  <2>2. ASSUME NEW u \in Reanalyzed(planned, units)
        PROVE  /\ u.path \in sources
               /\ ~\E v \in units : v.path = u.path /\ v.content = tree[r \o u.path].content
    BY <1>5, <1>8, <2>1
  <2>3. ASSUME NEW p \in sources,
               ~\E v \in units : v.path = p /\ v.content = tree[r \o p].content
        PROVE  \E u \in Reanalyzed(planned, units) : u.path = p
    <3>1. PICK u \in planned : u.path = p
      BY <1>5
    <3> QED
      BY <1>8, <2>3, <3>1
  <2> QED
    BY <2>2, <2>3
<1>10. {u.path : u \in Removed(planned, units)} = {u.path : u \in units} \ sources
  <2>1. ASSUME NEW v \in units
        PROVE  v \in Removed(planned, units) <=> v.path \notin sources
    <3>1. v \in Removed(planned, units) <=> \A u \in planned : u.path # v.path
      BY <1>7 DEF Removed
    <3> QED
      BY <1>5, <3>1
  <2>2. Removed(planned, units) \subseteq units
    BY DEF Removed
  <2> QED
    BY <2>1, <2>2
<1> QED
  BY <1>6, <1>9, <1>10 DEF M, planned, units, sources

\* While no configuration input differs from the recorded ones, whatever build files
\* were edited and restored and between whatever transactions runs stopped: the contexts
\* the plan reuses are those a new resolution of the same components would give, it
\* analyses exactly the files whose content is not stored, and removes exactly those
\* that are gone, provided the rows and the manifest are of the resolution the recorded
\* inputs are of (input_inventory.rs, reconcile_configuration_inputs; index.rs, --plan).
THEOREM PlanIsExactHolds == Spec => []PlanIsExact
<1>1. PInv => PlanIsExact
  BY ExactPlan DEF PlanIsExact
<1> QED
  BY <1>1, PlanInvariant, PTL

-----------------------------------------------------------------------------
(* The shape of the state.                                                  *)

\* What stands for a row that is not there is no row.
NoneIsNoRow ==
    /\ \A inputs, ids : Contexts(inputs, ids) # None
    /\ \A manifest, inputs, units : Checkpoint(manifest, inputs, units) # None

TypedRows(rows) == \A m \in rows : m.content \in Contents

ResolvedManifest(manifest) ==
    manifest # None => \A id \in DOMAIN manifest : manifest[id][1] = "resolved"

TablesTyped(s) ==
    /\ ResolvedManifest(s.manifest)
    /\ \A u \in s.units : u.context[1] = "resolved"
    /\ s.checkpoint # None => s.manifest # None

\* The manifest is in place when the checkpoint is written.
StoreTyped ==
    /\ \A r \in Roots : TablesTyped(store[r])
    /\ run.pc \in {"sources", "inputs"} =>
           /\ run.manifest # None /\ ResolvedManifest(run.manifest)
           /\ \A u \in run.sources : u.context[1] = "resolved"
    /\ run.pc = "checkpoint" => store[run.walked].manifest # None

FilesTyped ==
    /\ clock \in 0 .. MaxEdits
    /\ \A f \in DOMAIN tree : tree[f] \in File
    /\ \A r \in Roots : TypedRows(store[r].metadata)
    /\ TypedRows(run.cached) /\ TypedRows(run.observed)

HistoryTyped == quiet \in Roots \cup {None} /\ torn \subseteq Roots

Typed == FilesTyped /\ StoreTyped /\ HistoryTyped

LEMMA InitTyped ==
    ASSUME Init
    PROVE  Typed
<1>1. PICK t \in InitialTrees : tree = [f \in DOMAIN t |-> [content |-> t[f], modified |-> 0]]
  BY DEF Init
<1>2. PICK F \in SUBSET Paths : t \in [F -> Contents]
  BY InventoryAssumption
<1>3. 0 \in 0 .. MaxEdits
  BY InventoryAssumption
<1>4. \A f \in DOMAIN tree : tree[f] \in File
  BY <1>1, <1>2, <1>3 DEF File
<1>5. FilesTyped
  BY <1>3, <1>4 DEF Init, FilesTyped, TypedRows, EmptyStore, Idle
<1>6. StoreTyped /\ HistoryTyped
  BY DEF Init, StoreTyped, HistoryTyped, TablesTyped, ResolvedManifest, EmptyStore, Idle
<1> QED
  BY <1>5, <1>6 DEF Typed

LEMMA TreeTyped ==
    ASSUME IInv, FilesTyped, [Next]_vars
    PROVE  clock' \in 0 .. MaxEdits /\ \A f \in DOMAIN tree' : tree'[f] \in File
<1>1. CASE UNCHANGED <<tree, clock>>
  BY <1>1 DEF FilesTyped
<1>2. ASSUME NEW file \in Paths, Write(file) \/ Delete(file)
      PROVE  clock' \in 0 .. MaxEdits /\ \A f \in DOMAIN tree' : tree'[f] \in File
  <2>1. clock' = clock + 1 /\ clock < MaxEdits
    BY <1>2 DEF Write, Delete, Edited
  <2>2. clock' \in 0 .. MaxEdits
    BY <2>1, InventoryAssumption DEF FilesTyped
  <2>3. CASE Write(file)
    <3>1. PICK c \in Contents :
            tree' = [f \in DOMAIN tree \cup {file} |->
                        IF f = file THEN [content |-> c, modified |-> clock + 1] ELSE tree[f]]
      BY <2>3 DEF Write
    <3> QED
      BY <2>1, <2>2, <3>1 DEF FilesTyped, File
  <2>4. CASE Delete(file)
    BY <2>2, <2>4 DEF Delete, FilesTyped
  <2> QED
    BY <1>2, <2>2, <2>3, <2>4
<1> QED
  BY <1>1, <1>2 DEF Next, vars, Begin, OpenIndex, Discover, StatSource, ObserveSource,
     ResolveManifest, RemoveSource, CommitBatch, PutManifest, ReplaceInputs, PutCheckpoint,
     MaterializeOnly, StoreMetadata, Fail

\* What the run may do to its rows.
LEMMA RowsOfRun ==
    ASSUME IInv, [Next]_vars
    PROVE  \/ run'.cached = run.cached /\ run'.observed = run.observed
           \/ run'.cached = {} /\ run'.observed = {}
           \/ \E r \in Roots : run'.cached = store[r].metadata /\ run'.observed = run.observed
           \/ \E row : /\ run'.cached = run.cached /\ run'.observed = run.observed \cup {row}
                       /\ \/ \E m \in run.cached : row.content = m.content
                          \/ \E f \in DOMAIN tree : row.content = tree[f].content
<1>1. CASE run' = run \/ LooksSame
  BY <1>1 DEF LooksSame
<1>2. CASE Stop
  BY <1>2 DEF Stop, Idle
<1>3. ASSUME NEW d \in Invocations, Begin(d) PROVE run'.cached = {} /\ run'.observed = {}
  BY <1>3, BeginIs
<1>4. OpenIndex => \E r \in Roots : /\ run'.cached = store[r].metadata
                                    /\ run'.observed = run.observed
  BY OpenIs
<1>5. Discover => Stop \/ LooksSame
  BY DiscoverIs
<1>6. ASSUME NEW f \in run.todo, StatSource(f)
      PROVE  Stop \/ (run'.cached = run.cached /\ run'.observed = run.observed)
  BY <1>6, StatIs
<1>7. CASE ObserveSource
  <2> DEFINE p == run.stat.path
             file == run.root \o p
             hits == Cached(run.cached, p, run.stat.size, run.stat.modified)
             Row(content) == MetadataRow(p, run.stat.size, run.stat.modified, content)
  <2>1. \/ Stop
        \/ \E content : /\ \/ \E m \in hits : content = m.content
                           \/ file \in DOMAIN tree /\ content = tree[file].content
                        /\ run'.cached = run.cached
                        /\ run'.observed = run.observed \cup {Row(content)}
    BY <1>7, ObserveIs
  <2>2. hits \subseteq run.cached /\ \A content : Row(content).content = content
    BY DEF Cached, MetadataRow
  <2> HIDE DEF hits, file, Row
  <2> QED
    BY <1>2, <2>1, <2>2
<1>8. /\ ResolveManifest => LooksSame
      /\ \A u \in run.gone : RemoveSource(u) => GoesOn
      /\ \A batch \in SUBSET run.changed : CommitBatch(batch) => GoesOn
      /\ PutManifest \/ ReplaceInputs \/ PutCheckpoint \/ MaterializeOnly => GoesOn
  BY ResolveIs, RemoveIs, CommitIs, PutManifestIs, ReplaceInputsIs, PutCheckpointIs,
     MaterializeIs
<1>9. StoreMetadata \/ Fail => Stop
  BY DEF StoreMetadata, Fail
<1>10. (\E f \in Paths : Write(f) \/ Delete(f)) \/ UNCHANGED vars => run' = run
  BY DEF Write, Delete, Edited, vars
<1> QED
  BY <1>1, <1>2, <1>3, <1>4, <1>5, <1>6, <1>7, <1>8, <1>9, <1>10 DEF Next, GoesOn

\* What a step does to the rows of one root.
LEMMA RowsOfStore ==
    ASSUME IInv, [Next]_vars, NEW r \in Roots
    PROVE  store'[r].metadata \in {store[r].metadata, run.observed}
<1>1. ASSUME NEW m, NEW u, NEW i, NEW c,
             Wrote(run.walked, Tables(m, u, i, c, store[run.walked].metadata))
      PROVE  store'[r].metadata = store[r].metadata
  <2>1. run.walked \in Roots
    BY DEF IInv, RunRooted
  <2>2. store'[run.walked].metadata = store[run.walked].metadata
    BY <1>1, <2>1, WroteFields
  <2> QED
    BY <1>1, <2>2 DEF Wrote
<1>2. ASSUME \/ PutManifest \/ ReplaceInputs \/ PutCheckpoint
             \/ \E u \in run.gone : RemoveSource(u)
             \/ \E batch \in SUBSET run.changed : CommitBatch(batch)
      PROVE  store'[r].metadata = store[r].metadata
  BY <1>1, <1>2, RemoveIs, CommitIs, PutManifestIs, ReplaceInputsIs, PutCheckpointIs
<1>3. CASE StoreMetadata
  <2>1. /\ run.root \in Roots
        /\ \E m, u, i, c : Wrote(run.root, Tables(m, u, i, c, run.observed))
    BY <1>3, StoreMetadataIs DEF IInv, RunRooted
  <2>2. store'[run.root].metadata = run.observed
    BY <2>1, WroteFields
  <2> QED
    BY <2>1, <2>2 DEF Wrote
<1>4. ASSUME \/ UNCHANGED vars \/ \E f \in Paths : Write(f) \/ Delete(f)
             \/ \E d \in Invocations : Begin(d)
             \/ OpenIndex \/ Discover \/ \E f \in run.todo : StatSource(f)
             \/ ObserveSource \/ ResolveManifest \/ MaterializeOnly \/ Fail
      PROVE  store' = store
  BY <1>4 DEF vars, Write, Delete, Edited, Begin, OpenIndex, Discover, StatSource,
     ObserveSource, ResolveManifest, MaterializeOnly, Fail
<1> QED
  BY <1>2, <1>3, <1>4 DEF Next

LEMMA WroteTyped ==
    ASSUME StoreTyped, NEW w \in Roots, NEW m, NEW u, NEW i, NEW c, NEW d,
           Wrote(w, Tables(m, u, i, c, d)), ResolvedManifest(m),
           \A v \in u : v.context[1] = "resolved", c # None => m # None
    PROVE  \A r \in Roots : TablesTyped(store'[r])
<1>1. /\ store'[w].manifest = m /\ store'[w].units = u /\ store'[w].checkpoint = c
      /\ \A r \in Roots \ {w} : store'[r] = store[r]
  BY WroteFields DEF Wrote
<1>2. TablesTyped(store'[w])
  BY <1>1 DEF TablesTyped
<1> QED
  BY <1>1, <1>2 DEF StoreTyped

LEMMA StoreTypedStep ==
    ASSUME NoneIsNoRow, PInv, StoreTyped, [Next]_vars
    PROVE  StoreTyped'
<1> DEFINE s == store[run.walked]
<1>1. IInv /\ run.walked \in Roots /\ TablesTyped(s)
  BY DEF PInv, IInv, RunRooted, StoreTyped
<1>2. CASE store' = store /\ (run' = run \/ run'.pc \notin {"sources", "inputs", "checkpoint"})
  BY <1>2 DEF StoreTyped
<1>3. CASE ResolveManifest
  <2>1. /\ store' = store /\ run'.pc = "sources" /\ RunPlans'
        /\ \/ run'.manifest = s.manifest /\ s.manifest # None
           \/ \E inputs, ids : run'.manifest = Contexts(inputs, ids)
    BY <1>1, <1>3, ResolveIs, ResolvePlans DEF PInv
  <2>2. ASSUME NEW inputs, NEW ids
        PROVE  ResolvedManifest(Contexts(inputs, ids)) /\ Contexts(inputs, ids) # None
    BY DEF NoneIsNoRow, ResolvedManifest, Contexts
  <2>3. run'.manifest # None /\ ResolvedManifest(run'.manifest)
    BY <1>1, <2>1, <2>2 DEF TablesTyped
  <2>4. \A u \in run'.sources : u.context[1] = "resolved"
    <3>1. \A u \in run'.sources : /\ u.component \in DOMAIN run'.manifest
                                  /\ u.context = run'.manifest[u.component]
      BY <2>1 DEF RunPlans, Follows
    <3> QED
      BY <2>3, <3>1 DEF ResolvedManifest
  <2> QED
    BY <2>1, <2>3, <2>4 DEF StoreTyped, ResolvedManifest
<1>4. ASSUME NEW u \in run.gone, RemoveSource(u) PROVE StoreTyped'
  <2>1. /\ run.pc = "sources" /\ run'.pc = "sources" /\ PlanSame
        /\ Wrote(run.walked, Tables(s.manifest, Others(s.units, {u}), s.inputs, s.checkpoint,
                                    s.metadata))
    BY <1>1, <1>4, RemoveIs DEF GoesOn
  <2>2. \A r \in Roots : TablesTyped(store'[r])
    BY <1>1, <2>1, WroteTyped DEF TablesTyped, Others
  <2> QED
    BY <2>1, <2>2 DEF StoreTyped, PlanSame, ResolvedManifest
<1>5. ASSUME NEW batch \in SUBSET run.changed, CommitBatch(batch) PROVE StoreTyped'
  <2> DEFINE units == Others(s.units, batch) \cup batch
  <2>1. /\ run.pc = "sources" /\ run'.pc = "sources" /\ PlanSame
        /\ Wrote(run.walked, Tables(s.manifest, units, s.inputs, s.checkpoint, s.metadata))
    BY <1>1, <1>5, CommitIs DEF GoesOn
  <2>2. batch \subseteq run.sources
    BY <2>1 DEF PInv, RunPlans
  <2>3. \A v \in units : v.context[1] = "resolved"
    BY <1>1, <2>1, <2>2 DEF StoreTyped, TablesTyped, Others
  <2> HIDE DEF units
  <2>4. \A r \in Roots : TablesTyped(store'[r])
    BY <1>1, <2>1, <2>3, WroteTyped DEF TablesTyped
  <2> QED
    BY <2>1, <2>4 DEF StoreTyped, PlanSame, ResolvedManifest
<1>6. CASE PutManifest
  <2>1. /\ run.pc = "sources" /\ run'.pc = "inputs" /\ PlanSame
        /\ Wrote(run.walked, Tables(run.manifest, s.units, s.inputs, s.checkpoint, s.metadata))
    BY <1>1, <1>6, PutManifestIs DEF GoesOn
  <2>2. \A r \in Roots : TablesTyped(store'[r])
    BY <1>1, <2>1, WroteTyped DEF TablesTyped, StoreTyped
  <2> QED
    BY <2>1, <2>2 DEF StoreTyped, PlanSame, ResolvedManifest
<1>7. CASE ReplaceInputs
  <2>1. /\ run.pc = "inputs" /\ run'.pc = "checkpoint" /\ run'.walked = run.walked
        /\ Wrote(run.walked, Tables(s.manifest, s.units, run.inputs, s.checkpoint, s.metadata))
    BY <1>1, <1>7, ReplaceInputsIs DEF GoesOn, FoundSame
  <2>2. s.manifest # None
    BY <2>1 DEF PInv, RunPlans, StoreTyped
  <2>3. \A r \in Roots : TablesTyped(store'[r])
    BY <1>1, <2>1, WroteTyped DEF TablesTyped
  <2>4. store'[run'.walked].manifest # None
    BY <1>1, <2>1, <2>2, WroteFields
  <2> QED
    BY <2>1, <2>3, <2>4 DEF StoreTyped
<1>8. CASE PutCheckpoint
  <2>1. /\ run.pc = "checkpoint" /\ run'.pc = "metadata"
        /\ \E c : Wrote(run.walked, Tables(s.manifest, s.units, s.inputs, c, s.metadata))
    BY <1>1, <1>8, PutCheckpointIs
  <2>2. s.manifest # None
    BY <2>1 DEF StoreTyped
  <2>3. \A r \in Roots : TablesTyped(store'[r])
    BY <1>1, <2>1, <2>2, WroteTyped DEF TablesTyped
  <2> QED
    BY <2>1, <2>3 DEF StoreTyped
<1>9. CASE StoreMetadata
  <2> DEFINE t == store[run.root]
  <2>1. /\ run' = Idle /\ run.root \in Roots /\ TablesTyped(t)
        /\ \E d : Wrote(run.root, Tables(t.manifest, t.units, t.inputs, t.checkpoint, d))
    BY <1>1, <1>9, StoreMetadataIs DEF IInv, RunRooted, StoreTyped
  <2>2. \A r \in Roots : TablesTyped(store'[r])
    BY <2>1, WroteTyped DEF TablesTyped
  <2> QED
    BY <2>1, <2>2 DEF StoreTyped, Idle
<1>10. (\E f \in Paths : Write(f) \/ Delete(f)) \/ UNCHANGED vars
           => UNCHANGED <<store, run>>
  BY DEF Write, Delete, Edited, vars
<1>11. ASSUME \/ \E d \in Invocations : Begin(d)
              \/ OpenIndex \/ Discover \/ \E f \in run.todo : StatSource(f)
              \/ ObserveSource \/ MaterializeOnly \/ Fail
       PROVE  store' = store /\ run'.pc \notin {"sources", "inputs", "checkpoint"}
  <2>1. Stop => run'.pc = "idle"
    BY DEF Stop, Idle
  <2>2. Fail => store' = store /\ Stop
    BY DEF Fail
  <2> QED
    BY <1>1, <1>11, <2>1, <2>2, BeginIs, OpenIs, DiscoverIs, StatIs, ObserveIs, MaterializeIs
<1> QED
  BY <1>2, <1>3, <1>4, <1>5, <1>6, <1>7, <1>8, <1>9, <1>10, <1>11 DEF Next

LEMMA HistoryTypedStep ==
    ASSUME IInv, HistoryTyped, [Next]_vars
    PROVE  HistoryTyped'
<1>1. run.walked \in Roots
  BY DEF IInv, RunRooted
<1>2. ASSUME NEW d \in Invocations, Begin(d) PROVE quiet' \in Roots /\ torn' = torn
  BY <1>2, BeginIs
<1>3. torn' \subseteq Roots
  BY <1>1, <1>2 DEF HistoryTyped, Next, vars, Write, Delete, Edited, OpenIndex, Discover,
     StatSource, ObserveSource, ResolveManifest, RemoveSource, CommitBatch, PutManifest,
     ReplaceInputs, PutCheckpoint, MaterializeOnly, StoreMetadata, Fail, Tear
<1>4. quiet' \in Roots \cup {None}
  BY <1>2 DEF HistoryTyped, Next, vars, Write, Delete, Edited, OpenIndex, Discover,
     StatSource, ObserveSource, ResolveManifest, RemoveSource, CommitBatch, PutManifest,
     ReplaceInputs, PutCheckpoint, MaterializeOnly, StoreMetadata, Fail
<1> QED
  BY <1>3, <1>4 DEF HistoryTyped

LEMMA TypedInvariant ==
    ASSUME NoneIsNoRow
    PROVE  Spec => []Typed
<1>1. PInv /\ Typed /\ [Next]_vars => Typed'
  <2> SUFFICES ASSUME PInv, Typed, [Next]_vars PROVE Typed'
    OBVIOUS
  <2>1. IInv /\ FilesTyped /\ StoreTyped /\ HistoryTyped
    BY DEF PInv, Typed
  <2>2. clock' \in 0 .. MaxEdits /\ \A f \in DOMAIN tree' : tree'[f] \in File
    BY <2>1, TreeTyped
  <2>3. TypedRows(run'.cached) /\ TypedRows(run'.observed)
    <3>1. \A f \in DOMAIN tree : tree[f].content \in Contents
      BY <2>1 DEF FilesTyped, File
    <3> QED
      BY <2>1, <3>1, RowsOfRun DEF FilesTyped, TypedRows
  <2>4. \A r \in Roots : TypedRows(store'[r].metadata)
    BY <2>1, RowsOfStore DEF FilesTyped
  <2>5. FilesTyped'
    BY <2>2, <2>3, <2>4 DEF FilesTyped, TypedRows, File
  <2> QED
    BY <2>1, <2>5, StoreTypedStep, HistoryTypedStep DEF Typed
<1> QED
  BY <1>1, InitTyped, PlanInvariant, PTL DEF Spec

\* Files, rows and histories keep their shape, and so do the tables whatever
\* transactions a run stops between: every stored unit has a resolved context, never one
\* of discovery, and a checkpoint is only where a manifest is (index.rs, orchestrator.rs:
\* the order of the transactions).
THEOREM TypeCorrect ==
    ASSUME NoneIsNoRow
    PROVE  Spec => []TypeOK
<1>1. PInv /\ Typed => TypeOK
  <2> SUFFICES ASSUME PInv, Typed PROVE TypeOK
    OBVIOUS
  <2>1. \A r \in Roots : \A m \in store[r].metadata : m.modified \in 0 .. MaxEdits
    <3>1. \A r \in Roots : \A m \in store[r].metadata : m.modified \in 0 .. clock
      BY DEF PInv, IInv, TrueRows, TrueRow
    <3>2. clock \in 0 .. MaxEdits /\ MaxEdits \in Nat
      BY InventoryAssumption DEF Typed, FilesTyped
    <3> QED
      BY <3>1, <3>2
  <2>2. \A r \in Roots : /\ \A u \in store[r].units : u.context[1] = "resolved"
                         /\ store[r].checkpoint # None => store[r].manifest # None
    BY DEF Typed, StoreTyped, TablesTyped
  <2>3. DOMAIN tree \subseteq Paths /\ run.root \in Roots
    BY DEF PInv, IInv, Clocked, RunRooted
  <2> QED
    BY <2>1, <2>2, <2>3 DEF TypeOK, Typed, FilesTyped, HistoryTyped, TypedRows
<1> QED
  BY <1>1, PlanInvariant, TypedInvariant, PTL

-----------------------------------------------------------------------------
(* A run that nobody interferes with.                                       *)

LEMMA DeepestIsSelf ==
    ASSUME NEW p \in Seq(STRING), NEW dirs, dirs \subseteq Ancestors(p), p \in dirs
    PROVE  Deepest(dirs) = p
<1>1. Len(p) \in Nat
  BY LenProperties
<1>2. \A d \in dirs : Len(d) \in 0 .. Len(p)
  BY AncestorLength
<1>3. \A d \in dirs : Len(d) <= Len(p)
  BY <1>1, <1>2
<1> DEFINE d == Deepest(dirs)
<1>4. d \in dirs /\ Len(p) <= Len(d)
  BY <1>3 DEF Deepest
<1> HIDE DEF d
<1>5. PICK n \in 0 .. Len(p) : d = SubSeq(p, 1, n)
  BY <1>4 DEF Ancestors
<1>6. Len(d) = IF 1 <= n THEN n - 1 + 1 ELSE 0
  <2>1. 1 \in Int /\ n \in Int
    BY <1>1
  <2>2. \A i \in 1 .. n : p[i] \in STRING
    <3> TAKE i \in 1 .. n
    <3>1. i \in 1 .. Len(p)
      BY <1>1
    <3> QED
      BY <3>1, ElementOfSeq
  <2> QED
    BY <1>5, <2>1, <2>2, SubSeqProperties
<1>7. n = Len(p)
  BY <1>1, <1>2, <1>4, <1>5, <1>6
<1>8. d = p
  BY <1>5, <1>7, SubSeqFull
<1> QED
  BY <1>8 DEF d

\* Looked for from the root that was found, the same root is found.
LEMMA RootIsHere ==
    ASSUME NEW t, NEW d \in Seq(STRING), Ancestors(d) \cap DOMAIN t = {}
    PROVE  FindWorkspaceRoot(t, FindWorkspaceRoot(t, d)) = FindWorkspaceRoot(t, d)
<1> DEFINE settings(e) == {a \in Ancestors(e) : HasRegularFile(t, a, Settings)}
           build(e) == {a \in Ancestors(e) : HasRegularFile(t, a, ConfigurationFileNames)}
           git(e) == {a \in Ancestors(e) : HasDirectory(t, a, ".git")}
           found(e) == CASE settings(e) # {} -> settings(e)
                         [] settings(e) = {} /\ build(e) # {} -> build(e)
                         [] settings(e) = {} /\ build(e) = {} /\ git(e) # {} -> git(e)
                         [] OTHER -> {e}
           root == FindWorkspaceRoot(t, d)
<1>1. d \in Ancestors(d) /\ d \notin DOMAIN t
  BY SelfIsAncestor
<1>2. root \in Ancestors(d)
  BY <1>1, RootIsAncestor
<1>3. /\ root \in Seq(STRING) /\ root \notin DOMAIN t
      /\ Ancestors(root) \subseteq Ancestors(d) /\ root \in Ancestors(root)
  BY <1>2, AncestorsOfAncestor, SelfIsAncestor
<1>4. root = Deepest(found(d)) /\ FindWorkspaceRoot(t, root) = Deepest(found(root))
  <2>1. \A e : e \notin DOMAIN t => FindWorkspaceRoot(t, e) = Deepest(found(e))
    BY DEF FindWorkspaceRoot
  <2> HIDE DEF found
  <2> QED
    BY <1>1, <1>3, <2>1
<1>5. /\ settings(root) \subseteq settings(d) /\ build(root) \subseteq build(d)
      /\ git(root) \subseteq git(d)
  BY <1>3
<1>6. root \in found(d)
  <2>1. found(d) # {} /\ found(d) \subseteq Ancestors(d)
    BY <1>1
  <2>2. Len(d) \in Nat
    BY LenProperties
  <2> HIDE DEF found, root
  <2>3. Deepest(found(d)) \in found(d)
    BY <2>1, <2>2, AncestorLength, DeepestExists
  <2> QED
    BY <1>4, <2>3
<1>7. /\ root \in settings(d) => root \in settings(root)
      /\ root \in build(d) => root \in build(root)
      /\ root \in git(d) => root \in git(root)
  BY <1>3
<1>8. /\ settings(root) \subseteq Ancestors(root) /\ build(root) \subseteq Ancestors(root)
      /\ git(root) \subseteq Ancestors(root)
  OBVIOUS
<1> HIDE DEF settings, build, git, root
<1>9. CASE settings(d) # {}
  <2>1. root \in settings(root) /\ found(root) = settings(root)
    BY <1>6, <1>7, <1>9
  <2> QED
    BY <1>3, <1>4, <1>8, <2>1, DeepestIsSelf DEF root
<1>10. CASE settings(d) = {} /\ build(d) # {}
  <2>1. root \in build(root) /\ found(root) = build(root)
    BY <1>5, <1>6, <1>7, <1>10
  <2> QED
    BY <1>3, <1>4, <1>8, <2>1, DeepestIsSelf DEF root
<1>11. CASE settings(d) = {} /\ build(d) = {} /\ git(d) # {}
  <2>1. root \in git(root) /\ found(root) = git(root)
    BY <1>5, <1>6, <1>7, <1>11
  <2> QED
    BY <1>3, <1>4, <1>8, <2>1, DeepestIsSelf DEF root
<1>12. CASE settings(d) = {} /\ build(d) = {} /\ git(d) = {}
  <2>1. root = d
    BY <1>6, <1>12
  <2> QED
    BY <2>1 DEF root
<1> QED
  BY <1>9, <1>10, <1>11, <1>12

IdentityNow(r) ==
    {<<<<Owner(Components(tree, r), p).id, p>>, tree[r \o p].content>> : p \in SourcePaths(tree, r)}

\* The checkpoint is of the inventory of the tree there is.
Settled(r) ==
    /\ store[r].manifest # None /\ store[r].checkpoint # None
    /\ store[r].inputs = InputsNow(r)
    /\ store[r].checkpoint = [manifest |-> store[r].manifest, inputs |-> InputsNow(r),
                              sources |-> IdentityNow(r)]

\* Each source is still to be looked at, or has been found as it is.
Observed(r) ==
    /\ \A f \in run.todo : \E p \in SourcePaths(tree, r) : f = r \o p
    /\ \A m \in run.observed :
           m.path \in SourcePaths(tree, r) /\ m.content = tree[r \o m.path].content
    /\ \A p \in SourcePaths(tree, r) : r \o p \in run.todo \/ \E m \in run.observed : m.path = p
    /\ run.stat # None =>
           /\ run.stat.path \in SourcePaths(tree, r)
           /\ run.stat.size = SizeOf[tree[r \o run.stat.path].content]
           /\ run.stat.modified = tree[r \o run.stat.path].modified

\* What is to be stored is the inventory of the tree there is.
Planned(r) ==
    /\ run.walked = r /\ run.inputs = InputsNow(r) /\ run.manifest # None
    /\ Identity(run.sources) = IdentityNow(r)

QuietInv ==
    quiet # None =>
        /\ quiet \in Roots /\ Here(quiet)
        /\ run.pc \in {"idle", "open", "discover", "observe", "sources", "inputs", "checkpoint",
                       "metadata"}
        /\ run.pc \in {"open", "discover"} =>
               /\ run.configuration = EffectiveConfiguration(quiet)
               /\ run.observed = {} /\ run.stat = None
        /\ run.pc = "open" => FindWorkspaceRoot(tree, run.invocation) = quiet
        /\ run.pc \in {"discover", "observe"} => run.root = quiet
        /\ run.pc = "observe" =>
               /\ run.walked = quiet
               /\ run.components = Components(tree, quiet)
               /\ run.inputs = InputsNow(quiet)
               /\ Observed(quiet)
        /\ run.pc \in {"sources", "inputs", "checkpoint"} => Planned(quiet)
        /\ run.pc \in {"inputs", "checkpoint"} => store[quiet].manifest = run.manifest
        /\ run.pc = "checkpoint" => store[quiet].inputs = InputsNow(quiet)
        /\ run.pc \in {"idle", "metadata"} => Settled(quiet)

\* What is there to observe is the same in the next state.
LEMMA TreeStays ==
    ASSUME UNCHANGED <<tree, quiet>>, NEW r
    PROVE  /\ InputsNow(r)' = InputsNow(r) /\ (Here(r)' <=> Here(r))
           /\ IdentityNow(r)' = IdentityNow(r)
           /\ EffectiveConfiguration(r)' = EffectiveConfiguration(r)
BY DEF InputsNow, EffectiveInput, EffectiveConfiguration, Here, IdentityNow

LEMMA QuietStays ==
    ASSUME QuietInv, UNCHANGED <<tree, store, run, quiet>>
    PROVE  QuietInv'
<1>1. Observed(quiet)' <=> Observed(quiet)
  BY DEF Observed
<1>2. Planned(quiet)' <=> Planned(quiet)
  BY TreeStays DEF Planned, Identity
<1>3. Settled(quiet)' <=> Settled(quiet)
  BY TreeStays DEF Settled
<1> QED
  BY <1>1, <1>2, <1>3, TreeStays DEF QuietInv

LEMMA QuietBegin ==
    ASSUME IInv, NEW d \in Invocations, Begin(d)
    PROVE  QuietInv'
<1> DEFINE root == FindWorkspaceRoot(tree, d)
<1>1. /\ root \in Roots /\ quiet' = root /\ tree' = tree
      /\ run'.pc = "open" /\ run'.invocation = d
      /\ run'.configuration = EffectiveConfiguration(root)
      /\ run'.observed = {} /\ run'.stat = None
  BY BeginIs
<1>2. FindWorkspaceRoot(tree, root) = root
  <2>1. d \in Seq(STRING) /\ Ancestors(d) \cap DOMAIN tree = {}
    BY InventoryAssumption DEF IInv, Clocked
  <2> QED
    BY <2>1, RootIsHere
<1>3. Here(quiet)'
  <2>1. FindWorkspaceRoot(tree', quiet') = FindWorkspaceRoot(tree, root)
    BY <1>1
  <2> QED
    BY <1>1, <1>2, <2>1 DEF Here
<1>4. /\ EffectiveConfiguration(quiet)' = EffectiveConfiguration(root)
      /\ FindWorkspaceRoot(tree, run.invocation)' = root
  BY <1>1 DEF EffectiveConfiguration
<1> HIDE DEF root
<1> QED
  BY <1>1, <1>3, <1>4 DEF QuietInv

LEMMA QuietOpen ==
    ASSUME IInv, QuietInv, OpenIndex
    PROVE  QuietInv'
<1>1. /\ run.pc = "open" /\ run'.pc = "discover" /\ UNCHANGED <<tree, quiet>>
      /\ run'.root = FindWorkspaceRoot(tree, run.invocation)
      /\ run'.observed = run.observed /\ run'.stat = run.stat
      /\ run'.configuration = run.configuration
  BY OpenIs
<1> QED
  BY <1>1, TreeStays DEF QuietInv

LEMMA QuietDiscover ==
    ASSUME IInv, QuietInv, Discover
    PROVE  QuietInv'
<1> SUFFICES ASSUME quiet' # None PROVE QuietInv'
  BY DEF QuietInv
<1> DEFINE root == FindWorkspaceRoot(tree, run.root)
           ids == IdsOf(Components(tree, root))
<1>1. /\ run.pc = "discover" /\ UNCHANGED <<tree, store>>
      /\ LooksSame /\ quiet' = quiet
      /\ run'.pc = "observe" /\ run'.walked = root
      /\ run'.components = Components(tree, root)
      /\ run'.inputs = ConfigurationInputs(tree, root)
                         \cup {EffectiveInput(run.configuration, ids)}
      /\ run'.todo = {root \o p : p \in SourcePaths(tree, root)}
  BY DiscoverIs
<1>2. /\ quiet \in Roots /\ Here(quiet) /\ run.root = quiet /\ root = quiet
      /\ run.configuration = EffectiveConfiguration(quiet)
      /\ run.observed = {} /\ run.stat = None
  BY <1>1 DEF QuietInv, Here
<1>3. /\ run'.root = quiet /\ run'.walked = quiet /\ run'.observed = {} /\ run'.stat = None
      /\ run'.components = Components(tree, quiet) /\ run'.inputs = InputsNow(quiet)
      /\ run'.todo = {quiet \o p : p \in SourcePaths(tree, quiet)}
  BY <1>1, <1>2 DEF LooksSame, InputsNow
<1>4. Observed(quiet)'
  BY <1>1, <1>2, <1>3 DEF Observed
<1> HIDE DEF root, ids
<1> QED
  BY <1>1, <1>2, <1>3, <1>4, TreeStays DEF QuietInv

\* A step of the run that observes.
LEMMA QuietObserves ==
    ASSUME QuietInv, quiet # None, run.pc = "observe", UNCHANGED <<tree, quiet>>,
           run'.pc = "observe", run'.root = run.root, FoundSame, Observed(quiet)'
    PROVE  QuietInv'
BY TreeStays DEF QuietInv, FoundSame

LEMMA QuietStat ==
    ASSUME IInv, QuietInv, NEW f \in run.todo, StatSource(f)
    PROVE  QuietInv'
<1> DEFINE row == MetadataRow(WorkspacePath(run.root, f), SizeOf[tree[f].content],
                              tree[f].modified, None)
<1>1. /\ run.pc = "observe" /\ run.stat = None /\ UNCHANGED <<tree, quiet>>
      /\ \/ f \notin DOMAIN tree
         \/ /\ FoundSame /\ run'.pc = run.pc /\ run'.root = run.root
            /\ run'.observed = run.observed /\ run'.todo = run.todo /\ run'.stat = row
  BY StatIs
<1> SUFFICES ASSUME quiet # None PROVE QuietInv'
  BY <1>1 DEF QuietInv
<1>2. quiet \in Roots /\ run.root = quiet /\ Observed(quiet)
  BY <1>1 DEF QuietInv
<1>3. PICK p \in SourcePaths(tree, quiet) : f = quiet \o p
  BY <1>2 DEF Observed
<1>4. f \in DOMAIN tree /\ p \in Seq(Names) /\ p # << >>
  BY <1>2, <1>3, TrueObserved
<1>5. WorkspacePath(run.root, f) = p
  BY <1>2, <1>3, <1>4, RootPaths, BelowRoot
<1>6. row.path = p /\ row.size = SizeOf[tree[f].content] /\ row.modified = tree[f].modified
  BY <1>5 DEF MetadataRow
<1> HIDE DEF row
<1>7. Observed(quiet)'
  <2>1. /\ run'.stat.path \in SourcePaths(tree, quiet)
        /\ run'.stat.size = SizeOf[tree[quiet \o run'.stat.path].content]
        /\ run'.stat.modified = tree[quiet \o run'.stat.path].modified
    BY <1>1, <1>3, <1>4, <1>6
  <2>2. /\ \A g \in run'.todo : \E q \in SourcePaths(tree, quiet) : g = quiet \o q
        /\ \A m \in run'.observed :
               m.path \in SourcePaths(tree, quiet) /\ m.content = tree[quiet \o m.path].content
        /\ \A q \in SourcePaths(tree, quiet) :
               quiet \o q \in run'.todo \/ \E m \in run'.observed : m.path = q
    BY <1>1, <1>2, <1>4 DEF Observed
  <2>3. tree' = tree /\ quiet' = quiet
    BY <1>1
  <2> QED
    BY <2>1, <2>2, <2>3 DEF Observed
<1> QED
  BY <1>1, <1>4, <1>7, QuietObserves

LEMMA QuietObserve ==
    ASSUME IInv, QuietInv, ObserveSource
    PROVE  QuietInv'
<1> DEFINE p == run.stat.path
           file == run.root \o p
           hits == Cached(run.cached, p, run.stat.size, run.stat.modified)
           Row(content) == MetadataRow(p, run.stat.size, run.stat.modified, content)
<1>1. /\ run.pc = "observe" /\ run.stat # None /\ UNCHANGED <<tree, quiet>>
      /\ \/ file \notin DOMAIN tree
         \/ \E content :
              /\ \/ \E m \in hits : content = m.content
                 \/ file \in DOMAIN tree /\ content = tree[file].content
              /\ FoundSame /\ run'.pc = run.pc /\ run'.root = run.root /\ run'.stat = None
              /\ run'.todo = run.todo \ {file}
              /\ run'.observed = run.observed \cup {Row(content)}
  BY ObserveIs
<1> SUFFICES ASSUME quiet # None PROVE QuietInv'
  BY <1>1 DEF QuietInv
<1>2. quiet \in Roots /\ run.root = quiet /\ Observed(quiet)
  BY <1>1 DEF QuietInv
<1>3. /\ p \in SourcePaths(tree, quiet)
      /\ run.stat.size = SizeOf[tree[file].content] /\ run.stat.modified = tree[file].modified
  BY <1>1, <1>2 DEF Observed
<1>4. file \in DOMAIN tree /\ p \in Seq(Names) /\ p # << >>
  BY <1>2, <1>3, TrueObserved
<1>5. \A m \in hits : m.content = tree[file].content
  <2> TAKE m \in hits
  <2>1. /\ TrueRow(quiet, m) /\ m.path = p /\ m.size = SizeOf[tree[file].content]
        /\ m.modified = tree[file].modified
    BY <1>2, <1>3 DEF Cached, IInv, TrueRows
  <2> QED
    BY <1>2, <1>4, <2>1 DEF TrueRow
<1> DEFINE row == Row(tree[file].content)
<1>6. row.path = p /\ row.content = tree[file].content
  BY DEF MetadataRow
<1> HIDE DEF Row, hits
<1>7. /\ FoundSame /\ run'.pc = run.pc /\ run'.root = run.root /\ run'.stat = None
      /\ run'.todo = run.todo \ {file} /\ run'.observed = run.observed \cup {row}
  BY <1>1, <1>4, <1>5
<1> HIDE DEF row, file
<1>8. Observed(quiet)'
  <2>1. \A f \in run'.todo : \E q \in SourcePaths(tree, quiet) : f = quiet \o q
    BY <1>2, <1>7 DEF Observed
  <2>2. \A m \in run'.observed :
          m.path \in SourcePaths(tree, quiet) /\ m.content = tree[quiet \o m.path].content
    BY <1>2, <1>3, <1>6, <1>7 DEF Observed, file
  <2>3. ASSUME NEW q \in SourcePaths(tree, quiet)
        PROVE  quiet \o q \in run'.todo \/ \E m \in run'.observed : m.path = q
    <3>1. CASE quiet \o q = file
      <4>1. q \in Seq(Names) /\ q # << >>
        BY <1>2, TrueObserved
      <4>2. q = p
        BY <1>2, <1>4, <3>1, <4>1, SamePath, RootPaths DEF file
      <4> QED
        BY <1>6, <1>7, <4>2
    <3>2. CASE quiet \o q # file
      BY <1>2, <1>7, <3>2 DEF Observed
    <3> QED
      BY <3>1, <3>2
  <2>4. tree' = tree /\ quiet' = quiet /\ run'.stat = None
    BY <1>1, <1>7
  <2> QED
    BY <2>1, <2>2, <2>3, <2>4 DEF Observed
<1> QED
  BY <1>1, <1>7, <1>8, QuietObserves

\* Units that are the sources there are, each under its owner and with what it contains.
LEMMA IdentityOf ==
    ASSUME NEW r, NEW units,
           \A u \in units : /\ u.path \in SourcePaths(tree, r)
                            /\ u.id = <<Owner(Components(tree, r), u.path).id, u.path>>
                            /\ u.content = tree[r \o u.path].content,
           \A p \in SourcePaths(tree, r) : \E u \in units : u.path = p
    PROVE  Identity(units) = IdentityNow(r)
<1> DEFINE Now(p) == <<<<Owner(Components(tree, r), p).id, p>>, tree[r \o p].content>>
<1>1. \A u \in units : <<u.id, u.content>> = Now(u.path)
  OBVIOUS
<1>2. Identity(units) = {<<u.id, u.content>> : u \in units}
  BY DEF Identity
<1>3. IdentityNow(r) = {Now(p) : p \in SourcePaths(tree, r)}
  BY DEF IdentityNow
<1> HIDE DEF Now
<1> QED
  BY <1>1, <1>2, <1>3

\* A run that has looked at every source has discovered them as they are.
LEMMA RunUnits ==
    ASSUME IInv, NEW r \in Roots, run.walked = r, run.root = r, run.todo = {}, Observed(r),
           run.components = Components(tree, r)
    PROVE  /\ \A u \in Discovered :
                  /\ u.path \in SourcePaths(tree, r)
                  /\ u.id = <<Owner(Components(tree, r), u.path).id, u.path>>
                  /\ u.content = tree[r \o u.path].content
                  /\ \A k : LET v == [u EXCEPT !.context = k]
                            IN  v.path = u.path /\ v.id = u.id /\ v.content = u.content
           /\ \A p \in SourcePaths(tree, r) : \E u \in Discovered : u.path = p
<1> DEFINE PathOf(m) == WorkspacePath(r, r \o m.path)
           content == [p \in {PathOf(m) : m \in run.observed} |->
                         (CHOOSE m \in run.observed : PathOf(m) = p).content]
           inputs == {i \in run.inputs : i.path # EffectiveConfig}
           components == Components(tree, r)
<1>1. Discovered = SourceUnits(components, inputs, content)
  BY DEF Discovered
<1>2. ASSUME NEW m \in run.observed
      PROVE  PathOf(m) = m.path
  <2>1. m.path \in SourcePaths(tree, r)
    BY DEF Observed
  <2>2. m.path \in Seq(Names) /\ m.path # << >> /\ r \in Seq(Names)
    BY <2>1, TrueObserved, RootPaths
  <2> QED
    BY <2>2, BelowRoot
<1>3. /\ \A m \in run.observed : /\ m.path \in SourcePaths(tree, r)
                                 /\ m.content = tree[r \o m.path].content
      /\ \A p \in SourcePaths(tree, r) : \E m \in run.observed : m.path = p
  BY DEF Observed
<1>4. DOMAIN content = {PathOf(m) : m \in run.observed}
  OBVIOUS
<1>5. \A p \in DOMAIN content :
          content[p] = (CHOOSE m \in run.observed : PathOf(m) = p).content
  OBVIOUS
<1> HIDE DEF PathOf, content, inputs, components
<1>6. DOMAIN content = SourcePaths(tree, r)
  BY <1>2, <1>3, <1>4
<1>7. ASSUME NEW p \in SourcePaths(tree, r)
      PROVE  content[p] = tree[r \o p].content
  <2> DEFINE row == CHOOSE m \in run.observed : PathOf(m) = p
  <2>1. \E m \in run.observed : PathOf(m) = p
    BY <1>2, <1>3
  <2>2. row \in run.observed /\ PathOf(row) = p
    BY <2>1
  <2>3. content[p] = row.content
    BY <1>5, <1>6
  <2> HIDE DEF row
  <2> QED
    BY <1>2, <1>3, <2>2, <2>3
<1>8. ASSUME NEW u \in Discovered
      PROVE  /\ u.path \in SourcePaths(tree, r)
             /\ u.id = <<Owner(components, u.path).id, u.path>>
             /\ u.content = tree[r \o u.path].content
             /\ \A k : LET v == [u EXCEPT !.context = k]
                       IN  v.path = u.path /\ v.id = u.id /\ v.content = u.content
  <2>1. /\ u.path \in DOMAIN content
        /\ u.component = Owner(components, u.path).id
        /\ u.id = <<u.component, u.path>> /\ u.content = content[u.path]
        /\ \A k : LET v == [u EXCEPT !.context = k]
                  IN  v.path = u.path /\ v.id = u.id /\ v.content = u.content
    BY <1>1, UnitOfSource
  <2> QED
    BY <1>6, <1>7, <2>1
<1>9. \A p \in SourcePaths(tree, r) : \E u \in Discovered : u.path = p
  BY <1>1, <1>6, SourceHasUnit
<1> QED
  BY <1>8, <1>9 DEF components

LEMMA QuietResolve ==
    ASSUME NoneIsNoRow, PInv, QuietInv, ResolveManifest
    PROVE  QuietInv'
<1> DEFINE manifest == run'.manifest
           Stored(u) == [u EXCEPT !.context = manifest[u.component]]
<1>1. /\ run.pc = "observe" /\ run.todo = {} /\ run'.pc = "sources"
      /\ UNCHANGED <<tree, quiet>> /\ FoundSame /\ run'.sources = Sources(manifest)
      /\ \/ manifest = store[run.walked].manifest /\ store[run.walked].manifest # None
         \/ \E inputs, ids : manifest = Contexts(inputs, ids)
  BY ResolveIs DEF PInv
<1> SUFFICES ASSUME quiet # None PROVE QuietInv'
  BY <1>1 DEF QuietInv
<1>2. /\ quiet \in Roots /\ Here(quiet) /\ run.root = quiet /\ run.walked = quiet
      /\ run.components = Components(tree, quiet) /\ run.inputs = InputsNow(quiet)
      /\ Observed(quiet) /\ IInv
  BY <1>1 DEF QuietInv, PInv
<1>3. manifest # None
  BY <1>1 DEF NoneIsNoRow
<1>4. /\ \A u \in Discovered :
            /\ u.path \in SourcePaths(tree, quiet)
            /\ u.id = <<Owner(Components(tree, quiet), u.path).id, u.path>>
            /\ u.content = tree[quiet \o u.path].content
            /\ \A k : LET v == [u EXCEPT !.context = k]
                      IN  v.path = u.path /\ v.id = u.id /\ v.content = u.content
      /\ \A p \in SourcePaths(tree, quiet) : \E u \in Discovered : u.path = p
  BY <1>1, <1>2, RunUnits
<1>5. \A u \in Discovered :
        Stored(u).path = u.path /\ Stored(u).id = u.id /\ Stored(u).content = u.content
  BY <1>4
<1>6. run'.sources = {Stored(u) : u \in Discovered}
  BY <1>1 DEF Sources
<1> HIDE DEF Stored, manifest
<1>7. /\ \A v \in run'.sources :
            /\ v.path \in SourcePaths(tree, quiet)
            /\ v.id = <<Owner(Components(tree, quiet), v.path).id, v.path>>
            /\ v.content = tree[quiet \o v.path].content
      /\ \A p \in SourcePaths(tree, quiet) : \E v \in run'.sources : v.path = p
  BY <1>4, <1>5, <1>6
<1>8. Identity(run'.sources) = IdentityNow(quiet)
  BY <1>7, IdentityOf
<1>9. /\ InputsNow(quiet)' = InputsNow(quiet) /\ IdentityNow(quiet)' = IdentityNow(quiet)
      /\ Here(quiet)' /\ Identity(run.sources)' = Identity(run'.sources)
  BY <1>1, <1>2, TreeStays DEF Identity
<1>10. Planned(quiet)'
  BY <1>1, <1>2, <1>3, <1>8, <1>9 DEF Planned, FoundSame, manifest
<1> QED
  BY <1>1, <1>2, <1>9, <1>10 DEF QuietInv

\* The steps that store what was planned.
LEMMA PlannedStays ==
    ASSUME UNCHANGED <<tree, quiet>>, NEW r, Planned(r), FoundSame, PlanSame
    PROVE  Planned(r)'
<1>1. Identity(run.sources)' = Identity(run.sources)
  BY DEF PlanSame, Identity
<1> QED
  BY <1>1, TreeStays DEF Planned, FoundSame, PlanSame

LEMMA QuietStores ==
    ASSUME PInv, QuietInv,
           \/ \E u \in run.gone : RemoveSource(u)
           \/ \E batch \in SUBSET run.changed : CommitBatch(batch)
           \/ PutManifest \/ ReplaceInputs
    PROVE  QuietInv'
<1>1. IInv /\ run.walked \in Roots
  BY DEF PInv, IInv, RunRooted
<1>2. /\ run.pc \in {"sources", "inputs"} /\ UNCHANGED <<tree, quiet>> /\ FoundSame /\ PlanSame
      /\ \/ run.pc = "sources" /\ run'.pc = "sources"
         \/ /\ run'.pc = "inputs"
            /\ \E u, i, c, d : Wrote(run.walked, Tables(run.manifest, u, i, c, d))
         \/ /\ run.pc = "inputs" /\ run'.pc = "checkpoint"
            /\ \E u, c, d : Wrote(run.walked, Tables(store[run.walked].manifest, u, run.inputs,
                                                     c, d))
  BY <1>1, RemoveIs, CommitIs, PutManifestIs, ReplaceInputsIs DEF GoesOn
<1> SUFFICES ASSUME quiet # None PROVE QuietInv'
  BY <1>2 DEF QuietInv
<1>3. /\ quiet \in Roots /\ Here(quiet) /\ Planned(quiet) /\ run.walked = quiet
      /\ run.inputs = InputsNow(quiet)
      /\ run.pc = "inputs" => store[quiet].manifest = run.manifest
  BY <1>2 DEF QuietInv, Planned
<1>4. Planned(quiet)' /\ Here(quiet)' /\ InputsNow(quiet)' = InputsNow(quiet)
  BY <1>2, <1>3, PlannedStays, TreeStays
<1>5. /\ run'.pc \in {"inputs", "checkpoint"} => store'[quiet].manifest = run'.manifest
      /\ run'.pc = "checkpoint" => store'[quiet].inputs = InputsNow(quiet)
  BY <1>1, <1>2, <1>3, WroteFields DEF PlanSame
<1>6. quiet' = quiet /\ run'.pc \in {"sources", "inputs", "checkpoint"}
  BY <1>2
<1> QED
  BY <1>3, <1>4, <1>5, <1>6 DEF QuietInv

LEMMA QuietCheckpoint ==
    ASSUME NoneIsNoRow, PInv, QuietInv, PutCheckpoint
    PROVE  QuietInv'
<1> DEFINE s == store[run.walked]
           checkpoint == Checkpoint(run.manifest, run.inputs, run.sources)
<1>1. IInv /\ run.walked \in Roots
  BY DEF PInv, IInv, RunRooted
<1>2. /\ run.pc = "checkpoint" /\ run'.pc = "metadata" /\ UNCHANGED <<tree, quiet>>
      /\ Wrote(run.walked, Tables(s.manifest, s.units, s.inputs, checkpoint, s.metadata))
  BY <1>1, PutCheckpointIs DEF GoesOn
<1> SUFFICES ASSUME quiet # None PROVE QuietInv'
  BY <1>2 DEF QuietInv
<1>3. /\ quiet \in Roots /\ Here(quiet) /\ run.walked = quiet /\ run.manifest # None
      /\ run.inputs = InputsNow(quiet) /\ Identity(run.sources) = IdentityNow(quiet)
      /\ s.manifest = run.manifest /\ s.inputs = InputsNow(quiet)
  BY <1>2 DEF QuietInv, Planned
<1>4. /\ checkpoint # None
      /\ checkpoint = [manifest |-> run.manifest, inputs |-> InputsNow(quiet),
                       sources |-> IdentityNow(quiet)]
  BY <1>3 DEF NoneIsNoRow, Checkpoint
<1> HIDE DEF s, checkpoint
<1>5. /\ store'[quiet].manifest = s.manifest /\ store'[quiet].inputs = s.inputs
      /\ store'[quiet].checkpoint = checkpoint
  BY <1>1, <1>2, <1>3, WroteFields
<1>6. /\ InputsNow(quiet)' = InputsNow(quiet) /\ IdentityNow(quiet)' = IdentityNow(quiet)
      /\ Here(quiet)' /\ quiet' = quiet
  BY <1>2, <1>3, TreeStays
<1>7. Settled(quiet)'
  BY <1>3, <1>4, <1>5, <1>6 DEF Settled
<1> QED
  BY <1>2, <1>3, <1>6, <1>7 DEF QuietInv

LEMMA QuietMetadata ==
    ASSUME PInv, QuietInv, StoreMetadata
    PROVE  QuietInv'
<1> DEFINE s == store[run.root]
<1>1. /\ run.pc = "metadata" /\ UNCHANGED <<tree, quiet>> /\ run' = Idle /\ run.root \in Roots
      /\ Wrote(run.root, Tables(s.manifest, s.units, s.inputs, s.checkpoint, run.observed))
  BY StoreMetadataIs DEF PInv, IInv, RunRooted
<1> SUFFICES ASSUME quiet # None PROVE QuietInv'
  BY <1>1 DEF QuietInv
<1>2. quiet \in Roots /\ Here(quiet) /\ Settled(quiet)
  BY <1>1 DEF QuietInv
<1>3. /\ store'[quiet].manifest = store[quiet].manifest
      /\ store'[quiet].inputs = store[quiet].inputs
      /\ store'[quiet].checkpoint = store[quiet].checkpoint
  BY <1>1, <1>2, WroteFields DEF Wrote
<1>4. Settled(quiet)' /\ Here(quiet)' /\ quiet' = quiet
  BY <1>1, <1>2, <1>3, TreeStays DEF Settled
<1>5. run'.pc = "idle"
  BY <1>1 DEF Idle
<1> QED
  BY <1>2, <1>4, <1>5 DEF QuietInv

LEMMA QuietInvariant ==
    ASSUME NoneIsNoRow
    PROVE  Spec => []QuietInv
<1>1. Init => QuietInv
  BY DEF Init, QuietInv
<1>2. PInv /\ QuietInv /\ [Next]_vars => QuietInv'
  <2> SUFFICES ASSUME PInv, QuietInv, [Next]_vars PROVE QuietInv'
    OBVIOUS
  <2>1. IInv
    BY DEF PInv
  <2>2. CASE quiet' = None
    BY <2>2 DEF QuietInv
  <2>3. (\E f \in Paths : Write(f) \/ Delete(f)) \/ MaterializeOnly \/ Fail => quiet' = None
    BY DEF Write, Delete, Edited, MaterializeOnly, Fail
  <2>4. CASE UNCHANGED vars
    BY <2>4, QuietStays DEF vars
  <2>5. (\E d \in Invocations : Begin(d)) \/ OpenIndex \/ Discover => QuietInv'
    BY <2>1, QuietBegin, QuietOpen, QuietDiscover
  <2>6. (\E f \in run.todo : StatSource(f)) \/ ObserveSource => QuietInv'
    BY <2>1, QuietStat, QuietObserve
  <2>7. ResolveManifest \/ PutCheckpoint \/ StoreMetadata => QuietInv'
    BY QuietResolve, QuietCheckpoint, QuietMetadata
  <2>8. \/ \E u \in run.gone : RemoveSource(u)
        \/ \E batch \in SUBSET run.changed : CommitBatch(batch)
        \/ PutManifest \/ ReplaceInputs
        => QuietInv'
    BY QuietStores
  <2> QED
    BY <2>2, <2>3, <2>4, <2>5, <2>6, <2>7, <2>8 DEF Next
<1> QED
  BY <1>1, <1>2, PlanInvariant, PTL DEF Spec

\* commands/search.rs: `kide status` compares the checkpoint with an inventory it takes
\* itself, with the root found again and the file contents taken from the cached rows.
\* After a run that no edit interfered with the two are the same for every workspace,
\* whatever earlier runs left in the tables.
THEOREM QuietStatusIsFreshHolds ==
    ASSUME NoneIsNoRow
    PROVE  Spec => []QuietStatusIsFresh
<1>1. PInv /\ QuietInv => QuietStatusIsFresh
  <2> SUFFICES ASSUME PInv, quiet # None, Step("idle"), QuietInv,
                      DOMAIN store[quiet].manifest = IdsOf(Components(tree, quiet))
               PROVE  Status(quiet) = "fresh"
    BY DEF QuietStatusIsFresh
  <2>1. quiet \in Roots /\ Here(quiet) /\ Settled(quiet) /\ IInv
    BY DEF QuietInv, Step, PInv
  <2> DEFINE stored == store[quiet]
             inputs == ConfigurationInputs(tree, quiet)
                         \cup {EffectiveInput(EffectiveConfiguration(quiet),
                                              DOMAIN stored.manifest)}
             now == DiscoveredNow(quiet)
  <2>2. inputs = InputsNow(quiet)
    BY DEF InputsNow
  <2>3. AllCurrent(stored.inputs, inputs)
    BY <2>1, <2>2, CurrentIsSame DEF Settled
  <2>4. Identity(now) = IdentityNow(quiet)
    <3>1. /\ \A u \in now :
                /\ u.path \in SourcePaths(tree, quiet)
                /\ u.component = Owner(Components(tree, quiet), u.path).id
                /\ u.id = <<u.component, u.path>>
                /\ u.content = tree[quiet \o u.path].content
          /\ \A p \in SourcePaths(tree, quiet) : \E u \in now : u.path = p
      BY <2>1, UnitsNow
    <3> QED
      BY <3>1, IdentityOf
  <2>5. /\ stored.manifest # None /\ stored.checkpoint # None
        /\ stored.checkpoint = Checkpoint(stored.manifest, inputs, now)
    BY <2>1, <2>2, <2>4 DEF Settled, Checkpoint
  <2>6. FindWorkspaceRoot(tree, quiet) = quiet
    BY <2>1 DEF Here
  <2>7. Status(quiet) = CASE stored.manifest = None -> "no_result"
                          [] stored.manifest # None /\ stored.checkpoint = None -> "unknown"
                          [] /\ stored.checkpoint # None
                             /\ AllCurrent(stored.inputs, inputs)
                             /\ stored.checkpoint
                                  = Checkpoint(stored.manifest, inputs, now) -> "fresh"
                          [] OTHER -> "stale"
    BY <2>6 DEF Status
  <2> HIDE DEF stored, inputs, now
  <2> QED
    BY <2>3, <2>5, <2>7
<1> QED
  BY <1>1, PlanInvariant, QuietInvariant, PTL
=============================================================================
