--------------------------- MODULE SemanticQuery ---------------------------
(***************************************************************************)
(* One query command (definition, references or callers, implementations,  *)
(* text search) answering from the index while the workspace and the index *)
(* go on changing.                                                         *)
(*                                                                         *)
(* A command is a sequence of single SQL statements and file reads with no *)
(* enclosing read transaction: each statement sees the last commit, each   *)
(* read the file as it is.  Before it answers, the freshness gate compares *)
(* what the index recorded with the files that own the facts.              *)
(*                                                                         *)
(* A file is its content; a stored row is the content its facts were       *)
(* computed from, and the facts are functions of that content.             *)
(***************************************************************************)
EXTENDS Naturals, FiniteSets

CONSTANTS
    Units,            \* source units
    Contents,         \* contents a source file can have
    Symbols,          \* symbol IDs
    Declares,         \* Declares[u][c]: symbols that u declares with content c
    Mentions,         \* Mentions[u][c]: symbols it refers to
    Subtypes,         \* Subtypes[u][c]: pairs <<subtype, supertype>> it states
    External,         \* symbol IDs that dependency artifacts declare
    Fits,             \* Fits[c]: contents in which the offsets of c are offsets
    Inputs,           \* paths of configuration inputs
    Settings,         \* contents a configuration input can have
    Absent,           \* no such file, no such input recorded
    None,             \* no such row, no value
    Strategy,         \* freshness_strategy of the effective configuration
    MaxEdits,         \* bound on the number of edits
    MaxCommits        \* bound on the number of index commits

FileState == Contents \cup {Absent}
InputStates == [Inputs -> Settings \cup {Absent}]

ASSUME QueryAssumption ==
    /\ Declares \in [Units -> [Contents -> SUBSET Symbols]]
    /\ Mentions \in [Units -> [Contents -> SUBSET Symbols]]
    /\ Subtypes \in [Units -> [Contents -> SUBSET (Symbols \X Symbols)]]
    /\ External \subseteq Symbols
    /\ Fits \in [Contents -> SUBSET Contents]
    /\ \A c \in Contents : c \in Fits[c]
    /\ Absent \notin Contents
    /\ Absent \notin Settings
    /\ None \notin Contents
    /\ None \notin Symbols
    /\ None \notin Units
    /\ Strategy \in {"fresh_only", "allow_stale"}
    /\ MaxEdits \in Nat
    /\ MaxCommits \in Nat

\* A fact of an answer: its owner, the row it was read from, the symbol.
Fact == [unit : Units, saw : Contents, symbol : Symbols \cup {None}]
Owner == [unit : Units, content : Contents]

VARIABLES
    file, config,     \* the workspace on disk
    row,              \* source_snapshots and the facts of each row
    text,             \* workspace_text_documents and their terms
    inputs,           \* configuration_inputs
    query,            \* the command
    pastFiles,        \* states each file has ever had
    pastInputs,       \* states each configuration input has ever had
    onDisk,           \* contents each file has had since the command began
    committed,        \* units whose row was committed since the command began
    disturbed,        \* whether anything has changed since the command began
    edits, commits    \* how much has changed in all

disk == <<file, config>>
index == <<row, text, inputs>>
history == <<pastFiles, pastInputs, onDisk, committed, disturbed, edits, commits>>
vars == <<disk, index, query, history>>

Navigation == {"definition", "references", "implementations", "transitive"}

QueryState ==
    [pc        : {"idle", "compare", "unit", "locate", "symbol", "inputs", "match",
                  "owners", "files", "facts", "records", "search", "print", "done"},
     kind      : Navigation \cup {"text"},
     short     : BOOLEAN,                     \* --short / human output
     place     : Units \cup {None},           \* the file of a location argument
     source    : FileState,                   \* the text read for it
     target    : Symbols \cup {None},
     gate      : {"target", "answer"},        \* what the gate is run for
     persisted : InputStates,                 \* inputs the gate has loaded
     owners    : SUBSET Units,                \* owners the gate still has to load
     loaded    : SUBSET Owner,                \* owners it still has to compare
     pending   : SUBSET Symbols,              \* symbols to expand
     visited   : SUBSET Symbols,
     found     : SUBSET Symbols,              \* symbols whose record is to be read
     left      : SUBSET Fact,                 \* matches to read, facts to print
     payload   : SUBSET Fact,
     status    : {"none", "ok", "stale", "no_result", "ambiguous",
                  "error", "panic"}]

Fresh ==
    [pc |-> "idle", kind |-> "text", short |-> FALSE, place |-> None,
     source |-> Absent, target |-> None, gate |-> "target",
     persisted |-> [i \in Inputs |-> Absent], owners |-> {}, loaded |-> {},
     pending |-> {}, visited |-> {}, found |-> {}, left |-> {}, payload |-> {},
     status |-> "none"]

-----------------------------------------------------------------------------
(* What one statement reads. *)

Stored == {u \in Units : row[u] # None}

FactOf(u, s) == [unit |-> u, saw |-> row[u], symbol |-> s]

\* symbol(id): the row whose facts declare it; an ID names one source.
Records(s) == {FactOf(u, s) : u \in {v \in Stored : s \in Declares[v][row[v]]}}

\* references_to; calls_to asks the same of another table.
ReferenceEdges(s) == {FactOf(u, s) : u \in {v \in Stored : s \in Mentions[v][row[v]]}}

\* implementations_of
DirectSubtypes(s) ==
    {t \in Symbols : \E u \in Stored : <<t, s>> \in Subtypes[u][row[u]]}

OwnersOf(facts) == {f.unit : f \in facts}

-----------------------------------------------------------------------------
(* The command.  A step is one statement or one read of the disk. *)

At(step) == query.pc = step

Ended(q, status) == [q EXCEPT !.pc = "done", !.status = status]

\* After the gate: the facts are looked up, printed, or put in the response.
Passed(q) ==
    IF q.gate = "target" THEN [q EXCEPT !.pc = "facts"]
    ELSE IF q.payload = {} THEN Ended(q, "no_result")
    ELSE IF q.short THEN [q EXCEPT !.pc = "print", !.left = q.payload]
    ELSE Ended(q, "ok")

\* freshness_problem
Gate(q, purpose, facts) ==
    IF Strategy = "fresh_only"
    THEN [q EXCEPT !.pc = "inputs", !.gate = purpose, !.owners = OwnersOf(facts)]
    ELSE Passed([q EXCEPT !.gate = purpose])

\* Faulty variant of the next definition: the short answer is not gated.
AnswerShortUngated(q) ==
    IF q.short THEN Passed([q EXCEPT !.gate = "answer"])
    ELSE IF q.payload = {} THEN Ended(q, "no_result")
    ELSE Gate(q, "answer", q.payload)

\* query_result and print_query_response, or the gate of the short path.  An
\* empty JSON answer is not gated.
Answer(q) ==
    IF q.payload = {} /\ ~q.short THEN Ended(q, "no_result")
    ELSE Gate(q, "answer", q.payload)

\* The command starts: nothing it will rely on has been read yet.
Begin(q) ==
    /\ At("idle")
    /\ query' = q
    /\ onDisk' = [u \in Units |-> {file[u]}]
    /\ committed' = {}
    /\ disturbed' = FALSE
    /\ UNCHANGED <<disk, index, pastFiles, pastInputs, edits, commits>>

\* A step of the command changes nothing but the command.
Step(q) ==
    /\ query' = q
    /\ UNCHANGED <<disk, index, history>>

\* resolve_target by symbol ID, or by a name that one symbol has.
ResolveSymbol(kind, short, s) ==
    LET q == [Fresh EXCEPT !.kind = kind, !.short = short, !.target = s,
                           !.pending = {s}, !.visited = {s}]
    IN Begin(IF Records(s) = {} /\ s \notin External
             THEN Ended(q, "no_result")
             ELSE [q EXCEPT !.pc = "symbol"])

\* resolve_target by location: read_to_string.
ReadLocation(kind, short, u) ==
    LET q == [Fresh EXCEPT !.kind = kind, !.short = short, !.place = u, !.source = file[u]]
    IN Begin(IF file[u] = Absent THEN Ended(q, "error") ELSE [q EXCEPT !.pc = "compare"])

\* source_units_at_path, and the comparison with the text just read: there is
\* none when the path has no row.  A text that is too large or holds a NUL byte
\* is refused before it is compared; no row was ever computed from one.
CompareLocation ==
    /\ At("compare")
    /\ \/ Step(IF row[query.place] \notin {None, query.source} THEN Ended(query, "stale")
               ELSE [query EXCEPT !.pc = "unit", !.source = Absent])
       \/ /\ row[query.place] \notin {None, query.source}
          /\ Step(Ended(query, "error"))

\* unique_source_unit asks for the units of the path again.
FindUnit ==
    /\ At("unit")
    /\ Step(IF row[query.place] = None THEN Ended(query, "error")
            ELSE [query EXCEPT !.pc = "locate"])

\* What the stored facts have at the offsets of u: occurrences, or declarations.
Located(u) ==
    UNION {Declares[v][row[v]] \cup Mentions[v][row[v]] : v \in Stored \cap {u}}

\* resolve_location: one symbol, several or none at the offset, or an error when
\* the line or column is zero or lies outside the text.
LocateSymbol ==
    /\ At("locate")
    /\ \/ \E s \in Located(query.place) :
             Step([query EXCEPT !.pc = "symbol", !.target = s,
                                !.pending = {s}, !.visited = {s}])
       \/ /\ Cardinality(Located(query.place)) > 1
          /\ Step(Ended(query, "ambiguous"))
       \/ Step(Ended(query, "no_result"))
       \/ Step(Ended(query, "error"))

\* definition's store.symbol, or target_freshness_problem of the other kinds,
\* which has nothing to judge when the target is not declared in the index.
ReadSymbol ==
    /\ At("symbol")
    /\ LET records == Records(query.target)
           q == [query EXCEPT !.payload = records]
       IN Step(IF query.kind # "definition"
               THEN IF records = {} THEN [query EXCEPT !.pc = "facts"]
                                    ELSE Gate(query, "target", records)
               ELSE IF records = {} THEN Ended(query, "no_result")
                                    ELSE Gate(q, "answer", records))

\* The next step of the gate when inputs match: owners are loaded, one
\* statement each, before any file is compared.
Judging(q) ==
    IF q.owners # {} THEN [q EXCEPT !.pc = "owners"]
    ELSE IF q.loaded # {} THEN [q EXCEPT !.pc = "files"]
    ELSE Passed(q)

\* store.configuration_inputs()
LoadInputs ==
    /\ At("inputs")
    /\ Step([query EXCEPT !.pc = "match", !.persisted = inputs])

\* Each input that was recorded is compared with its file, all in one step here;
\* an input that is new since then is not looked for.
MatchInputs ==
    /\ At("match")
    /\ Step(IF \E i \in Inputs : query.persisted[i] \notin {Absent, config[i]}
            THEN Ended(query, "stale")
            ELSE Judging([query EXCEPT !.persisted = Fresh.persisted]))

\* Faulty variant of the next definition: a missing row is kept.
LoadMissingOwner(u) ==
    /\ At("owners")
    /\ u \in query.owners
    /\ Step(Judging([query EXCEPT !.owners = @ \ {u},
                                  !.loaded = @ \cup {[unit |-> u, content |-> row[u]]}]))

\* store.source_unit(owner); an owner without a row is dropped (`flatten`).
LoadOwner(u) ==
    /\ At("owners")
    /\ u \in query.owners
    /\ Step(Judging([query EXCEPT !.owners = @ \ {u},
                                  !.loaded = @ \cup {[unit |-> v, content |-> row[v]] :
                                                     v \in Stored \cap {u}}]))

\* Faulty variant of the next definition: only a missing file is stale.
CompareOwnerExists(o) ==
    /\ At("files")
    /\ o \in query.loaded
    /\ Step(IF file[o.unit] # Absent THEN Judging([query EXCEPT !.loaded = @ \ {o}])
                                     ELSE Ended(query, "stale"))

\* The owner's file is read and its fingerprint compared with the row's.
CompareOwner(o) ==
    /\ At("files")
    /\ o \in query.loaded
    /\ Step(IF file[o.unit] = o.content THEN Judging([query EXCEPT !.loaded = @ \ {o}])
                                        ELSE Ended(query, "stale"))

ReadReferences ==
    /\ At("facts")
    /\ query.kind = "references"
    /\ Step(Answer([query EXCEPT !.payload = ReferenceEdges(query.target)]))

\* Faulty variant of the next definition: what was expanded is forgotten.
ExpandAgain(s) ==
    /\ At("facts")
    /\ query.kind \in {"implementations", "transitive"}
    /\ s \in query.pending
    /\ LET new  == DirectSubtypes(s)
           more == IF query.kind = "transitive" THEN new ELSE {}
           q    == [query EXCEPT !.pending = (@ \ {s}) \cup more, !.found = @ \cup new]
       IN Step(IF q.pending # {} THEN q
               ELSE IF q.found = {} THEN Answer(q)
               ELSE [q EXCEPT !.pc = "records"])

\* Faulty variant of the next definition: subtypes are never expanded.
ExpandOnce(s) ==
    /\ At("facts")
    /\ query.kind \in {"implementations", "transitive"}
    /\ s \in query.pending
    /\ LET q == [query EXCEPT !.pending = @ \ {s}, !.found = @ \cup DirectSubtypes(s)]
       IN Step(IF q.found = {} THEN Answer(q) ELSE [q EXCEPT !.pc = "records"])

\* implementations_of, or one turn of implementations_of_transitive.  The code
\* takes the pending symbols in the order they were found; any order here.
Expand(s) ==
    /\ At("facts")
    /\ query.kind \in {"implementations", "transitive"}
    /\ s \in query.pending
    /\ LET deep == query.kind = "transitive"
           new  == DirectSubtypes(s) \ (IF deep THEN query.visited ELSE {})
           more == IF deep THEN new ELSE {}
           q    == [query EXCEPT !.pending = (@ \ {s}) \cup more,
                                 !.visited = @ \cup new,
                                 !.found = @ \cup new]
       IN Step(IF q.pending # {} THEN q
               ELSE IF q.found = {} THEN Answer(q)
               ELSE [q EXCEPT !.pc = "records"])

\* store.symbol(subtype) for each edge; a symbol without a record is dropped.
ReadRecord(s) ==
    /\ At("records")
    /\ s \in query.found
    /\ LET q == [query EXCEPT !.found = @ \ {s}, !.payload = @ \cup Records(s)]
       IN Step(IF q.found # {} THEN q ELSE Answer(q))

\* print_short_references / print_short_symbols: the owner's row, for its path,
\* and its file are read once more.  generic_type_context slices the text at the offsets of the
\* reference without asking whether they lie in it.
PrintFact(f) ==
    /\ At("print")
    /\ f \in query.left
    /\ LET q == [query EXCEPT !.left = @ \ {f}] IN
       Step(IF row[f.unit] = None THEN Ended(query, "error")
            ELSE IF /\ query.kind = "references"
                    /\ file[f.unit] \notin Fits[f.saw] \cup {Absent}
                 THEN Ended(query, "panic")
            ELSE IF q.left # {} THEN q ELSE Ended(q, "ok"))

\* lexical_matches: one statement selects the matching documents.
Search(short) ==
    LET found == {[unit |-> u, saw |-> text[u], symbol |-> None] :
                    u \in {v \in Units : text[v] # None}}
        q == [Fresh EXCEPT !.short = short, !.left = found]
    IN Begin(IF found = {} THEN Ended(q, "no_result") ELSE [q EXCEPT !.pc = "search"])

\* Faulty variant of the next definition: the fingerprint is not compared.
ReadMatchUnchecked(m) ==
    /\ At("search")
    /\ m \in query.left
    /\ LET q == [query EXCEPT !.left = @ \ {m}, !.payload = @ \cup {m}]
       IN Step(IF q.left # {} THEN q ELSE Ended(q, "ok"))

\* Each matching document is read, and skipped unless it still has the
\* fingerprint its terms were computed for.
ReadMatch(m) ==
    /\ At("search")
    /\ m \in query.left
    /\ LET q == [query EXCEPT !.left = @ \ {m},
                              !.payload = @ \cup (IF file[m.unit] = m.saw THEN {m} ELSE {})]
       IN Step(IF q.left # {} THEN q
               ELSE Ended(q, IF q.payload = {} THEN "no_result" ELSE "ok"))

Start ==
    \E short \in BOOLEAN :
        \/ \E kind \in Navigation, s \in Symbols : ResolveSymbol(kind, short, s)
        \/ \E kind \in Navigation, u \in Units : ReadLocation(kind, short, u)
        \/ Search(short)

Continue ==
    \/ CompareLocation
    \/ FindUnit
    \/ LocateSymbol
    \/ ReadSymbol
    \/ LoadInputs
    \/ MatchInputs
    \/ \E u \in Units : LoadOwner(u)
    \/ \E o \in query.loaded : CompareOwner(o)
    \/ ReadReferences
    \/ \E s \in Symbols : Expand(s)
    \/ \E s \in Symbols : ReadRecord(s)
    \/ \E f \in query.left : PrintFact(f)
    \/ \E m \in query.left : ReadMatch(m)

-----------------------------------------------------------------------------
(* The rest of the world, until the command has ended. *)

EditFile(u, state) ==
    /\ file' = [file EXCEPT ![u] = state]
    /\ pastFiles' = [pastFiles EXCEPT ![u] = @ \cup {state}]
    /\ onDisk' = [onDisk EXCEPT ![u] = @ \cup {state}]
    /\ UNCHANGED <<config, pastInputs>>

EditInput(i, state) ==
    /\ config' = [config EXCEPT ![i] = state]
    /\ pastInputs' = [pastInputs EXCEPT ![i] = @ \cup {state}]
    /\ UNCHANGED <<file, pastFiles, onDisk>>

Edit ==
    /\ ~At("done")
    /\ edits < MaxEdits
    /\ \/ \E u \in Units : \E state \in FileState \ {file[u]} : EditFile(u, state)
       \/ \E i \in Inputs : \E state \in (Settings \cup {Absent}) \ {config[i]} :
             EditInput(i, state)
    /\ edits' = edits + 1
    /\ disturbed' = TRUE
    /\ UNCHANGED <<index, query, committed, commits>>

\* What a row is for a state of its file.
RowFor(state) == IF state = Absent THEN None ELSE state

\* replace_snapshot or remove_snapshot of a run of `kide index`, which discovered
\* the file in this state some time ago.
CommitRow(u, state) ==
    /\ row' = [row EXCEPT ![u] = RowFor(state)]
    /\ committed' = committed \cup {u}
    /\ UNCHANGED <<text, inputs>>

\* sync_text_documents replaces the whole inventory in one transaction.
SyncText(found) ==
    /\ text' = [u \in Units |-> RowFor(found[u])]
    /\ UNCHANGED <<row, inputs, committed>>

\* replace_configuration_inputs
ReplaceInputs(recorded) ==
    /\ inputs' = recorded
    /\ UNCHANGED <<row, text, committed>>

Commit ==
    /\ ~At("done")
    /\ commits < MaxCommits
    /\ \/ \E u \in Units : \E state \in pastFiles[u] : CommitRow(u, state)
       \/ \E found \in [Units -> FileState] :
             (\A u \in Units : found[u] \in pastFiles[u]) /\ SyncText(found)
       \/ \E recorded \in InputStates :
             (\A i \in Inputs : recorded[i] \in pastInputs[i]) /\ ReplaceInputs(recorded)
    /\ commits' = commits + 1
    /\ disturbed' = TRUE
    /\ UNCHANGED <<disk, query, pastFiles, pastInputs, onDisk, edits>>

\* The index is in step with the workspace.
Init ==
    /\ file \in [Units -> FileState]
    /\ config \in InputStates
    /\ row = [u \in Units |-> RowFor(file[u])]
    /\ text = row
    /\ inputs = config
    /\ query = Fresh
    /\ pastFiles = [u \in Units |-> {file[u]}]
    /\ pastInputs = [i \in Inputs |-> {config[i]}]
    /\ onDisk = [u \in Units |-> {file[u]}]
    /\ committed = {}
    /\ disturbed = FALSE
    /\ edits = 0
    /\ commits = 0

Next == Start \/ Continue \/ Edit \/ Commit

\* The command runs: once started, it is a thread that waits for nothing but
\* SQLite and the file system.
Spec == Init /\ [][Next]_vars /\ WF_vars(Continue)

-----------------------------------------------------------------------------
(* Properties. *)

\* Every local of the command, and every table, holds a value of its type.
TypeOK ==
    /\ file \in [Units -> FileState]
    /\ config \in InputStates
    /\ row \in [Units -> Contents \cup {None}]
    /\ text \in [Units -> Contents \cup {None}]
    /\ inputs \in InputStates
    /\ query \in QueryState
    /\ pastFiles \in [Units -> SUBSET FileState]
    /\ pastInputs \in [Inputs -> SUBSET (Settings \cup {Absent})]
    /\ onDisk \in [Units -> SUBSET FileState]
    /\ committed \in SUBSET Units
    /\ disturbed \in BOOLEAN
    /\ edits \in Nat
    /\ commits \in Nat

\* What freshness-v1 asks of an answer with status ok: the text each of its facts
\* was computed from was on disk while the query ran, even if the file, the row
\* or both changed between the statements and reads of the query.  Only an index
\* run that commits the owner meanwhile is excused: the gate may then judge a row
\* newer than the facts.
AnswersWereCurrent ==
    query.status = "ok" =>
        \A f \in query.payload : f.saw \in onDisk[f.unit] \/ f.unit \in committed

\* All symbols below s in the hierarchy of the stored facts.
Descendants(s) ==
    {t \in Symbols \ {s} :
        \A closed \in SUBSET Symbols :
            (s \in closed /\ \A x \in closed : DirectSubtypes(x) \subseteq closed)
                => t \in closed}

Asked ==
    CASE query.kind = "definition"      -> Records(query.target)
      [] query.kind = "references"      -> ReferenceEdges(query.target)
      [] query.kind = "implementations" -> UNION {Records(t) : t \in DirectSubtypes(query.target)}
      [] query.kind = "transitive"      -> UNION {Records(t) : t \in Descendants(query.target)}

\* The target was named, and neither the index nor an artifact has it.
Unknown ==
    /\ query.place = None
    /\ Records(query.target) = {}
    /\ query.target \notin External

\* The index and the disk differ in something the query has to look at.
Differ ==
    \/ \E i \in Inputs : inputs[i] \notin {Absent, config[i]}
    \/ query.place # None /\ row[query.place] # file[query.place]
    \/ \E u \in OwnersOf(Records(query.target) \cup Asked) : row[u] # file[u]

\* With nothing changing while it runs, a navigation query is exact: it answers
\* with all the facts asked for and only those, in graphs with cycles too, it
\* says stale only when something it looked at differs from the disk, it answers
\* only when nothing does, and it ends in an error only when it cannot say what
\* its location names.
QuietAnswersAreExact ==
    At("done") /\ ~disturbed /\ query.kind \in Navigation =>
        CASE query.status = "ok"        -> query.payload = Asked /\ ~Differ
          [] query.status = "stale"     -> IF query.target = None
                                           THEN row[query.place] # file[query.place]
                                           ELSE Differ
          [] query.status = "no_result" -> query.target = None \/ Asked = {} \/ Unknown
          [] query.status = "ambiguous" -> query.target = None
          [] query.status = "error"     -> query.place # None /\ query.target = None
          [] query.status = "panic"     -> FALSE

\* Text search calls every match fresh and slices the file it has read at the
\* stored offsets: each match it reports was computed from a text that was on disk
\* while the query ran, whatever an index run committed meanwhile.
SearchReportsRealText ==
    query.kind = "text" =>
        \A m \in query.payload : m.saw \in onDisk[m.unit]

\* Printing references slices a file at stored offsets without asking whether they
\* lie in it.  Under fresh_only that needs a race: the file was edited, or its row
\* committed, while the query ran.
PanicNeedsRace ==
    query.status = "panic" =>
        \E f \in query.payload : Cardinality(onDisk[f.unit]) > 1 \/ f.unit \in committed

\* Every query ends, however the hierarchy changes while it is walked.
QueryEnds == ~At("idle") ~> At("done")

=============================================================================
