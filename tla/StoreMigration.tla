--------------------------- MODULE StoreMigration ---------------------------
(***************************************************************************)
(* Opening the SQLite index: kide processes that bring its schema up to    *)
(* date, statement by statement, at the same time or killed half way.      *)
(*                                                                         *)
(* Every statement of a migration, and the INSERT that records it, commits *)
(* by itself.  A table is its name, an added or dropped column its name    *)
(* after the table's; indexes are left out, for they come and go with      *)
(* their tables, and so are columns no migration changes.                  *)
(***************************************************************************)
EXTENDS Integers, Sequences, FiniteSets

CONSTANTS
    Openers,          \* processes that open the index
    InitialVersions,  \* versions up to which an index may be found migrated; 0: no index
    MaxKills          \* bound on processes that are killed

ASSUME MigrationAssumption ==
    /\ InitialVersions \subseteq 0 .. 15
    /\ MaxKills \in Nat

-----------------------------------------------------------------------------
(* The migrations. *)

Create(table) == [op |-> "create", on |-> table]
Add(column)   == [op |-> "add", on |-> column]
Drop(column)  == [op |-> "drop", on |-> column]

\* INSERT .. SELECT from a column's table into a table.
Copy(table)   == [op |-> "copy", on |-> table]

MIGRATION_1 ==
    << Create("kide_metadata"), Create("schema_migrations"), Create("project_manifests"),
       Create("source_snapshots"), Create("symbols"), Create("occurrences"),
       Create("reference_edges"), Create("call_edges"), Create("hierarchy_edges"),
       Create("type_records"), Create("diagnostics") >>

MIGRATION_2 == << Add("source_snapshots.provenance_blob"),
                  Drop("source_snapshots.snapshot_json") >>

MIGRATION_3 == << Create("annotation_edges") >>

MIGRATION_4 == << Create("artifact_catalog") >>

MIGRATION_5 == << Create("symbol_locators") >>

MIGRATION_6 == << Create("applications"), Create("application_arguments") >>

MIGRATION_7 == << Create("workspace_text_documents"), Create("workspace_text_terms") >>

MIGRATION_8 == << Add("source_snapshots.public_api_fingerprint") >>

MIGRATION_9 == << Create("configuration_inputs") >>

MIGRATION_10 == << Create("artifact_blob_catalog"), Create("project_artifact_blob_refs") >>

MIGRATION_11 == << Create("source_file_metadata") >>

MIGRATION_12 == << Create("workspace_checkpoints") >>

MIGRATION_13 == << Add("workspace_checkpoints.artifact_catalog_fingerprint") >>

MIGRATION_14 == << Add("workspace_checkpoints.publication_state") >>

\* Faulty variant of the next definition: what there is is not copied.
ProvenanceTableOnly == << Create("source_provenance") >>

MIGRATION_15 == << Create("source_provenance"), Copy("source_provenance") >>

Migrations ==
    << MIGRATION_1, MIGRATION_2, MIGRATION_3, MIGRATION_4, MIGRATION_5,
       MIGRATION_6, MIGRATION_7, MIGRATION_8, MIGRATION_9, MIGRATION_10,
       MIGRATION_11, MIGRATION_12, MIGRATION_13, MIGRATION_14, MIGRATION_15 >>

Versions == 1 .. 15

\* The columns of a table as it is created that a later migration drops.
ColumnsOf(table) ==
    IF table = "source_snapshots" THEN {"source_snapshots.snapshot_json"} ELSE {}

TableOf(column) ==
    IF column \in {"source_snapshots.provenance_blob", "source_snapshots.snapshot_json",
                   "source_snapshots.public_api_fingerprint"}
    THEN "source_snapshots"
    ELSE "workspace_checkpoints"

\* The statement raises no error.
Succeeds(s, db) ==
    \/ s.op = "create"
    \/ s.op = "add" /\ TableOf(s.on) \in db /\ s.on \notin db
    \/ s.op = "drop" /\ s.on \in db
    \/ s.op = "copy" /\ {s.on, "source_snapshots.provenance_blob"} \subseteq db

\* The schema after the statement; CREATE has IF NOT EXISTS.
After(s, db) ==
    IF s.op = "create" THEN IF s.on \in db THEN db ELSE db \cup {s.on} \cup ColumnsOf(s.on)
    ELSE IF s.op = "add" THEN db \cup {s.on}
    ELSE IF s.op = "drop" THEN db \ {s.on}
    ELSE db

\* What the statement leaves behind.
Done(s, db) ==
    \/ s.op \in {"create", "add"} /\ s.on \in db
    \/ s.op = "drop" /\ TableOf(s.on) \in db /\ s.on \notin db
    \/ s.op = "copy" /\ s.on \in db

Applied(v, db) == \A i \in 1 .. Len(Migrations[v]) : Done(Migrations[v][i], db)

StatementsOf(versions) ==
    UNION {{Migrations[v][i] : i \in 1 .. Len(Migrations[v])} : v \in versions}

Objects == {s.on : s \in StatementsOf(Versions)}

\* The schema that migrations 1 to k make of no index.
SchemaAt(k) ==
    {s.on : s \in {t \in StatementsOf(1 .. k) : t.op \in {"create", "add"}}}
        \cup (IF k = 1 THEN ColumnsOf("source_snapshots") ELSE {})

-----------------------------------------------------------------------------
VARIABLES
    db,         \* the tables and columns there are
    recorded,   \* the rows of schema_migrations
    format,     \* index_format_version: "none", "supported" or "foreign"
    opener,     \* opener[p]: where process p is in open
    kills       \* processes killed so far

vars == <<db, recorded, format, opener, kills>>

Migrating == {"tables", "format", "stamp", "first", "check", "apply", "record"}

\* alone: no other process migrated since this one began.  torn: the index had
\* an unrecorded migration in part when this process began.  Both are history.
OpenerState == [pc : Migrating \cup {"closed", "open", "failed"},
                version : Versions, next : 1 .. 11, alone : BOOLEAN, torn : BOOLEAN]

Closed == [pc |-> "closed", version |-> 1, next |-> 1, alone |-> TRUE, torn |-> FALSE]

Init ==
    /\ \E k \in InitialVersions :
           /\ db = SchemaAt(k)
           /\ recorded = 1 .. k
           /\ format \in IF k = 0 THEN {"none"} ELSE {"supported", "foreign"}
    /\ opener = [p \in Openers |-> Closed]
    /\ kills = 0

\* A migration that is not recorded has changed a table.
Torn ==
    \E v \in Versions \ recorded : \E s \in StatementsOf({v}) :
        s.op \in {"add", "drop"} /\ Done(s, db)

Goto(p, place) == opener' = [opener EXCEPT ![p].pc = place]

\* open returns an error.
Fail(p) ==
    opener' = [opener EXCEPT ![p].pc = "failed", ![p].version = 1, ![p].next = 1]

\* Faulty variant of the next definition: one version too many.
VersionsWithoutEnd(p, v) ==
    opener' = [opener EXCEPT ![p] = IF v = 16 THEN [Closed EXCEPT !.pc = "open"]
                                    ELSE [@ EXCEPT !.pc = "check", !.version = v + 1]]

\* To the check of the version after v, or out of migrate.
NextVersion(p, v) ==
    opener' = [opener EXCEPT ![p] = IF v = 15 THEN [Closed EXCEPT !.pc = "open"]
                                    ELSE [opener[p] EXCEPT !.pc = "check", !.version = v + 1]]

Open(p) ==
    /\ opener[p].pc = "closed"
    /\ opener' = [q \in Openers |->
                     IF q = p
                     THEN [pc |-> "tables", version |-> 1, next |-> 1, torn |-> Torn,
                           alone |-> \A r \in Openers : opener[r].pc \notin Migrating]
                     ELSE [opener[q] EXCEPT !.alone = @ /\ opener[q].pc \notin Migrating]]
    /\ UNCHANGED <<db, recorded, format, kills>>

\* The next statement of the batch; after the last one to place.
RunStatement(p, batch, place) ==
    LET o == opener[p]
    IN  /\ db' = After(batch[o.next], db)
        /\ opener' = [opener EXCEPT ![p] = IF o.next = Len(batch)
                                           THEN [o EXCEPT !.pc = place, !.next = 1]
                                           ELSE [o EXCEPT !.next = o.next + 1]]

\* MIGRATION_1 runs in every open, before the format is looked at.
CreateTables(p) ==
    /\ opener[p].pc = "tables"
    /\ RunStatement(p, MIGRATION_1, "format")
    /\ UNCHANGED <<recorded, format, kills>>

ReadFormat(p) ==
    /\ opener[p].pc = "format"
    /\ IF format = "foreign" THEN Fail(p)
       ELSE Goto(p, IF format = "none" THEN "stamp" ELSE "first")
    /\ UNCHANGED <<db, recorded, format, kills>>

\* The key is there if another process wrote it in between.
WriteFormat(p) ==
    /\ opener[p].pc = "stamp"
    /\ IF format = "none"
       THEN format' = "supported" /\ Goto(p, "first")
       ELSE UNCHANGED format /\ Fail(p)
    /\ UNCHANGED <<db, recorded, kills>>

\* Faulty variant of the next definition: a plain INSERT.
RecordFirstOnce(p) ==
    /\ opener[p].pc = "first"
    /\ IF 1 \in recorded THEN Fail(p) ELSE NextVersion(p, 1)
    /\ recorded' = recorded \cup {1}
    /\ UNCHANGED <<db, format, kills>>

\* INSERT OR IGNORE.
RecordFirst(p) ==
    /\ opener[p].pc = "first"
    /\ recorded' = recorded \cup {1}
    /\ NextVersion(p, 1)
    /\ UNCHANGED <<db, format, kills>>

\* Faulty variant of the next definition: a recorded version ends the migration.
StopAtRecorded(p) ==
    /\ opener[p].pc = "check"
    /\ IF opener[p].version \in recorded THEN NextVersion(p, 15) ELSE Goto(p, "apply")
    /\ UNCHANGED <<db, recorded, format, kills>>

CheckVersion(p) ==
    /\ opener[p].pc = "check"
    /\ IF opener[p].version \in recorded
       THEN NextVersion(p, opener[p].version)
       ELSE Goto(p, "apply")
    /\ UNCHANGED <<db, recorded, format, kills>>

\* Faulty variant of the next definition: an error of the batch is ignored.
ApplyRegardless(p) ==
    /\ opener[p].pc = "apply"
    /\ LET batch == Migrations[opener[p].version]
       IN  IF Succeeds(batch[opener[p].next], db)
           THEN RunStatement(p, batch, "record")
           ELSE /\ opener' = [opener EXCEPT ![p].pc = "record", ![p].next = 1]
                /\ UNCHANGED db
    /\ UNCHANGED <<recorded, format, kills>>

ApplyStatement(p) ==
    /\ opener[p].pc = "apply"
    /\ LET batch == Migrations[opener[p].version]
       IN  IF Succeeds(batch[opener[p].next], db)
           THEN RunStatement(p, batch, "record")
           ELSE Fail(p) /\ UNCHANGED db
    /\ UNCHANGED <<recorded, format, kills>>

\* A plain INSERT: it fails on a row another process wrote.
RecordVersion(p) ==
    /\ opener[p].pc = "record"
    /\ IF opener[p].version \in recorded
       THEN Fail(p) /\ UNCHANGED recorded
       ELSE /\ recorded' = recorded \cup {opener[p].version}
            /\ NextVersion(p, opener[p].version)
    /\ UNCHANGED <<db, format, kills>>

\* The process of a store, or of a failed open, ends.
Close(p) ==
    /\ opener[p].pc \in {"open", "failed"}
    /\ opener' = [opener EXCEPT ![p] = Closed]
    /\ UNCHANGED <<db, recorded, format, kills>>

Kill(p) ==
    /\ opener[p].pc \in Migrating
    /\ kills < MaxKills
    /\ opener' = [opener EXCEPT ![p] = Closed]
    /\ kills' = kills + 1
    /\ UNCHANGED <<db, recorded, format>>

Step(p) ==
    \/ Open(p) \/ CreateTables(p) \/ ReadFormat(p) \/ WriteFormat(p) \/ RecordFirst(p)
    \/ CheckVersion(p) \/ ApplyStatement(p) \/ RecordVersion(p) \/ Close(p) \/ Kill(p)

Next == \E p \in Openers : Step(p)

Spec == Init /\ [][Next]_vars

-----------------------------------------------------------------------------
(* Properties. *)

\* The state of the index and of its openers.
TypeOK ==
    /\ db \subseteq Objects
    /\ recorded \subseteq Versions
    /\ format \in {"none", "supported", "foreign"}
    /\ opener \in [Openers -> OpenerState]
    /\ kills \in 0 .. MaxKills

\* schema_migrations never vouches for a migration whose tables and columns are
\* not all there, whoever was killed or overtaken: no later open repairs it.
RecordedMeansApplied == \A v \in recorded : Applied(v, db)

\* A process whose open returned Ok finds every table and column it will use,
\* although others may still be migrating.
OpenedIsMigrated ==
    \A p \in Openers : opener[p].pc = "open" =>
        /\ format = "supported"
        /\ recorded = Versions
        /\ db = SchemaAt(15)

\* open fails only on an index of another format, on one a killed process left
\* torn, or when another process was migrating at the same time.
FailuresHaveCause ==
    \A p \in Openers : opener[p].pc = "failed" =>
        format = "foreign" \/ opener[p].torn \/ ~opener[p].alone

\* What docs/architecture/0002-sqlite-and-ndjson-for-mvp.md says of migrations
\* ("ordered, idempotent"): a process alone with an index of its own format opens
\* it, although an earlier process was killed while it migrated.
KilledMigrationResumes ==
    \A p \in Openers : opener[p].pc = "failed" => format = "foreign" \/ ~opener[p].alone
=============================================================================
