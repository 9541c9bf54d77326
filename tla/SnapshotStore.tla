---------------------------- MODULE SnapshotStore ----------------------------
(***************************************************************************)
(* Writing facts to the SQLite index, statement by statement: a snapshot   *)
(* is spread over twelve tables, and the transaction that replaces it      *)
(* deletes and inserts their rows one statement after another.             *)
(*                                                                         *)
(* A row is its table, its owner (the unit in source_unit_id; of an        *)
(* argument its application), the rest of its primary key, and the         *)
(* snapshot its record is from.  SQLite admits one writer at a time.       *)
(***************************************************************************)
EXTENDS Integers, Sequences, FiniteSets

CONSTANTS
    Units,      \* source units
    Snapshots,  \* snapshots workers may answer with
    UnitOf,     \* the unit a snapshot is of
    InputsOf,   \* its content and context fingerprints, and its protocol version
    FactsOf,    \* its facts, in the order they are inserted
    Expected,   \* Expected[u]: the fingerprints discovery found, and Core's protocol
    MaxOffset,  \* the largest offset SQLite represents, i64::MAX
    Batches,    \* batches of snapshots: sequences of a unit and the snapshot for it
    None        \* no snapshot

FactTables ==
    {"symbols", "annotation_edges", "applications", "application_arguments", "occurrences",
     "reference_edges", "call_edges", "hierarchy_edges", "type_records", "diagnostics"}

\* located: the unit its ranges name.
Facts == [table : FactTables, owner : Units \cup STRING, id : STRING,
          located : Units, start : Nat, end : Nat]

\* A fact is written for the unit of its snapshot, an argument after the
\* application it is part of.
Attached(s, i) ==
    LET fact == FactsOf[s][i]
    IN  IF fact.table = "application_arguments"
        THEN \E j \in 1 .. (i - 1) :
                 FactsOf[s][j].table = "applications" /\ FactsOf[s][j].id = fact.owner
        ELSE fact.owner = UnitOf[s]

\* What is assumed of the constants.
StoreAssumption ==
    /\ UnitOf \in [Snapshots -> Units]
    /\ None \notin Snapshots
    /\ DOMAIN InputsOf = Snapshots /\ DOMAIN FactsOf = Snapshots /\ DOMAIN Expected = Units
    /\ MaxOffset \in Nat
    /\ \A s \in Snapshots :
           /\ FactsOf[s] \in Seq(Facts)
           /\ \A i \in DOMAIN FactsOf[s] : Attached(s, i)
           \* IDs of applications are no IDs of units.
           /\ \A i \in DOMAIN FactsOf[s] :
                  FactsOf[s][i].table = "applications" => FactsOf[s][i].id \notin Units
    \* One entry for each unit of a batch, in any order.
    /\ \A batch \in Batches :
           /\ batch # << >> /\ batch \in Seq(Units \X Snapshots)
           /\ \A i, j \in DOMAIN batch : batch[i][1] = batch[j][1] => i = j

VARIABLES
    rows,       \* the rows committed
    tx,         \* the writer's transaction
    result      \* what the last call returned

vars == <<rows, tx, result>>

Row(fact, s) == [table |-> fact.table, owner |-> fact.owner, id |-> fact.id, from |-> s]

\* The two rows insert_snapshot writes before the facts.
Heads(s) == << [table |-> "source_snapshots", owner |-> UnitOf[s], id |-> "", from |-> s],
               [table |-> "source_provenance", owner |-> UnitOf[s], id |-> "", from |-> s] >>

\* The rows of a snapshot, in the order they are inserted.
RowsOf(s) == Heads(s) \o [i \in DOMAIN FactsOf[s] |-> Row(FactsOf[s][i], s)]

\* Primary keys: those of symbols and applications are their IDs alone.
SameKey(r, q) ==
    /\ r.table = q.table /\ r.id = q.id
    /\ r.table \in {"symbols", "applications"} \/ r.owner = q.owner

-----------------------------------------------------------------------------
(* Validation, before the transaction begins. *)

Located(fact, unit) == fact.located = unit

OrderedRange(fact) == fact.start <= fact.end

\* validate_snapshot: Ok(()).
Valid(unit, s) ==
    /\ UnitOf[s] = unit
    /\ InputsOf[s] = Expected[unit]
    /\ \A i \in DOMAIN FactsOf[s] :
           LET fact == FactsOf[s][i]
           IN  fact.table \notin {"hierarchy_edges", "type_records",
                                  "annotation_edges", "application_arguments"}
               => Located(fact, unit) /\ OrderedRange(fact)

-----------------------------------------------------------------------------
(* The transaction. *)

\* Faulty variant of Deletions: the table a migration added is forgotten.
AnnotationsForgotten ==
    << "application_arguments", "applications", "reference_edges", "call_edges",
       "hierarchy_edges", "type_records", "diagnostics", "occurrences", "symbols",
       "source_provenance", "source_snapshots" >>

\* Faulty variant of Deletions: arguments go after their applications.
ApplicationsFirst ==
    << "applications", "application_arguments", "reference_edges", "call_edges",
       "hierarchy_edges", "type_records", "diagnostics", "annotation_edges",
       "occurrences", "symbols", "source_provenance", "source_snapshots" >>

\* The DELETE statements of delete_file_owned_facts, in their order.
Deletions ==
    << "application_arguments", "applications", "reference_edges", "call_edges",
       "hierarchy_edges", "type_records", "diagnostics", "annotation_edges",
       "occurrences", "symbols", "source_provenance", "source_snapshots" >>

\* The rows one of them deletes; arguments are found through their applications.
Deleted(table, unit, data) ==
    IF table = "application_arguments"
    THEN {r \in data : r.table = table /\
              \E a \in data : a.table = "applications" /\ a.owner = unit /\ a.id = r.owner}
    ELSE {r \in data : r.table = table /\ r.owner = unit}

\* work: the rows the writer sees.  An entry is a unit and its snapshot, or None;
\* next counts the statements of entry number entry.
Idle == [pc |-> "idle", work |-> {}, entries |-> << >>, entry |-> 1, next |-> 1]

Begin(entries) ==
    /\ tx.pc = "idle"
    /\ tx' = [pc |-> "delete", work |-> rows, entries |-> entries, entry |-> 1, next |-> 1]
    /\ result' = "none"
    /\ UNCHANGED rows

\* replace_snapshot is the batch of one.
ReplaceSnapshots(entries) ==
    /\ \A i \in DOMAIN entries : Valid(entries[i][1], entries[i][2])
    /\ Begin(entries)

\* A refusal comes before anything is written.
RefuseSnapshots(entries) ==
    /\ tx.pc = "idle"
    /\ \E i \in DOMAIN entries : ~Valid(entries[i][1], entries[i][2])
    /\ result' = "error"
    /\ UNCHANGED <<rows, tx>>

RemoveSnapshot(unit) == Begin(<< <<unit, None>> >>)

Unit == tx.entries[tx.entry][1]
Snapshot == tx.entries[tx.entry][2]

\* The current entry is done: on to the next one, or to COMMIT.
NextEntry(work) ==
    tx' = IF tx.entry = Len(tx.entries)
          THEN [tx EXCEPT !.pc = "commit", !.work = work, !.next = 1]
          ELSE [tx EXCEPT !.pc = "delete", !.work = work, !.entry = @ + 1, !.next = 1]

Delete ==
    /\ tx.pc = "delete"
    /\ LET work == tx.work \ Deleted(Deletions[tx.next], Unit, tx.work)
       IN  IF tx.next < Len(Deletions) THEN tx' = [tx EXCEPT !.work = work, !.next = @ + 1]
           ELSE IF Snapshot # None THEN tx' = [tx EXCEPT !.pc = "insert", !.work = work, !.next = 1]
           ELSE NextEntry(work)
    /\ UNCHANGED <<rows, result>>

\* sqlite_offset: the offsets written for the row fit an i64; of a symbol, only
\* the start of its name has a column.
Representable(s, i) ==
    \A fact \in {FactsOf[s][j] : j \in DOMAIN FactsOf[s] \cap {i - 2}} :
        fact.start <= MaxOffset /\ (fact.table # "symbols" => fact.end <= MaxOffset)

\* A snapshot that an empty store would take.
Storable(s) ==
    /\ Valid(UnitOf[s], s)
    /\ \A i \in DOMAIN RowsOf(s) : Representable(s, i)
    /\ \A i, j \in DOMAIN RowsOf(s) : SameKey(RowsOf(s)[i], RowsOf(s)[j]) => i = j

\* The INSERT succeeds.
Insertable(s, i) ==
    /\ Representable(s, i)
    /\ \A r \in tx.work : ~SameKey(r, RowsOf(s)[i])

Insert ==
    /\ tx.pc = "insert"
    /\ Insertable(Snapshot, tx.next)
    /\ LET work == tx.work \cup {RowsOf(Snapshot)[tx.next]}
       IN  IF tx.next < Len(RowsOf(Snapshot))
           THEN tx' = [tx EXCEPT !.work = work, !.next = @ + 1]
           ELSE NextEntry(work)
    /\ UNCHANGED <<rows, result>>

\* Faulty variant of the next definition: what was written so far is kept.
KeepPrefix ==
    /\ tx.pc = "insert"
    /\ ~Insertable(Snapshot, tx.next)
    /\ tx' = Idle
    /\ result' = "error"
    /\ rows' = tx.work

\* The transaction is dropped, and with it everything since BEGIN.
RollBack ==
    /\ tx.pc = "insert"
    /\ ~Insertable(Snapshot, tx.next)
    /\ tx' = Idle
    /\ result' = "error"
    /\ UNCHANGED rows

Commit ==
    /\ tx.pc = "commit"
    /\ rows' = tx.work
    /\ tx' = Idle
    /\ result' = "ok"

\* The process ends: SQLite forgets what was not committed.
Crash ==
    /\ tx.pc # "idle"
    /\ tx' = Idle
    /\ UNCHANGED <<rows, result>>

Next ==
    \/ \E b \in Batches : ReplaceSnapshots(b) \/ RefuseSnapshots(b)
    \/ \E u \in Units : RemoveSnapshot(u)
    \/ Delete \/ Insert \/ RollBack \/ Commit \/ Crash

Init ==
    /\ rows = {}
    /\ tx = Idle
    /\ result = "none"

Spec == Init /\ [][Next]_vars

-----------------------------------------------------------------------------
(* Properties. *)

Elements(seq) == {seq[i] : i \in DOMAIN seq}

\* The rows of a unit, with the arguments of its applications.
RowsOfUnit(u, data) ==
    {r \in data : r.table # "application_arguments" /\ r.owner = u}
        \cup Deleted("application_arguments", u, data)

\* What unit u has the facts of: None, a snapshot, or no single one of these.
FactsIn(data) ==
    [u \in Units |->
        CASE \A r \in data : r.owner # u -> None
          [] \E r \in data : r.owner = u /\ RowsOfUnit(u, data) = Elements(RowsOf(r.from)) ->
                 (CHOOSE r \in data : r.owner = u).from
          [] OTHER -> "mixed"]

\* The request the transaction is for.
Request ==
    [u \in {tx.entries[i][1] : i \in DOMAIN tx.entries} |->
        (CHOOSE e \in Elements(tx.entries) : e[1] = u)[2]]

\* The store and its transaction.
TypeOK ==
    /\ \A r \in rows \cup tx.work : r.from \in Snapshots
    /\ tx.pc \in {"idle", "delete", "insert", "commit"}
    /\ tx.next \in Nat \ {0}
    /\ result \in {"none", "ok", "error"}

\* No row is left of an application that is gone: arguments name only their
\* application, and nothing but its row leads to them.
ArgumentsHaveApplications ==
    \A r \in rows : r.table = "application_arguments" =>
        \E a \in rows : a.table = "applications" /\ a.id = r.owner

\* Another unit's row has a symbol or application ID of the snapshot.
TakenElsewhere(s) ==
    \E r \in tx.work, q \in Elements(RowsOf(s)) : SameKey(r, q) /\ r.owner # q.owner

\* Nothing that an earlier call of the same unit left behind makes a later one fail:
\* a rollback has its cause in a snapshot of the batch, or in an ID that is taken.
RollBacksHaveCause == [][RollBack => ~Storable(Snapshot) \/ TakenElsewhere(Snapshot)]_vars

\* The transaction implements a store that has one snapshot for each unit, replaces
\* a batch of them at once, and has replaced what was asked for when it returns Ok.
Abstract == INSTANCE FactStore WITH facts <- FactsIn(rows), call <- Request
ImplementsFactStore == Abstract!Spec
=============================================================================
