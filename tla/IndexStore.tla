----------------------------- MODULE IndexStore -----------------------------
(***************************************************************************)
(* The SQLite index as a whole: processes open it, migrate it and write    *)
(* facts to it, while others are still migrating.                          *)
(***************************************************************************)
EXTENDS StoreMigration

CONSTANTS Units, Snapshots, UnitOf, InputsOf, FactsOf, Expected, MaxOffset, Batches, None

VARIABLES
    rows, tx, result,
    blank       \* units whose provenance_blob in source_snapshots is NULL

Store == INSTANCE SnapshotStore

ASSUME IndexAssumption == Store!StoreAssumption

storeVars == <<rows, tx, result>>
indexVars == <<vars, storeVars, blank>>

Provenance(heads) == {[r EXCEPT !.table = "source_provenance"] : r \in heads}

\* MIGRATION_15: INSERT OR REPLACE of every provenance_blob that is not NULL.
CopyProvenance(data) ==
    LET copied == Provenance({r \in data : r.table = "source_snapshots" /\ r.owner \notin blank})
    IN  copied \cup {r \in data : \A c \in copied : ~Store!SameKey(r, c)}

\* Process p is at a statement that writes, and waits while another one writes.
Copying(p) ==
    /\ opener[p].pc = "apply"
    /\ Migrations[opener[p].version][opener[p].next].op = "copy"

\* A process that has the index open writes facts.
InUse == \E p \in Openers : opener[p].pc = "open"

Migrate(p) ==
    /\ Step(p)
    /\ <<db, recorded, format>>' # <<db, recorded, format>> => tx.pc = "idle"
    /\ IF Copying(p)
       THEN tx.pc = "idle" /\ rows' = CopyProvenance(rows) /\ UNCHANGED <<tx, result>>
       ELSE UNCHANGED storeVars
    /\ UNCHANGED blank
    \* The writer does not close its own store; processes open it between calls.
    /\ tx.pc # "idle" => InUse' /\ opener[p].pc # "closed"

\* While the index is in use its tables are there and its migrations recorded: of
\* a process that still migrates, only the copy writes, and its other steps commute
\* with the writer's.  They are taken first, to keep the states few.
Settled == \A p \in Openers : opener[p].pc \in Migrating => Copying(p)

\* What is inserted has a provenance_blob.
Write ==
    /\ InUse /\ Settled /\ Store!Next
    /\ blank' = IF Store!Commit THEN blank \ DOMAIN Store!Request ELSE blank
    /\ UNCHANGED vars

\* Facts that an earlier release left: no row in a table its version did not have.
\* Version 1 wrote no provenance_blob, and MIGRATION_2 adds it as NULL: so it stays,
\* whatever was migrated since, until the unit is written again.
IndexInit ==
    /\ Init
    /\ \/ Store!Init /\ blank = {}
       \/ /\ recorded # {} /\ tx = Store!Idle /\ result = "none"
          /\ \E s \in {t \in Snapshots : Store!Storable(t)} :
                /\ blank \in SUBSET {UnitOf[s]}
                /\ recorded = {1} => blank = {UnitOf[s]}
                /\ rows = {r \in Store!Elements(Store!RowsOf(s)) :
                               /\ r.table \in db
                               /\ r.table = "source_provenance" => blank = {}}

IndexNext == Write \/ \E p \in Openers : Migrate(p)

IndexSpec == IndexInit /\ [][IndexNext]_indexVars

-----------------------------------------------------------------------------
(* Properties. *)

\* Both parts, and the units without provenance.
IndexTypeOK == TypeOK /\ Store!TypeOK /\ blank \subseteq Units

\* A process that has the index open finds the provenance of every snapshot that has
\* one where it reads it, also of the snapshots older releases left, and whether
\* this process or another one copied them; and it finds no other.
ProvenanceFollows ==
    InUse => \A u \in Units : \A s \in Snapshots :
        LET head == [table |-> "source_snapshots", owner |-> u, id |-> "", from |-> s]
        IN  head \in rows /\ u \notin blank
              <=> [head EXCEPT !.table = "source_provenance"] \in rows

ArgumentsHaveApplications == Store!ArgumentsHaveApplications

\* A snapshot is the same facts without its row in source_provenance.
WithProvenance(data) == data \cup Provenance({r \in data : r.table = "source_snapshots"})

Facts == INSTANCE FactStore WITH facts <- Store!FactsIn(WithProvenance(rows)), call <- Store!Request
ImplementsFactStore == Facts!Spec

RollBacksHaveCause == Store!RollBacksHaveCause
=============================================================================
