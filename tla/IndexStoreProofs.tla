--------------------------- MODULE IndexStoreProofs ---------------------------
(***************************************************************************)
(* Proofs about opening and migrating the index, for any number of         *)
(* processes, any number of them killed, and facts written meanwhile.      *)
(***************************************************************************)
EXTENDS IndexStore, TLAPS

-----------------------------------------------------------------------------
(* The migrations, read statement by statement once.                        *)

Dropped == "source_snapshots.snapshot_json"

\* What the proofs need to know of a statement of migration v.
Known(s, v) ==
    /\ s.op \in {"create", "add", "drop", "copy"}
    /\ s.op \in {"create", "add"} => s.on # Dropped
    /\ s.op = "drop" => s.on = Dropped /\ v >= 2
    /\ s.op = "copy" => s.on = "source_provenance" /\ v = 15

KnownBatch(batch, v) ==
    /\ Len(batch) \in 1 .. 11
    /\ \A i \in 1 .. Len(batch) : Known(batch[i], v)

LEMMA MigrationsKnown ==
    ASSUME NEW v \in Versions
    PROVE  KnownBatch(Migrations[v], v)
<1> USE DEF KnownBatch, Known, Dropped, Create, Add, Drop, Copy
<1>1. CASE v = 1
  <2>1. KnownBatch(MIGRATION_1, 1)
    BY DEF MIGRATION_1
  <2>2. Migrations[v] = MIGRATION_1
    BY <1>1 DEF Migrations
  <2> QED
    BY <1>1, <2>1, <2>2
<1>2. CASE v = 2
  <2>1. KnownBatch(MIGRATION_2, 2)
    BY DEF MIGRATION_2
  <2>2. Migrations[v] = MIGRATION_2
    BY <1>2 DEF Migrations
  <2> QED
    BY <1>2, <2>1, <2>2
<1>3. CASE v = 3
  <2>1. KnownBatch(MIGRATION_3, 3)
    BY DEF MIGRATION_3
  <2>2. Migrations[v] = MIGRATION_3
    BY <1>3 DEF Migrations
  <2> QED
    BY <1>3, <2>1, <2>2
<1>4. CASE v = 4
  <2>1. KnownBatch(MIGRATION_4, 4)
    BY DEF MIGRATION_4
  <2>2. Migrations[v] = MIGRATION_4
    BY <1>4 DEF Migrations
  <2> QED
    BY <1>4, <2>1, <2>2
<1>5. CASE v = 5
  <2>1. KnownBatch(MIGRATION_5, 5)
    BY DEF MIGRATION_5
  <2>2. Migrations[v] = MIGRATION_5
    BY <1>5 DEF Migrations
  <2> QED
    BY <1>5, <2>1, <2>2
<1>6. CASE v = 6
  <2>1. KnownBatch(MIGRATION_6, 6)
    BY DEF MIGRATION_6
  <2>2. Migrations[v] = MIGRATION_6
    BY <1>6 DEF Migrations
  <2> QED
    BY <1>6, <2>1, <2>2
<1>7. CASE v = 7
  <2>1. KnownBatch(MIGRATION_7, 7)
    BY DEF MIGRATION_7
  <2>2. Migrations[v] = MIGRATION_7
    BY <1>7 DEF Migrations
  <2> QED
    BY <1>7, <2>1, <2>2
<1>8. CASE v = 8
  <2>1. KnownBatch(MIGRATION_8, 8)
    BY DEF MIGRATION_8
  <2>2. Migrations[v] = MIGRATION_8
    BY <1>8 DEF Migrations
  <2> QED
    BY <1>8, <2>1, <2>2
<1>9. CASE v = 9
  <2>1. KnownBatch(MIGRATION_9, 9)
    BY DEF MIGRATION_9
  <2>2. Migrations[v] = MIGRATION_9
    BY <1>9 DEF Migrations
  <2> QED
    BY <1>9, <2>1, <2>2
<1>10. CASE v = 10
  <2>1. KnownBatch(MIGRATION_10, 10)
    BY DEF MIGRATION_10
  <2>2. Migrations[v] = MIGRATION_10
    BY <1>10 DEF Migrations
  <2> QED
    BY <1>10, <2>1, <2>2
<1>11. CASE v = 11
  <2>1. KnownBatch(MIGRATION_11, 11)
    BY DEF MIGRATION_11
  <2>2. Migrations[v] = MIGRATION_11
    BY <1>11 DEF Migrations
  <2> QED
    BY <1>11, <2>1, <2>2
<1>12. CASE v = 12
  <2>1. KnownBatch(MIGRATION_12, 12)
    BY DEF MIGRATION_12
  <2>2. Migrations[v] = MIGRATION_12
    BY <1>12 DEF Migrations
  <2> QED
    BY <1>12, <2>1, <2>2
<1>13. CASE v = 13
  <2>1. KnownBatch(MIGRATION_13, 13)
    BY DEF MIGRATION_13
  <2>2. Migrations[v] = MIGRATION_13
    BY <1>13 DEF Migrations
  <2> QED
    BY <1>13, <2>1, <2>2
<1>14. CASE v = 14
  <2>1. KnownBatch(MIGRATION_14, 14)
    BY DEF MIGRATION_14
  <2>2. Migrations[v] = MIGRATION_14
    BY <1>14 DEF Migrations
  <2> QED
    BY <1>14, <2>1, <2>2
<1>15. CASE v = 15
  <2>1. KnownBatch(MIGRATION_15, 15)
    BY DEF MIGRATION_15
  <2>2. Migrations[v] = MIGRATION_15
    BY <1>15 DEF Migrations
  <2> QED
    BY <1>15, <2>1, <2>2
<1> QED
  BY <1>1, <1>2, <1>3, <1>4, <1>5, <1>6, <1>7, <1>8,
     <1>9, <1>10, <1>11, <1>12, <1>13, <1>14, <1>15 DEF Versions

LEMMA StatementsKnown ==
    ASSUME NEW v \in Versions, NEW s \in StatementsOf({v})
    PROVE  Known(s, v)
BY MigrationsKnown DEF StatementsOf, KnownBatch

LEMMA InBatch ==
    ASSUME NEW v \in Versions, NEW i \in 1 .. Len(Migrations[v])
    PROVE  Migrations[v][i] \in StatementsOf({v})
BY DEF StatementsOf

\* The statements the others are told apart by.
LEMMA SomeStatements ==
    /\ Migrations[1] = MIGRATION_1 /\ Len(MIGRATION_1) = 11
    /\ \A i \in 1 .. 11 : MIGRATION_1[i].op = "create"
    /\ Create("source_snapshots") \in StatementsOf({1})
    /\ Drop(Dropped) \in StatementsOf({2})
    /\ Create("source_provenance") \in StatementsOf({15})
<1>1. Migrations[1] = MIGRATION_1 /\ Migrations[2] = MIGRATION_2 /\ Migrations[15] = MIGRATION_15
  BY DEF Migrations
<1>2. Len(MIGRATION_1) = 11 /\ MIGRATION_1[4] = Create("source_snapshots")
  BY DEF MIGRATION_1
<1>3. \A i \in 1 .. 11 : MIGRATION_1[i].op = "create"
  BY DEF MIGRATION_1, Create
<1>4. Len(MIGRATION_2) = 2 /\ MIGRATION_2[2] = Drop(Dropped)
  BY DEF MIGRATION_2, Dropped
<1>5. Len(MIGRATION_15) = 2 /\ MIGRATION_15[1] = Create("source_provenance")
  BY DEF MIGRATION_15
<1>6. Create("source_snapshots") \in StatementsOf({1})
  <2>1. 1 \in Versions /\ 4 \in 1 .. Len(Migrations[1])
    BY <1>1, <1>2 DEF Versions
  <2> QED
    BY <1>1, <1>2, <2>1, InBatch
<1>7. Drop(Dropped) \in StatementsOf({2})
  <2>1. 2 \in Versions /\ 2 \in 1 .. Len(Migrations[2])
    BY <1>1, <1>4 DEF Versions
  <2> QED
    BY <1>1, <1>4, <2>1, InBatch
<1>8. Create("source_provenance") \in StatementsOf({15})
  <2>1. 15 \in Versions /\ 1 \in 1 .. Len(Migrations[15])
    BY <1>1, <1>5 DEF Versions
  <2> QED
    BY <1>1, <1>5, <2>1, InBatch
<1> QED
  BY <1>1, <1>2, <1>3, <1>6, <1>7, <1>8

LEMMA StatementsOfSome ==
    ASSUME NEW S \in SUBSET Versions, NEW s
    PROVE  s \in StatementsOf(S) <=> \E v \in S : s \in StatementsOf({v})
BY DEF StatementsOf

-----------------------------------------------------------------------------
(* What a statement does to a schema.                                       *)

\* The column that is dropped does not outlive its table.
Columned(data) == Dropped \in data => "source_snapshots" \in data

LEMMA StatementDoesIt ==
    ASSUME NEW data, NEW s, NEW v, Known(s, v), Columned(data), Succeeds(s, data)
    PROVE  Done(s, After(s, data))
BY DEF Known, Columned, Succeeds, Done, After, TableOf, Dropped

LEMMA StatementUndoesNothing ==
    ASSUME NEW data, NEW s, NEW v, Known(s, v), NEW t, NEW w, Known(t, w), Done(t, data)
    PROVE  Done(t, After(s, data))
BY DEF Known, Done, After, TableOf, ColumnsOf, Dropped

LEMMA StaysColumned ==
    ASSUME NEW data, NEW s, NEW v, Known(s, v), Columned(data)
    PROVE  Columned(After(s, data))
BY DEF Known, Columned, After, ColumnsOf, Dropped

LEMMA StaysObjects ==
    ASSUME NEW data \in SUBSET Objects, NEW v \in Versions, NEW s \in StatementsOf({v})
    PROVE  After(s, data) \subseteq Objects
<1>1. s \in StatementsOf(Versions)
  BY StatementsOfSome
<1>0. Drop(Dropped) \in StatementsOf(Versions)
  <2>1. 2 \in Versions
    BY DEF Versions
  <2> QED
    BY <2>1, SomeStatements, StatementsOfSome
<1>2. s.on \in Objects /\ Dropped \in Objects
  BY <1>1, <1>0 DEF Objects, Drop
<1> QED
  BY <1>2 DEF After, ColumnsOf, Dropped

LEMMA AppliedStays ==
    ASSUME NEW data, NEW s, NEW v, Known(s, v), NEW w \in Versions, Applied(w, data)
    PROVE  Applied(w, After(s, data))
BY MigrationsKnown, StatementUndoesNothing DEF Applied, KnownBatch

-----------------------------------------------------------------------------
(* The invariant: what a process has done at its place in open.             *)

DoneUpTo(batch, n, data) == \A i \in 1 .. (n - 1) : Done(batch[i], data)

Progress(o, data, versions, stamp) ==
    /\ o.pc \notin {"tables", "apply"} => o.next = 1
    /\ o.pc = "tables" => DoneUpTo(MIGRATION_1, o.next, data)
    /\ o.pc \in {"format", "stamp", "first"} => Applied(1, data)
    /\ o.pc \in {"first", "check", "apply", "record", "open"} => stamp = "supported"
    /\ o.pc \in {"check", "apply", "record"} => 1 .. (o.version - 1) \subseteq versions
    /\ o.pc = "apply" => /\ o.next <= Len(Migrations[o.version])
                         /\ DoneUpTo(Migrations[o.version], o.next, data)
    /\ o.pc = "record" => Applied(o.version, data)
    /\ o.pc = "open" => versions = Versions

IInv ==
    /\ TypeOK
    /\ RecordedMeansApplied
    /\ Columned(db)
    /\ \A p \in Openers : Progress(opener[p], db, recorded, format)

\* What is done stays done: a step runs at most one statement, and takes neither
\* records nor the format back.
Grows ==
    /\ \/ db' = db
       \/ \E v \in Versions : \E s \in StatementsOf({v}) : db' = After(s, db)
    /\ recorded \subseteq recorded' /\ recorded' \subseteq Versions
    /\ format' = format \/ (format = "none" /\ format' = "supported")

LEMMA GrowsKeepsDone ==
    ASSUME Grows, NEW t, NEW w, Known(t, w), Done(t, db)
    PROVE  Done(t, db')
BY StatementsKnown, StatementUndoesNothing DEF Grows

LEMMA GrowsKeepsApplied ==
    ASSUME Grows, NEW w \in Versions, Applied(w, db)
    PROVE  Applied(w, db')
BY StatementsKnown, AppliedStays DEF Grows

LEMMA GrowsKeepsShape ==
    ASSUME Grows, IInv
    PROVE  db' \subseteq Objects /\ Columned(db') /\ \A v \in recorded : Applied(v, db')
<1>1. db' \subseteq Objects
  BY StaysObjects DEF Grows, IInv, TypeOK
<1>2. Columned(db')
  BY StatementsKnown, StaysColumned DEF Grows, IInv
<1>3. \A v \in recorded : Applied(v, db')
  BY GrowsKeepsApplied DEF IInv, RecordedMeansApplied, TypeOK
<1> QED
  BY <1>1, <1>2, <1>3

LEMMA GrowsKeepsProgress ==
    ASSUME Grows, NEW o \in OpenerState, Progress(o, db, recorded, format)
    PROVE  Progress(o, db', recorded', format')
<1>1. 1 \in Versions /\ o.version \in Versions /\ o.next \in 1 .. 11
  BY DEF OpenerState, Versions
<1>2. \A v \in Versions : \A n \in 1 .. 11 :
        n <= Len(Migrations[v]) /\ DoneUpTo(Migrations[v], n, db)
          => DoneUpTo(Migrations[v], n, db')
  <2> SUFFICES ASSUME NEW v \in Versions, NEW n \in 1 .. 11, n <= Len(Migrations[v]),
                      DoneUpTo(Migrations[v], n, db), NEW i \in 1 .. (n - 1)
               PROVE  Done(Migrations[v][i], db')
    BY DEF DoneUpTo
  <2>1. Known(Migrations[v][i], v) /\ Done(Migrations[v][i], db)
    BY MigrationsKnown DEF KnownBatch, DoneUpTo
  <2> QED
    BY <2>1, GrowsKeepsDone
<1>3. Applied(1, db) => Applied(1, db')
  BY <1>1, GrowsKeepsApplied
<1>4. Applied(o.version, db) => Applied(o.version, db')
  BY <1>1, GrowsKeepsApplied
<1>5. DoneUpTo(MIGRATION_1, o.next, db) => DoneUpTo(MIGRATION_1, o.next, db')
  <2>1. Migrations[1] = MIGRATION_1 /\ o.next <= Len(Migrations[1])
    BY <1>1, SomeStatements
  <2>2. DoneUpTo(Migrations[1], o.next, db) => DoneUpTo(Migrations[1], o.next, db')
    BY <1>1, <1>2, <2>1
  <2> QED
    BY <2>1, <2>2
<1>6. DoneUpTo(Migrations[o.version], o.next, db) /\ o.next <= Len(Migrations[o.version])
        => DoneUpTo(Migrations[o.version], o.next, db')
  BY <1>1, <1>2
<1>7. format = "supported" => format' = "supported"
  BY DEF Grows
<1>8. recorded \subseteq recorded' /\ recorded' \subseteq Versions
  BY DEF Grows
<1> QED
  BY <1>3, <1>4, <1>5, <1>6, <1>7, <1>8 DEF Progress

\* A step of one process keeps the invariant if it leaves that process where its
\* progress allows, and records only what is applied.
LEMMA StepKeeps ==
    ASSUME IInv, Grows, NEW p \in Openers, NEW o \in OpenerState,
           opener' = [opener EXCEPT ![p] = o],
           Progress(o, db', recorded', format'),
           \A v \in recorded' \ recorded : Applied(v, db'),
           kills' \in 0 .. MaxKills
    PROVE  IInv'
<1>1. opener' \in [Openers -> OpenerState] /\ format' \in {"none", "supported", "foreign"}
  BY DEF IInv, TypeOK, Grows
<1>2. TypeOK'
  BY <1>1, GrowsKeepsShape DEF TypeOK, Grows
<1>3. RecordedMeansApplied' /\ Columned(db')
  BY GrowsKeepsShape DEF RecordedMeansApplied
<1>4. ASSUME NEW q \in Openers PROVE Progress(opener'[q], db', recorded', format')
  <2>1. CASE q = p
    BY <2>1 DEF IInv, TypeOK
  <2>2. CASE q # p
    <3>1. opener'[q] = opener[q] /\ opener[q] \in OpenerState
      BY <2>2 DEF IInv, TypeOK
    <3> QED
      BY <3>1, GrowsKeepsProgress DEF IInv
  <2> QED
    BY <2>1, <2>2
<1> QED
  BY <1>2, <1>3, <1>4 DEF IInv

-----------------------------------------------------------------------------
(* One lemma for each step of open.                                         *)

Places == Migrating \cup {"closed", "open", "failed"}

\* The ways a step moves a process on.
MovedTo(q, o, place, v, n) ==
    /\ q \in OpenerState
    /\ q.pc = place /\ q.version = v /\ q.next = n /\ q.alone = o.alone /\ q.torn = o.torn

LEMMA Moves ==
    ASSUME NEW o \in OpenerState, NEW place \in Places, NEW v \in Versions, NEW n \in 1 .. 11
    PROVE  /\ MovedTo([o EXCEPT !.pc = place, !.version = v, !.next = n], o, place, v, n)
           /\ MovedTo([o EXCEPT !.pc = place, !.next = n], o, place, o.version, n)
           /\ MovedTo([o EXCEPT !.pc = place, !.version = v], o, place, v, o.next)
           /\ MovedTo([o EXCEPT !.pc = place], o, place, o.version, o.next)
           /\ MovedTo([o EXCEPT !.next = n], o, o.pc, o.version, n)
<1>1. MovedTo([o EXCEPT !.pc = place, !.version = v, !.next = n], o, place, v, n)
  BY DEF MovedTo, OpenerState, Places
<1>2. MovedTo([o EXCEPT !.pc = place, !.next = n], o, place, o.version, n)
  BY DEF MovedTo, OpenerState, Places
<1>3. MovedTo([o EXCEPT !.pc = place, !.version = v], o, place, v, o.next)
  BY DEF MovedTo, OpenerState, Places
<1>4. MovedTo([o EXCEPT !.pc = place], o, place, o.version, o.next)
  BY DEF MovedTo, OpenerState, Places
<1>5. MovedTo([o EXCEPT !.next = n], o, o.pc, o.version, n)
  BY DEF MovedTo, OpenerState, Places
<1> QED
  BY <1>1, <1>2, <1>3, <1>4, <1>5

LEMMA OpenKeeps ==
    ASSUME IInv, NEW p \in Openers, Open(p)
    PROVE  IInv'
<1>1. UNCHANGED <<db, recorded, format, kills>>
  BY DEF Open
<1>2. \A q \in Openers : /\ opener'[q] \in OpenerState
                         /\ Progress(opener'[q], db, recorded, format)
  <2> SUFFICES ASSUME NEW q \in Openers
               PROVE  /\ opener'[q] \in OpenerState
                      /\ Progress(opener'[q], db, recorded, format)
    OBVIOUS
  <2>1. CASE q = p
    <3>1. /\ opener'[q].pc = "tables" /\ opener'[q].version = 1 /\ opener'[q].next = 1
          /\ opener'[q] \in OpenerState
      BY <2>1 DEF Open, OpenerState, Migrating, Versions, Torn
    <3> QED
      BY <3>1 DEF Progress, DoneUpTo
  <2>2. CASE q # p
    <3>1. opener[q] \in OpenerState /\ Progress(opener[q], db, recorded, format)
      BY DEF IInv, TypeOK
    <3>2. opener'[q] = [opener[q] EXCEPT !.alone = @ /\ opener[q].pc \notin Migrating]
      BY <2>2 DEF Open
    <3>3. /\ opener'[q].pc = opener[q].pc /\ opener'[q].version = opener[q].version
          /\ opener'[q].next = opener[q].next /\ opener'[q] \in OpenerState
      BY <3>1, <3>2 DEF OpenerState
    <3> QED
      BY <3>1, <3>3 DEF Progress
  <2> QED
    BY <2>1, <2>2
<1>3. opener' \in [Openers -> OpenerState]
  BY <1>2 DEF Open
<1> QED
  BY <1>1, <1>2, <1>3 DEF IInv, TypeOK, RecordedMeansApplied

LEMMA NextPlace ==
    ASSUME NEW m \in 1 .. 11, NEW n \in 1 .. m, n # m
    PROVE  n + 1 \in 1 .. 11 /\ n + 1 <= m
OBVIOUS

\* A statement of a batch that is being run.
LEMMA RunKeeps ==
    ASSUME IInv, NEW p \in Openers, NEW v \in Versions, NEW place \in {"format", "record"},
           opener[p].next <= Len(Migrations[v]),
           DoneUpTo(Migrations[v], opener[p].next, db),
           Succeeds(Migrations[v][opener[p].next], db),
           RunStatement(p, Migrations[v], place),
           UNCHANGED <<recorded, format, kills>>,
           \/ opener[p].pc = "tables" /\ v = 1 /\ place = "format"
           \/ opener[p].pc = "apply" /\ v = opener[p].version /\ place = "record"
    PROVE  IInv'
<1> DEFINE n == opener[p].next
           batch == Migrations[v]
           o == IF n = Len(batch) THEN [opener[p] EXCEPT !.pc = place, !.next = 1]
                ELSE [opener[p] EXCEPT !.next = n + 1]
<1>1. /\ opener[p] \in OpenerState /\ n \in 1 .. 11 /\ Len(batch) \in 1 .. 11
      /\ Progress(opener[p], db, recorded, format) /\ Columned(db)
  BY MigrationsKnown DEF IInv, TypeOK, OpenerState, KnownBatch
<1>2. n \in 1 .. Len(batch)
  BY <1>1
<1>3. batch[n] \in StatementsOf({v}) /\ Known(batch[n], v)
  BY <1>2, InBatch, StatementsKnown
<1>4. db' = After(batch[n], db) /\ opener' = [opener EXCEPT ![p] = o]
  BY DEF RunStatement
<1>5. Grows
  <2>1. \E w \in Versions : \E s \in StatementsOf({w}) : db' = After(s, db)
    BY <1>3, <1>4
  <2>2. recorded' = recorded /\ recorded \subseteq Versions /\ format' = format
    BY DEF IInv, TypeOK
  <2> QED
    BY <2>1, <2>2 DEF Grows
<1>6. /\ n = Len(batch) => MovedTo(o, opener[p], place, opener[p].version, 1)
      /\ n # Len(batch) => MovedTo(o, opener[p], opener[p].pc, opener[p].version, n + 1)
  <2>1. place \in Places /\ opener[p].version \in Versions /\ 1 \in 1 .. 11
    BY <1>1 DEF Places, Migrating, OpenerState
  <2>2. CASE n = Len(batch)
    BY <1>1, <2>1, <2>2, Moves
  <2>3. CASE n # Len(batch)
    <3>1. n + 1 \in 1 .. 11
      BY <1>1, <1>2, <2>3, NextPlace
    <3> QED
      BY <1>1, <2>1, <2>3, <3>1, Moves
  <2> QED
    BY <2>2, <2>3
<1>7. \A i \in 1 .. n : Done(batch[i], db')
  <2> SUFFICES ASSUME NEW i \in 1 .. n PROVE Done(batch[i], db')
    OBVIOUS
  <2>1. CASE i = n
    BY <1>1, <1>3, <1>4, <2>1, StatementDoesIt
  <2>2. CASE i # n
    <3>1. i \in 1 .. (n - 1) /\ i \in 1 .. Len(batch)
      BY <1>2, <2>2
    <3>2. Done(batch[i], db) /\ Known(batch[i], v)
      BY <3>1, MigrationsKnown DEF DoneUpTo, KnownBatch
    <3> QED
      BY <1>5, <3>2, GrowsKeepsDone
  <2> QED
    BY <2>1, <2>2
<1>8. Progress(o, db', recorded', format')
  <2>1. CASE n = Len(batch)
    <3>1. Applied(v, db')
      BY <1>7, <2>1 DEF Applied
    <3>2. o.pc = place /\ o.next = 1 /\ o.version = opener[p].version
      BY <1>6, <2>1 DEF MovedTo
    <3> QED
      BY <1>1, <3>1, <3>2 DEF Progress
  <2>2. CASE n # Len(batch)
    <3>1. o.pc = opener[p].pc /\ o.next = n + 1 /\ o.version = opener[p].version
      BY <1>6, <2>2 DEF MovedTo
    <3>2. DoneUpTo(batch, n + 1, db') /\ n + 1 <= Len(batch)
      BY <1>1, <1>2, <1>7, <2>2, NextPlace DEF DoneUpTo
    <3>3. v = 1 => batch = MIGRATION_1
      BY SomeStatements
    <3> QED
      BY <1>1, <3>1, <3>2, <3>3 DEF Progress
  <2> QED
    BY <2>1, <2>2
<1> HIDE DEF o
<1> QED
  BY <1>4, <1>5, <1>6, <1>8, StepKeeps DEF IInv, TypeOK, MovedTo

LEMMA CreateTablesKeeps ==
    ASSUME IInv, NEW p \in Openers, CreateTables(p)
    PROVE  IInv'
<1>1. opener[p] \in OpenerState /\ Progress(opener[p], db, recorded, format)
  BY DEF IInv, TypeOK
<1>2. opener[p].pc = "tables" /\ opener[p].next \in 1 .. 11
  BY <1>1 DEF CreateTables, OpenerState
<1>3. /\ 1 \in Versions /\ Migrations[1] = MIGRATION_1 /\ opener[p].next <= Len(Migrations[1])
      /\ MIGRATION_1[opener[p].next].op = "create"
  BY <1>2, SomeStatements DEF Versions
<1>4. /\ DoneUpTo(MIGRATION_1, opener[p].next, db) /\ RunStatement(p, MIGRATION_1, "format")
      /\ UNCHANGED <<recorded, format, kills>>
  BY <1>1, <1>2 DEF CreateTables, Progress
<1>5. Succeeds(MIGRATION_1[opener[p].next], db)
  BY <1>3 DEF Succeeds
<1> QED
  BY <1>2, <1>3, <1>4, <1>5, RunKeeps

LEMMA FailKeeps ==
    ASSUME IInv, NEW p \in Openers, Fail(p), UNCHANGED <<db, recorded, format, kills>>
    PROVE  IInv'
<1> DEFINE o == [opener[p] EXCEPT !.pc = "failed", !.version = 1, !.next = 1]
<1>1. opener' = [opener EXCEPT ![p] = o]
  BY DEF Fail
<1>2. o \in OpenerState /\ o.pc = "failed" /\ o.next = 1
  <2>1. opener[p] \in OpenerState /\ "failed" \in Places /\ 1 \in Versions /\ 1 \in 1 .. 11
    BY DEF IInv, TypeOK, Places, Versions
  <2>2. MovedTo(o, opener[p], "failed", 1, 1)
    BY <2>1, Moves
  <2> QED
    BY <2>2 DEF MovedTo
<1>3. Grows /\ kills' \in 0 .. MaxKills
  BY DEF Grows, IInv, TypeOK
<1>4. Progress(o, db', recorded', format')
  BY <1>2 DEF Progress
<1> HIDE DEF o
<1> QED
  BY <1>1, <1>2, <1>3, <1>4, StepKeeps

LEMMA ApplyStatementKeeps ==
    ASSUME IInv, NEW p \in Openers, ApplyStatement(p)
    PROVE  IInv'
<1>1. /\ opener[p] \in OpenerState /\ opener[p].version \in Versions
      /\ opener[p].pc = "apply" /\ Progress(opener[p], db, recorded, format)
      /\ UNCHANGED <<recorded, format, kills>>
  BY DEF IInv, TypeOK, OpenerState, ApplyStatement
<1>2. CASE Succeeds(Migrations[opener[p].version][opener[p].next], db)
  BY <1>1, <1>2, RunKeeps DEF ApplyStatement, Progress
<1>3. CASE ~Succeeds(Migrations[opener[p].version][opener[p].next], db)
  BY <1>1, <1>3, FailKeeps DEF ApplyStatement
<1> QED
  BY <1>2, <1>3

LEMMA GotoKeeps ==
    ASSUME IInv, Grows, NEW p \in Openers, NEW place \in Places, Goto(p, place),
           \A v \in recorded' \ recorded : Applied(v, db'), UNCHANGED kills,
           \A q \in OpenerState :
               MovedTo(q, opener[p], place, opener[p].version, opener[p].next)
                   => Progress(q, db', recorded', format')
    PROVE  IInv'
<1> DEFINE o == [opener[p] EXCEPT !.pc = place]
<1>1. opener[p] \in OpenerState /\ opener[p].version \in Versions /\ opener[p].next \in 1 .. 11
  BY DEF IInv, TypeOK, OpenerState
<1>2. MovedTo(o, opener[p], place, opener[p].version, opener[p].next)
  BY <1>1, Moves
<1>3. o \in OpenerState /\ Progress(o, db', recorded', format')
  BY <1>2 DEF MovedTo
<1>4. opener' = [opener EXCEPT ![p] = o]
  BY DEF Goto
<1>5. kills' \in 0 .. MaxKills
  BY DEF IInv, TypeOK
<1> HIDE DEF o
<1> QED
  BY <1>3, <1>4, <1>5, StepKeeps

LEMMA ClosedState == Closed \in OpenerState /\ Closed.pc = "closed" /\ Closed.next = 1
BY DEF Closed, OpenerState, Versions

LEMMA NextVersionKeeps ==
    ASSUME IInv, Grows, NEW p \in Openers, NEW v \in Versions, NextVersion(p, v),
           opener[p].next = 1, format' = "supported", 1 .. v \subseteq recorded',
           \A w \in recorded' \ recorded : Applied(w, db'), UNCHANGED kills
    PROVE  IInv'
<1>1. opener[p] \in OpenerState /\ kills' \in 0 .. MaxKills /\ recorded' \subseteq Versions
  BY DEF IInv, TypeOK, Grows
<1>2. CASE v = 15
  <2> DEFINE o == [Closed EXCEPT !.pc = "open"]
  <2>1. "open" \in Places /\ 1 \in Versions /\ 1 \in 1 .. 11
    BY DEF Places, Versions
  <2>2. MovedTo(o, Closed, "open", Closed.version, Closed.next)
    BY <2>1, ClosedState, Moves
  <2>3. recorded' = Versions
    BY <1>1, <1>2 DEF Versions
  <2>4. o \in OpenerState /\ Progress(o, db', recorded', format')
    BY <2>2, <2>3, ClosedState DEF MovedTo, Progress
  <2>5. opener' = [opener EXCEPT ![p] = o]
    BY <1>2 DEF NextVersion
  <2> HIDE DEF o
  <2> QED
    BY <1>1, <2>4, <2>5, StepKeeps
<1>3. CASE v # 15
  <2> DEFINE o == [opener[p] EXCEPT !.pc = "check", !.version = v + 1]
  <2>1. "check" \in Places /\ v + 1 \in Versions /\ 1 \in 1 .. 11 /\ (v + 1) - 1 = v
    BY <1>3 DEF Places, Migrating, Versions
  <2>2. MovedTo(o, opener[p], "check", v + 1, 1)
    BY <1>1, <2>1, Moves
  <2>3. o \in OpenerState /\ Progress(o, db', recorded', format')
    BY <2>1, <2>2 DEF MovedTo, Progress
  <2>4. opener' = [opener EXCEPT ![p] = o]
    BY <1>3 DEF NextVersion
  <2> HIDE DEF o
  <2> QED
    BY <1>1, <2>3, <2>4, StepKeeps
<1> QED
  BY <1>2, <1>3

LEMMA ReadFormatKeeps ==
    ASSUME IInv, NEW p \in Openers, ReadFormat(p)
    PROVE  IInv'
<1>1. /\ Grows /\ UNCHANGED <<db, recorded, format, kills>>
      /\ opener[p].pc = "format" /\ Progress(opener[p], db, recorded, format)
      /\ format \in {"none", "supported", "foreign"}
  BY DEF ReadFormat, Grows, IInv, TypeOK
<1>2. CASE format = "foreign"
  BY <1>1, <1>2, FailKeeps DEF ReadFormat
<1>3. CASE format = "none"
  <2>1. "stamp" \in Places /\ Goto(p, "stamp")
    BY <1>1, <1>3 DEF ReadFormat, Places, Migrating
  <2>2. ASSUME NEW q \in OpenerState,
               MovedTo(q, opener[p], "stamp", opener[p].version, opener[p].next)
        PROVE  Progress(q, db', recorded', format')
    BY <1>1, <2>2 DEF MovedTo, Progress
  <2> QED
    BY <1>1, <2>1, <2>2, GotoKeeps
<1>4. CASE format = "supported"
  <2>1. "first" \in Places /\ Goto(p, "first")
    BY <1>1, <1>4 DEF ReadFormat, Places, Migrating
  <2>2. ASSUME NEW q \in OpenerState,
               MovedTo(q, opener[p], "first", opener[p].version, opener[p].next)
        PROVE  Progress(q, db', recorded', format')
    BY <1>1, <1>4, <2>2 DEF MovedTo, Progress
  <2> QED
    BY <1>1, <2>1, <2>2, GotoKeeps
<1> QED
  BY <1>1, <1>2, <1>3, <1>4

LEMMA WriteFormatKeeps ==
    ASSUME IInv, NEW p \in Openers, WriteFormat(p)
    PROVE  IInv'
<1>1. /\ UNCHANGED <<db, recorded, kills>>
      /\ opener[p].pc = "stamp" /\ Progress(opener[p], db, recorded, format)
  BY DEF WriteFormat, IInv
<1>2. CASE format = "none"
  <2>1. "first" \in Places /\ Goto(p, "first") /\ format' = "supported"
    BY <1>2 DEF WriteFormat, Places, Migrating
  <2>2. Grows
    BY <1>1, <1>2, <2>1 DEF Grows, IInv, TypeOK
  <2>3. ASSUME NEW q \in OpenerState,
               MovedTo(q, opener[p], "first", opener[p].version, opener[p].next)
        PROVE  Progress(q, db', recorded', format')
    BY <1>1, <2>1, <2>3 DEF MovedTo, Progress
  <2> QED
    BY <1>1, <2>1, <2>2, <2>3, GotoKeeps
<1>3. CASE format # "none"
  BY <1>1, <1>3, FailKeeps DEF WriteFormat
<1> QED
  BY <1>2, <1>3

LEMMA RecordFirstKeeps ==
    ASSUME IInv, NEW p \in Openers, RecordFirst(p)
    PROVE  IInv'
<1>1. /\ UNCHANGED <<db, format, kills>> /\ recorded' = recorded \cup {1}
      /\ opener[p].pc = "first" /\ NextVersion(p, 1)
      /\ Progress(opener[p], db, recorded, format) /\ recorded \subseteq Versions
  BY DEF RecordFirst, IInv, TypeOK
<1>2. 1 \in Versions /\ 1 .. 1 \subseteq recorded'
  BY <1>1 DEF Versions
<1>3. Grows
  BY <1>1, <1>2 DEF Grows
<1>4. opener[p].next = 1 /\ format' = "supported" /\ Applied(1, db')
  BY <1>1 DEF Progress
<1> QED
  BY <1>1, <1>2, <1>3, <1>4, NextVersionKeeps

LEMMA CheckVersionKeeps ==
    ASSUME IInv, NEW p \in Openers, CheckVersion(p)
    PROVE  IInv'
<1>1. /\ UNCHANGED <<db, recorded, format, kills>>
      /\ opener[p].pc = "check" /\ Progress(opener[p], db, recorded, format)
      /\ opener[p] \in OpenerState /\ opener[p].version \in Versions /\ Grows
  BY DEF CheckVersion, IInv, TypeOK, OpenerState, Grows
<1>2. CASE opener[p].version \in recorded
  <2>1. 1 .. opener[p].version \subseteq recorded
    BY <1>1, <1>2 DEF Progress, Versions
  <2> QED
    BY <1>1, <1>2, <2>1, NextVersionKeeps DEF CheckVersion, Progress
<1>3. CASE opener[p].version \notin recorded
  <2>1. "apply" \in Places /\ Goto(p, "apply")
    BY <1>3 DEF CheckVersion, Places, Migrating
  <2>2. Len(Migrations[opener[p].version]) \in 1 .. 11
    BY <1>1, MigrationsKnown DEF KnownBatch
  <2>3. ASSUME NEW q \in OpenerState,
               MovedTo(q, opener[p], "apply", opener[p].version, opener[p].next)
        PROVE  Progress(q, db', recorded', format')
    <3>1. q.pc = "apply" /\ q.version = opener[p].version /\ q.next = 1
      BY <1>1, <2>3 DEF MovedTo, Progress
    <3>2. DoneUpTo(Migrations[q.version], q.next, db')
      BY <3>1 DEF DoneUpTo
    <3>3. q.next <= Len(Migrations[q.version])
      <4>1. \A n \in 1 .. 11 : 1 <= n
        OBVIOUS
      <4>2. 1 <= Len(Migrations[opener[p].version])
        BY <2>2, <4>1
      <4> QED
        BY <3>1, <4>2
    <3>4. 1 .. (q.version - 1) \subseteq recorded' /\ format' = "supported"
      BY <1>1, <3>1 DEF Progress
    <3> QED
      BY <3>1, <3>2, <3>3, <3>4 DEF Progress
  <2> QED
    BY <1>1, <2>1, <2>3, GotoKeeps
<1> QED
  BY <1>2, <1>3

LEMMA RecordVersionKeeps ==
    ASSUME IInv, NEW p \in Openers, RecordVersion(p)
    PROVE  IInv'
<1>1. /\ UNCHANGED <<db, format, kills>>
      /\ opener[p].pc = "record" /\ Progress(opener[p], db, recorded, format)
      /\ opener[p].version \in Versions /\ recorded \subseteq Versions
  BY DEF RecordVersion, IInv, TypeOK, OpenerState
<1>2. CASE opener[p].version \in recorded
  BY <1>1, <1>2, FailKeeps DEF RecordVersion
<1>3. CASE opener[p].version \notin recorded
  <2>1. recorded' = recorded \cup {opener[p].version} /\ NextVersion(p, opener[p].version)
    BY <1>3 DEF RecordVersion
  <2>2. 1 .. opener[p].version \subseteq recorded'
    <3>1. 1 .. (opener[p].version - 1) \subseteq recorded /\ opener[p].version \in Nat
      BY <1>1 DEF Progress, Versions
    <3> QED
      BY <2>1, <3>1
  <2>4. Grows
    BY <1>1, <2>1 DEF Grows
  <2>3. opener[p].next = 1 /\ format' = "supported" /\ Applied(opener[p].version, db')
    BY <1>1 DEF Progress
  <2> QED
    BY <1>1, <2>1, <2>2, <2>3, <2>4, NextVersionKeeps
<1> QED
  BY <1>2, <1>3

LEMMA EndKeeps ==
    ASSUME IInv, NEW p \in Openers, Close(p) \/ Kill(p)
    PROVE  IInv'
<1>1. UNCHANGED <<db, recorded, format>> /\ opener' = [opener EXCEPT ![p] = Closed]
  BY DEF Close, Kill
<1>2. Grows
  BY <1>1 DEF Grows, IInv, TypeOK
<1>3. kills' \in 0 .. MaxKills
  BY MigrationAssumption DEF Close, Kill, IInv, TypeOK
<1>4. Progress(Closed, db', recorded', format')
  BY ClosedState DEF Progress
<1> QED
  BY <1>1, <1>2, <1>3, <1>4, ClosedState, StepKeeps

LEMMA NextKeeps ==
    ASSUME IInv, [Next]_vars
    PROVE  IInv'
<1>1. ASSUME NEW p \in Openers, Step(p) PROVE IInv'
  BY <1>1, OpenKeeps, CreateTablesKeeps, ReadFormatKeeps, WriteFormatKeeps, RecordFirstKeeps,
     CheckVersionKeeps, ApplyStatementKeeps, RecordVersionKeeps, EndKeeps DEF Step
<1>2. CASE UNCHANGED vars
  BY <1>2 DEF vars, IInv, TypeOK, RecordedMeansApplied
<1> QED
  BY <1>1, <1>2 DEF Next

-----------------------------------------------------------------------------
(* Where the processes start, and what an open index is.                    *)

LEMMA SchemaMembers ==
    ASSUME NEW k \in 0 .. 15, NEW v \in 1 .. k, NEW s \in StatementsOf({v}),
           s.op \in {"create", "add"}
    PROVE  s.on \in SchemaAt(k)
<1>1. 1 .. k \in SUBSET Versions
  BY DEF Versions
<1>2. s \in StatementsOf(1 .. k)
  BY <1>1, StatementsOfSome
<1> QED
  BY <1>2 DEF SchemaAt

LEMMA SchemaIsColumned ==
    ASSUME NEW k \in 0 .. 15
    PROVE  /\ SchemaAt(k) \subseteq Objects
           /\ Dropped \in SchemaAt(k) => k = 1
           /\ k >= 1 => "source_snapshots" \in SchemaAt(k)
<1>1. 1 .. k \in SUBSET Versions
  BY DEF Versions
<1>2. \A s \in StatementsOf(1 .. k) : \E v \in 1 .. k : s \in StatementsOf({v}) /\ Known(s, v)
  <2> SUFFICES ASSUME NEW s \in StatementsOf(1 .. k)
               PROVE  \E v \in 1 .. k : s \in StatementsOf({v}) /\ Known(s, v)
    OBVIOUS
  <2>1. PICK v \in 1 .. k : s \in StatementsOf({v})
    BY <1>1, StatementsOfSome
  <2> QED
    BY <1>1, <2>1, StatementsKnown
<1>3. \A s \in StatementsOf(1 .. k) : s \in StatementsOf(Versions)
  BY <1>1 DEF StatementsOf
<1>4. Dropped \in Objects
  <2>1. 2 \in Versions
    BY DEF Versions
  <2>2. Drop(Dropped) \in StatementsOf(Versions)
    BY <2>1, SomeStatements, StatementsOfSome
  <2> QED
    BY <2>2 DEF Objects, Drop
<1>5. SchemaAt(k) \subseteq Objects
  BY <1>3, <1>4 DEF SchemaAt, Objects, ColumnsOf, Dropped
<1>6. ASSUME k # 1 PROVE Dropped \notin SchemaAt(k)
  BY <1>2, <1>6 DEF SchemaAt, Known
<1>7. ASSUME k >= 1 PROVE "source_snapshots" \in SchemaAt(k)
  <2>1. 1 \in 1 .. k
    BY <1>7
  <2>2. Create("source_snapshots").on = "source_snapshots" /\ Create("source_snapshots").op = "create"
    BY DEF Create
  <2> QED
    BY <2>1, <2>2, SomeStatements, SchemaMembers
<1> QED
  BY <1>5, <1>6, <1>7

LEMMA SchemaIsApplied ==
    ASSUME NEW k \in 0 .. 15, NEW v \in 1 .. k
    PROVE  Applied(v, SchemaAt(k))
<1>1. v \in Versions
  BY DEF Versions
<1> SUFFICES ASSUME NEW s \in StatementsOf({v})
             PROVE  Done(s, SchemaAt(k))
  BY <1>1, InBatch DEF Applied
<1>2. Known(s, v)
  BY <1>1, StatementsKnown
<1>3. CASE s.op \in {"create", "add"}
  BY <1>2, <1>3, SchemaMembers DEF Done
<1>4. CASE s.op = "drop"
  <2>1. s.on = Dropped /\ k >= 1 /\ k # 1
    BY <1>2, <1>4 DEF Known
  <2>2. Dropped \notin SchemaAt(k) /\ "source_snapshots" \in SchemaAt(k)
    BY <2>1, SchemaIsColumned
  <2> QED
    BY <1>4, <2>1, <2>2 DEF Done, TableOf, Dropped
<1>5. CASE s.op = "copy"
  <2>1. s.on = "source_provenance" /\ v = 15
    BY <1>2, <1>5 DEF Known
  <2>2. Create("source_provenance") \in StatementsOf({v}) /\ Create("source_provenance").op = "create"
        /\ Create("source_provenance").on = "source_provenance"
    BY <2>1, SomeStatements DEF Create
  <2>3. "source_provenance" \in SchemaAt(k)
    BY <2>2, SchemaMembers
  <2> QED
    BY <1>5, <2>1, <2>3 DEF Done
<1> QED
  BY <1>2, <1>3, <1>4, <1>5 DEF Known

LEMMA InitKeeps ==
    ASSUME Init
    PROVE  IInv
<1>1. PICK k \in InitialVersions :
        /\ db = SchemaAt(k) /\ recorded = 1 .. k
        /\ format \in IF k = 0 THEN {"none"} ELSE {"supported", "foreign"}
  BY DEF Init
<1>2. k \in 0 .. 15
  BY MigrationAssumption
<1>3. opener = [p \in Openers |-> Closed] /\ kills = 0
  BY DEF Init
<1>4. recorded \subseteq Versions
  BY <1>1, <1>2 DEF Versions
<1>5. TypeOK
  <2>1. db \subseteq Objects
    BY <1>1, <1>2, SchemaIsColumned
  <2>2. opener \in [Openers -> OpenerState] /\ kills \in 0 .. MaxKills
    BY <1>3, ClosedState, MigrationAssumption
  <2> QED
    BY <1>1, <1>4, <2>1, <2>2 DEF TypeOK
<1>6. RecordedMeansApplied
  BY <1>1, <1>2, SchemaIsApplied DEF RecordedMeansApplied
<1>7. Columned(db)
  BY <1>1, <1>2, SchemaIsColumned DEF Columned
<1>8. \A p \in Openers : Progress(opener[p], db, recorded, format)
  BY <1>3, ClosedState DEF Progress
<1> QED
  BY <1>5, <1>6, <1>7, <1>8 DEF IInv

LEMMA OpenIsMigrated ==
    ASSUME IInv
    PROVE  OpenedIsMigrated
<1> SUFFICES ASSUME NEW p \in Openers, opener[p].pc = "open"
             PROVE  format = "supported" /\ recorded = Versions /\ db = SchemaAt(15)
  BY DEF OpenedIsMigrated
<1>1. format = "supported" /\ recorded = Versions
  BY DEF IInv, Progress
<1>2. \A v \in Versions : \A s \in StatementsOf({v}) : Done(s, db) /\ Known(s, v)
  <2> SUFFICES ASSUME NEW v \in Versions, NEW s \in StatementsOf({v})
               PROVE  Done(s, db) /\ Known(s, v)
    OBVIOUS
  <2>1. Applied(v, db)
    BY <1>1 DEF IInv, RecordedMeansApplied
  <2>2. PICK i \in 1 .. Len(Migrations[v]) : s = Migrations[v][i]
    BY DEF StatementsOf
  <2> QED
    BY <2>1, <2>2, StatementsKnown DEF Applied
<1>3. 1 .. 15 = Versions /\ 15 \in 0 .. 15 /\ 2 \in Versions /\ 15 \in Versions
  BY DEF Versions
<1>4. Dropped \notin db
  <2>1. Done(Drop(Dropped), db)
    BY <1>2, <1>3, SomeStatements
  <2> QED
    BY <2>1 DEF Done, Drop
<1>5. ASSUME NEW x \in db PROVE x \in SchemaAt(15)
  <2>1. PICK s \in StatementsOf(Versions) : x = s.on
    BY DEF IInv, TypeOK, Objects
  <2>2. PICK v \in Versions : s \in StatementsOf({v})
    BY StatementsOfSome
  <2>3. Known(s, v) /\ v \in 1 .. 15
    BY <1>3, <2>2, StatementsKnown
  <2>4. CASE s.op \in {"create", "add"}
    BY <1>3, <2>1, <2>2, <2>3, <2>4, SchemaMembers
  <2>5. CASE s.op = "drop"
    BY <1>4, <1>5, <2>1, <2>3, <2>5 DEF Known
  <2>6. CASE s.op = "copy"
    <3>1. x = "source_provenance"
      BY <2>1, <2>3, <2>6 DEF Known
    <3>2. Create("source_provenance").op = "create" /\ Create("source_provenance").on = x
          /\ Create("source_provenance") \in StatementsOf({15}) /\ 15 \in 1 .. 15
      BY <3>1, SomeStatements DEF Create
    <3> QED
      BY <1>3, <3>2, SchemaMembers
  <2> QED
    BY <2>3, <2>4, <2>5, <2>6 DEF Known
<1>6. ASSUME NEW x \in SchemaAt(15) PROVE x \in db
  <2>1. ColumnsOf("source_snapshots") = ColumnsOf("source_snapshots") /\ 15 # 1
    OBVIOUS
  <2>2. PICK s \in StatementsOf(Versions) : s.op \in {"create", "add"} /\ x = s.on
    BY <1>3, <2>1 DEF SchemaAt
  <2>3. PICK v \in Versions : s \in StatementsOf({v})
    BY StatementsOfSome
  <2> QED
    BY <1>2, <2>2, <2>3 DEF Done
<1> QED
  BY <1>1, <1>5, <1>6

-----------------------------------------------------------------------------
(* Why an open fails.  A process that no other one migrates beside, and     *)
(* that found no migration in part, meets no statement that was run before. *)

Additions ==
    {<<"source_snapshots.provenance_blob", 2, 1>>,
     <<"source_snapshots.public_api_fingerprint", 8, 1>>,
     <<"workspace_checkpoints.artifact_catalog_fingerprint", 13, 1>>,
     <<"workspace_checkpoints.publication_state", 14, 1>>}

Columns == {c[1] : c \in Additions} \cup {Dropped}

\* The place of the statements that fail when they are run twice, and of the
\* table of arguments.
Placed(s, v, i) ==
    /\ s.op \in {"create", "add", "drop", "copy"}
    /\ s.op = "create" => s.on \notin Columns
    /\ s.op = "add" => <<s.on, v, i>> \in Additions
    /\ s.op = "drop" => s.on = Dropped /\ v = 2 /\ i = 2
    /\ s.op = "copy" => s.on = "source_provenance" /\ v = 15 /\ i = 2
    /\ s.on = "application_arguments" => v = 6

PlacedBatch(batch, v) == \A i \in 1 .. Len(batch) : Placed(batch[i], v, i)

LEMMA MigrationsPlaced ==
    ASSUME NEW v \in Versions
    PROVE  PlacedBatch(Migrations[v], v)
<1> USE DEF PlacedBatch, Placed, Additions, Columns, Dropped, Create, Add, Drop, Copy
<1>1. CASE v = 1
  <2>1. PlacedBatch(MIGRATION_1, 1)
    BY DEF MIGRATION_1
  <2>2. Migrations[v] = MIGRATION_1
    BY <1>1 DEF Migrations
  <2> QED
    BY <1>1, <2>1, <2>2
<1>2. CASE v = 2
  <2>1. PlacedBatch(MIGRATION_2, 2)
    BY DEF MIGRATION_2
  <2>2. Migrations[v] = MIGRATION_2
    BY <1>2 DEF Migrations
  <2> QED
    BY <1>2, <2>1, <2>2
<1>3. CASE v = 3
  <2>1. PlacedBatch(MIGRATION_3, 3)
    BY DEF MIGRATION_3
  <2>2. Migrations[v] = MIGRATION_3
    BY <1>3 DEF Migrations
  <2> QED
    BY <1>3, <2>1, <2>2
<1>4. CASE v = 4
  <2>1. PlacedBatch(MIGRATION_4, 4)
    BY DEF MIGRATION_4
  <2>2. Migrations[v] = MIGRATION_4
    BY <1>4 DEF Migrations
  <2> QED
    BY <1>4, <2>1, <2>2
<1>5. CASE v = 5
  <2>1. PlacedBatch(MIGRATION_5, 5)
    BY DEF MIGRATION_5
  <2>2. Migrations[v] = MIGRATION_5
    BY <1>5 DEF Migrations
  <2> QED
    BY <1>5, <2>1, <2>2
<1>6. CASE v = 6
  <2>1. PlacedBatch(MIGRATION_6, 6)
    BY DEF MIGRATION_6
  <2>2. Migrations[v] = MIGRATION_6
    BY <1>6 DEF Migrations
  <2> QED
    BY <1>6, <2>1, <2>2
<1>7. CASE v = 7
  <2>1. PlacedBatch(MIGRATION_7, 7)
    BY DEF MIGRATION_7
  <2>2. Migrations[v] = MIGRATION_7
    BY <1>7 DEF Migrations
  <2> QED
    BY <1>7, <2>1, <2>2
<1>8. CASE v = 8
  <2>1. PlacedBatch(MIGRATION_8, 8)
    BY DEF MIGRATION_8
  <2>2. Migrations[v] = MIGRATION_8
    BY <1>8 DEF Migrations
  <2> QED
    BY <1>8, <2>1, <2>2
<1>9. CASE v = 9
  <2>1. PlacedBatch(MIGRATION_9, 9)
    BY DEF MIGRATION_9
  <2>2. Migrations[v] = MIGRATION_9
    BY <1>9 DEF Migrations
  <2> QED
    BY <1>9, <2>1, <2>2
<1>10. CASE v = 10
  <2>1. PlacedBatch(MIGRATION_10, 10)
    BY DEF MIGRATION_10
  <2>2. Migrations[v] = MIGRATION_10
    BY <1>10 DEF Migrations
  <2> QED
    BY <1>10, <2>1, <2>2
<1>11. CASE v = 11
  <2>1. PlacedBatch(MIGRATION_11, 11)
    BY DEF MIGRATION_11
  <2>2. Migrations[v] = MIGRATION_11
    BY <1>11 DEF Migrations
  <2> QED
    BY <1>11, <2>1, <2>2
<1>12. CASE v = 12
  <2>1. PlacedBatch(MIGRATION_12, 12)
    BY DEF MIGRATION_12
  <2>2. Migrations[v] = MIGRATION_12
    BY <1>12 DEF Migrations
  <2> QED
    BY <1>12, <2>1, <2>2
<1>13. CASE v = 13
  <2>1. PlacedBatch(MIGRATION_13, 13)
    BY DEF MIGRATION_13
  <2>2. Migrations[v] = MIGRATION_13
    BY <1>13 DEF Migrations
  <2> QED
    BY <1>13, <2>1, <2>2
<1>14. CASE v = 14
  <2>1. PlacedBatch(MIGRATION_14, 14)
    BY DEF MIGRATION_14
  <2>2. Migrations[v] = MIGRATION_14
    BY <1>14 DEF Migrations
  <2> QED
    BY <1>14, <2>1, <2>2
<1>15. CASE v = 15
  <2>1. PlacedBatch(MIGRATION_15, 15)
    BY DEF MIGRATION_15
  <2>2. Migrations[v] = MIGRATION_15
    BY <1>15 DEF Migrations
  <2> QED
    BY <1>15, <2>1, <2>2
<1> HIDE DEF PlacedBatch, Placed, Additions, Columns, Dropped, Create, Add, Drop, Copy
<1>16. v \in {1, 2, 3, 4, 5, 6, 7, 8, 9, 10, 11, 12, 13, 14, 15}
  BY DEF Versions
<1> QED
  BY <1>1, <1>2, <1>3, <1>4, <1>5, <1>6, <1>7, <1>8,
     <1>9, <1>10, <1>11, <1>12, <1>13, <1>14, <1>15, <1>16

Alters(s) == s.op \in {"add", "drop"}

\* A statement does not do what another one, elsewhere, is there for.
LEMMA DoesNoOther ==
    ASSUME NEW data, Columned(data), NEW s, NEW v, NEW i, Placed(s, v, i),
           NEW t, NEW w, NEW j, Placed(t, w, j), Alters(t), v # w \/ i # j,
           Done(t, After(s, data))
    PROVE  Done(t, data)
<1>1. CASE t.op = "add"
  <2>1. t.on \in Columns /\ t.on # Dropped /\ <<t.on, w, j>> \in Additions
    BY <1>1 DEF Placed, Additions, Columns, Dropped
  <2>2. t.on \in After(s, data)
    BY <1>1 DEF Done
  <2>3. t.on \in data
    <3>1. CASE s.op = "create"
      BY <2>1, <2>2, <3>1 DEF Placed, After, ColumnsOf, Dropped
    <3>2. CASE s.op = "add"
      <4>1. <<s.on, v, i>> \in Additions
        BY <3>2 DEF Placed
      <4>2. s.on # t.on
        BY <2>1, <4>1 DEF Additions
      <4> QED
        BY <2>2, <3>2, <4>2 DEF After
    <3>3. CASE s.op \in {"drop", "copy"}
      BY <2>2, <3>3 DEF After
    <3> QED
      BY <3>1, <3>2, <3>3 DEF Placed
  <2> QED
    BY <1>1, <2>3 DEF Done
<1>2. CASE t.op = "drop"
  <2>1. t.on = Dropped /\ w = 2 /\ j = 2
    BY <1>2 DEF Placed
  <2>2. TableOf(t.on) = "source_snapshots" /\ "source_snapshots" \notin Columns
    BY <2>1 DEF TableOf, Dropped, Columns, Additions
  <2>3. "source_snapshots" \in After(s, data) /\ Dropped \notin After(s, data)
    BY <1>2, <2>1, <2>2 DEF Done
  <2>4. s.op # "drop"
    BY <2>1 DEF Placed
  <2>5. "source_snapshots" \in data /\ Dropped \notin data
    <3>1. CASE s.op = "create"
      BY <2>3, <3>1 DEF After, ColumnsOf, Columned, Dropped
    <3>2. CASE s.op = "add"
      <4>1. s.on # "source_snapshots"
        BY <3>2 DEF Placed, Additions
      <4> QED
        BY <2>3, <3>2, <4>1 DEF After
    <3>3. CASE s.op = "copy"
      BY <2>3, <3>3 DEF After
    <3> QED
      BY <2>4, <3>1, <3>2, <3>3 DEF Placed
  <2> QED
    BY <1>2, <2>1, <2>2, <2>5 DEF Done
<1> QED
  BY <1>1, <1>2 DEF Alters

\* What no other process disturbs.
Undisturbed(o, stamp) == o.alone /\ ~o.torn /\ stamp # "foreign"

\* Statement i of migration v is one the process has run itself.
Behind(o, v, i) == v = o.version /\ (o.pc = "record" \/ (o.pc = "apply" /\ i < o.next))

Unaltered(o, data, versions) ==
    \A v \in Versions \ versions : \A i \in 1 .. Len(Migrations[v]) :
        Alters(Migrations[v][i]) /\ ~Behind(o, v, i) => ~Done(Migrations[v][i], data)

Sole(o, data, versions, stamp) ==
    /\ o.pc # "failed"
    /\ o.pc = "stamp" => stamp = "none"
    /\ o.pc \in {"apply", "record"} => o.version \notin versions
    /\ o.pc \in Migrating => Unaltered(o, data, versions)

\* Where a process is alone, no other one migrates.
OneAlone ==
    \A p, q \in Openers :
        opener[p].alone /\ opener[p].pc \in Migrating /\ opener[q].pc \in Migrating => p = q

\* The invariant behind FailuresHaveCause.
CInv ==
    /\ IInv
    /\ OneAlone
    /\ \A p \in Openers : Undisturbed(opener[p], format) => Sole(opener[p], db, recorded, format)

\* The table a column is added to, and what is copied, were there before.
LEMMA NextSucceeds ==
    ASSUME IInv, NEW o \in OpenerState, o.pc = "apply", Progress(o, db, recorded, format),
           Sole(o, db, recorded, format)
    PROVE  Succeeds(Migrations[o.version][o.next], db)
<1> DEFINE v == o.version
           i == o.next
           s == Migrations[v][i]
<1>1. /\ v \in Versions /\ i \in 1 .. 11 /\ v \in Nat /\ i <= Len(Migrations[v])
      /\ 1 .. (v - 1) \subseteq recorded /\ DoneUpTo(Migrations[v], i, db)
      /\ v \notin recorded /\ Unaltered(o, db, recorded)
  BY DEF OpenerState, Progress, Sole, Versions, Migrating
<1>2. i \in 1 .. Len(Migrations[v])
  BY <1>1, MigrationsKnown DEF KnownBatch
<1>3. Placed(s, v, i) /\ Known(s, v) /\ ~Behind(o, v, i)
  BY <1>1, <1>2, MigrationsPlaced, MigrationsKnown DEF PlacedBatch, KnownBatch, Behind
<1>4. Alters(s) => ~Done(s, db)
  BY <1>1, <1>2, <1>3 DEF Unaltered
<1>5. \A w \in 1 .. (v - 1) : \A t \in StatementsOf({w}) : Done(t, db)
  <2> SUFFICES ASSUME NEW w \in 1 .. (v - 1), NEW t \in StatementsOf({w})
               PROVE  Done(t, db)
    OBVIOUS
  <2>1. w \in Versions /\ w \in recorded
    BY <1>1 DEF IInv, TypeOK
  <2>2. PICK j \in 1 .. Len(Migrations[w]) : t = Migrations[w][j]
    BY DEF StatementsOf
  <2> QED
    BY <2>1, <2>2 DEF IInv, RecordedMeansApplied, Applied
<1>6. v >= 2 => "source_snapshots" \in db
  <2>1. v >= 2 => 1 \in 1 .. (v - 1)
    BY <1>1
  <2>2. v >= 2 => Done(Create("source_snapshots"), db)
    BY <1>5, <2>1, SomeStatements
  <2> QED
    BY <2>2 DEF Done, Create
<1>7. v >= 13 => "workspace_checkpoints" \in db
  <2>1. 12 \in Versions /\ Migrations[12] = MIGRATION_12 /\ Len(MIGRATION_12) = 1
        /\ MIGRATION_12[1] = Create("workspace_checkpoints")
    BY DEF Versions, Migrations, MIGRATION_12
  <2>2. 1 \in 1 .. Len(Migrations[12])
    BY <2>1
  <2>3. Create("workspace_checkpoints") \in StatementsOf({12})
    BY <2>1, <2>2, InBatch
  <2>4. v >= 13 => 12 \in 1 .. (v - 1)
    BY <1>1
  <2>5. v >= 13 => Done(Create("workspace_checkpoints"), db)
    BY <1>5, <2>3, <2>4
  <2> QED
    BY <2>5 DEF Done, Create
<1>8. CASE s.op = "create"
  BY <1>8 DEF Succeeds
<1>9. CASE s.op = "add"
  <2>1. <<s.on, v, i>> \in Additions
    BY <1>3, <1>9 DEF Placed
  <2>2. TableOf(s.on) \in db
    BY <1>6, <1>7, <2>1 DEF Additions, TableOf
  <2>3. s.on \notin db
    BY <1>4, <1>9 DEF Alters, Done
  <2> QED
    BY <1>9, <2>2, <2>3 DEF Succeeds
<1>10. CASE s.op = "drop"
  <2>1. s.on = Dropped /\ v = 2
    BY <1>3, <1>10 DEF Placed
  <2>2. TableOf(s.on) \in db
    BY <1>6, <2>1 DEF TableOf, Dropped
  <2>3. s.on \in db
    BY <1>4, <1>10, <2>2 DEF Alters, Done
  <2> QED
    BY <1>10, <2>3 DEF Succeeds
<1>11. CASE s.op = "copy"
  <2>1. s.on = "source_provenance" /\ v = 15 /\ i = 2
    BY <1>3, <1>11 DEF Placed
  <2>2. Migrations[15] = MIGRATION_15 /\ MIGRATION_15[1] = Create("source_provenance")
    BY DEF Migrations, MIGRATION_15
  <2>3. Done(Create("source_provenance"), db)
    <3>1. 1 \in 1 .. (i - 1)
      BY <2>1
    <3> QED
      BY <1>1, <2>1, <2>2, <3>1 DEF DoneUpTo
  <2>4. Done(Add("source_snapshots.provenance_blob"), db)
    <3>1. 2 \in Versions /\ Migrations[2] = MIGRATION_2 /\ Len(MIGRATION_2) = 2
          /\ MIGRATION_2[1] = Add("source_snapshots.provenance_blob")
      BY DEF Versions, Migrations, MIGRATION_2
    <3>2. 1 \in 1 .. Len(Migrations[2]) /\ 2 \in 1 .. (v - 1)
      BY <2>1, <3>1
    <3>3. Add("source_snapshots.provenance_blob") \in StatementsOf({2})
      BY <3>1, <3>2, InBatch
    <3> QED
      BY <1>5, <3>2, <3>3
  <2> QED
    BY <1>11, <2>1, <2>3, <2>4 DEF Succeeds, Done, Create, Add
<1> QED
  BY <1>3, <1>8, <1>9, <1>10, <1>11 DEF Placed

\* A step of a process that was migrating, or that changes nothing but its place.
LEMMA StepKeepsSole ==
    ASSUME CInv, NEW p \in Openers, NEW o \in OpenerState,
           opener' = [opener EXCEPT ![p] = o],
           o.pc \in Migrating => opener[p].pc \in Migrating /\ o.alone = opener[p].alone,
           format' = "foreign" <=> format = "foreign",
           UNCHANGED <<db, recorded, format>> \/ opener[p].pc \in Migrating,
           Undisturbed(o, format') => Sole(o, db', recorded', format'),
           IInv'
    PROVE  CInv'
<1>1. opener \in [Openers -> OpenerState]
  BY DEF CInv, IInv, TypeOK
<1>2. opener'[p] = o /\ \A q \in Openers : q # p => opener'[q] = opener[q]
  BY <1>1
<1>3. OneAlone'
  BY <1>2 DEF CInv, OneAlone
<1>4. ASSUME NEW q \in Openers, Undisturbed(opener'[q], format')
      PROVE  Sole(opener'[q], db', recorded', format')
  <2>1. CASE q = p
    BY <1>2, <1>4, <2>1
  <2>2. CASE q # p
    <3>1. opener'[q] = opener[q] /\ Undisturbed(opener[q], format)
      BY <1>2, <1>4, <2>2 DEF Undisturbed
    <3>2. Sole(opener[q], db, recorded, format)
      BY <3>1 DEF CInv
    <3>3. CASE opener[q].pc \in Migrating
      <4>1. opener[p].pc \notin Migrating
        BY <2>2, <3>1, <3>3 DEF CInv, OneAlone, Undisturbed
      <4> QED
        BY <3>1, <3>2, <4>1
    <3>4. CASE opener[q].pc \notin Migrating
      BY <3>1, <3>2, <3>4 DEF Sole, Migrating
    <3> QED
      BY <3>3, <3>4
  <2> QED
    BY <2>1, <2>2
<1> QED
  BY <1>3, <1>4 DEF CInv

\* Where an undisturbed process was, and what it was told.
LEMMA WasSole ==
    ASSUME CInv, NEW p \in Openers, NEW o, o.alone = opener[p].alone, o.torn = opener[p].torn,
           format' = "foreign" <=> format = "foreign", Undisturbed(o, format')
    PROVE  Undisturbed(opener[p], format) /\ Sole(opener[p], db, recorded, format)
BY DEF CInv, Undisturbed

LEMMA OpenKeepsSole ==
    ASSUME CInv, NEW p \in Openers, Open(p), IInv'
    PROVE  CInv'
<1>1. /\ UNCHANGED <<db, recorded, format, kills>> /\ opener[p].pc = "closed"
      /\ opener \in [Openers -> OpenerState]
  BY DEF Open, CInv, IInv, TypeOK
<1>2. /\ opener'[p].pc = "tables" /\ opener'[p].torn = Torn
      /\ opener'[p].alone = (\A r \in Openers : opener[r].pc \notin Migrating)
  BY DEF Open
<1>3. ASSUME NEW q \in Openers, q # p
      PROVE  /\ opener'[q].pc = opener[q].pc /\ opener'[q].torn = opener[q].torn
             /\ opener'[q].version = opener[q].version /\ opener'[q].next = opener[q].next
             /\ opener'[q].alone = (opener[q].alone /\ opener[q].pc \notin Migrating)
  <2>1. opener[q] \in OpenerState
    BY <1>1
  <2>2. opener'[q] = [opener[q] EXCEPT !.alone = @ /\ opener[q].pc \notin Migrating]
    BY <1>3 DEF Open
  <2> QED
    BY <2>1, <2>2 DEF OpenerState
<1>4. OneAlone'
  <2> SUFFICES ASSUME NEW q \in Openers, NEW r \in Openers, opener'[q].alone,
                      opener'[q].pc \in Migrating, opener'[r].pc \in Migrating
               PROVE  q = r
    BY DEF OneAlone
  <2>1. q = p
    BY <1>3
  <2>2. \A t \in Openers : opener[t].pc \notin Migrating
    BY <1>2, <2>1
  <2> QED
    BY <1>3, <2>1, <2>2
<1>5. ASSUME NEW q \in Openers, Undisturbed(opener'[q], format')
      PROVE  Sole(opener'[q], db', recorded', format')
  <2>1. CASE q = p
    <3>1. ~Torn
      BY <1>2, <1>5, <2>1 DEF Undisturbed
    <3>2. \A v \in Versions \ recorded : \A i \in 1 .. Len(Migrations[v]) :
            Alters(Migrations[v][i]) => ~Done(Migrations[v][i], db)
      BY <3>1, InBatch DEF Torn, Alters
    <3>3. Unaltered(opener'[q], db', recorded')
      BY <1>1, <3>2 DEF Unaltered
    <3> QED
      BY <1>2, <2>1, <3>3 DEF Sole
  <2>2. CASE q # p
    <3>1. Undisturbed(opener[q], format) /\ opener[q].pc \notin Migrating
      BY <1>1, <1>3, <1>5, <2>2 DEF Undisturbed
    <3>2. Sole(opener[q], db, recorded, format)
      BY <3>1 DEF CInv
    <3> QED
      BY <1>3, <2>2, <3>1, <3>2 DEF Sole, Migrating
  <2> QED
    BY <2>1, <2>2
<1> QED
  BY <1>4, <1>5 DEF CInv

\* A statement that is run does none that comes later.
LEMMA RunKeepsSole ==
    ASSUME CInv, IInv', NEW p \in Openers, NEW v \in Versions, NEW place \in {"format", "record"},
           opener[p].next <= Len(Migrations[v]),
           RunStatement(p, Migrations[v], place),
           UNCHANGED <<recorded, format, kills>>,
           \/ opener[p].pc = "tables" /\ v = 1 /\ place = "format"
           \/ opener[p].pc = "apply" /\ v = opener[p].version /\ place = "record"
    PROVE  CInv'
<1> DEFINE n == opener[p].next
           batch == Migrations[v]
           o == IF n = Len(batch) THEN [opener[p] EXCEPT !.pc = place, !.next = 1]
                ELSE [opener[p] EXCEPT !.next = n + 1]
<1>1. /\ opener[p] \in OpenerState /\ n \in 1 .. 11 /\ n \in 1 .. Len(batch)
      /\ Columned(db) /\ Len(batch) \in 1 .. 11
  BY MigrationsKnown DEF CInv, IInv, TypeOK, OpenerState, KnownBatch
<1>2. db' = After(batch[n], db) /\ opener' = [opener EXCEPT ![p] = o]
  BY DEF RunStatement
<1>3. /\ o \in OpenerState /\ o.version = opener[p].version
      /\ o.alone = opener[p].alone /\ o.torn = opener[p].torn
      /\ n = Len(batch) => o.pc = place /\ o.next = 1
      /\ n # Len(batch) => o.pc = opener[p].pc /\ o.next = n + 1
  <2>1. place \in Places /\ opener[p].version \in Versions /\ 1 \in 1 .. 11
    BY <1>1 DEF Places, Migrating, OpenerState
  <2>2. CASE n = Len(batch)
    <3>1. MovedTo(o, opener[p], place, opener[p].version, 1)
      BY <1>1, <2>1, <2>2, Moves
    <3> QED
      BY <2>2, <3>1 DEF MovedTo
  <2>3. CASE n # Len(batch)
    <3>1. n + 1 \in 1 .. 11
      BY <1>1, <2>3, NextPlace
    <3>2. MovedTo(o, opener[p], opener[p].pc, opener[p].version, n + 1)
      BY <1>1, <2>1, <2>3, <3>1, Moves
    <3> QED
      BY <2>3, <3>2 DEF MovedTo
  <2> QED
    BY <2>2, <2>3
<1> HIDE DEF o
<1>4. opener[p].pc \in Migrating /\ o.pc \in Migrating
  BY <1>3 DEF Migrating
<1>5. ASSUME Undisturbed(o, format') PROVE Sole(o, db', recorded', format')
  <2>1. Sole(opener[p], db, recorded, format)
    BY <1>3, <1>5, WasSole
  <2>2. Unaltered(opener[p], db, recorded)
    BY <1>4, <2>1 DEF Sole
  <2>3. Unaltered(o, db', recorded')
    <3> SUFFICES ASSUME NEW w \in Versions \ recorded, NEW j \in 1 .. Len(Migrations[w]),
                        Alters(Migrations[w][j]), ~Behind(o, w, j), Done(Migrations[w][j], db')
                 PROVE  FALSE
      BY DEF Unaltered
    <3>1. Placed(Migrations[w][j], w, j) /\ Placed(batch[n], v, n)
      BY <1>1, MigrationsPlaced DEF PlacedBatch
    <3>2. CASE opener[p].pc = "tables"
      <4>1. Placed(batch[n], v, n) /\ batch[n].op = "create" /\ ~Alters(batch[n])
        BY <1>1, <3>1, <3>2, SomeStatements DEF Alters
      <4>2. v # w \/ n # j
        BY <3>2, <4>1
      <4>3. Done(Migrations[w][j], db)
        BY <1>1, <1>2, <3>1, <4>2, DoesNoOther
      <4>4. ~Behind(opener[p], w, j)
        BY <3>2 DEF Behind
      <4> QED
        BY <2>2, <4>3, <4>4 DEF Unaltered
    <3>3. CASE opener[p].pc = "apply"
      <4>1. ~(w = v /\ j <= n)
        <5> SUFFICES ASSUME w = v, j <= n PROVE FALSE
          OBVIOUS
        <5>1. w = o.version /\ v = opener[p].version /\ place = "record"
          BY <1>3, <3>3
        <5>2. CASE n = Len(batch)
          BY <1>3, <5>1, <5>2 DEF Behind
        <5>3. CASE n # Len(batch)
          <6>1. j < o.next /\ o.pc = "apply"
            BY <1>1, <1>3, <3>3, <5>3
          <6> QED
            BY <5>1, <6>1 DEF Behind
        <5> QED
          BY <5>2, <5>3
      <4>2. v # w \/ n # j
        BY <1>1, <4>1
      <4>3. Done(Migrations[w][j], db)
        BY <1>1, <1>2, <3>1, <4>2, DoesNoOther
      <4>4. ~Behind(opener[p], w, j)
        BY <1>1, <3>3, <4>1 DEF Behind
      <4> QED
        BY <2>2, <4>3, <4>4 DEF Unaltered
    <3> QED
      BY <3>2, <3>3
  <2>4. o.pc \notin {"failed", "stamp"}
    BY <1>3
  <2>5. o.pc \in {"apply", "record"} => o.version \notin recorded
    BY <1>3, <2>1 DEF Sole
  <2> QED
    BY <2>3, <2>4, <2>5 DEF Sole
<1> QED
  BY <1>2, <1>3, <1>4, <1>5, StepKeepsSole

\* An open fails only where the process was disturbed.
LEMMA FailKeepsSole ==
    ASSUME CInv, IInv', NEW p \in Openers, Fail(p), UNCHANGED <<db, recorded, format>>,
           ~Undisturbed(opener[p], format)
    PROVE  CInv'
<1> DEFINE o == [opener[p] EXCEPT !.pc = "failed", !.version = 1, !.next = 1]
<1>1. opener' = [opener EXCEPT ![p] = o]
  BY DEF Fail
<1>2. o \in OpenerState /\ o.pc = "failed" /\ o.alone = opener[p].alone /\ o.torn = opener[p].torn
  <2>1. opener[p] \in OpenerState /\ "failed" \in Places /\ 1 \in Versions /\ 1 \in 1 .. 11
    BY DEF CInv, IInv, TypeOK, Places, Versions
  <2>2. MovedTo(o, opener[p], "failed", 1, 1)
    BY <2>1, Moves
  <2> QED
    BY <2>2 DEF MovedTo
<1>3. ~Undisturbed(o, format') /\ o.pc \notin Migrating
  BY <1>2 DEF Undisturbed, Migrating
<1> HIDE DEF o
<1> QED
  BY <1>1, <1>2, <1>3, StepKeepsSole

LEMMA GotoKeepsSole ==
    ASSUME CInv, IInv', NEW p \in Openers, NEW place \in Places, Goto(p, place),
           opener[p].pc \in Migrating, format' = "foreign" <=> format = "foreign",
           \A q \in OpenerState :
               /\ MovedTo(q, opener[p], place, opener[p].version, opener[p].next)
               /\ Sole(opener[p], db, recorded, format)
               => Sole(q, db', recorded', format')
    PROVE  CInv'
<1> DEFINE o == [opener[p] EXCEPT !.pc = place]
<1>1. opener[p] \in OpenerState /\ opener[p].version \in Versions /\ opener[p].next \in 1 .. 11
  BY DEF CInv, IInv, TypeOK, OpenerState
<1>2. MovedTo(o, opener[p], place, opener[p].version, opener[p].next)
  BY <1>1, Moves
<1>3. o \in OpenerState /\ o.alone = opener[p].alone /\ o.torn = opener[p].torn
  BY <1>2 DEF MovedTo
<1>4. opener' = [opener EXCEPT ![p] = o]
  BY DEF Goto
<1> HIDE DEF o
<1>5. Undisturbed(o, format') => Sole(o, db', recorded', format')
  BY <1>2, <1>3, WasSole
<1> QED
  BY <1>3, <1>4, <1>5, StepKeepsSole

\* The version that is left is recorded.
LEMMA NextVersionKeepsSole ==
    ASSUME CInv, IInv', NEW p \in Openers, NEW v \in Versions, NextVersion(p, v),
           opener[p].pc \in {"first", "check", "record"},
           opener[p].pc = "record" => opener[p].version = v,
           opener[p].next = 1, UNCHANGED <<db, format>>,
           recorded' = recorded \cup {v}
    PROVE  CInv'
<1>1. opener[p] \in OpenerState /\ opener[p].pc \in Migrating
  BY DEF CInv, IInv, TypeOK, Migrating
<1>2. CASE v = 15
  <2> DEFINE o == [Closed EXCEPT !.pc = "open"]
  <2>1. "open" \in Places /\ 1 \in Versions /\ 1 \in 1 .. 11
    BY DEF Places, Versions
  <2>2. MovedTo(o, Closed, "open", Closed.version, Closed.next)
    BY <2>1, ClosedState, Moves
  <2>3. o \in OpenerState /\ o.pc = "open"
    BY <2>2 DEF MovedTo
  <2>4. opener' = [opener EXCEPT ![p] = o]
    BY <1>2 DEF NextVersion
  <2> HIDE DEF o
  <2>5. Sole(o, db', recorded', format') /\ o.pc \notin Migrating
    BY <2>3 DEF Sole, Migrating
  <2> QED
    BY <1>1, <2>3, <2>4, <2>5, StepKeepsSole
<1>3. CASE v # 15
  <2> DEFINE o == [opener[p] EXCEPT !.pc = "check", !.version = v + 1]
  <2>1. "check" \in Places /\ v + 1 \in Versions /\ 1 \in 1 .. 11
    BY <1>3 DEF Places, Migrating, Versions
  <2>2. MovedTo(o, opener[p], "check", v + 1, 1)
    BY <1>1, <2>1, Moves
  <2>3. /\ o \in OpenerState /\ o.pc = "check"
        /\ o.alone = opener[p].alone /\ o.torn = opener[p].torn
    BY <2>2 DEF MovedTo
  <2>4. opener' = [opener EXCEPT ![p] = o]
    BY <1>3 DEF NextVersion
  <2> HIDE DEF o
  <2>5. ASSUME Undisturbed(o, format') PROVE Sole(o, db', recorded', format')
    <3>1. Unaltered(opener[p], db, recorded)
      BY <1>1, <2>3, <2>5, WasSole DEF Sole
    <3>2. \A w \in Versions \ recorded' : w \in Versions \ recorded /\ w # v
      OBVIOUS
    <3>3. \A w, i : w # v => ~Behind(opener[p], w, i)
      BY DEF Behind
    <3>4. Unaltered(o, db', recorded')
      BY <3>1, <3>2, <3>3 DEF Unaltered
    <3> QED
      BY <2>3, <3>4 DEF Sole
  <2> QED
    BY <1>1, <2>3, <2>4, <2>5, StepKeepsSole
<1> QED
  BY <1>2, <1>3

LEMMA FormatKeepsSole ==
    ASSUME CInv, IInv', NEW p \in Openers, ReadFormat(p) \/ WriteFormat(p)
    PROVE  CInv'
<1>1. /\ opener[p] \in OpenerState /\ format \in {"none", "supported", "foreign"}
      /\ opener[p].pc \in {"format", "stamp"} /\ opener[p].pc \in Migrating
  BY DEF CInv, IInv, TypeOK, ReadFormat, WriteFormat, Migrating
<1>2. \A q, place : MovedTo(q, opener[p], place, opener[p].version, opener[p].next)
                    /\ Sole(opener[p], db, recorded, format)
                      => Unaltered(q, db, recorded) \/ place \in {"apply", "record"}
  BY <1>1 DEF MovedTo, Sole, Unaltered, Behind
<1>3. CASE ReadFormat(p)
  <2>1. UNCHANGED <<db, recorded, format, kills>>
    BY <1>3 DEF ReadFormat
  <2>2. CASE format = "foreign"
    BY <1>3, <2>1, <2>2, FailKeepsSole DEF ReadFormat, Undisturbed
  <2>3. CASE format = "none"
    <3>1. "stamp" \in Places /\ Goto(p, "stamp")
      BY <1>3, <2>3 DEF ReadFormat, Places, Migrating
    <3>2. \A q \in OpenerState :
             /\ MovedTo(q, opener[p], "stamp", opener[p].version, opener[p].next)
             /\ Sole(opener[p], db, recorded, format)
             => Sole(q, db', recorded', format')
      BY <1>2, <2>1, <2>3 DEF MovedTo, Sole
    <3> QED
      BY <1>1, <2>1, <3>1, <3>2, GotoKeepsSole
  <2>4. CASE format = "supported"
    <3>1. "first" \in Places /\ Goto(p, "first")
      BY <1>3, <2>4 DEF ReadFormat, Places, Migrating
    <3>2. \A q \in OpenerState :
             /\ MovedTo(q, opener[p], "first", opener[p].version, opener[p].next)
             /\ Sole(opener[p], db, recorded, format)
             => Sole(q, db', recorded', format')
      BY <1>2, <2>1 DEF MovedTo, Sole
    <3> QED
      BY <1>1, <2>1, <3>1, <3>2, GotoKeepsSole
  <2> QED
    BY <1>1, <2>2, <2>3, <2>4
<1>4. CASE WriteFormat(p)
  <2>1. UNCHANGED <<db, recorded, kills>> /\ opener[p].pc = "stamp"
    BY <1>4 DEF WriteFormat
  <2>2. CASE format = "none"
    <3>1. "first" \in Places /\ Goto(p, "first") /\ format' = "supported"
      BY <1>4, <2>2 DEF WriteFormat, Places, Migrating
    <3>2. \A q \in OpenerState :
             /\ MovedTo(q, opener[p], "first", opener[p].version, opener[p].next)
             /\ Sole(opener[p], db, recorded, format)
             => Sole(q, db', recorded', format')
      BY <1>2, <2>1 DEF MovedTo, Sole
    <3> QED
      BY <1>1, <2>2, <3>1, <3>2, GotoKeepsSole
  <2>3. CASE format # "none"
    <3>1. ~Undisturbed(opener[p], format)
      BY <2>1, <2>3 DEF CInv, Sole
    <3>2. Fail(p) /\ UNCHANGED format
      BY <1>4, <2>3 DEF WriteFormat
    <3> QED
      BY <2>1, <3>1, <3>2, FailKeepsSole
  <2> QED
    BY <2>2, <2>3
<1> QED
  BY <1>3, <1>4

LEMMA VersionKeepsSole ==
    ASSUME CInv, IInv', NEW p \in Openers,
           RecordFirst(p) \/ CheckVersion(p) \/ RecordVersion(p)
    PROVE  CInv'
<1>1. /\ opener[p] \in OpenerState /\ opener[p].version \in Versions
      /\ UNCHANGED <<db, format, kills>>
      /\ opener[p].pc \in {"first", "check", "record"} /\ opener[p].next = 1
  BY DEF CInv, IInv, TypeOK, OpenerState, Progress, RecordFirst, CheckVersion, RecordVersion
<1>2. CASE RecordFirst(p)
  <2>1. NextVersion(p, 1) /\ recorded' = recorded \cup {1} /\ 1 \in Versions
        /\ opener[p].pc = "first"
    BY <1>2 DEF RecordFirst, Versions
  <2> QED
    BY <1>1, <2>1, NextVersionKeepsSole
<1>3. CASE CheckVersion(p)
  <2>1. UNCHANGED recorded /\ opener[p].pc = "check"
    BY <1>3 DEF CheckVersion
  <2>2. CASE opener[p].version \in recorded
    <3>1. NextVersion(p, opener[p].version) /\ recorded' = recorded \cup {opener[p].version}
      BY <1>3, <2>1, <2>2 DEF CheckVersion
    <3> QED
      BY <1>1, <3>1, NextVersionKeepsSole
  <2>3. CASE opener[p].version \notin recorded
    <3>1. "apply" \in Places /\ Goto(p, "apply") /\ opener[p].pc \in Migrating
      BY <1>3, <2>1, <2>3 DEF CheckVersion, Places, Migrating
    <3>2. ASSUME NEW q \in OpenerState,
                 MovedTo(q, opener[p], "apply", opener[p].version, opener[p].next),
                 Sole(opener[p], db, recorded, format)
          PROVE  Sole(q, db', recorded', format')
      <4>1. q.pc = "apply" /\ q.version = opener[p].version /\ q.next = 1
        BY <1>1, <3>2 DEF MovedTo
      <4>2. \A w \in Versions : \A i \in 1 .. Len(Migrations[w]) : ~Behind(opener[p], w, i)
        BY <2>1 DEF Behind
      <4>3. Unaltered(q, db, recorded)
        BY <3>1, <3>2, <4>2 DEF Sole, Unaltered
      <4> QED
        BY <1>1, <2>1, <2>3, <4>1, <4>3 DEF Sole
    <3> QED
      BY <1>1, <3>1, <3>2, GotoKeepsSole
  <2> QED
    BY <2>2, <2>3
<1>4. CASE RecordVersion(p)
  <2>1. opener[p].pc = "record"
    BY <1>4 DEF RecordVersion
  <2>2. CASE opener[p].version \in recorded
    <3>1. ~Undisturbed(opener[p], format)
      BY <2>1, <2>2 DEF CInv, Sole
    <3>2. Fail(p) /\ UNCHANGED recorded
      BY <1>4, <2>2 DEF RecordVersion
    <3> QED
      BY <1>1, <3>1, <3>2, FailKeepsSole
  <2>3. CASE opener[p].version \notin recorded
    <3>1. NextVersion(p, opener[p].version) /\ recorded' = recorded \cup {opener[p].version}
      BY <1>4, <2>3 DEF RecordVersion
    <3> QED
      BY <1>1, <3>1, NextVersionKeepsSole
  <2> QED
    BY <2>2, <2>3
<1> QED
  BY <1>2, <1>3, <1>4

LEMMA StatementsKeepSole ==
    ASSUME CInv, IInv', NEW p \in Openers, CreateTables(p) \/ ApplyStatement(p)
    PROVE  CInv'
<1>1. /\ opener[p] \in OpenerState /\ opener[p].version \in Versions
      /\ opener[p].next \in 1 .. 11 /\ Progress(opener[p], db, recorded, format)
      /\ UNCHANGED <<recorded, format, kills>>
  BY DEF CInv, IInv, TypeOK, OpenerState, CreateTables, ApplyStatement
<1>2. CASE CreateTables(p)
  <2>1. /\ 1 \in Versions /\ Migrations[1] = MIGRATION_1 /\ opener[p].next <= Len(Migrations[1])
    BY <1>1, SomeStatements DEF Versions
  <2>2. opener[p].pc = "tables" /\ RunStatement(p, Migrations[1], "format")
    BY <1>2, <2>1 DEF CreateTables
  <2> QED
    BY <1>1, <2>1, <2>2, RunKeepsSole
<1>3. CASE ApplyStatement(p)
  <2>1. opener[p].pc = "apply" /\ opener[p].next <= Len(Migrations[opener[p].version])
    BY <1>1, <1>3 DEF ApplyStatement, Progress
  <2>2. CASE Succeeds(Migrations[opener[p].version][opener[p].next], db)
    <3>1. RunStatement(p, Migrations[opener[p].version], "record")
      BY <1>3, <2>2 DEF ApplyStatement
    <3> QED
      BY <1>1, <2>1, <3>1, RunKeepsSole
  <2>3. CASE ~Succeeds(Migrations[opener[p].version][opener[p].next], db)
    <3>1. Fail(p) /\ UNCHANGED db
      BY <1>3, <2>3 DEF ApplyStatement
    <3>2. ~Undisturbed(opener[p], format)
      BY <1>1, <2>1, <2>3, NextSucceeds DEF CInv
    <3> QED
      BY <1>1, <3>1, <3>2, FailKeepsSole
  <2> QED
    BY <2>2, <2>3
<1> QED
  BY <1>2, <1>3

LEMMA EndKeepsSole ==
    ASSUME CInv, IInv', NEW p \in Openers, Close(p) \/ Kill(p)
    PROVE  CInv'
<1>1. UNCHANGED <<db, recorded, format>> /\ opener' = [opener EXCEPT ![p] = Closed]
  BY DEF Close, Kill
<1>2. Closed \in OpenerState /\ Closed.pc \notin Migrating /\ Sole(Closed, db', recorded', format')
  BY ClosedState DEF Sole, Migrating
<1> QED
  BY <1>1, <1>2, StepKeepsSole

LEMMA NextKeepsSole ==
    ASSUME CInv, [Next]_vars
    PROVE  CInv'
<1>1. IInv'
  BY NextKeeps DEF CInv
<1>2. ASSUME NEW p \in Openers, Step(p) PROVE CInv'
  <2>1. CASE Open(p)
    BY <1>1, <2>1, OpenKeepsSole
  <2>2. CASE CreateTables(p) \/ ApplyStatement(p)
    BY <1>1, <2>2, StatementsKeepSole
  <2>3. CASE ReadFormat(p) \/ WriteFormat(p)
    BY <1>1, <2>3, FormatKeepsSole
  <2>4. CASE RecordFirst(p) \/ CheckVersion(p) \/ RecordVersion(p)
    BY <1>1, <2>4, VersionKeepsSole
  <2>5. CASE Close(p) \/ Kill(p)
    BY <1>1, <2>5, EndKeepsSole
  <2> QED
    BY <1>2, <2>1, <2>2, <2>3, <2>4, <2>5 DEF Step
<1>3. CASE UNCHANGED vars
  BY <1>1, <1>3 DEF vars, CInv, OneAlone
<1> QED
  BY <1>2, <1>3 DEF Next

LEMMA InitIsSole ==
    ASSUME Init
    PROVE  CInv
<1>1. \A p \in Openers : opener[p] = Closed
  BY DEF Init
<1>2. Closed.pc \notin Migrating /\ Sole(Closed, db, recorded, format)
  BY ClosedState DEF Sole, Migrating
<1> QED
  BY <1>1, <1>2, InitKeeps DEF CInv, OneAlone

-----------------------------------------------------------------------------
(* The rows of a snapshot.                                                  *)

HeadTables == {"source_snapshots", "source_provenance"}

Tables == Store!FactTables \cup HeadTables

RowSet == [table : Tables, owner : Units \cup STRING, id : STRING \cup {""}, from : Snapshots]

Head1(s) == [table |-> "source_snapshots", owner |-> UnitOf[s], id |-> "", from |-> s]
Head2(s) == [table |-> "source_provenance", owner |-> UnitOf[s], id |-> "", from |-> s]

RowAt(s, i) == Store!RowsOf(s)[i]
Size(s) == Len(Store!RowsOf(s))
AllRows(s) == Store!Elements(Store!RowsOf(s))

LEMMA RowsAre ==
    ASSUME NEW s \in Snapshots
    PROVE  /\ Store!RowsOf(s) \in Seq(RowSet)
           /\ DOMAIN Store!RowsOf(s) = 1 .. Size(s)
           /\ Len(FactsOf[s]) \in Nat /\ DOMAIN FactsOf[s] = 1 .. Len(FactsOf[s])
           /\ Size(s) = 2 + Len(FactsOf[s])
           /\ RowAt(s, 1) = Head1(s) /\ RowAt(s, 2) = Head2(s)
           /\ \A i \in 3 .. Size(s) : RowAt(s, i) = Store!Row(FactsOf[s][i - 2], s)
<1>1. /\ FactsOf[s] \in Seq(Store!Facts) /\ UnitOf[s] \in Units
  BY IndexAssumption DEF Store!StoreAssumption
<1>2. /\ Len(FactsOf[s]) \in Nat /\ DOMAIN FactsOf[s] = 1 .. Len(FactsOf[s])
      /\ \A i \in DOMAIN FactsOf[s] : FactsOf[s][i] \in Store!Facts
  BY <1>1
<1> DEFINE facts == [i \in DOMAIN FactsOf[s] |-> Store!Row(FactsOf[s][i], s)]
<1>3. \A i \in DOMAIN FactsOf[s] : Store!Row(FactsOf[s][i], s) \in RowSet
  BY <1>2 DEF Store!Facts, Store!Row, RowSet, Tables
<1>4. facts \in Seq(RowSet) /\ Len(facts) = Len(FactsOf[s])
  BY <1>2, <1>3
<1>5. Store!Heads(s) = <<Head1(s), Head2(s)>>
  BY DEF Store!Heads, Head1, Head2
<1>6. Head1(s) \in RowSet /\ Head2(s) \in RowSet
  BY <1>1 DEF Head1, Head2, RowSet, Tables, HeadTables
<1>7. Store!RowsOf(s) = <<Head1(s), Head2(s)>> \o facts
  BY <1>5 DEF Store!RowsOf
<1> HIDE DEF facts
<1>8. /\ Store!RowsOf(s) \in Seq(RowSet) /\ Len(Store!RowsOf(s)) = 2 + Len(facts)
      /\ Store!RowsOf(s)[1] = Head1(s) /\ Store!RowsOf(s)[2] = Head2(s)
      /\ \A i \in 3 .. (2 + Len(facts)) : Store!RowsOf(s)[i] = facts[i - 2]
  BY <1>4, <1>6, <1>7
<1>9. \A i \in 3 .. (2 + Len(facts)) : facts[i - 2] = Store!Row(FactsOf[s][i - 2], s)
  <2>1. \A i \in 3 .. (2 + Len(facts)) : i - 2 \in DOMAIN FactsOf[s]
    BY <1>2, <1>4
  <2> QED
    BY <2>1 DEF facts
<1> QED
  BY <1>2, <1>4, <1>8, <1>9 DEF RowAt, Size

\* What a row of a snapshot says.
Kind(r, s) ==
    /\ r \in RowSet /\ r.from = s /\ r.table \in Tables
    /\ r.table # "application_arguments" => r.owner = UnitOf[s]
    /\ r.table = "application_arguments" => r.owner \notin Units
    /\ r.table = "source_snapshots" => r = Head1(s)
    /\ r.table = "source_provenance" => r = Head2(s)

Parent(a, r) == a.table = "applications" /\ a.id = r.owner

LEMMA RowKinds ==
    ASSUME NEW s \in Snapshots, NEW i \in 1 .. Size(s)
    PROVE  /\ RowAt(s, i) \in AllRows(s) /\ Kind(RowAt(s, i), s)
           /\ RowAt(s, i).table = "application_arguments" =>
                  \E j \in 1 .. (i - 1) : j \in 1 .. Size(s) /\ Parent(RowAt(s, j), RowAt(s, i))
<1>1. UnitOf[s] \in Units /\ FactsOf[s] \in Seq(Store!Facts)
  BY IndexAssumption DEF Store!StoreAssumption
<1>2. RowAt(s, i) \in AllRows(s) /\ RowAt(s, i) \in RowSet
  BY RowsAre DEF AllRows, Store!Elements, RowAt
<1>3. CASE i = 1
  <2>1. RowAt(s, i) = Head1(s)
    BY <1>3, RowsAre
  <2>2. /\ Head1(s).table = "source_snapshots"
        /\ Head1(s).owner = UnitOf[s] /\ Head1(s).from = s
    BY DEF Head1
  <2>3. Kind(RowAt(s, i), s)
    BY <1>2, <2>1, <2>2 DEF Kind, Tables, HeadTables
  <2> QED
    BY <1>2, <2>1, <2>2, <2>3
<1>4. CASE i = 2
  <2>1. RowAt(s, i) = Head2(s)
    BY <1>4, RowsAre
  <2>2. /\ Head2(s).table = "source_provenance"
        /\ Head2(s).owner = UnitOf[s] /\ Head2(s).from = s
    BY DEF Head2
  <2>3. Kind(RowAt(s, i), s)
    BY <1>2, <2>1, <2>2 DEF Kind, Tables, HeadTables
  <2> QED
    BY <1>2, <2>1, <2>2, <2>3
<1>6. i \in Int /\ Size(s) \in Int
  BY RowsAre
<1>5. CASE i \in 3 .. Size(s)
  <2> DEFINE f == FactsOf[s][i - 2]
             r == RowAt(s, i)
  <2>1. i - 2 \in DOMAIN FactsOf[s] /\ r = Store!Row(f, s) /\ i \in Int
    BY <1>5, RowsAre
  <2>2. f \in Store!Facts /\ Store!Attached(s, i - 2)
    BY <1>1, <2>1, IndexAssumption DEF Store!StoreAssumption
  <2>3. r.table = f.table /\ r.owner = f.owner /\ r.id = f.id /\ r.from = s
    BY <2>1 DEF Store!Row
  <2>4. f.table \in Store!FactTables
    BY <2>2 DEF Store!Facts
  <2>5. f.table \notin HeadTables /\ f.table \in Tables
    BY <2>4 DEF Store!FactTables, HeadTables, Tables
  <2>6. CASE f.table # "application_arguments"
    <3>1. f.owner = UnitOf[s]
      BY <2>2, <2>6 DEF Store!Attached
    <3> QED
      BY <1>2, <2>3, <2>5, <2>6, <3>1 DEF Kind, HeadTables
  <2>7. CASE f.table = "application_arguments"
    <3>1. PICK j \in 1 .. ((i - 2) - 1) :
              FactsOf[s][j].table = "applications" /\ FactsOf[s][j].id = f.owner
      BY <2>2, <2>7 DEF Store!Attached
    <3>6. /\ i \in Int /\ Size(s) \in Int /\ Size(s) >= i
          /\ j \in Int /\ j >= 1 /\ i - 3 >= j
      BY <1>5, <1>6, <3>1
    <3>7. j + 2 \in 3 .. Size(s) /\ j + 2 \in 1 .. (i - 1) /\ j + 2 \in 1 .. Size(s)
          /\ (j + 2) - 2 = j
      BY <3>6
    <3>2. j \in DOMAIN FactsOf[s] /\ j + 2 \in 3 .. Size(s) /\ j + 2 \in 1 .. (i - 1)
          /\ j + 2 \in 1 .. Size(s) /\ (j + 2) - 2 = j
      BY <3>7, RowsAre
    <3>3. RowAt(s, j + 2) = Store!Row(FactsOf[s][j], s)
      BY <3>2, RowsAre
    <3>4. Parent(RowAt(s, j + 2), r)
      BY <2>3, <3>1, <3>3 DEF Parent, Store!Row
    <3>5. f.owner \notin Units
      BY <3>1, <3>2, IndexAssumption DEF Store!StoreAssumption
    <3> QED
      BY <1>2, <2>3, <2>5, <2>7, <3>2, <3>4, <3>5 DEF Kind, HeadTables
  <2> QED
    BY <2>6, <2>7
<1> QED
  BY <1>3, <1>4, <1>5, <1>6

LEMMA RowsOfSnapshot ==
    ASSUME NEW s \in Snapshots, NEW r \in AllRows(s)
    PROVE  /\ Kind(r, s)
           /\ r.table = "application_arguments" => \E a \in AllRows(s) : Parent(a, r)
           /\ \E i \in 1 .. Size(s) : r = RowAt(s, i)
<1>1. PICK i \in 1 .. Size(s) : r = RowAt(s, i)
  BY RowsAre DEF AllRows, Store!Elements, RowAt
<1> QED
  BY <1>1, RowKinds

LEMMA HeadsAreRows ==
    ASSUME NEW s \in Snapshots
    PROVE  Head1(s) \in AllRows(s) /\ Head2(s) \in AllRows(s)
<1>1. 1 \in 1 .. Size(s) /\ 2 \in 1 .. Size(s)
  BY RowsAre
<1> QED
  BY <1>1, RowsAre, RowKinds

-----------------------------------------------------------------------------
(* What the index has, unit by unit: nothing, or the rows of one snapshot,  *)
(* with its provenance or without.  An index that was migrated before       *)
(* version 6 lacked the tables of some of these rows; every other one has   *)
(* all other rows of its snapshots.                                         *)

Complete == InitialVersions \cap 1 .. 5 = {}

Part(C, s) ==
    /\ C \subseteq AllRows(s) /\ Head1(s) \in C
    /\ \A r \in C : r.table = "application_arguments" => \E a \in C : Parent(a, r)
    /\ Complete => AllRows(s) \ {Head2(s)} \subseteq C

Content(C, u) == C = {} \/ \E s \in Snapshots : UnitOf[s] = u /\ Part(C, s)

Contents(c) == c \in [Units -> SUBSET RowSet] /\ \A u \in Units : Content(c[u], u)

Stored(c) == UNION {c[u] : u \in Units}

Others(c, u) == UNION {c[w] : w \in Units \ {u}}

\* The ID of an application leads to one unit.
OneParent(data) ==
    \A a, b \in data : a.table = "applications" /\ b.table = "applications" /\ a.id = b.id
                         => a.owner = b.owner

LEMMA WholeContent ==
    ASSUME NEW s \in Snapshots
    PROVE  /\ Part(AllRows(s), s) /\ Content(AllRows(s), UnitOf[s])
           /\ AllRows(s) \subseteq RowSet /\ UnitOf[s] \in Units
<1>1. Part(AllRows(s), s)
  BY RowsOfSnapshot, HeadsAreRows DEF Part
<1>2. AllRows(s) \subseteq RowSet
  BY RowsOfSnapshot DEF Kind
<1> QED
  BY <1>1, <1>2, IndexAssumption DEF Content, Store!StoreAssumption

LEMMA ContentRows ==
    ASSUME NEW u, NEW C, Content(C, u), NEW r \in C
    PROVE  /\ \E s \in Snapshots : UnitOf[s] = u /\ Part(C, s) /\ Kind(r, s)
           /\ r \in RowSet
           /\ r.table # "application_arguments" => r.owner = u
           /\ r.table = "application_arguments" =>
                  r.owner \notin Units /\ \E a \in C : Parent(a, r) /\ a.owner = u
<1>1. PICK s \in Snapshots : UnitOf[s] = u /\ Part(C, s)
  BY DEF Content
<1>2. \A q \in C : Kind(q, s)
  BY <1>1, RowsOfSnapshot DEF Part
<1>3. r.table = "application_arguments" => \E a \in C : Parent(a, r) /\ a.owner = u
  BY <1>1, <1>2 DEF Part, Kind, Parent
<1> QED
  BY <1>1, <1>2, <1>3 DEF Kind

LEMMA StoredSplit ==
    ASSUME NEW c, NEW u \in Units
    PROVE  Stored(c) = Others(c, u) \cup c[u]
BY DEF Stored, Others

LEMMA StoredRows ==
    ASSUME NEW c, Contents(c)
    PROVE  /\ Stored(c) \subseteq RowSet
           /\ \A r \in Stored(c) : r.table = "application_arguments" =>
                  \E a \in Stored(c) : Parent(a, r)
<1>1. ASSUME NEW r \in Stored(c), r.table = "application_arguments"
      PROVE  \E a \in Stored(c) : Parent(a, r)
  <2>1. PICK u \in Units : r \in c[u]
    BY DEF Stored
  <2>2. PICK a \in c[u] : Parent(a, r)
    BY <1>1, <2>1, ContentRows DEF Contents
  <2> QED
    BY <2>2 DEF Stored
<1> QED
  BY <1>1 DEF Stored, Contents

LEMMA SameRecord ==
    ASSUME NEW D, NEW f, NEW g, f = [i \in D |-> f[i]], g = [i \in D |-> g[i]],
           \A i \in D : f[i] = g[i]
    PROVE  f = g
OBVIOUS

LEMMA CopiedRow ==
    ASSUME NEW s
    PROVE  [Head1(s) EXCEPT !.table = "source_provenance"] = Head2(s)
<1> DEFINE Fields == {"table", "owner", "id", "from"}
           x == [Head1(s) EXCEPT !.table = "source_provenance"]
           y == Head2(s)
<1>1. /\ x["table"] = "source_provenance" /\ x["owner"] = UnitOf[s]
      /\ x["id"] = "" /\ x["from"] = s
  BY DEF Head1
<1>2. /\ y["table"] = "source_provenance" /\ y["owner"] = UnitOf[s]
      /\ y["id"] = "" /\ y["from"] = s
  BY DEF Head2
<1>3. x = [i \in Fields |-> x[i]] /\ y = [i \in Fields |-> y[i]]
  BY DEF Head1, Head2
<1> HIDE DEF x, y
<1>4. x = y
  <2>1. \A i \in Fields : x[i] = y[i]
    BY <1>1, <1>2
  <2> HIDE DEF Fields
  <2> QED
    BY <1>3, <2>1, SameRecord
<1> QED
  BY <1>4 DEF x, y

Copy1(r) == [r EXCEPT !.table = "source_provenance"]

LEMMA CopiedHeads ==
    ASSUME NEW data
    PROVE  /\ Provenance(data) = {Copy1(r) : r \in data}
           /\ \A r : r \in WithProvenance(data) <=>
                  r \in data \/ \E q \in data : q.table = "source_snapshots" /\ r = Copy1(q)
           /\ \A r \in RowSet : Copy1(r).table = "source_provenance" /\ Copy1(r).owner = r.owner
                               /\ Copy1(r) \in RowSet
<1>1. \A r \in RowSet : /\ Copy1(r).table = "source_provenance" /\ Copy1(r).owner = r.owner
                       /\ Copy1(r) \in RowSet
  BY DEF RowSet, Tables, HeadTables, Copy1
<1>2. Provenance(data) = {Copy1(r) : r \in data}
  BY DEF Provenance, Copy1
<1>3. \A r : r \in WithProvenance(data) <=>
          r \in data \/ \E q \in data : q.table = "source_snapshots" /\ r = Copy1(q)
  BY DEF WithProvenance, Provenance, Copy1
<1> QED
  BY <1>1, <1>2, <1>3

\* The rows of a snapshot with its provenance.
LEMMA WholePart ==
    ASSUME NEW s \in Snapshots, NEW C, Part(C, s)
    PROVE  /\ WithProvenance(C) = C \cup {Head2(s)}
           /\ Part(WithProvenance(C), s)
           /\ Complete => WithProvenance(C) = AllRows(s)
<1>1. \A r \in C : Kind(r, s)
  BY RowsOfSnapshot DEF Part
<1>2. \A r \in C : r.table = "source_snapshots" => r = Head1(s) /\ Copy1(r) = Head2(s)
  BY <1>1, CopiedRow DEF Kind, Copy1
<1>3. Head1(s) \in C /\ Head1(s).table = "source_snapshots"
  BY DEF Part, Head1
<1>4. WithProvenance(C) = C \cup {Head2(s)}
  BY <1>2, <1>3, CopiedHeads
<1>5. Head2(s) \in AllRows(s) /\ Head2(s).table = "source_provenance"
  BY HeadsAreRows DEF Head2
<1>6. Part(C \cup {Head2(s)}, s)
  BY <1>5 DEF Part
<1>7. Complete => C \cup {Head2(s)} = AllRows(s)
  BY <1>5 DEF Part
<1> QED
  BY <1>4, <1>6, <1>7

LEMMA WholeOne ==
    ASSUME NEW u, NEW C \in SUBSET RowSet, Content(C, u)
    PROVE  /\ Content(WithProvenance(C), u) /\ WithProvenance(C) \in SUBSET RowSet
           /\ \A r : r.table = "applications" /\ r \in WithProvenance(C) => r \in C
           /\ C = {} => WithProvenance(C) = {}
<1>1. C = {} => WithProvenance(C) = {}
  BY CopiedHeads
<1>2. \A r \in C : Copy1(r) \in RowSet /\ Copy1(r).table = "source_provenance"
  BY CopiedHeads
<1>3. Content(WithProvenance(C), u)
  BY <1>1, WholePart DEF Content
<1> QED
  BY <1>1, <1>2, <1>3, CopiedHeads

\* d with the provenance of every snapshot.
Whole(d) == [u \in Units |-> WithProvenance(d[u])]

LEMMA WholeContents ==
    ASSUME NEW d, Contents(d), OneParent(Stored(d))
    PROVE  /\ Contents(Whole(d)) /\ OneParent(Stored(Whole(d)))
           /\ Stored(Whole(d)) = WithProvenance(Stored(d))
<1>1. /\ d \in [Units -> SUBSET RowSet]
      /\ \A u \in Units : Content(d[u], u) /\ Whole(d)[u] = WithProvenance(d[u])
  BY DEF Contents, Whole
<1>2. \A u \in Units : Whole(d)[u] \in SUBSET RowSet /\ Content(Whole(d)[u], u)
  BY <1>1, WholeOne
<1>3. Contents(Whole(d))
  BY <1>2 DEF Contents, Whole
<1>4. Stored(Whole(d)) = WithProvenance(Stored(d))
  <2>1. ASSUME NEW r \in Stored(Whole(d)) PROVE r \in WithProvenance(Stored(d))
    <3>1. PICK u \in Units : r \in WithProvenance(d[u])
      BY <1>1 DEF Stored
    <3>2. d[u] \subseteq Stored(d)
      BY DEF Stored
    <3> QED
      BY <3>1, <3>2, CopiedHeads
  <2>2. ASSUME NEW r \in WithProvenance(Stored(d)) PROVE r \in Stored(Whole(d))
    <3>1. PICK q \in Stored(d) : r = q \/ (q.table = "source_snapshots" /\ r = Copy1(q))
      BY <2>2, CopiedHeads
    <3>2. PICK u \in Units : q \in d[u]
      BY DEF Stored
    <3>3. r \in WithProvenance(d[u])
      BY <3>1, <3>2, CopiedHeads
    <3> QED
      BY <1>1, <3>3 DEF Stored
  <2> QED
    BY <2>1, <2>2
<1>5. \A r \in Stored(Whole(d)) : r.table = "applications" => r \in Stored(d)
  <2> SUFFICES ASSUME NEW r \in Stored(Whole(d)), r.table = "applications" PROVE r \in Stored(d)
    OBVIOUS
  <2>1. PICK u \in Units : r \in WithProvenance(d[u])
    BY <1>1 DEF Stored
  <2>2. r \in d[u]
    BY <1>1, <2>1, WholeOne
  <2> QED
    BY <2>2 DEF Stored
<1> QED
  BY <1>3, <1>4, <1>5 DEF OneParent

\* Where a row has a copy, and where none.
AllCopied(data) ==
    \A r \in data : r.table = "source_snapshots" /\ r.owner \notin blank => Copy1(r) \in data

Unblanked(data) == \A r \in data : r.table = "source_provenance" => r.owner \notin blank

\* What MIGRATION_15 makes of the index.
LEMMA CopyContents ==
    ASSUME NEW d, Contents(d), OneParent(Stored(d)), Unblanked(Stored(d))
    PROVE  LET data == CopyProvenance(Stored(d))
           IN  /\ AllCopied(data) /\ Unblanked(data) /\ data \subseteq RowSet
               /\ WithProvenance(data) = WithProvenance(Stored(d))
               /\ \E e : Contents(e) /\ OneParent(Stored(e)) /\ data = Stored(e)
<1> DEFINE old == Stored(d)
           heads == {r \in old : r.table = "source_snapshots" /\ r.owner \notin blank}
           copied == Provenance(heads)
           data == CopyProvenance(old)
           e == [u \in Units |-> IF u \in blank THEN d[u] ELSE WithProvenance(d[u])]
<1>1. /\ d \in [Units -> SUBSET RowSet] /\ \A u \in Units : Content(d[u], u)
      /\ old \subseteq RowSet
  BY StoredRows DEF Contents
<1>2. \A r : r \in copied <=> \E q \in heads : r = Copy1(q)
  BY CopiedHeads
<1>3. \A q \in heads : /\ Copy1(q) \in RowSet /\ Copy1(q).table = "source_provenance"
                     /\ Copy1(q).owner = q.owner
  BY <1>1, CopiedHeads
<1>4. ASSUME NEW q \in heads
      PROVE  q.owner \in Units /\ q \in d[q.owner] /\ \E s \in Snapshots :
                 UnitOf[s] = q.owner /\ Part(d[q.owner], s) /\ Copy1(q) = Head2(s)
  <2>1. PICK u \in Units : q \in d[u]
    BY DEF Stored
  <2>2. PICK s \in Snapshots : UnitOf[s] = u /\ Part(d[u], s) /\ Kind(q, s)
    BY <1>1, <2>1, ContentRows
  <2>3. q.owner = u /\ Copy1(q) = Head2(s)
    BY <2>2, CopiedRow DEF Kind, Copy1
  <2> QED
    BY <2>1, <2>2, <2>3
<1>5. ASSUME NEW r \in old, NEW c \in copied, Store!SameKey(r, c) PROVE r = c
  <2>1. PICK q \in heads : c = Copy1(q)
    BY <1>2
  <2>2. PICK s \in Snapshots : UnitOf[s] = q.owner /\ Part(d[q.owner], s) /\ c = Head2(s)
    BY <1>4, <2>1
  <2>3. r.table = "source_provenance" /\ r.owner = q.owner
    BY <1>3, <1>5, <2>1 DEF Store!SameKey
  <2>4. PICK w \in Units : r \in d[w]
    BY DEF Stored
  <2>5. w = q.owner
    BY <1>1, <2>3, <2>4, ContentRows
  <2>6. Kind(r, s)
    BY <2>2, <2>4, <2>5, RowsOfSnapshot DEF Part
  <2> QED
    BY <2>2, <2>3, <2>6 DEF Kind
<1>6. data = old \cup copied
  BY <1>5 DEF CopyProvenance
<1> HIDE DEF data, copied, heads, old
<1>7. AllCopied(data)
  <2> SUFFICES ASSUME NEW r \in data, r.table = "source_snapshots", r.owner \notin blank
               PROVE  Copy1(r) \in data
    BY DEF AllCopied
  <2>1. r \in old
    BY <1>2, <1>3, <1>6
  <2> QED
    BY <1>2, <1>6, <2>1 DEF heads
<1>8. Unblanked(data)
  BY <1>2, <1>3, <1>6 DEF Unblanked, heads, old
<1>9. data \subseteq RowSet
  BY <1>1, <1>2, <1>3, <1>6
<1>10. WithProvenance(data) = WithProvenance(old)
  <2>1. \A r \in data : r \in old \/ \E q \in old : q.table = "source_snapshots" /\ r = Copy1(q)
    BY <1>2, <1>6 DEF heads
  <2>2. \A r \in data : r.table = "source_snapshots" => r \in old
    BY <1>2, <1>3, <1>6
  <2>3. old \subseteq data
    BY <1>6
  <2>4. \A r : r \in WithProvenance(data) => r \in WithProvenance(old)
    BY <2>1, <2>2, CopiedHeads
  <2>5. \A r : r \in WithProvenance(old) => r \in WithProvenance(data)
    BY <2>3, CopiedHeads
  <2> QED
    BY <2>4, <2>5
<1>11. ASSUME NEW u \in Units
       PROVE  e[u] \in SUBSET RowSet /\ Content(e[u], u)
              /\ \A r \in e[u] : r.table = "applications" => r \in d[u]
  BY <1>1, WholeOne
<1>12. data = Stored(e)
  <2>1. ASSUME NEW r \in data PROVE r \in Stored(e)
    <3>1. CASE r \in old
      <4>1. PICK u \in Units : r \in d[u]
        BY <3>1 DEF Stored, old
      <4>2. r \in e[u]
        BY <4>1, CopiedHeads
      <4> QED
        BY <4>2 DEF Stored
    <3>2. CASE r \in copied
      <4>1. PICK q \in heads : r = Copy1(q)
        BY <1>2, <3>2
      <4>2. q.owner \in Units /\ q \in d[q.owner] /\ q.owner \notin blank
        BY <1>4, <4>1 DEF heads
      <4>3. q.table = "source_snapshots"
        BY DEF heads
      <4>4. r \in WithProvenance(d[q.owner])
        BY <4>1, <4>2, <4>3, CopiedHeads
      <4>5. r \in e[q.owner]
        BY <4>2, <4>4
      <4> QED
        BY <4>2, <4>5 DEF Stored
    <3> QED
      BY <1>6, <3>1, <3>2
  <2>2. ASSUME NEW r \in Stored(e) PROVE r \in data
    <3>1. PICK u \in Units : r \in e[u]
      BY DEF Stored
    <3>2. \A q \in d[u] : q \in old /\ (q.table # "application_arguments" => q.owner = u)
      BY <1>1, ContentRows DEF Stored, old
    <3>3. CASE r \in d[u]
      BY <1>6, <3>2, <3>3
    <3>4. CASE r \notin d[u]
      <4>1. u \notin blank /\ r \in WithProvenance(d[u])
        BY <3>1, <3>4
      <4>2. PICK q \in d[u] : q.table = "source_snapshots" /\ r = Copy1(q)
        BY <3>4, <4>1, CopiedHeads
      <4>3. q \in heads
        BY <3>2, <4>1, <4>2 DEF heads
      <4> QED
        BY <1>2, <1>6, <4>2, <4>3
    <3> QED
      BY <3>3, <3>4
  <2> QED
    BY <2>1, <2>2
<1>13. Contents(e)
  BY <1>11 DEF Contents
<1>14. OneParent(Stored(e))
  <2>1. \A r \in Stored(e) : r.table = "applications" => r \in old
    BY <1>11 DEF Stored, old
  <2> QED
    BY <2>1 DEF OneParent, old
<1> HIDE DEF e
<1> QED
  BY <1>7, <1>8, <1>9, <1>10, <1>12, <1>13, <1>14 DEF data, old

-----------------------------------------------------------------------------
(* What the statements of a transaction leave of a unit's rows.             *)

Remains(C, k) == {r \in C : \A j \in 1 .. (k - 1) : r.table # Store!Deletions[j]}

Prefix(s, i) == {RowAt(s, j) : j \in 1 .. (i - 1)}

LEMMA DeletionsAre ==
    /\ Len(Store!Deletions) = 12
    /\ Store!Deletions[1] = "application_arguments"
    /\ \A k \in 2 .. 12 : Store!Deletions[k] # "application_arguments"
    /\ \A t \in Tables : \E k \in 1 .. 12 : Store!Deletions[k] = t
<1>1. Len(Store!Deletions) = 12
  BY DEF Store!Deletions
<1>2. /\ Store!Deletions[1] = "application_arguments" /\ Store!Deletions[2] = "applications"
      /\ Store!Deletions[3] = "reference_edges" /\ Store!Deletions[4] = "call_edges"
      /\ Store!Deletions[5] = "hierarchy_edges" /\ Store!Deletions[6] = "type_records"
      /\ Store!Deletions[7] = "diagnostics" /\ Store!Deletions[8] = "annotation_edges"
      /\ Store!Deletions[9] = "occurrences" /\ Store!Deletions[10] = "symbols"
      /\ Store!Deletions[11] = "source_provenance" /\ Store!Deletions[12] = "source_snapshots"
  BY DEF Store!Deletions
<1>3. \A k \in 2 .. 12 : k \in {2, 3, 4, 5, 6, 7, 8, 9, 10, 11, 12}
  OBVIOUS
<1>4. \A k \in 2 .. 12 : Store!Deletions[k] # "application_arguments"
  BY <1>2, <1>3
<1>5. \A t \in Tables : \E k \in 1 .. 12 : Store!Deletions[k] = t
  <2>1. \A k \in {1, 2, 3, 4, 5, 6, 7, 8, 9, 10, 11, 12} : k \in 1 .. 12
    OBVIOUS
  <2> QED
    BY <1>2, <2>1 DEF Tables, HeadTables, Store!FactTables
<1> QED
  BY <1>1, <1>2, <1>4, <1>5

LEMMA OthersApart ==
    ASSUME NEW c, Contents(c), NEW u \in Units, NEW r \in Others(c, u)
    PROVE  /\ r \notin c[u]
           /\ \E w \in Units \ {u} : r \in c[w]
           /\ r.table # "application_arguments" => r.owner # u
<1>1. PICK w \in Units \ {u} : r \in c[w]
  BY DEF Others
<1>2. UnitOf[r.from] = w /\ (r.table # "application_arguments" => r.owner = w)
  BY <1>1, ContentRows DEF Contents, Kind
<1>3. r \in c[u] => UnitOf[r.from] = u
  BY ContentRows DEF Contents, Kind
<1> QED
  BY <1>1, <1>2, <1>3

\* A DELETE finds the rows of the unit in its table and no other: arguments while
\* their applications are still there.
LEMMA DeleteFinds ==
    ASSUME NEW c, Contents(c), OneParent(Stored(c)), NEW u \in Units, NEW k \in 1 .. 12,
           NEW work, work = Others(c, u) \cup Remains(c[u], k)
    PROVE  \A r \in work : r \in Store!Deleted(Store!Deletions[k], u, work)
                             <=> r \in c[u] /\ r.table = Store!Deletions[k]
<1>0. work \subseteq Stored(c) /\ Remains(c[u], k) \subseteq c[u]
  BY StoredSplit DEF Remains
<1>1. CASE k = 1
  <2>1. Store!Deletions[k] = "application_arguments" /\ Remains(c[u], k) = c[u]
    BY <1>1, DeletionsAre DEF Remains
  <2> SUFFICES ASSUME NEW r \in work, r.table = "application_arguments"
               PROVE  (\E a \in work : a.table = "applications" /\ a.owner = u /\ a.id = r.owner)
                        <=> r \in c[u]
    BY <2>1 DEF Store!Deleted
  <2>2. ASSUME r \in c[u]
        PROVE  \E a \in work : a.table = "applications" /\ a.owner = u /\ a.id = r.owner
    <3>1. \E a \in c[u] : Parent(a, r) /\ a.owner = u
      BY <2>2, ContentRows DEF Contents
    <3> QED
      BY <2>1, <3>1 DEF Parent
  <2>3. ASSUME NEW a \in work, a.table = "applications", a.owner = u, a.id = r.owner
        PROVE  r \in c[u]
    <3>1. CASE r \in Others(c, u)
      <4>1. PICK w \in Units \ {u} : r \in c[w]
        BY <3>1, OthersApart
      <4>2. PICK b \in c[w] : Parent(b, r) /\ b.owner = w
        BY <4>1, ContentRows DEF Contents
      <4>3. b \in Stored(c) /\ a \in Stored(c)
        BY <1>0, <4>2 DEF Stored
      <4>4. a.owner = b.owner
        BY <2>3, <4>2, <4>3 DEF OneParent, Parent
      <4> QED
        BY <2>3, <4>1, <4>2, <4>4
    <3> QED
      BY <2>1, <3>1
  <2> QED
    BY <2>2, <2>3
<1>2. CASE k # 1
  <2>1. Store!Deletions[k] # "application_arguments"
    BY <1>2, DeletionsAre
  <2>2. \A r \in c[u] : r.table # "application_arguments" => r.owner = u
    BY ContentRows DEF Contents
  <2>3. \A r \in Others(c, u) : r \notin c[u] /\ (r.table # "application_arguments" => r.owner # u)
    BY OthersApart
  <2> QED
    BY <1>0, <2>1, <2>2, <2>3 DEF Store!Deleted
<1> QED
  BY <1>1, <1>2

LEMMA DeleteLeaves ==
    ASSUME NEW c, Contents(c), OneParent(Stored(c)), NEW u \in Units, NEW k \in 1 .. 12,
           NEW work, work = Others(c, u) \cup Remains(c[u], k)
    PROVE  /\ work \ Store!Deleted(Store!Deletions[k], u, work)
                = Others(c, u) \cup Remains(c[u], k + 1)
           /\ k = 12 => work \ Store!Deleted(Store!Deletions[k], u, work) = Others(c, u)
<1>1. \A r \in work : r \in Store!Deleted(Store!Deletions[k], u, work)
                        <=> r \in c[u] /\ r.table = Store!Deletions[k]
  BY DeleteFinds
<1>2. \A r \in Others(c, u) : r \notin c[u]
  BY OthersApart
<1>3. \A r : r \in Remains(c[u], k + 1) <=> r \in Remains(c[u], k) /\ r.table # Store!Deletions[k]
  <2>1. (k + 1) - 1 = k /\ 1 .. k = 1 .. (k - 1) \cup {k}
    OBVIOUS
  <2> QED
    BY <2>1 DEF Remains
<1>4. \A r \in Remains(c[u], k) : r \in c[u]
  BY DEF Remains
<1>5. work \ Store!Deleted(Store!Deletions[k], u, work) = Others(c, u) \cup Remains(c[u], k + 1)
  BY <1>1, <1>2, <1>3, <1>4
<1>6. k = 12 => Remains(c[u], k + 1) = {}
  <2>1. \A r \in c[u] : r.table \in Tables
    BY ContentRows DEF Contents, Kind
  <2>2. k = 12 => (k + 1) - 1 = 12
    OBVIOUS
  <2> QED
    BY <2>1, <2>2, DeletionsAre DEF Remains
<1> QED
  BY <1>5, <1>6

\* An INSERT adds an application whose ID no other row has.
LEMMA InsertAdds ==
    ASSUME NEW work, OneParent(work), NEW q,
           \A r \in work : ~Store!SameKey(r, q)
    PROVE  OneParent(work \cup {q})
BY DEF OneParent, Store!SameKey

LEMMA NewContents ==
    ASSUME NEW c, Contents(c), NEW u \in Units, NEW C \in SUBSET RowSet, Content(C, u)
    PROVE  \E e : /\ Contents(e) /\ Stored(e) = Others(c, u) \cup C
                  /\ e[u] = C /\ \A w \in Units \ {u} : e[w] = c[w]
<1> DEFINE e == [c EXCEPT ![u] = C]
<1>1. e \in [Units -> SUBSET RowSet] /\ e[u] = C /\ \A w \in Units \ {u} : e[w] = c[w]
  BY DEF Contents
<1> HIDE DEF e
<1>2. Contents(e)
  BY <1>1 DEF Contents
<1>3. Others(e, u) = Others(c, u)
  BY <1>1 DEF Others
<1>4. Stored(e) = Others(c, u) \cup C
  BY <1>1, <1>3, StoredSplit
<1> QED
  BY <1>1, <1>2, <1>4

-----------------------------------------------------------------------------
(* The invariant of the writer: between calls the index has the contents d; *)
(* in a transaction its work is on the way from d to what was asked for,    *)
(* one unit after another.                                                  *)

EntrySet == Units \X (Snapshots \cup {None})

\* What a transaction is begun with: each unit once, and snapshots of that unit.
Asked(es) ==
    /\ es \in Seq(EntrySet) /\ Len(es) >= 1
    /\ \A i, j \in 1 .. Len(es) : es[i][1] = es[j][1] => i = j
    /\ \A i \in 1 .. Len(es) : es[i][2] # None => UnitOf[es[i][2]] = es[i][1]

NewRows(x) == IF x = None THEN {} ELSE AllRows(x)

\* c is d with the units of the first n entries replaced.
Replaced(c, d, es, n) ==
    /\ \A i \in 1 .. n : c[es[i][1]] = NewRows(es[i][2])
    /\ \A u \in Units : (\A i \in 1 .. n : es[i][1] # u) => c[u] = d[u]

TxSet == [pc : {"idle", "delete", "insert", "commit"}, work : SUBSET RowSet,
          entries : Seq(EntrySet), entry : Nat \ {0}, next : Nat \ {0}]

Writing(c, d) ==
    /\ Contents(c)
    /\ tx.pc \in {"delete", "insert"} =>
           tx.entry \in 1 .. Len(tx.entries) /\ Replaced(c, d, tx.entries, tx.entry - 1)
    /\ tx.pc = "delete" =>
           /\ OneParent(Stored(c)) /\ tx.next \in 1 .. 12
           /\ tx.work = Others(c, Store!Unit) \cup Remains(c[Store!Unit], tx.next)
    /\ tx.pc = "insert" =>
           /\ OneParent(tx.work) /\ Store!Snapshot # None
           /\ tx.next \in 1 .. Size(Store!Snapshot)
           /\ tx.work = Others(c, Store!Unit) \cup Prefix(Store!Snapshot, tx.next)
    /\ tx.pc = "commit" =>
           /\ OneParent(Stored(c)) /\ tx.work = Stored(c)
           /\ Replaced(c, d, tx.entries, Len(tx.entries))

\* What the index has, and how far the writer is.
Committed(d) ==
    /\ Contents(d) /\ OneParent(Stored(d))
    /\ rows = Stored(d)
    /\ tx.pc # "idle" =>
           /\ Asked(tx.entries)
           /\ \E c : Writing(c, d)

Shape ==
    /\ rows \subseteq RowSet /\ tx \in TxSet /\ result \in {"none", "ok", "error"}
    /\ blank \subseteq Units
    /\ tx.pc = "idle" => tx.entries = << >>
    /\ tx.pc # "idle" => result = "none"

SInv == Shape /\ \E d : Committed(d)

\* Where a statement leaves the transaction.
TxAt(q, place, work, entry, n) ==
    /\ q \in TxSet /\ q.pc = place /\ q.work = work /\ q.next = n
    /\ q.entry = entry /\ q.entries = tx.entries

LEMMA TxMoves ==
    ASSUME tx \in TxSet, NEW work \in SUBSET RowSet, NEW n \in Nat \ {0}
    PROVE  /\ \A place \in {"delete", "insert", "commit"} :
                  tx' = [tx EXCEPT !.pc = place, !.work = work, !.next = n]
                    => TxAt(tx', place, work, tx.entry, n)
           /\ tx' = [tx EXCEPT !.work = work, !.next = n]
                => TxAt(tx', tx.pc, work, tx.entry, n)
           /\ tx' = [tx EXCEPT !.pc = "delete", !.work = work, !.entry = tx.entry + 1, !.next = n]
                => TxAt(tx', "delete", work, tx.entry + 1, n)
<1> DEFINE Works == SUBSET RowSet
           Lists == Seq(EntrySet)
           Counts == Nat \ {0}
<1>1. TxSet = [pc : {"idle", "delete", "insert", "commit"}, work : Works,
               entries : Lists, entry : Counts, next : Counts]
  BY DEF TxSet
<1>2. work \in Works /\ n \in Counts
  OBVIOUS
<1>3. tx.entry \in Counts
  BY DEF TxSet
<1>4. \A m \in Counts : m + 1 \in Counts
  OBVIOUS
<1> HIDE DEF Works, Lists, Counts
<1>5. ASSUME NEW place \in {"delete", "insert", "commit"},
             tx' = [tx EXCEPT !.pc = place, !.work = work, !.next = n]
      PROVE  TxAt(tx', place, work, tx.entry, n)
  BY <1>1, <1>2, <1>5 DEF TxAt
<1>6. ASSUME tx' = [tx EXCEPT !.work = work, !.next = n]
      PROVE  TxAt(tx', tx.pc, work, tx.entry, n)
  BY <1>1, <1>2, <1>6 DEF TxAt
<1>7. ASSUME tx' = [tx EXCEPT !.pc = "delete", !.work = work, !.entry = tx.entry + 1, !.next = n]
      PROVE  TxAt(tx', "delete", work, tx.entry + 1, n)
  <2>1. tx.entry + 1 \in Counts
    BY <1>3, <1>4
  <2> QED
    BY <1>1, <1>2, <1>7, <2>1 DEF TxAt
<1> QED
  BY <1>5, <1>6, <1>7

LEMMA IdleTx == Store!Idle \in TxSet /\ Store!Idle.pc = "idle" /\ Store!Idle.entries = << >>
BY DEF Store!Idle, TxSet

\* The entry a transaction is at.
LEMMA AtEntry ==
    ASSUME Shape, Asked(tx.entries), tx.entry \in 1 .. Len(tx.entries)
    PROVE  /\ Store!Unit = tx.entries[tx.entry][1] /\ Store!Snapshot = tx.entries[tx.entry][2]
           /\ Store!Unit \in Units
           /\ Store!Snapshot # None =>
                  Store!Snapshot \in Snapshots /\ UnitOf[Store!Snapshot] = Store!Unit
           /\ \A i \in 1 .. (tx.entry - 1) : tx.entries[i][1] # Store!Unit
<1>1. tx.entries \in Seq(EntrySet)
  BY DEF Asked
<1>2. tx.entries[tx.entry] \in EntrySet
  BY <1>1
<1>3. \A i \in 1 .. (tx.entry - 1) : i \in 1 .. Len(tx.entries) /\ i # tx.entry
  BY <1>1
<1> QED
  BY <1>2, <1>3 DEF Asked, EntrySet, Store!Unit, Store!Snapshot

\* The rows of the unit are those that were asked for.
LEMMA ReplacedOne ==
    ASSUME Shape, Asked(tx.entries), tx.entry \in 1 .. Len(tx.entries), NEW c, NEW d, NEW e,
           Replaced(c, d, tx.entries, tx.entry - 1),
           e[Store!Unit] = NewRows(Store!Snapshot),
           \A w \in Units \ {Store!Unit} : e[w] = c[w]
    PROVE  Replaced(e, d, tx.entries, tx.entry)
<1>1. tx.entry \in Nat /\ 1 .. tx.entry = 1 .. (tx.entry - 1) \cup {tx.entry}
  BY DEF Shape, TxSet
<1>2. \A i \in 1 .. (tx.entry - 1) : tx.entries[i][1] \in Units /\ tx.entries[i][1] # Store!Unit
  <2> SUFFICES ASSUME NEW i \in 1 .. (tx.entry - 1)
               PROVE  tx.entries[i][1] \in Units /\ tx.entries[i][1] # Store!Unit
    OBVIOUS
  <2>1. i \in 1 .. Len(tx.entries) /\ tx.entries \in Seq(EntrySet)
    BY <1>1 DEF Asked
  <2>2. tx.entries[i] \in EntrySet
    BY <2>1
  <2> QED
    BY <2>2, AtEntry DEF EntrySet
<1>3. Store!Unit = tx.entries[tx.entry][1] /\ Store!Snapshot = tx.entries[tx.entry][2]
  BY AtEntry
<1>4. ASSUME NEW i \in 1 .. tx.entry PROVE e[tx.entries[i][1]] = NewRows(tx.entries[i][2])
  <2>1. CASE i = tx.entry
    BY <1>3, <2>1
  <2>2. CASE i \in 1 .. (tx.entry - 1)
    BY <1>2, <2>2 DEF Replaced
  <2> QED
    BY <1>1, <2>1, <2>2
<1>5. ASSUME NEW u \in Units, \A i \in 1 .. tx.entry : tx.entries[i][1] # u PROVE e[u] = d[u]
  <2>1. u # Store!Unit /\ \A i \in 1 .. (tx.entry - 1) : tx.entries[i][1] # u
    BY <1>1, <1>3, <1>5
  <2> QED
    BY <2>1 DEF Replaced
<1> QED
  BY <1>4, <1>5 DEF Replaced

\* The entry is done.
LEMMA NextEntryKeeps ==
    ASSUME Shape, Asked(tx.entries), tx.entry \in 1 .. Len(tx.entries), NEW c, NEW d,
           Contents(c), Replaced(c, d, tx.entries, tx.entry),
           NEW work \in SUBSET RowSet, work = Stored(c), OneParent(work), Store!NextEntry(work)
    PROVE  tx' \in TxSet /\ Writing(c, d)' /\ tx'.pc # "idle" /\ tx'.entries = tx.entries
<1>1. tx \in TxSet /\ tx.entry \in Nat /\ 1 \in Nat \ {0}
  BY DEF Shape, TxSet
<1>2. CASE tx.entry = Len(tx.entries)
  <2>1. tx' = [tx EXCEPT !.pc = "commit", !.work = work, !.next = 1]
    BY <1>2 DEF Store!NextEntry
  <2>2. TxAt(tx', "commit", work, tx.entry, 1)
    BY <1>1, <2>1, TxMoves
  <2> QED
    BY <1>2, <2>2 DEF Writing, TxAt
<1>3. CASE tx.entry # Len(tx.entries)
  <2>1. tx' = [tx EXCEPT !.pc = "delete", !.work = work, !.entry = tx.entry + 1, !.next = 1]
    BY <1>3 DEF Store!NextEntry
  <2>0. TxAt(tx', "delete", work, tx.entry + 1, 1)
    BY <1>1, <2>1, TxMoves
  <2>2. /\ tx' \in TxSet /\ tx'.pc = "delete" /\ tx'.work = work
        /\ tx'.entries = tx.entries /\ tx'.entry = tx.entry + 1 /\ tx'.next = 1
    BY <2>0 DEF TxAt
  <2>3. tx.entries \in Seq(EntrySet) /\ Len(tx.entries) \in Nat
    BY DEF Asked
  <2>4. tx'.entry \in 1 .. Len(tx'.entries) /\ tx'.entry - 1 = tx.entry
    BY <1>1, <1>3, <2>2, <2>3
  <2>5. tx'.entries[tx'.entry] \in EntrySet
    BY <2>2, <2>3, <2>4
  <2>6. Store!Unit' \in Units
    BY <2>5 DEF EntrySet, Store!Unit
  <2>7. Remains(c[Store!Unit'], 1) = c[Store!Unit']
    BY DEF Remains
  <2>8. work = Others(c, Store!Unit') \cup Remains(c[Store!Unit'], 1)
    BY <2>6, <2>7, StoredSplit
  <2> QED
    BY <2>2, <2>4, <2>8 DEF Writing
<1> QED
  BY <1>2, <1>3

LEMMA BeginKeeps ==
    ASSUME Shape, NEW d, Committed(d), NEW es, Asked(es), Store!Begin(es), blank' \subseteq Units
    PROVE  Shape' /\ Committed(d)' /\ tx'.entries = es
<1>1. /\ tx' = [pc |-> "delete", work |-> rows, entries |-> es, entry |-> 1, next |-> 1]
      /\ result' = "none" /\ rows' = rows
  BY DEF Store!Begin
<1>2. /\ tx'.pc = "delete" /\ tx'.work = rows /\ tx'.entries = es
      /\ tx'.entry = 1 /\ tx'.next = 1
  BY <1>1
<1>3. tx' \in TxSet
  BY <1>1 DEF TxSet, Asked, Shape
<1>4. Shape'
  BY <1>1, <1>2, <1>3 DEF Shape
<1>5. es \in Seq(EntrySet) /\ 1 \in 1 .. Len(es)
  BY DEF Asked
<1>6. Store!Unit' \in Units
  <2>1. es[1] \in EntrySet
    BY <1>5
  <2> QED
    BY <1>2, <2>1 DEF EntrySet, Store!Unit
<1>7. rows = Stored(d) /\ Contents(d) /\ OneParent(Stored(d))
  BY DEF Committed
<1>8. rows = Others(d, Store!Unit') \cup Remains(d[Store!Unit'], 1)
  <2>1. Remains(d[Store!Unit'], 1) = d[Store!Unit']
    BY DEF Remains
  <2> QED
    BY <1>6, <1>7, <2>1, StoredSplit
<1>9. Replaced(d, d, es, 0)
  BY DEF Replaced
<1>10. Writing(d, d)'
  BY <1>2, <1>5, <1>7, <1>8, <1>9 DEF Writing
<1> QED
  BY <1>1, <1>2, <1>4, <1>7, <1>10 DEF Committed

\* What a statement of the transaction needs to know.
LEMMA StatementKeeps ==
    ASSUME Shape, NEW d, Committed(d), tx.pc # "idle", UNCHANGED <<rows, result>>,
           blank' \subseteq Units,
           tx' \in TxSet, tx'.pc # "idle", tx'.entries = tx.entries,
           NEW c, Writing(c, d)'
    PROVE  Shape' /\ Committed(d)'
BY DEF Shape, Committed

LEMMA DeleteKeeps ==
    ASSUME Shape, NEW d, Committed(d), Store!Delete, blank' \subseteq Units
    PROVE  Shape' /\ Committed(d)' /\ tx'.entries = tx.entries
<1> DEFINE u == Store!Unit
           k == tx.next
           work == tx.work \ Store!Deleted(Store!Deletions[k], u, tx.work)
<1>1. tx.pc = "delete" /\ UNCHANGED <<rows, result>> /\ tx.pc # "idle"
  BY DEF Store!Delete
<1>2. Asked(tx.entries) /\ rows = Stored(d) /\ Contents(d)
  BY <1>1 DEF Committed
<1>3. PICK c : Writing(c, d)
  BY <1>1 DEF Committed
<1>4. /\ Contents(c) /\ OneParent(Stored(c)) /\ k \in 1 .. 12
      /\ tx.entry \in 1 .. Len(tx.entries) /\ Replaced(c, d, tx.entries, tx.entry - 1)
      /\ tx.work = Others(c, u) \cup Remains(c[u], k)
  BY <1>1, <1>3 DEF Writing
<1>5. u \in Units
  BY <1>2, <1>4, AtEntry
<1>6. /\ work = Others(c, u) \cup Remains(c[u], k + 1)
      /\ k = 12 => work = Others(c, u)
  <2> DEFINE before == tx.work
  <2>1. before = Others(c, u) \cup Remains(c[u], k)
    BY <1>4
  <2>2. work = before \ Store!Deleted(Store!Deletions[k], u, before)
    OBVIOUS
  <2> HIDE DEF before, u, k
  <2> QED
    BY <1>4, <1>5, <2>1, <2>2, DeleteLeaves
<1>7. tx \in TxSet /\ tx.work \subseteq RowSet /\ work \in SUBSET RowSet
  BY DEF Shape, TxSet
<1>8. \/ k < 12 /\ tx' = [tx EXCEPT !.work = work, !.next = k + 1]
      \/ /\ k = 12 /\ Store!Snapshot # None
         /\ tx' = [tx EXCEPT !.pc = "insert", !.work = work, !.next = 1]
      \/ k = 12 /\ Store!Snapshot = None /\ Store!NextEntry(work)
  BY <1>4, DeletionsAre DEF Store!Delete
<1> HIDE DEF work, k, u
<1>9. CASE k < 12 /\ tx' = [tx EXCEPT !.work = work, !.next = k + 1]
  <2>1. k + 1 \in Nat \ {0} /\ k + 1 \in 1 .. 12
    BY <1>4, <1>9
  <2>2. TxAt(tx', tx.pc, work, tx.entry, k + 1)
    BY <1>7, <1>9, <2>1, TxMoves
  <2>3. /\ tx' \in TxSet /\ tx'.pc = "delete" /\ tx'.work = work
        /\ tx'.entries = tx.entries /\ tx'.entry = tx.entry /\ tx'.next = k + 1
    BY <1>1, <2>2 DEF TxAt
  <2>4. Store!Unit' = u
    BY <2>3 DEF Store!Unit, u
  <2>5. Writing(c, d)'
    BY <1>4, <1>6, <2>1, <2>3, <2>4 DEF Writing
  <2> QED
    BY <1>1, <2>3, <2>5, StatementKeeps
<1>10. CASE /\ k = 12 /\ Store!Snapshot # None
            /\ tx' = [tx EXCEPT !.pc = "insert", !.work = work, !.next = 1]
  <2>1. 1 \in Nat \ {0}
    OBVIOUS
  <2>2. TxAt(tx', "insert", work, tx.entry, 1)
    BY <1>7, <1>10, <2>1, TxMoves
  <2>3. /\ tx' \in TxSet /\ tx'.pc = "insert" /\ tx'.work = work
        /\ tx'.entries = tx.entries /\ tx'.entry = tx.entry /\ tx'.next = 1
    BY <2>2 DEF TxAt
  <2>4. Store!Unit' = u /\ Store!Snapshot' = Store!Snapshot
    BY <2>3 DEF Store!Unit, Store!Snapshot, u
  <2>5. Store!Snapshot \in Snapshots
    BY <1>2, <1>4, <1>10, AtEntry
  <2>6. 1 \in 1 .. Size(Store!Snapshot) /\ Prefix(Store!Snapshot, 1) = {}
    BY <2>5, RowsAre DEF Prefix
  <2>7. work = Others(c, u) \cup Prefix(Store!Snapshot, 1) /\ work \subseteq Stored(c)
    BY <1>5, <1>6, <1>10, <2>6, StoredSplit
  <2>8. OneParent(work)
    BY <1>4, <2>7 DEF OneParent
  <2>9. Writing(c, d)'
    BY <1>4, <1>10, <2>3, <2>4, <2>6, <2>7, <2>8 DEF Writing
  <2> QED
    BY <1>1, <2>3, <2>9, StatementKeeps
<1>11. CASE k = 12 /\ Store!Snapshot = None /\ Store!NextEntry(work)
  <2> DEFINE nothing == {}
  <2>1. Content(nothing, u) /\ nothing \in SUBSET RowSet
    BY DEF Content
  <2> HIDE DEF nothing
  <2>0. PICK e : /\ Contents(e) /\ Stored(e) = Others(c, u) \cup nothing
                 /\ e[u] = nothing /\ \A w \in Units \ {u} : e[w] = c[w]
    BY <1>4, <1>5, <2>1, NewContents
  <2>2. /\ Contents(e) /\ Stored(e) = Others(c, u) /\ e[u] = {}
        /\ \A w \in Units \ {u} : e[w] = c[w]
    BY <2>0 DEF nothing
  <2>3. NewRows(Store!Snapshot) = {}
    BY <1>11 DEF NewRows
  <2>4. Replaced(e, d, tx.entries, tx.entry)
    BY <1>2, <1>4, <2>2, <2>3, ReplacedOne DEF u
  <2>5. work = Stored(e) /\ Others(c, u) \subseteq Stored(c)
    BY <1>5, <1>6, <1>11, <2>2, StoredSplit
  <2>6. OneParent(work)
    BY <1>4, <1>6, <1>11, <2>5 DEF OneParent
  <2>7. tx' \in TxSet /\ Writing(e, d)' /\ tx'.pc # "idle" /\ tx'.entries = tx.entries
    BY <1>2, <1>4, <1>7, <1>11, <2>2, <2>4, <2>5, <2>6, NextEntryKeeps
  <2> QED
    BY <1>1, <2>7, StatementKeeps
<1> QED
  BY <1>8, <1>9, <1>10, <1>11

LEMMA PrefixGrows ==
    ASSUME NEW s \in Snapshots, NEW i \in 1 .. Size(s)
    PROVE  /\ Prefix(s, i + 1) = Prefix(s, i) \cup {RowAt(s, i)}
           /\ i = Size(s) => Prefix(s, i + 1) = AllRows(s)
           /\ RowAt(s, i) \in RowSet
<1>1. (i + 1) - 1 = i /\ 1 .. i = 1 .. (i - 1) \cup {i}
  OBVIOUS
<1>2. Prefix(s, i + 1) = Prefix(s, i) \cup {RowAt(s, i)}
  BY <1>1 DEF Prefix
<1>3. i = Size(s) => Prefix(s, i + 1) = AllRows(s)
  BY <1>1, RowsAre DEF Prefix, AllRows, RowAt, Store!Elements
<1> QED
  BY <1>2, <1>3, RowKinds DEF Kind

LEMMA InsertKeeps ==
    ASSUME Shape, NEW d, Committed(d), Store!Insert, blank' \subseteq Units
    PROVE  Shape' /\ Committed(d)' /\ tx'.entries = tx.entries
<1> DEFINE u == Store!Unit
           s == Store!Snapshot
           i == tx.next
           work == tx.work \cup {RowAt(s, i)}
<1>1. /\ tx.pc = "insert" /\ UNCHANGED <<rows, result>> /\ tx.pc # "idle"
      /\ \A r \in tx.work : ~Store!SameKey(r, RowAt(s, i))
  BY DEF Store!Insert, Store!Insertable, RowAt
<1>2. Asked(tx.entries) /\ rows = Stored(d) /\ Contents(d)
  BY <1>1 DEF Committed
<1>3. PICK c : Writing(c, d)
  BY <1>1 DEF Committed
<1>4. /\ Contents(c) /\ OneParent(tx.work) /\ s # None /\ i \in 1 .. Size(s)
      /\ tx.entry \in 1 .. Len(tx.entries) /\ Replaced(c, d, tx.entries, tx.entry - 1)
      /\ tx.work = Others(c, u) \cup Prefix(s, i)
  BY <1>1, <1>3 DEF Writing
<1>5. u \in Units /\ s \in Snapshots /\ UnitOf[s] = u
  BY <1>2, <1>4, AtEntry
<1>6. /\ tx \in TxSet /\ work \in SUBSET RowSet /\ i \in Nat /\ Size(s) \in Nat
      /\ work = Others(c, u) \cup Prefix(s, i + 1)
  <2>1. RowAt(s, i) \in RowSet /\ Prefix(s, i + 1) = Prefix(s, i) \cup {RowAt(s, i)}
    BY <1>4, <1>5, PrefixGrows
  <2>2. tx \in TxSet /\ tx.work \subseteq RowSet /\ i \in Nat /\ Size(s) \in Nat
    BY <1>5, RowsAre DEF Shape, TxSet
  <2> QED
    BY <1>4, <2>1, <2>2
<1>7. OneParent(work)
  <2> DEFINE before == tx.work
             q == RowAt(s, i)
  <2>1. OneParent(before) /\ (\A r \in before : ~Store!SameKey(r, q)) /\ work = before \cup {q}
    BY <1>1, <1>4
  <2> HIDE DEF before, q, work
  <2> QED
    BY <2>1, InsertAdds
<1>8. \/ i < Size(s) /\ tx' = [tx EXCEPT !.work = work, !.next = i + 1]
      \/ ~(i < Size(s)) /\ Store!NextEntry(work)
  BY DEF Store!Insert, Size, RowAt
<1> HIDE DEF work, i, u, s
<1>9. CASE i < Size(s) /\ tx' = [tx EXCEPT !.work = work, !.next = i + 1]
  <2>1. i + 1 \in Nat \ {0} /\ i + 1 \in 1 .. Size(s)
    BY <1>4, <1>6, <1>9
  <2>2. TxAt(tx', tx.pc, work, tx.entry, i + 1)
    BY <1>6, <1>9, <2>1, TxMoves
  <2>3. /\ tx' \in TxSet /\ tx'.pc = "insert" /\ tx'.work = work
        /\ tx'.entries = tx.entries /\ tx'.entry = tx.entry /\ tx'.next = i + 1
    BY <1>1, <2>2 DEF TxAt
  <2>4. Store!Unit' = u /\ Store!Snapshot' = s
    BY <2>3 DEF Store!Unit, Store!Snapshot, u, s
  <2>5. Writing(c, d)'
    BY <1>4, <1>6, <1>7, <2>1, <2>3, <2>4 DEF Writing
  <2> QED
    BY <1>1, <2>3, <2>5, StatementKeeps
<1>10. CASE ~(i < Size(s)) /\ Store!NextEntry(work)
  <2>1. i = Size(s)
    BY <1>4, <1>6, <1>10
  <2>2. work = Others(c, u) \cup AllRows(s)
    BY <1>4, <1>5, <1>6, <2>1, PrefixGrows
  <2>3. Content(AllRows(s), u) /\ AllRows(s) \in SUBSET RowSet
    BY <1>5, WholeContent
  <2>4. PICK e : /\ Contents(e) /\ Stored(e) = Others(c, u) \cup AllRows(s)
                 /\ e[u] = AllRows(s) /\ \A w \in Units \ {u} : e[w] = c[w]
    BY <1>4, <1>5, <2>3, NewContents
  <2>5. NewRows(s) = AllRows(s)
    BY <1>4 DEF NewRows
  <2>6. Replaced(e, d, tx.entries, tx.entry)
    BY <1>2, <1>4, <2>4, <2>5, ReplacedOne DEF u, s
  <2>7. tx' \in TxSet /\ Writing(e, d)' /\ tx'.pc # "idle" /\ tx'.entries = tx.entries
    BY <1>2, <1>4, <1>6, <1>7, <1>10, <2>2, <2>4, <2>6, NextEntryKeeps
  <2> QED
    BY <1>1, <2>7, StatementKeeps
<1> QED
  BY <1>8, <1>9, <1>10

\* What is committed is what was asked for, and the rest as it was.
LEMMA CommitKeeps ==
    ASSUME Shape, NEW d, Committed(d), Store!Commit, blank' \subseteq Units
    PROVE  Shape' /\ \E c : /\ Committed(c)' /\ rows' = Stored(c)
                            /\ Replaced(c, d, tx.entries, Len(tx.entries))
<1>1. /\ tx.pc = "commit" /\ tx.pc # "idle" /\ rows' = tx.work /\ tx' = Store!Idle
      /\ result' = "ok"
  BY DEF Store!Commit
<1>2. PICK c : Writing(c, d)
  BY <1>1 DEF Committed
<1>3. /\ Contents(c) /\ OneParent(Stored(c)) /\ tx.work = Stored(c)
      /\ Replaced(c, d, tx.entries, Len(tx.entries))
  BY <1>1, <1>2 DEF Writing
<1>4. tx.work \subseteq RowSet
  BY DEF Shape, TxSet
<1>5. Shape'
  BY <1>1, <1>4, IdleTx DEF Shape
<1>7. Committed(c)'
  BY <1>1, <1>3, IdleTx DEF Committed
<1> QED
  BY <1>1, <1>3, <1>5, <1>7

\* A call that ends without a COMMIT has replaced nothing.
LEMMA EndKeepsStore ==
    ASSUME Shape, NEW d, Committed(d), blank' \subseteq Units,
           \/ Store!RollBack \/ Store!Crash
           \/ \E b \in Batches : Store!RefuseSnapshots(b)
    PROVE  Shape' /\ Committed(d)' /\ rows' = rows /\ tx'.pc = "idle" /\ tx'.entries = << >>
<1>1. /\ rows' = rows /\ tx'.pc = "idle" /\ tx'.entries = << >> /\ tx' \in TxSet
      /\ result' = result \/ result' = "error"
  BY IdleTx DEF Store!RollBack, Store!Crash, Store!RefuseSnapshots, Shape
<1>2. Shape'
  BY <1>1 DEF Shape
<1> QED
  BY <1>1, <1>2 DEF Committed

\* What is begun with.
LEMMA BatchIsAsked ==
    ASSUME NEW b \in Batches, \A i \in DOMAIN b : Store!Valid(b[i][1], b[i][2])
    PROVE  Asked(b)
<1>1. /\ b # << >> /\ b \in Seq(Units \X Snapshots)
      /\ \A i, j \in DOMAIN b : b[i][1] = b[j][1] => i = j
  BY IndexAssumption DEF Store!StoreAssumption
<1>2. /\ Len(b) \in Nat /\ DOMAIN b = 1 .. Len(b) /\ Len(b) >= 1
      /\ \A i \in 1 .. Len(b) : b[i] \in Units \X Snapshots
  BY <1>1
<1>3. \A i \in 1 .. Len(b) : b[i] \in EntrySet
  BY <1>2 DEF EntrySet
<1>4. b \in Seq(EntrySet)
  <2>1. b = [i \in 1 .. Len(b) |-> b[i]]
    BY <1>1, <1>2
  <2> QED
    BY <1>2, <1>3, <2>1
<1>5. \A i \in 1 .. Len(b) : UnitOf[b[i][2]] = b[i][1]
  BY <1>2 DEF Store!Valid
<1> QED
  BY <1>1, <1>2, <1>4, <1>5 DEF Asked

LEMMA RemovalIsAsked ==
    ASSUME NEW u \in Units
    PROVE  Asked(<< <<u, None>> >>)
<1> DEFINE es == << <<u, None>> >>
<1>1. <<u, None>> \in EntrySet
  BY DEF EntrySet
<1>2. es \in Seq(EntrySet) /\ Len(es) = 1 /\ es[1] = <<u, None>>
  BY <1>1
<1>3. 1 .. Len(es) = {1}
  BY <1>2
<1> HIDE DEF es
<1>4. Asked(es)
  BY <1>2, <1>3 DEF Asked
<1> QED
  BY <1>4 DEF es

-----------------------------------------------------------------------------
(* The writer among the processes that migrate: provenance is copied before *)
(* the last version is recorded, and nothing is written before that.        *)

\* Process p is where it records that provenance is copied.
AtLast(o) == o.pc = "record" /\ o.version = 15

Copied ==
    /\ Unblanked(rows)
    /\ 15 \in recorded => AllCopied(rows)
    /\ \A p \in Openers : AtLast(opener[p]) => AllCopied(rows)
    /\ tx.pc # "idle" => recorded = Versions

XInv == IInv /\ SInv /\ Copied

LEMMA UseMeansCopied ==
    ASSUME IInv, Copied, InUse
    PROVE  recorded = Versions /\ AllCopied(rows)
<1>1. recorded = Versions
  BY DEF IInv, InUse, Progress
<1> QED
  BY <1>1 DEF Copied, Versions

\* The last version is recorded by the process that is there, and a process comes
\* there from the copy.
LEMMA StepRecords ==
    ASSUME IInv, NEW p \in Openers, Step(p)
    PROVE  /\ recorded \subseteq recorded'
           /\ 15 \in recorded' => 15 \in recorded \/ AtLast(opener[p])
           /\ \A q \in Openers : AtLast(opener'[q]) => AtLast(opener[q]) \/ Copying(p)
<1> DEFINE Goal == /\ recorded \subseteq recorded'
                   /\ 15 \in recorded' => 15 \in recorded \/ AtLast(opener[p])
                   /\ \A q \in Openers : AtLast(opener'[q]) => AtLast(opener[q]) \/ Copying(p)
<1>1. opener \in [Openers -> OpenerState] /\ opener[p].version \in Versions
  BY DEF IInv, TypeOK, OpenerState
<1>2. ASSUME recorded' = recorded, NEW o, opener' = [opener EXCEPT ![p] = o],
             o.pc # "record"
      PROVE  Goal
  BY <1>1, <1>2 DEF AtLast
<1>3. CASE Open(p)
  <2>1. recorded' = recorded
    BY <1>3 DEF Open
  <2>2. ASSUME NEW q \in Openers, AtLast(opener'[q]) PROVE AtLast(opener[q])
    <3>1. CASE q = p
      <4>1. opener'[q].pc = "tables"
        BY <1>3, <3>1 DEF Open
      <4> QED
        BY <2>2, <4>1 DEF AtLast
    <3>2. CASE q # p
      <4>1. opener'[q] = [opener[q] EXCEPT !.alone = @ /\ opener[q].pc \notin Migrating]
        BY <1>3, <3>2 DEF Open
      <4>2. opener'[q].pc = opener[q].pc /\ opener'[q].version = opener[q].version
        BY <1>1, <4>1 DEF OpenerState
      <4> QED
        BY <2>2, <4>2 DEF AtLast
    <3> QED
      BY <3>1, <3>2
  <2> QED
    BY <2>1, <2>2
<1>4. CASE CreateTables(p)
  <2> DEFINE o == IF opener[p].next = Len(MIGRATION_1)
                  THEN [opener[p] EXCEPT !.pc = "format", !.next = 1]
                  ELSE [opener[p] EXCEPT !.next = opener[p].next + 1]
  <2>1. opener[p].pc = "tables" /\ recorded' = recorded /\ opener' = [opener EXCEPT ![p] = o]
    BY <1>4 DEF CreateTables, RunStatement
  <2>2. o.pc # "record"
    BY <1>1, <2>1 DEF OpenerState
  <2> QED
    BY <1>2, <2>1, <2>2
<1>5. ASSUME recorded' = recorded, Fail(p) PROVE Goal
  <2> DEFINE o == [opener[p] EXCEPT !.pc = "failed", !.version = 1, !.next = 1]
  <2>1. o.pc # "record" /\ opener' = [opener EXCEPT ![p] = o]
    BY <1>1, <1>5 DEF Fail, OpenerState
  <2> QED
    BY <1>2, <1>5, <2>1
<1>6. ASSUME recorded' = recorded, NEW place, place # "record", Goto(p, place) PROVE Goal
  <2> DEFINE o == [opener[p] EXCEPT !.pc = place]
  <2>1. o.pc # "record" /\ opener' = [opener EXCEPT ![p] = o]
    BY <1>1, <1>6 DEF Goto, OpenerState
  <2> QED
    BY <1>2, <1>6, <2>1
<1>7. ASSUME NEW v, NextVersion(p, v)
      PROVE  \A q \in Openers : AtLast(opener'[q]) => AtLast(opener[q])
  <2> DEFINE o == IF v = 15 THEN [Closed EXCEPT !.pc = "open"]
                  ELSE [opener[p] EXCEPT !.pc = "check", !.version = v + 1]
  <2>1. opener' = [opener EXCEPT ![p] = o]
    BY <1>7 DEF NextVersion
  <2>2. o.pc # "record"
    BY <1>1 DEF Closed, OpenerState
  <2> HIDE DEF o
  <2> QED
    BY <1>1, <2>1, <2>2 DEF AtLast
<1>8. CASE ReadFormat(p) \/ WriteFormat(p)
  <2>1. recorded' = recorded /\ (Fail(p) \/ Goto(p, "stamp") \/ Goto(p, "first"))
    BY <1>8 DEF ReadFormat, WriteFormat
  <2> QED
    BY <1>5, <1>6, <2>1
<1>9. CASE RecordFirst(p)
  <2>1. recorded' = recorded \cup {1} /\ NextVersion(p, 1)
    BY <1>9 DEF RecordFirst
  <2> QED
    BY <1>7, <2>1
<1>10. CASE CheckVersion(p)
  <2>1. recorded' = recorded /\ (Goto(p, "apply") \/ NextVersion(p, opener[p].version))
    BY <1>10 DEF CheckVersion
  <2> QED
    BY <1>6, <1>7, <2>1
<1>11. CASE RecordVersion(p)
  <2>1. opener[p].pc = "record"
    BY <1>11 DEF RecordVersion
  <2>2. CASE opener[p].version \in recorded
    <3>1. recorded' = recorded /\ Fail(p)
      BY <1>11, <2>2 DEF RecordVersion
    <3> QED
      BY <1>5, <3>1
  <2>3. CASE opener[p].version \notin recorded
    <3>1. recorded' = recorded \cup {opener[p].version} /\ NextVersion(p, opener[p].version)
      BY <1>11, <2>3 DEF RecordVersion
    <3> QED
      BY <1>7, <2>1, <3>1 DEF AtLast
  <2> QED
    BY <2>2, <2>3
<1>12. CASE ApplyStatement(p)
  <2> DEFINE batch == Migrations[opener[p].version]
             o == IF opener[p].next = Len(batch)
                  THEN [opener[p] EXCEPT !.pc = "record", !.next = 1]
                  ELSE [opener[p] EXCEPT !.next = opener[p].next + 1]
  <2>1. recorded' = recorded /\ opener[p].pc = "apply"
    BY <1>12 DEF ApplyStatement
  <2>2. CASE Fail(p)
    BY <1>5, <2>1, <2>2
  <2>3. CASE RunStatement(p, batch, "record")
    <3>1. opener' = [opener EXCEPT ![p] = o]
      BY <2>3 DEF RunStatement
    <3>2. /\ o.version = opener[p].version
          /\ opener[p].next # Len(batch) => o.pc = "apply"
      BY <1>1, <2>1 DEF OpenerState
    <3> HIDE DEF o
    <3>3. ASSUME NEW q \in Openers, AtLast(opener'[q]) PROVE AtLast(opener[q]) \/ Copying(p)
      <4>1. CASE q # p
        BY <1>1, <3>1, <3>3, <4>1
      <4>2. CASE q = p
        <5>1. opener[p].version = 15 /\ opener[p].next = Len(batch)
          BY <1>1, <3>1, <3>2, <3>3, <4>2 DEF AtLast
        <5>2. Migrations[15] = MIGRATION_15 /\ Len(MIGRATION_15) = 2
              /\ MIGRATION_15[2] = Copy("source_provenance")
          BY DEF Migrations, MIGRATION_15
        <5>3. Migrations[opener[p].version][opener[p].next].op = "copy"
          BY <5>1, <5>2 DEF Copy
        <5> QED
          BY <2>1, <5>3 DEF Copying
      <4> QED
        BY <4>1, <4>2
    <3> QED
      BY <2>1, <3>3
  <2> QED
    BY <1>12, <2>2, <2>3 DEF ApplyStatement
<1>13. CASE Close(p) \/ Kill(p)
  <2>1. recorded' = recorded /\ opener' = [opener EXCEPT ![p] = Closed] /\ Closed.pc # "record"
    BY <1>13, ClosedState DEF Close, Kill
  <2> QED
    BY <1>2, <2>1
<1> QED
  BY <1>3, <1>4, <1>8, <1>9, <1>10, <1>11, <1>12, <1>13 DEF Step

\* A transaction writes both rows of a snapshot, and leaves those of other units.
LEMMA CommitCopies ==
    ASSUME NEW d, Contents(d), NEW c, Contents(c), rows = Stored(d), rows' = Stored(c),
           Asked(tx.entries), Replaced(c, d, tx.entries, Len(tx.entries)),
           blank' = blank \ DOMAIN Store!Request, AllCopied(rows), Unblanked(rows)
    PROVE  AllCopied(rows)' /\ Unblanked(rows)'
<1> DEFINE es == tx.entries
<1>1. /\ \A u : u \in blank' <=> u \in blank /\ \A i \in 1 .. Len(es) : es[i][1] # u
      /\ \A i \in 1 .. Len(es) : es[i] \in EntrySet
  <2>1. DOMAIN es = 1 .. Len(es) /\ \A i \in 1 .. Len(es) : es[i] \in EntrySet
    BY DEF Asked
  <2>2. DOMAIN Store!Request = {es[i][1] : i \in DOMAIN es}
    BY DEF Store!Request
  <2> QED
    BY <2>1, <2>2
<1> SUFFICES ASSUME NEW r \in rows', r.table \in HeadTables
             PROVE  /\ r.table = "source_snapshots" /\ r.owner \notin blank' => Copy1(r) \in rows'
                    /\ r.table = "source_provenance" => r.owner \notin blank'
  BY DEF AllCopied, Unblanked, HeadTables
<1>2. PICK u \in Units : r \in c[u]
  BY DEF Stored
<1>3. PICK s \in Snapshots : UnitOf[s] = u /\ Part(c[u], s) /\ Kind(r, s)
  BY <1>2, ContentRows DEF Contents
<1>4. /\ r.owner = u /\ r \in RowSet
      /\ r.table = "source_snapshots" => Copy1(r) = Head2(s)
  BY <1>3, CopiedRow DEF Kind, HeadTables, Copy1
<1>5. c[u] \subseteq rows'
  BY DEF Stored
<1>6. CASE \E i \in 1 .. Len(es) : es[i][1] = u
  <2>1. PICK i \in 1 .. Len(es) : es[i][1] = u
    BY <1>6
  <2>2. c[u] = NewRows(es[i][2]) /\ es[i] \in EntrySet
    BY <1>1, <2>1 DEF Replaced
  <2>3. es[i][2] # None /\ es[i][2] \in Snapshots /\ c[u] = AllRows(es[i][2])
    BY <1>2, <2>2 DEF NewRows, EntrySet
  <2>4. es[i][2] = s
    BY <1>2, <1>3, <2>3, RowsOfSnapshot DEF Kind
  <2>5. Head2(s) \in rows'
    BY <1>5, <2>3, <2>4, HeadsAreRows
  <2> QED
    BY <1>1, <1>4, <2>1, <2>5
<1>7. CASE \A i \in 1 .. Len(es) : es[i][1] # u
  <2>1. c[u] = d[u] /\ (u \in blank' <=> u \in blank) /\ r \in rows
    BY <1>1, <1>2, <1>7 DEF Replaced, Stored
  <2>2. ASSUME r.table = "source_snapshots", u \notin blank PROVE Copy1(r) \in rows'
    <3>1. Copy1(r) \in rows
      BY <1>4, <2>1, <2>2 DEF AllCopied
    <3>2. PICK w \in Units : Copy1(r) \in d[w]
      BY <3>1 DEF Stored
    <3>3. Copy1(r).table = "source_provenance" /\ Copy1(r).owner = u
      BY <1>4, CopiedHeads
    <3>4. w = u
      BY <3>2, <3>3, ContentRows DEF Contents
    <3> QED
      BY <1>5, <2>1, <3>2, <3>4
  <2> QED
    BY <1>4, <2>1, <2>2 DEF Unblanked
<1> QED
  BY <1>6, <1>7

LEMMA StoreNextKeeps ==
    ASSUME XInv, Store!Next, UNCHANGED vars, AllCopied(rows), recorded = Versions,
           blank' = IF Store!Commit THEN blank \ DOMAIN Store!Request ELSE blank
    PROVE  XInv'
<1>1. PICK d : Committed(d)
  BY DEF XInv, SInv
<1>2. IInv' /\ Shape /\ blank' \subseteq Units
  BY DEF XInv, SInv, Shape, IInv, TypeOK, RecordedMeansApplied, vars
<1>3. ASSUME rows' = rows, ~Store!Commit PROVE Copied'
  BY <1>3 DEF XInv, Copied, vars, AllCopied, Unblanked
<1>4. ASSUME NEW es, Asked(es), Store!Begin(es) PROVE XInv'
  <2>1. Shape' /\ Committed(d)'
    BY <1>1, <1>2, <1>4, BeginKeeps
  <2>2. rows' = rows /\ ~Store!Commit
    BY <1>4 DEF Store!Begin, Store!Commit
  <2> QED
    BY <1>2, <1>3, <2>1, <2>2 DEF XInv, SInv
<1>5. CASE \E b \in Batches : Store!ReplaceSnapshots(b)
  <2>1. PICK b \in Batches : Store!ReplaceSnapshots(b)
    BY <1>5
  <2>2. Asked(b) /\ Store!Begin(b)
    BY <2>1, BatchIsAsked DEF Store!ReplaceSnapshots
  <2> QED
    BY <1>4, <2>2
<1>6. CASE \E u \in Units : Store!RemoveSnapshot(u)
  <2>1. PICK u \in Units : Store!RemoveSnapshot(u)
    BY <1>6
  <2> DEFINE es == << <<u, None>> >>
  <2>2. Asked(es) /\ Store!Begin(es)
    BY <2>1, RemovalIsAsked DEF Store!RemoveSnapshot
  <2> HIDE DEF es
  <2> QED
    BY <1>4, <2>2
<1>7. CASE Store!Delete \/ Store!Insert
  <2>1. Shape' /\ Committed(d)'
    BY <1>1, <1>2, <1>7, DeleteKeeps, InsertKeeps
  <2>2. rows' = rows /\ ~Store!Commit
    BY <1>7 DEF Store!Delete, Store!Insert, Store!Commit
  <2> QED
    BY <1>2, <1>3, <2>1, <2>2 DEF XInv, SInv
<1>8. CASE Store!RollBack \/ Store!Crash \/ \E b \in Batches : Store!RefuseSnapshots(b)
  <2>1. Shape' /\ Committed(d)' /\ rows' = rows
    BY <1>1, <1>2, <1>8, EndKeepsStore
  <2>2. ~Store!Commit
    BY <1>2, <1>8
    DEF Store!RollBack, Store!Crash, Store!RefuseSnapshots, Store!Commit, Shape
  <2> QED
    BY <1>2, <1>3, <2>1, <2>2 DEF XInv, SInv
<1>9. CASE Store!Commit
  <2>1. PICK c : Committed(c)' /\ Shape' /\ Replaced(c, d, tx.entries, Len(tx.entries))
    BY <1>1, <1>2, <1>9, CommitKeeps
  <2>2. tx.pc # "idle" /\ tx'.pc = "idle"
    BY <1>9, IdleTx DEF Store!Commit
  <2>3. /\ Contents(d) /\ Contents(c) /\ rows = Stored(d) /\ rows' = Stored(c)
        /\ Asked(tx.entries)
    BY <1>1, <2>1, <2>2 DEF Committed
  <2>4. AllCopied(rows)' /\ Unblanked(rows)'
    BY <1>9, <2>1, <2>3, CommitCopies DEF XInv, Copied
  <2>5. Copied'
    BY <2>2, <2>4 DEF Copied
  <2> QED
    BY <1>2, <2>1, <2>5 DEF XInv, SInv
<1> QED
  BY <1>5, <1>6, <1>7, <1>8, <1>9 DEF Store!Next

LEMMA WriteKeeps ==
    ASSUME XInv, Write
    PROVE  XInv'
<1>1. /\ InUse /\ Store!Next /\ UNCHANGED vars
      /\ blank' = IF Store!Commit THEN blank \ DOMAIN Store!Request ELSE blank
  BY DEF Write
<1>2. recorded = Versions /\ AllCopied(rows)
  BY <1>1, UseMeansCopied DEF XInv
<1> QED
  BY <1>1, <1>2, StoreNextKeeps

LEMMA MigrateKeeps ==
    ASSUME XInv, NEW p \in Openers, Migrate(p)
    PROVE  XInv' /\ WithProvenance(rows') = WithProvenance(rows) /\ UNCHANGED <<tx, result>>
<1>1. Step(p) /\ blank' = blank
  BY DEF Migrate
<1>2. IInv' /\ IInv /\ Shape /\ rows \in SUBSET RowSet /\ Copied
  BY <1>1, NextKeeps DEF XInv, SInv, Shape, Next
<1>3. PICK d : Committed(d)
  BY DEF XInv, SInv
<1>4. recorded \subseteq recorded' /\ recorded' \subseteq Versions
  BY <1>1, <1>2, StepRecords DEF IInv, TypeOK
<1>5. CASE Copying(p)
  <2>1. tx.pc = "idle" /\ rows' = CopyProvenance(rows) /\ UNCHANGED <<tx, result>>
    BY <1>5 DEF Migrate
  <2>2. Contents(d) /\ OneParent(Stored(d)) /\ rows = Stored(d) /\ Unblanked(Stored(d))
    BY <1>2, <1>3 DEF Committed, Copied
  <2>3. /\ AllCopied(rows') /\ Unblanked(rows') /\ rows' \subseteq RowSet
        /\ WithProvenance(rows') = WithProvenance(rows)
        /\ \E e : Contents(e) /\ OneParent(Stored(e)) /\ rows' = Stored(e)
    BY <2>1, <2>2, CopyContents
  <2>4. Shape' /\ SInv'
    BY <1>1, <1>2, <2>1, <2>3 DEF Shape, SInv, Committed
  <2>5. AllCopied(rows)' /\ Unblanked(rows)'
    BY <1>1, <2>3 DEF AllCopied, Unblanked
  <2>6. Copied'
    BY <2>1, <2>5 DEF Copied
  <2> QED
    BY <1>2, <2>1, <2>3, <2>4, <2>6 DEF XInv
<1>6. CASE ~Copying(p)
  <2>1. UNCHANGED <<rows, tx, result>>
    BY <1>6 DEF Migrate, storeVars
  <2>2. Shape' /\ SInv'
    BY <1>1, <2>1 DEF XInv, SInv, Shape, Committed, Writing, Store!Unit, Store!Snapshot
  <2>3. 15 \in recorded' => AllCopied(rows)
    BY <1>1, <1>2, StepRecords DEF Copied
  <2>4. \A q \in Openers : AtLast(opener'[q]) => AllCopied(rows)
    BY <1>1, <1>2, <1>6, StepRecords DEF Copied
  <2>5. tx.pc # "idle" => recorded' = Versions
    BY <1>2, <1>4 DEF Copied
  <2>6. (AllCopied(rows)' <=> AllCopied(rows)) /\ Unblanked(rows)'
    BY <1>1, <1>2, <2>1 DEF AllCopied, Unblanked, Copied
  <2>7. Copied'
    BY <2>1, <2>3, <2>4, <2>5, <2>6 DEF Copied
  <2> QED
    BY <1>2, <2>1, <2>2, <2>7 DEF XInv
<1> QED
  BY <1>5, <1>6

LEMMA IndexNextKeeps ==
    ASSUME XInv, [IndexNext]_indexVars
    PROVE  XInv'
<1>1. CASE UNCHANGED indexVars
  <2>1. UNCHANGED <<db, recorded, format, opener, kills, rows, tx, result, blank>>
    BY <1>1 DEF indexVars, vars, storeVars
  <2>2. IInv'
    BY <2>1 DEF XInv, IInv, TypeOK, RecordedMeansApplied
  <2>3. SInv'
    BY <2>1 DEF XInv, SInv, Shape, Committed, Writing, Store!Unit, Store!Snapshot
  <2>4. Copied'
    BY <2>1 DEF XInv, Copied, AllCopied, Unblanked
  <2> QED
    BY <2>2, <2>3, <2>4 DEF XInv
<1> QED
  BY <1>1, WriteKeeps, MigrateKeeps DEF IndexNext

\* An index that has the table of arguments has that of applications, and from
\* version 6 on it has the tables of all facts.
LEMMA TablesOfSchema ==
    ASSUME NEW k \in 0 .. 15
    PROVE  /\ "application_arguments" \in SchemaAt(k) => "applications" \in SchemaAt(k)
           /\ k >= 6 => Store!FactTables \subseteq SchemaAt(k)
<1> USE DEF Create
<1>1. 1 \in Versions /\ 3 \in Versions /\ 6 \in Versions /\ 1 .. k \in SUBSET Versions
  BY DEF Versions
<1>2. /\ Migrations[1] = MIGRATION_1 /\ Len(MIGRATION_1) = 11
      /\ Migrations[3] = MIGRATION_3 /\ Len(MIGRATION_3) = 1
      /\ Migrations[6] = MIGRATION_6 /\ Len(MIGRATION_6) = 2
  BY DEF Migrations, MIGRATION_1, MIGRATION_3, MIGRATION_6
<1>3. ASSUME NEW v \in {1, 3, 6}, NEW i \in 1 .. Len(Migrations[v]), NEW t,
             Migrations[v][i] = Create(t), v \in 1 .. k
      PROVE  t \in SchemaAt(k)
  <2>1. Create(t) \in StatementsOf({v}) /\ Create(t).op = "create" /\ Create(t).on = t
    BY <1>1, <1>3, InBatch
  <2> QED
    BY <1>3, <2>1, SchemaMembers
<1>4. 6 \in 1 .. k => "applications" \in SchemaAt(k)
  <2>1. MIGRATION_6[1] = Create("applications") /\ 1 \in 1 .. 2
    BY DEF MIGRATION_6
  <2> QED
    BY <1>2, <1>3, <2>1
<1>5. "application_arguments" \in SchemaAt(k) => 6 \in 1 .. k
  <2> SUFFICES ASSUME "application_arguments" \in SchemaAt(k) PROVE 6 \in 1 .. k
    OBVIOUS
  <2>1. PICK s \in StatementsOf(1 .. k) : s.on = "application_arguments"
    BY DEF SchemaAt, ColumnsOf
  <2>2. PICK v \in 1 .. k : s \in StatementsOf({v})
    BY <1>1, StatementsOfSome
  <2>3. PICK i \in 1 .. Len(Migrations[v]) : s = Migrations[v][i]
    BY <2>2 DEF StatementsOf
  <2>4. Placed(s, v, i)
    BY <1>1, <2>3, MigrationsPlaced DEF PlacedBatch
  <2> QED
    BY <2>1, <2>4 DEF Placed
<1>6. ASSUME k >= 6 PROVE Store!FactTables \subseteq SchemaAt(k)
  <2>1. 1 \in 1 .. k /\ 3 \in 1 .. k /\ 6 \in 1 .. k
    BY <1>6
  <2>2. /\ MIGRATION_1[5] = Create("symbols") /\ MIGRATION_1[6] = Create("occurrences")
        /\ MIGRATION_1[7] = Create("reference_edges") /\ MIGRATION_1[8] = Create("call_edges")
        /\ MIGRATION_1[9] = Create("hierarchy_edges") /\ MIGRATION_1[10] = Create("type_records")
        /\ MIGRATION_1[11] = Create("diagnostics")
    BY DEF MIGRATION_1
  <2>3. /\ MIGRATION_3[1] = Create("annotation_edges")
        /\ MIGRATION_6[1] = Create("applications")
        /\ MIGRATION_6[2] = Create("application_arguments")
    BY DEF MIGRATION_3, MIGRATION_6
  <2>4. \A i \in {5, 6, 7, 8, 9, 10, 11} : i \in 1 .. 11
    OBVIOUS
  <2>5. /\ "symbols" \in SchemaAt(k) /\ "occurrences" \in SchemaAt(k)
        /\ "reference_edges" \in SchemaAt(k) /\ "call_edges" \in SchemaAt(k)
        /\ "hierarchy_edges" \in SchemaAt(k) /\ "type_records" \in SchemaAt(k)
        /\ "diagnostics" \in SchemaAt(k)
    BY <1>2, <1>3, <2>1, <2>2, <2>4
  <2>6. 1 \in 1 .. 1 /\ 1 \in 1 .. 2 /\ 2 \in 1 .. 2
    OBVIOUS
  <2>7. /\ "annotation_edges" \in SchemaAt(k) /\ "applications" \in SchemaAt(k)
        /\ "application_arguments" \in SchemaAt(k)
    BY <1>2, <1>3, <2>1, <2>3, <2>6
  <2> QED
    BY <2>5, <2>7 DEF Store!FactTables
<1> QED
  BY <1>4, <1>5, <1>6

\* The facts that a release left, in the tables it had, are contents.
LEMMA LeftRows ==
    ASSUME NEW k \in InitialVersions, k \in 1 .. 15, NEW s \in Snapshots,
           blank \in SUBSET {UnitOf[s]}, NEW data,
           data = {r \in AllRows(s) : r.table \in SchemaAt(k)
                                     /\ (r.table = "source_provenance" => blank = {})}
    PROVE  /\ data \subseteq RowSet /\ Part(data, s) /\ Unblanked(data)
           /\ k = 15 => AllCopied(data)
<1>1. data \subseteq RowSet /\ \A r \in data : Kind(r, s) /\ r \in AllRows(s)
  BY RowsOfSnapshot DEF Kind
<1>2. Head1(s) \in data
  <2>1. "source_snapshots" \in SchemaAt(k)
    BY SchemaIsColumned
  <2> QED
    BY <2>1, HeadsAreRows DEF Head1
<1>3. ASSUME NEW r \in data, r.table = "application_arguments" PROVE \E a \in data : Parent(a, r)
  <2>1. PICK a \in AllRows(s) : Parent(a, r)
    BY <1>1, <1>3, RowsOfSnapshot
  <2>2. "applications" \in SchemaAt(k)
    <3>1. "application_arguments" \in SchemaAt(k)
      BY <1>3
    <3>2. k \in 0 .. 15
      OBVIOUS
    <3> QED
      BY <3>1, <3>2, TablesOfSchema
  <2>3. a \in data
    BY <2>1, <2>2 DEF Parent
  <2> QED
    BY <2>1, <2>3
<1>4. ASSUME Complete, NEW r \in AllRows(s), r # Head2(s) PROVE r \in data
  <2>1. k >= 6
    <3>1. k \notin 1 .. 5
      BY <1>4 DEF Complete
    <3> QED
      BY <3>1
  <2>2. Store!FactTables \subseteq SchemaAt(k)
    BY <2>1, TablesOfSchema
  <2>3. Kind(r, s)
    BY RowsOfSnapshot
  <2>4. CASE r.table = "source_provenance"
    BY <1>4, <2>3, <2>4 DEF Kind
  <2>5. CASE r.table = "source_snapshots"
    BY <1>2, <2>3, <2>5 DEF Kind
  <2>6. CASE r.table \in Store!FactTables
    <3>1. r.table # "source_provenance"
      BY <2>6 DEF Store!FactTables
    <3> QED
      BY <2>2, <2>6, <3>1
  <2> QED
    BY <2>3, <2>4, <2>5, <2>6 DEF Kind, Tables, HeadTables
<1>5. Part(data, s)
  BY <1>1, <1>2, <1>3, <1>4 DEF Part
<1>6. Unblanked(data)
  BY DEF Unblanked
<1>7. ASSUME k = 15 PROVE AllCopied(data)
  <2>1. 15 \in 1 .. 15 /\ Create("source_provenance").op = "create"
        /\ Create("source_provenance").on = "source_provenance" /\ k >= 6
    BY <1>7 DEF Create
  <2>2. "source_provenance" \in SchemaAt(k)
    BY <1>7, <2>1, SomeStatements, SchemaMembers
  <2>3. ASSUME NEW r \in data, r.table = "source_snapshots", r.owner \notin blank
        PROVE  Copy1(r) \in data
    <3>1. r = Head1(s) /\ Copy1(r) = Head2(s) /\ r.owner = UnitOf[s]
      BY <1>1, <2>3, CopiedRow DEF Kind, Copy1, Head1
    <3>2. blank = {}
      BY <2>3, <3>1
    <3>3. Head2(s) \in AllRows(s) /\ Head2(s).table = "source_provenance"
      BY HeadsAreRows DEF Head2
    <3>4. Head2(s) \in data
      BY <2>2, <3>2, <3>3
    <3> QED
      BY <3>1, <3>4
  <2> QED
    BY <2>3 DEF AllCopied
<1> QED
  BY <1>1, <1>5, <1>6, <1>7

\* A store starts with one snapshot's facts or none.
LEMMA StartsWithContents ==
    ASSUME NEW u \in Units, NEW C \in SUBSET RowSet, Content(C, u)
    PROVE  \E d : Contents(d) /\ Stored(d) = C /\ OneParent(Stored(d))
<1> DEFINE d == [w \in Units |-> IF w = u THEN C ELSE {}]
<1>1. /\ d \in [Units -> SUBSET RowSet]
      /\ d[u] = C /\ \A w \in Units \ {u} : d[w] = {}
  OBVIOUS
<1> HIDE DEF d
<1>2. ASSUME NEW w \in Units PROVE Content(d[w], w)
  <2>1. CASE w = u
    BY <1>1, <2>1
  <2>2. CASE w # u
    BY <1>1, <2>2 DEF Content
  <2> QED
    BY <2>1, <2>2
<1>3. Contents(d)
  BY <1>1, <1>2 DEF Contents
<1>5. Stored(d) = C
  BY <1>1 DEF Stored
<1>4. \A r \in C : r.table = "applications" => r.owner = u
  BY ContentRows
<1> QED
  BY <1>3, <1>4, <1>5 DEF OneParent

LEMMA IndexInitKeeps ==
    ASSUME IndexInit
    PROVE  XInv
<1>1. IInv /\ Init
  BY InitKeeps DEF IndexInit
<1>2. tx = Store!Idle /\ result = "none" /\ tx.pc = "idle" /\ tx.entries = << >>
      /\ tx \in TxSet
  BY IdleTx DEF IndexInit, Store!Init
<1>3. \A p \in Openers : ~AtLast(opener[p])
  <2>1. \A p \in Openers : opener[p] = Closed
    BY <1>1 DEF Init
  <2> QED
    BY <2>1, ClosedState DEF AtLast
<1>4. ASSUME rows \subseteq RowSet, blank \subseteq Units, NEW d, Contents(d),
             OneParent(Stored(d)), rows = Stored(d), Unblanked(rows),
             15 \in recorded => AllCopied(rows)
      PROVE  XInv
  BY <1>1, <1>2, <1>3, <1>4 DEF XInv, SInv, Shape, Committed, Copied
<1>5. CASE rows = {}
  <2> DEFINE d == [w \in Units |-> {}]
  <2>1. Contents(d) /\ Stored(d) = {} /\ OneParent(Stored(d))
    BY DEF Contents, Content, Stored, OneParent
  <2>2. Unblanked(rows) /\ AllCopied(rows)
    BY <1>5 DEF Unblanked, AllCopied
  <2> HIDE DEF d
  <2>3. rows \subseteq RowSet /\ blank \subseteq Units
    BY <1>5, IndexAssumption DEF IndexInit, Store!StoreAssumption
  <2> QED
    BY <1>4, <1>5, <2>1, <2>2, <2>3
<1>6. CASE rows # {}
  <2>1. PICK s \in Snapshots :
            /\ recorded # {} /\ blank \in SUBSET {UnitOf[s]}
            /\ rows = {r \in AllRows(s) : r.table \in db
                                          /\ (r.table = "source_provenance" => blank = {})}
    BY <1>6 DEF IndexInit, Store!Init, AllRows
  <2>2. PICK k \in InitialVersions : db = SchemaAt(k) /\ recorded = 1 .. k
    BY <1>1 DEF Init
  <2>3. k \in 1 .. 15 /\ (15 \in recorded => k = 15)
    <3>1. k \in 0 .. 15 /\ 1 .. k # {}
      BY <2>1, <2>2, MigrationAssumption
    <3>2. k # 0
      BY <3>1
    <3> QED
      BY <2>2, <3>1, <3>2
  <2>4. /\ rows \subseteq RowSet /\ Part(rows, s) /\ Unblanked(rows)
        /\ k = 15 => AllCopied(rows)
    BY <2>1, <2>2, <2>3, LeftRows
  <2>5. UnitOf[s] \in Units /\ Content(rows, UnitOf[s])
    BY <2>4, WholeContent DEF Content
  <2>6. PICK d : Contents(d) /\ Stored(d) = rows /\ OneParent(Stored(d))
    BY <2>4, <2>5, StartsWithContents
  <2> QED
    BY <1>4, <2>1, <2>3, <2>4, <2>5, <2>6
<1> QED
  BY <1>5, <1>6

LEMMA StoreInvariant == IndexSpec => []XInv
BY IndexInitKeeps, IndexNextKeeps, PTL DEF IndexSpec

-----------------------------------------------------------------------------
(* What the invariant says of a rollback, and of the snapshots a unit has.  *)

\* A row that stands in the way of an INSERT is another row of the snapshot, or
\* leads to a symbol or an application another unit has.
LEMMA ConflictHasCause ==
    ASSUME XInv, Store!RollBack
    PROVE  ~Store!Storable(Store!Snapshot) \/ Store!TakenElsewhere(Store!Snapshot)
<1> DEFINE u == Store!Unit
           s == Store!Snapshot
           i == tx.next
           q == RowAt(s, i)
<1>1. tx.pc = "insert" /\ ~Store!Insertable(s, i) /\ Shape
  BY DEF Store!RollBack, XInv, SInv
<1>2. PICK d : Committed(d)
  BY DEF XInv, SInv
<1>3. Asked(tx.entries) /\ \E c : Writing(c, d)
  BY <1>1, <1>2 DEF Committed
<1>4. PICK c : Writing(c, d)
  BY <1>3
<1>5. /\ Contents(c) /\ s # None /\ i \in 1 .. Size(s)
      /\ tx.entry \in 1 .. Len(tx.entries)
      /\ tx.work = Others(c, u) \cup Prefix(s, i)
  BY <1>1, <1>4 DEF Writing
<1>6. u \in Units /\ s \in Snapshots /\ UnitOf[s] = u
  BY <1>1, <1>3, <1>5, AtEntry
<1>7. /\ q \in AllRows(s) /\ Kind(q, s)
      /\ q.table = "application_arguments" =>
             \E j \in 1 .. (i - 1) : j \in 1 .. Size(s) /\ Parent(RowAt(s, j), q)
      /\ DOMAIN Store!RowsOf(s) = 1 .. Size(s) /\ i \in Int
  BY <1>5, <1>6, RowKinds, RowsAre
<1>8. \/ ~Store!Representable(s, i)
      \/ \E r \in tx.work : Store!SameKey(r, q)
  BY <1>1 DEF Store!Insertable, RowAt
<1> HIDE DEF u, s, i
<1>9. CASE ~Store!Representable(s, i)
  BY <1>5, <1>7, <1>9 DEF Store!Storable, s
<1>10. ASSUME NEW r \in Prefix(s, i), Store!SameKey(r, q) PROVE ~Store!Storable(s)
  <2>1. PICK j \in 1 .. (i - 1) : r = RowAt(s, j)
    BY DEF Prefix
  <2>2. j \in 1 .. Size(s) /\ j # i
    BY <1>5, <1>7, <2>1, <1>6, RowsAre
  <2> QED
    BY <1>5, <1>7, <1>10, <2>1, <2>2 DEF Store!Storable, RowAt
<1>11. ASSUME NEW r \in Others(c, u), Store!SameKey(r, q) PROVE Store!TakenElsewhere(s)
  <2>1. r.table = q.table /\ r \in tx.work
    BY <1>5, <1>11 DEF Store!SameKey
  <2>2. PICK w \in Units \ {u} : r \in c[w]
    BY <1>5, <1>6, OthersApart
  <2>3. CASE r.table # "application_arguments"
    <3>1. q.owner = u /\ r.owner # u
      BY <1>5, <1>6, <1>7, <2>1, <2>3, OthersApart DEF Kind
    <3> QED
      BY <1>7, <1>11, <2>1, <3>1 DEF Store!TakenElsewhere, AllRows
  <2>4. CASE r.table = "application_arguments"
    <3>1. r.owner = q.owner
      BY <1>11, <2>4 DEF Store!SameKey
    <3>2. PICK a \in c[w] : Parent(a, r) /\ a.owner = w
      BY <1>5, <2>2, <2>4, ContentRows DEF Contents
    <3>3. a \in tx.work
      BY <1>5, <2>2, <3>2 DEF Others
    <3>4. PICK j \in 1 .. Size(s) : Parent(RowAt(s, j), q)
      BY <1>7, <2>1, <2>4
    <3> DEFINE b == RowAt(s, j)
    <3>5. b \in AllRows(s) /\ Kind(b, s)
      BY <1>6, RowKinds
    <3>6. b.table = "applications" /\ b.id = q.owner /\ b.owner = u
      BY <1>6, <3>4, <3>5 DEF Parent, Kind
    <3>7. Store!SameKey(a, b) /\ a.owner # b.owner
      BY <2>2, <3>1, <3>2, <3>6 DEF Parent, Store!SameKey
    <3> QED
      BY <3>3, <3>5, <3>7 DEF Store!TakenElsewhere, AllRows
  <2> QED
    BY <2>3, <2>4
<1> QED
  BY <1>5, <1>8, <1>9, <1>10, <1>11 DEF s

\* Where provenance is copied, a snapshot's row that has one has its copy, and a copy
\* its row.
LEMMA SameRows ==
    ASSUME NEW d, Contents(d), rows = Stored(d), AllCopied(rows), Unblanked(rows),
           NEW u \in Units, NEW s \in Snapshots
    PROVE  LET head == [table |-> "source_snapshots", owner |-> u, id |-> "", from |-> s]
           IN  head \in rows /\ u \notin blank
                 <=> [head EXCEPT !.table = "source_provenance"] \in rows
<1> DEFINE Fields == {"table", "owner", "id", "from"}
           head == [table |-> "source_snapshots", owner |-> u, id |-> "", from |-> s]
           copy == [head EXCEPT !.table = "source_provenance"]
<1>1. /\ head.table = "source_snapshots" /\ head.owner = u /\ head.from = s
      /\ copy.table = "source_provenance" /\ copy.owner = u /\ copy.from = s
  OBVIOUS
<1>2. UnitOf[s] = u => head = Head1(s)
  BY DEF Head1
<1>3. head \in rows /\ u \notin blank => copy \in rows
  BY <1>1 DEF AllCopied, Copy1
<1>4. ASSUME copy \in rows PROVE head \in rows /\ u \notin blank
  <2> HIDE DEF head, copy
  <2>1. u \notin blank
    BY <1>1, <1>4 DEF Unblanked
  <2>2. PICK w \in Units : copy \in d[w]
    BY <1>4 DEF Stored
  <2>3. PICK t \in Snapshots : UnitOf[t] = w /\ Part(d[w], t) /\ Kind(copy, t) /\ copy.owner = w
    BY <1>1, <2>2, ContentRows DEF Contents
  <2>4. t = s /\ w = u
    BY <1>1, <2>3 DEF Kind
  <2> QED
    BY <1>2, <2>1, <2>3, <2>4 DEF Part, Stored
<1> QED
  BY <1>3, <1>4

-----------------------------------------------------------------------------
(* The index as a store of one snapshot for each unit.  An index that was   *)
(* migrated before version 6 has snapshots without their applications until *)
(* they are analysed again: what follows is of the other ones.              *)

FactsOfUnit(data, u) == Store!FactsIn(data)[u]

LEMMA RowsOfOneUnit ==
    ASSUME NEW d, Contents(d), OneParent(Stored(d)), NEW u \in Units
    PROVE  /\ Store!RowsOfUnit(u, Stored(d)) = d[u]
           /\ \A r \in Stored(d) : r.owner = u => r \in d[u]
<1> DEFINE data == Stored(d)
<1>1. /\ \A r \in d[u] : r \in data
      /\ \A r \in d[u] : r.table # "application_arguments" => r.owner = u
      /\ \A r \in d[u] : r.table = "application_arguments" =>
             r.owner \notin Units /\ \E a \in d[u] : Parent(a, r) /\ a.owner = u
  BY ContentRows DEF Contents, Stored
<1>2. ASSUME NEW r \in data, r.table # "application_arguments", r.owner = u PROVE r \in d[u]
  BY <1>2, StoredSplit, OthersApart
<1>3. ASSUME NEW r \in data, r.table = "application_arguments", NEW a \in data,
             a.table = "applications", a.owner = u, a.id = r.owner
      PROVE  r \in d[u]
  <2>1. PICK w \in Units : r \in d[w]
    BY DEF Stored
  <2>2. PICK b \in d[w] : Parent(b, r) /\ b.owner = w
    BY <1>3, <2>1, ContentRows DEF Contents
  <2>3. b \in data
    BY <2>1, <2>2 DEF Stored
  <2>4. b.owner = a.owner
    BY <1>3, <2>2, <2>3 DEF OneParent, Parent
  <2> QED
    BY <1>3, <2>1, <2>2, <2>4
<1>4. ASSUME NEW r \in data, r.owner = u PROVE r \in d[u]
  <2>1. PICK w \in Units : r \in d[w]
    BY DEF Stored
  <2>2. r.table = "application_arguments" => r.owner \notin Units
    BY <2>1, ContentRows DEF Contents
  <2> QED
    BY <1>2, <1>4, <2>2
<1>5. \A r : r \in Store!RowsOfUnit(u, data) <=>
          \/ r \in data /\ r.table # "application_arguments" /\ r.owner = u
          \/ /\ r \in data /\ r.table = "application_arguments"
             /\ \E a \in data : a.table = "applications" /\ a.owner = u /\ a.id = r.owner
  BY DEF Store!RowsOfUnit, Store!Deleted
<1> HIDE DEF data
<1>6. \A r : r \in Store!RowsOfUnit(u, data) => r \in d[u]
  BY <1>2, <1>3, <1>5
<1>7. \A r \in d[u] : r \in Store!RowsOfUnit(u, data)
  BY <1>1, <1>5 DEF Parent
<1> QED
  BY <1>4, <1>6, <1>7 DEF data

\* The facts of a unit are those of the snapshot whose rows it has.
LEMMA FactsAre ==
    ASSUME NEW d, Contents(d), OneParent(Stored(d)), NEW u \in Units
    PROVE  /\ d[u] = {} => FactsOfUnit(Stored(d), u) = None
           /\ \A s \in Snapshots : UnitOf[s] = u /\ d[u] = AllRows(s)
                  => FactsOfUnit(Stored(d), u) = s
<1> DEFINE data == Stored(d)
<1>1. FactsOfUnit(data, u) =
        CASE \A r \in data : r.owner # u -> None
          [] \E r \in data : /\ r.owner = u
                             /\ Store!RowsOfUnit(u, data) = AllRows(r.from) ->
                 (CHOOSE r \in data : r.owner = u).from
          [] OTHER -> "mixed"
  BY DEF FactsOfUnit, Store!FactsIn, AllRows
<1>2. Store!RowsOfUnit(u, data) = d[u] /\ \A r \in data : r.owner = u => r \in d[u]
  BY RowsOfOneUnit
<1>3. d[u] = {} => FactsOfUnit(data, u) = None
  BY <1>1, <1>2
<1>4. ASSUME NEW s \in Snapshots, UnitOf[s] = u, d[u] = AllRows(s)
      PROVE  FactsOfUnit(data, u) = s
  <2>1. \A r \in data : r.owner = u => r.from = s
    BY <1>2, <1>4, RowsOfSnapshot DEF Kind
  <2>2. Head1(s) \in data /\ Head1(s).owner = u
    BY <1>4, HeadsAreRows DEF Stored, Head1
  <2> DEFINE x == CHOOSE r \in data : r.owner = u
  <2>3. x \in data /\ x.owner = u
    BY <2>2
  <2>4. x.from = s
    BY <2>1, <2>3
  <2>5. \E r \in data : r.owner = u /\ Store!RowsOfUnit(u, data) = AllRows(r.from)
    BY <1>2, <1>4, <2>1, <2>2
  <2>6. ~(\A r \in data : r.owner # u)
    BY <2>2
  <2> QED
    BY <1>1, <2>4, <2>5, <2>6
<1> QED
  BY <1>3, <1>4

\* The rows of a unit with their provenance.
LEMMA WholeUnit ==
    ASSUME Complete, NEW d, Contents(d), NEW u \in Units
    PROVE  /\ Whole(d)[u] = {} \/ \E s \in Snapshots : UnitOf[s] = u /\ Whole(d)[u] = AllRows(s)
           /\ d[u] = {} => Whole(d)[u] = {}
           /\ \A s \in Snapshots : d[u] = AllRows(s) => Whole(d)[u] = AllRows(s)
<1>1. Whole(d)[u] = WithProvenance(d[u]) /\ Content(d[u], u) /\ d[u] \in SUBSET RowSet
  BY DEF Whole, Contents
<1>2. ASSUME NEW s \in Snapshots, Part(d[u], s) PROVE Whole(d)[u] = AllRows(s)
  BY <1>1, <1>2, WholePart
<1>3. d[u] = {} => Whole(d)[u] = {}
  BY <1>1, WholeOne
<1>4. \A s \in Snapshots : d[u] = AllRows(s) => Part(d[u], s)
  BY WholeContent
<1> QED
  BY <1>1, <1>2, <1>3, <1>4 DEF Content

\* What the abstract store sees of contents d.
SeenOf(d, u) == FactsOfUnit(Stored(Whole(d)), u)

\* A unit has the facts of one snapshot or none, whatever is written.
LEMMA OneSnapshotOrNone ==
    ASSUME Complete, NEW d, Contents(d), OneParent(Stored(d)), NEW u \in Units
    PROVE  /\ SeenOf(d, u) \in Snapshots \cup {None}
           /\ d[u] = {} => SeenOf(d, u) = None
           /\ \A s \in Snapshots : UnitOf[s] = u /\ d[u] = AllRows(s) => SeenOf(d, u) = s
<1>1. Contents(Whole(d)) /\ OneParent(Stored(Whole(d)))
  BY WholeContents
<1> QED
  BY <1>1, WholeUnit, FactsAre DEF SeenOf

\* Units with the same rows have the same facts.
LEMMA SameRowsSameFacts ==
    ASSUME Complete, NEW c, Contents(c), OneParent(Stored(c)),
           NEW d, Contents(d), OneParent(Stored(d)), NEW u \in Units, c[u] = d[u]
    PROVE  SeenOf(c, u) = SeenOf(d, u)
<1>1. /\ Contents(Whole(c)) /\ OneParent(Stored(Whole(c)))
      /\ Contents(Whole(d)) /\ OneParent(Stored(Whole(d)))
  BY WholeContents
<1>2. Whole(c)[u] = Whole(d)[u]
  BY DEF Whole
<1>3. Whole(d)[u] = {} \/ \E s \in Snapshots : UnitOf[s] = u /\ Whole(d)[u] = AllRows(s)
  BY WholeUnit
<1> QED
  BY <1>1, <1>2, <1>3, FactsAre DEF SeenOf

\* What a transaction with these entries is for.
RequestFor(es) ==
    [u \in {es[i][1] : i \in DOMAIN es} |->
        (CHOOSE e \in Store!Elements(es) : e[1] = u)[2]]

LEMMA RequestIs ==
    ASSUME NEW es, Asked(es)
    PROVE  /\ \A u : u \in DOMAIN RequestFor(es) <=> \E i \in 1 .. Len(es) : es[i][1] = u
           /\ \A i \in 1 .. Len(es) : RequestFor(es)[es[i][1]] = es[i][2]
           /\ DOMAIN RequestFor(es) \subseteq Units
           /\ \A u \in DOMAIN RequestFor(es) : RequestFor(es)[u] \in Snapshots \cup {None}
           /\ RequestFor(es) # Facts!NoCall
<1>1. DOMAIN es = 1 .. Len(es) /\ 1 \in 1 .. Len(es) /\ \A i \in 1 .. Len(es) : es[i] \in EntrySet
  BY DEF Asked
<1>2. \A i \in 1 .. Len(es) : es[i][1] \in Units /\ es[i][2] \in Snapshots \cup {None}
  BY <1>1 DEF EntrySet
<1>3. \A u : u \in DOMAIN RequestFor(es) <=> \E i \in 1 .. Len(es) : es[i][1] = u
  BY <1>1 DEF RequestFor
<1>4. ASSUME NEW i \in 1 .. Len(es) PROVE RequestFor(es)[es[i][1]] = es[i][2]
  <2> DEFINE u == es[i][1]
             x == CHOOSE e \in Store!Elements(es) : e[1] = u
  <2>1. es[i] \in Store!Elements(es) /\ es[i][1] = u
    BY <1>1 DEF Store!Elements
  <2>2. x \in Store!Elements(es) /\ x[1] = u
    BY <2>1
  <2>3. PICK j \in 1 .. Len(es) : x = es[j]
    BY <1>1, <2>2 DEF Store!Elements
  <2>4. j = i
    BY <2>2, <2>3 DEF Asked
  <2>5. RequestFor(es)[u] = x[2]
    BY <1>1 DEF RequestFor
  <2> QED
    BY <2>3, <2>4, <2>5
<1>5. \A u \in DOMAIN RequestFor(es) : RequestFor(es)[u] \in Snapshots \cup {None}
  BY <1>2, <1>3, <1>4
<1>6. RequestFor(es) # Facts!NoCall
  <2>1. es[1][1] \in DOMAIN RequestFor(es)
    BY <1>1, <1>3
  <2>2. DOMAIN Facts!NoCall = {}
    BY DEF Facts!NoCall
  <2> QED
    BY <2>1, <2>2
<1> QED
  BY <1>2, <1>3, <1>4, <1>5, <1>6

LEMMA RequestsAre ==
    /\ Store!Request = RequestFor(tx.entries)
    /\ Store!Request' = RequestFor(tx'.entries)
    /\ RequestFor(<< >>) = Facts!NoCall
<1>1. RequestFor(<< >>) = Facts!NoCall
  <2>1. {<< >>[i][1] : i \in DOMAIN << >>} = {}
    OBVIOUS
  <2> QED
    BY <2>1 DEF RequestFor, Facts!NoCall
<1> QED
  BY <1>1 DEF Store!Request, RequestFor

\* What the abstract store sees.
Seen == Store!FactsIn(WithProvenance(rows))

LEMMA SeenIs ==
    /\ Seen = [u \in Units |-> FactsOfUnit(WithProvenance(rows), u)]
    /\ Seen' = [u \in Units |-> FactsOfUnit(WithProvenance(rows'), u)]
<1>1. \A data : Store!FactsIn(data) = [u \in Units |-> FactsOfUnit(data, u)]
  BY DEF Store!FactsIn, FactsOfUnit
<1> QED
  BY <1>1 DEF Seen, WithProvenance, Provenance

\* A COMMIT replaces the facts of the units that were asked for, and no other.
LEMMA CommitReplaces ==
    ASSUME Complete, XInv, Store!Commit, blank' \subseteq blank
    PROVE  /\ Store!Request # Facts!NoCall /\ Store!Request' = Facts!NoCall
           /\ result' = "ok"
           /\ Seen' = [u \in Units |-> IF u \in DOMAIN Store!Request
                                       THEN Store!Request[u] ELSE Seen[u]]
<1> DEFINE es == tx.entries
           req == RequestFor(es)
<1>1. tx.pc = "commit" /\ tx.pc # "idle" /\ tx'.entries = << >> /\ result' = "ok"
  BY IdleTx DEF Store!Commit
<1>2. PICK d : Committed(d)
  BY DEF XInv, SInv
<1>0. Shape /\ blank' \subseteq Units
  BY DEF XInv, SInv, Shape
<1>3. PICK c : Committed(c)' /\ rows' = Stored(c) /\ Replaced(c, d, es, Len(es))
  BY <1>0, <1>2, CommitKeeps
<1>4. /\ Contents(d) /\ OneParent(Stored(d)) /\ rows = Stored(d) /\ Asked(es)
      /\ Contents(c) /\ OneParent(Stored(c)) /\ rows' = Stored(c)
  BY <1>1, <1>2, <1>3 DEF Committed
<1>5. Store!Request = req /\ Store!Request' = Facts!NoCall /\ req # Facts!NoCall
  BY <1>1, <1>4, RequestsAre, RequestIs
<1>6. ASSUME NEW u \in Units
      PROVE  SeenOf(c, u) = IF u \in DOMAIN req THEN req[u] ELSE SeenOf(d, u)
  <2>1. CASE u \in DOMAIN req
    <3>1. PICK i \in 1 .. Len(es) : es[i][1] = u
      BY <1>4, <2>1, RequestIs
    <3>2. req[u] = es[i][2] /\ c[u] = NewRows(es[i][2])
      BY <1>3, <1>4, <3>1, RequestIs DEF Replaced
    <3>3. CASE es[i][2] = None
      BY <1>4, <2>1, <3>2, <3>3, OneSnapshotOrNone DEF NewRows
    <3>4. CASE es[i][2] # None
      <4>1. UnitOf[es[i][2]] = u /\ es[i][2] \in Snapshots
        <5>1. UnitOf[es[i][2]] = u
          BY <1>4, <3>1, <3>4 DEF Asked
        <5>2. es[i] \in EntrySet
          BY <1>4 DEF Asked
        <5> QED
          BY <3>4, <5>1, <5>2 DEF EntrySet
      <4>2. c[u] = AllRows(es[i][2])
        BY <3>2, <3>4 DEF NewRows
      <4> QED
        BY <1>4, <2>1, <3>2, <4>1, <4>2, OneSnapshotOrNone
    <3> QED
      BY <3>3, <3>4
  <2>2. CASE u \notin DOMAIN req
    <3>1. c[u] = d[u]
      BY <1>3, <1>4, <2>2, RequestIs DEF Replaced
    <3> QED
      BY <1>4, <2>2, <3>1, SameRowsSameFacts
  <2> QED
    BY <2>1, <2>2
<1> HIDE DEF req
<1>7. /\ Seen = [u \in Units |-> SeenOf(d, u)]
      /\ Seen' = [u \in Units |-> SeenOf(c, u)]
  BY <1>4, SeenIs, WholeContents DEF SeenOf
<1> QED
  BY <1>1, <1>5, <1>6, <1>7

\* Beginning a transaction asks, every statement stutters, and what ends it
\* without a COMMIT fails.
LEMMA BeginAsks ==
    ASSUME XInv, NEW es, Asked(es), Store!Begin(es)
    PROVE  /\ Store!Request = Facts!NoCall /\ Store!Request' # Facts!NoCall
           /\ DOMAIN Store!Request' \subseteq Units
           /\ \A u \in DOMAIN Store!Request' : Store!Request'[u] \in Snapshots \cup {None}
           /\ result' = "none" /\ rows' = rows
<1>1. /\ tx.pc = "idle" /\ result' = "none" /\ rows' = rows /\ tx'.entries = es
  BY DEF Store!Begin
<1>2. tx.entries = << >>
  BY <1>1 DEF XInv, SInv, Shape
<1>3. Store!Request = Facts!NoCall /\ Store!Request' = RequestFor(es)
  BY <1>1, <1>2, RequestsAre
<1> QED
  BY <1>1, <1>3, RequestIs

LEMMA WriteImplements ==
    ASSUME Complete, XInv, Write
    PROVE  [Facts!Next]_(Facts!vars)
<1> USE DEF Seen
<1>1. Store!Next /\ (rows' = rows => Seen' = Seen) /\ blank' \subseteq blank
  BY DEF Write
<1>8. Shape /\ blank' \subseteq Units
  BY <1>1 DEF XInv, SInv, Shape
<1>2. ASSUME NEW es, Asked(es), Store!Begin(es) PROVE Facts!Ask
  <2>1. rows' = rows
    BY <1>2 DEF Store!Begin
  <2>2. Seen' = Seen
    BY <1>1, <2>1
  <2> QED
    BY <1>2, <2>2, BeginAsks DEF Facts!Ask
<1>3. CASE \E b \in Batches : Store!ReplaceSnapshots(b)
  <2>1. PICK b \in Batches : Store!ReplaceSnapshots(b)
    BY <1>3
  <2>2. Asked(b) /\ Store!Begin(b)
    BY <2>1, BatchIsAsked DEF Store!ReplaceSnapshots
  <2> QED
    BY <1>2, <2>2 DEF Facts!Next
<1>4. CASE \E u \in Units : Store!RemoveSnapshot(u)
  <2>1. PICK u \in Units : Store!RemoveSnapshot(u)
    BY <1>4
  <2> DEFINE es == << <<u, None>> >>
  <2>2. Asked(es) /\ Store!Begin(es)
    BY <2>1, RemovalIsAsked DEF Store!RemoveSnapshot
  <2> HIDE DEF es
  <2> QED
    BY <1>2, <2>2 DEF Facts!Next
<1>5. CASE Store!Delete \/ Store!Insert
  <2>1. PICK d : Committed(d)
    BY DEF XInv, SInv
  <2>2. tx'.entries = tx.entries
    BY <1>5, <1>8, <2>1, DeleteKeeps, InsertKeeps
  <2>3. rows' = rows /\ result' = result
    BY <1>5 DEF Store!Delete, Store!Insert
  <2>4. Store!Request' = Store!Request
    BY <2>2, RequestsAre
  <2> QED
    BY <1>1, <2>3, <2>4 DEF Facts!vars
<1>6. CASE Store!RollBack \/ Store!Crash \/ \E b \in Batches : Store!RefuseSnapshots(b)
  <2>1. PICK d : Committed(d)
    BY DEF XInv, SInv
  <2>2. rows' = rows /\ tx'.entries = << >>
    BY <1>6, <1>8, <2>1, EndKeepsStore
  <2>3. result' \in {"none", "error"}
    BY <1>6 DEF XInv, SInv, Shape, Store!RollBack, Store!Crash, Store!RefuseSnapshots
  <2>4. Store!Request' = Facts!NoCall
    BY <2>2, RequestsAre
  <2>5. Facts!Fail
    BY <1>1, <2>2, <2>3, <2>4 DEF Facts!Fail
  <2> QED
    BY <2>5 DEF Facts!Next
<1>7. CASE Store!Commit
  <2>1. Facts!Replace
    BY <1>1, <1>7, CommitReplaces DEF Facts!Replace
  <2> QED
    BY <2>1 DEF Facts!Next
<1> QED
  BY <1>1, <1>3, <1>4, <1>5, <1>6, <1>7 DEF Store!Next

\* A migration changes no fact: the copy was seen before it ran.
LEMMA MigrateStutters ==
    ASSUME XInv, NEW p \in Openers, Migrate(p)
    PROVE  UNCHANGED Facts!vars
<1>1. WithProvenance(rows') = WithProvenance(rows) /\ tx' = tx /\ result' = result
  BY MigrateKeeps
<1>2. Seen' = Seen
  BY <1>1, SeenIs
<1>3. Store!Request' = Store!Request
  BY <1>1, RequestsAre
<1> QED
  BY <1>1, <1>2, <1>3 DEF Facts!vars, Seen

LEMMA StepImplements ==
    ASSUME Complete, XInv, [IndexNext]_indexVars
    PROVE  [Facts!Next]_(Facts!vars)
<1>1. CASE UNCHANGED indexVars
  <2>1. rows' = rows /\ tx' = tx /\ result' = result
    BY <1>1 DEF indexVars, storeVars
  <2>2. Seen' = Seen /\ Store!Request' = Store!Request
    BY <2>1, SeenIs, RequestsAre
  <2> QED
    BY <2>1, <2>2 DEF Facts!vars, Seen
<1> QED
  BY <1>1, WriteImplements, MigrateStutters DEF IndexNext

LEMMA InitImplements ==
    ASSUME Complete, IndexInit
    PROVE  Facts!Init
<1>1. PICK d : Committed(d)
  BY IndexInitKeeps DEF XInv, SInv
<1>2. rows = Stored(d) /\ Contents(d) /\ OneParent(Stored(d))
  BY <1>1 DEF Committed
<1>3. \A u \in Units : FactsOfUnit(WithProvenance(rows), u) \in Snapshots \cup {None}
  BY <1>2, OneSnapshotOrNone, WholeContents DEF SeenOf
<1>4. Seen \in [Units -> Snapshots \cup {None}]
  BY <1>3, SeenIs
<1>5. tx.entries = << >> /\ result = "none"
  BY IdleTx DEF IndexInit, Store!Init
<1>6. Store!Request = Facts!NoCall
  BY <1>5, RequestsAre
<1> QED
  BY <1>4, <1>5, <1>6 DEF Facts!Init, Seen

-----------------------------------------------------------------------------
(* The theorems.                                                            *)

LEMMA InvariantHolds == Spec => []IInv
BY InitKeeps, NextKeeps, PTL DEF Spec

\* Processes that write facts open and migrate as the others do.
LEMMA IndexSpecImpliesSpec == IndexSpec => Spec
<1>1. IndexInit => Init
  BY DEF IndexInit
<1>2. ASSUME [IndexNext]_indexVars PROVE [Next]_vars
  <2>1. CASE Write
    BY <2>1 DEF Write
  <2>2. ASSUME NEW p \in Openers, Migrate(p) PROVE Next
    BY <2>2 DEF Migrate, Next
  <2>3. CASE UNCHANGED indexVars
    BY <2>3 DEF indexVars
  <2> QED
    BY <1>2, <2>1, <2>2, <2>3 DEF IndexNext
<1> QED
  BY <1>1, <1>2, PTL DEF IndexSpec, Spec

\* A row of schema_migrations vouches for its migration, whoever is killed or
\* overtaken and whatever is written meanwhile (store.rs, migrate).
THEOREM RecordsAreTrue == IndexSpec => []RecordedMeansApplied
<1>1. IInv => RecordedMeansApplied
  BY DEF IInv
<1> QED
  BY <1>1, InvariantHolds, IndexSpecImpliesSpec, PTL

\* A process whose open returned Ok has the whole schema before it, also while
\* others migrate (store.rs, open and migrate).
THEOREM OpenFindsTheSchema == IndexSpec => []OpenedIsMigrated
BY OpenIsMigrated, InvariantHolds, IndexSpecImpliesSpec, PTL

\* A process alone with an index of its own format, that no killed process left
\* in part, opens it: no statement meets what was run before, and no row another
\* process wrote (store.rs, migrate).
THEOREM FailuresHaveCauseHolds == IndexSpec => []FailuresHaveCause
<1>1. CInv => FailuresHaveCause
  BY DEF CInv, Undisturbed, Sole, FailuresHaveCause
<1>2. Spec => []CInv
  BY InitIsSole, NextKeepsSole, PTL DEF Spec
<1> QED
  BY <1>1, <1>2, IndexSpecImpliesSpec, PTL

\* What the index and the writer's transaction are made of (store.rs, the tables
\* of the migrations and insert_snapshot).
THEOREM IndexTypeOKHolds == IndexSpec => []IndexTypeOK
<1>1. XInv => IndexTypeOK
  <2> SUFFICES ASSUME XInv PROVE IndexTypeOK
    OBVIOUS
  <2>1. TypeOK /\ Shape
    BY DEF XInv, IInv, SInv
  <2>2. \A r \in RowSet : r.from \in Snapshots
    BY DEF RowSet
  <2>3. rows \subseteq RowSet /\ tx.work \subseteq RowSet
    BY <2>1 DEF Shape, TxSet
  <2>4. /\ tx.pc \in {"idle", "delete", "insert", "commit"} /\ tx.next \in Nat \ {0}
        /\ result \in {"none", "ok", "error"}
    BY <2>1 DEF Shape, TxSet
  <2>5. Store!TypeOK
    BY <2>2, <2>3, <2>4 DEF Store!TypeOK
  <2>6. blank \subseteq Units
    BY <2>1 DEF Shape
  <2> QED
    BY <2>1, <2>5, <2>6 DEF IndexTypeOK
<1> QED
  BY <1>1, StoreInvariant, PTL

\* A process whose open returned Ok finds the provenance of every snapshot that has
\* one where it reads it, and of no other: no process records version 15 before the
\* copy, whoever else migrates or is killed, the copy leaves out the snapshots of
\* version 1, and every later transaction writes or deletes both rows (store.rs,
\* MIGRATION_15, delete_file_owned_facts and insert_snapshot).
THEOREM ProvenanceFollowsHolds == IndexSpec => []ProvenanceFollows
<1>1. XInv => ProvenanceFollows
  <2> SUFFICES ASSUME XInv, InUse PROVE ProvenanceFollows
    BY DEF ProvenanceFollows
  <2>1. AllCopied(rows) /\ Unblanked(rows)
    BY UseMeansCopied DEF XInv, Copied
  <2>2. PICK d : Contents(d) /\ rows = Stored(d)
    BY DEF XInv, SInv, Committed
  <2> QED
    BY <2>1, <2>2, SameRows DEF ProvenanceFollows
<1> QED
  BY <1>1, StoreInvariant, PTL

\* The DELETE of arguments runs while their applications are still there, and finds
\* all of them: none is ever left without its application (store.rs,
\* delete_file_owned_facts).
THEOREM ArgumentsHaveApplicationsHolds == IndexSpec => []ArgumentsHaveApplications
<1>1. XInv => ArgumentsHaveApplications
  <2> SUFFICES ASSUME XInv, NEW r \in rows, r.table = "application_arguments"
               PROVE  \E a \in rows : a.table = "applications" /\ a.id = r.owner
    BY DEF ArgumentsHaveApplications, Store!ArgumentsHaveApplications
  <2>1. PICK d : Committed(d)
    BY DEF XInv, SInv
  <2>2. rows = Stored(d) /\ Contents(d)
    BY <2>1 DEF Committed
  <2>3. PICK a \in rows : Parent(a, r)
    BY <2>2, StoredRows
  <2> QED
    BY <2>3 DEF Parent
<1> QED
  BY <1>1, StoreInvariant, PTL

\* A transaction is rolled back for a snapshot that an empty store would refuse as
\* well, or for an ID another unit has: never for what an earlier call of the same
\* unit left behind (store.rs, replace_snapshots and insert_snapshot).
THEOREM RollBacksHaveCauseHolds == IndexSpec => RollBacksHaveCause
<1>1. XInv => (Store!RollBack => \/ ~Store!Storable(Store!Snapshot)
                                 \/ Store!TakenElsewhere(Store!Snapshot))
  BY ConflictHasCause
<1> QED
  BY <1>1, StoreInvariant, PTL DEF RollBacksHaveCause, Store!RollBacksHaveCause

\* An index that no release before version 6 left implements a store that has one
\* snapshot for each unit, replaces those of a batch at once, has replaced what was
\* asked for when a call returns Ok, and nothing when it does not or never returns
\* (store.rs, replace_snapshots, remove_snapshot).
THEOREM ImplementsFactStoreHolds ==
    ASSUME Complete
    PROVE  IndexSpec => ImplementsFactStore
<1>1. IndexInit => Facts!Init
  BY InitImplements
<1>2. XInv /\ [IndexNext]_indexVars => [Facts!Next]_(Facts!vars)
  BY StepImplements
<1> QED
  BY <1>1, <1>2, StoreInvariant, PTL DEF IndexSpec, ImplementsFactStore, Facts!Spec
=============================================================================
