------------------------ MODULE SemanticQueryProofs ------------------------
(* Under fresh_only, what a query answers, reports or fails on, for every set *)
(* of sources, contents, symbols and inputs, every hierarchy and every bound: *)
(* first whatever changes meanwhile, then exactly while nothing does.         *)
EXTENDS SemanticQuery, FiniteSetTheorems, TLAPS

\* What AnswersWereCurrent asks of one fact.
Judged(f) == f.unit \in committed \/ f.saw \in onDisk[f.unit]

\* The gate still has to judge the fact.
Awaited(q, f) == f.unit \in q.owners \/ [unit |-> f.unit, content |-> f.saw] \in q.loaded

Judges == {"inputs", "match", "owners", "files"}

(* What a query q knows at its program point. *)

\* A fact is the stored row's unless the row was committed since.
FromRows(q) == \A f \in q.payload : Judged(f) \/ row[f.unit] = f.saw

\* The gate of an answer loses no fact.
GateCovers(q) ==
    q.gate = "answer" /\ q.pc \in Judges => \A f \in q.payload : Judged(f) \/ Awaited(q, f)

\* Behind the gate, and in a text search, every fact is judged.
Cleared(q) == q.pc \in {"search", "print"} \/ q.status = "ok" => \A f \in q.payload : Judged(f)

\* A text search takes no step of the other commands.
TextReal(q) ==
    q.kind = "text" => /\ q.pc \in {"idle", "search", "done"}
                       /\ \A m \in q.payload : m.saw \in onDisk[m.unit]

PrintsPayload(q) == q.pc = "print" => q.left \subseteq q.payload

Unfinished(q) == q.pc # "done" => q.status = "none"

Panicked(q) ==
    q.status = "panic" =>
        \E f \in q.payload : Cardinality(onDisk[f.unit]) > 1 \/ f.unit \in committed

Sound(q) ==
    /\ FromRows(q)
    /\ GateCovers(q)
    /\ Cleared(q)
    /\ TextReal(q)
    /\ PrintsPayload(q)
    /\ Unfinished(q)
    /\ Panicked(q)

OnDiskNow == \A u \in Units : file[u] \in onDisk[u] /\ IsFiniteSet(onDisk[u])

IInv == TypeOK /\ OnDiskNow /\ Sound(query)

-----------------------------------------------------------------------------
(* Types of what the statements return and of the steps built from them. *)

LEMMA RowTypes ==
    ASSUME TypeOK, NEW u \in Stored
    PROVE  u \in Units /\ row[u] \in Contents
  BY DEF TypeOK, Stored

LEMMA ReadTypes ==
    ASSUME TypeOK, NEW s \in Symbols
    PROVE  /\ Records(s) \in SUBSET Fact
           /\ ReferenceEdges(s) \in SUBSET Fact
           /\ DirectSubtypes(s) \in SUBSET Symbols
           /\ \A f \in Records(s) \cup ReferenceEdges(s) : row[f.unit] = f.saw
<1>1. \A u \in Stored : FactOf(u, s) \in Fact /\ FactOf(u, s).unit = u
                         /\ FactOf(u, s).saw = row[u]
  BY RowTypes DEF FactOf, Fact
<1>2. Records(s) \in SUBSET Fact /\ \A f \in Records(s) : row[f.unit] = f.saw
  BY <1>1 DEF Records
<1>3. ReferenceEdges(s) \in SUBSET Fact /\ \A f \in ReferenceEdges(s) : row[f.unit] = f.saw
  BY <1>1 DEF ReferenceEdges
<1>4. DirectSubtypes(s) \in SUBSET Symbols
  BY DEF DirectSubtypes
<1> QED
  BY <1>2, <1>3, <1>4

LEMMA EndedType ==
    ASSUME NEW q \in QueryState,
           NEW status \in {"ok", "stale", "no_result", "ambiguous", "error", "panic"}
    PROVE  Ended(q, status) \in QueryState
  BY DEF Ended, QueryState

LEMMA PassedType ==
    ASSUME NEW q \in QueryState
    PROVE  Passed(q) \in QueryState
<1>1. [q EXCEPT !.pc = "facts"] \in QueryState
  BY DEF QueryState
<1>2. [q EXCEPT !.pc = "print", !.left = q.payload] \in QueryState
  BY DEF QueryState
<1> QED
  BY <1>1, <1>2, EndedType DEF Passed

LEMMA GateType ==
    ASSUME NEW q \in QueryState, NEW purpose \in {"target", "answer"},
           NEW facts \in SUBSET Fact
    PROVE  Gate(q, purpose, facts) \in QueryState
<1>1. OwnersOf(facts) \in SUBSET Units
  BY DEF OwnersOf, Fact
<1>2. [q EXCEPT !.gate = purpose] \in QueryState
  BY DEF QueryState
<1>3. [q EXCEPT !.pc = "inputs", !.gate = purpose, !.owners = OwnersOf(facts)] \in QueryState
  BY <1>1 DEF QueryState
<1> QED
  BY <1>2, <1>3, PassedType DEF Gate

LEMMA AnswerType ==
    ASSUME NEW q \in QueryState
    PROVE  Answer(q) \in QueryState
<1>1. q.payload \in SUBSET Fact
  BY DEF QueryState
<1> QED
  BY <1>1, EndedType, GateType DEF Answer

LEMMA JudgingType ==
    ASSUME NEW q \in QueryState
    PROVE  Judging(q) \in QueryState
<1>1. [q EXCEPT !.pc = "owners"] \in QueryState /\ [q EXCEPT !.pc = "files"] \in QueryState
  BY DEF QueryState
<1> QED
  BY <1>1, PassedType DEF Judging

LEMMA FreshType == Fresh \in QueryState
  BY DEF Fresh, QueryState, Navigation, InputStates, FileState

-----------------------------------------------------------------------------
(* How the three kinds of step keep the invariant. *)

LEMMA InitInvariant == Init => IInv
<1> SUFFICES ASSUME Init PROVE IInv
  OBVIOUS
<1>1. \A u \in Units : RowFor(file[u]) \in Contents \cup {None}
  BY DEF Init, RowFor, FileState
<1>2. pastFiles \in [Units -> SUBSET FileState]
      /\ pastInputs \in [Inputs -> SUBSET (Settings \cup {Absent})]
  BY DEF Init, InputStates
<1>3. row \in [Units -> Contents \cup {None}] /\ text \in [Units -> Contents \cup {None}]
  BY <1>1 DEF Init
<1>4. onDisk \in [Units -> SUBSET FileState]
  BY DEF Init
<1>5. TypeOK
  BY <1>3, <1>4, <1>2, FreshType DEF Init, TypeOK
<1>6. OnDiskNow
  BY FS_Singleton DEF Init, OnDiskNow
<1>7. Sound(query)
  BY DEF Init, Fresh, Sound, FromRows, GateCovers, Cleared, TextReal, PrintsPayload,
         Unfinished, Panicked, Judges
<1> QED
  BY <1>5, <1>6, <1>7 DEF IInv

\* A step of the command has to keep only what is said of the command.
LEMMA StepKeeps ==
    ASSUME IInv, NEW q \in QueryState, Step(q), Sound(q)
    PROVE  IInv'
<1>1. TypeOK'
  BY DEF IInv, TypeOK, Step, disk, index, history, InputStates, FileState
<1>2. OnDiskNow'
  BY DEF IInv, OnDiskNow, Step, disk, index, history
<1>3. Sound(query)'
  BY DEF Sound, FromRows, GateCovers, Cleared, TextReal, PrintsPayload, Unfinished,
         Panicked, Judged, Awaited, Judges, Step, disk, index, history
<1> QED
  BY <1>1, <1>2, <1>3 DEF IInv

\* A command that starts has no facts yet.
LEMMA BeginKeeps ==
    ASSUME IInv, NEW q \in QueryState, Begin(q),
           q.payload = {}, q.status \notin {"ok", "panic"},
           q.pc # "done" => q.status = "none",
           q.pc # "print",
           q.kind = "text" => q.pc \in {"search", "done"}
    PROVE  IInv'
<1>1. TypeOK'
  BY DEF IInv, TypeOK, Begin, disk, index, InputStates, FileState
<1>2. OnDiskNow'
  BY FS_Singleton DEF IInv, OnDiskNow, Begin, disk, index
<1>3. Sound(query)'
  BY DEF Sound, FromRows, GateCovers, Cleared, TextReal, PrintsPayload, Unfinished,
         Panicked, Begin
<1> QED
  BY <1>1, <1>2, <1>3 DEF IInv

\* Edits and commits only add to what was on disk and to what was committed.
LEMMA WorldKeeps ==
    ASSUME TypeOK, Sound(query), ~At("done"), query' = query,
           committed \subseteq committed',
           \A u \in Units : onDisk[u] \subseteq onDisk'[u],
           \A u \in Units : row'[u] = row[u] \/ u \in committed'
    PROVE  Sound(query)'
<1>1. \A f \in query.payload : f.unit \in Units /\ (Judged(f) => Judged(f)')
  BY DEF TypeOK, QueryState, Fact, Judged
<1>2. query.status = "none"
  BY DEF Sound, Unfinished, At
<1>3. FromRows(query)'
  BY <1>1 DEF Sound, FromRows, Judged
<1>4. GateCovers(query)' /\ Cleared(query)'
  BY <1>1, <1>2 DEF Sound, GateCovers, Cleared, Awaited
<1>5. TextReal(query)' /\ PrintsPayload(query)'
  BY <1>1 DEF Sound, TextReal, PrintsPayload
<1>6. Unfinished(query)' /\ Panicked(query)'
  BY <1>2 DEF Unfinished, Panicked
<1> QED
  BY <1>3, <1>4, <1>5, <1>6 DEF Sound

-----------------------------------------------------------------------------
(* The gate. *)

\* What is behind the gate was judged.
LEMMA PassedSound ==
    ASSUME NEW q \in QueryState, Sound(q), q.status = "none", q.pc \in Judges,
           q.kind # "text",
           q.gate = "answer" => \A f \in q.payload : Judged(f)
    PROVE  Sound(Passed(q))
<1>1. CASE q.gate = "target"
  BY <1>1 DEF Passed, QueryState, Sound, FromRows, GateCovers, Cleared, TextReal,
              PrintsPayload, Unfinished, Panicked, Judges
<1>2. CASE q.gate = "answer"
  BY <1>2 DEF Passed, Ended, QueryState, Sound, FromRows, GateCovers, Cleared, TextReal,
              PrintsPayload, Unfinished, Panicked, Judges
<1> QED
  BY <1>1, <1>2 DEF QueryState

LEMMA JudgingSound ==
    ASSUME NEW q \in QueryState, Sound(q), q.status = "none", q.pc \in Judges,
           q.kind # "text",
           q.gate = "answer" => \A f \in q.payload : Judged(f) \/ Awaited(q, f)
    PROVE  Sound(Judging(q))
<1>1. CASE q.owners = {} /\ q.loaded = {}
  BY <1>1, PassedSound DEF Judging, Awaited
<1>2. CASE q.owners # {} \/ q.loaded # {}
  BY <1>2 DEF Judging, QueryState, Sound, FromRows, GateCovers, Cleared, TextReal,
              PrintsPayload, Unfinished, Panicked, Judges, Awaited
<1> QED
  BY <1>1, <1>2

\* The gate starts out awaiting the owner of every fact.
LEMMA GateSound ==
    ASSUME Strategy = "fresh_only", NEW q \in QueryState, Sound(q), q.status = "none",
           q.kind # "text",
           NEW purpose \in {"target", "answer"}, NEW facts \in SUBSET Fact,
           purpose = "answer" => facts = q.payload
    PROVE  Sound(Gate(q, purpose, facts))
  BY DEF Gate, OwnersOf, QueryState, Sound, FromRows, GateCovers, Cleared, TextReal,
         PrintsPayload, Unfinished, Panicked, Judges, Judged, Awaited

\* A query that ends without an answer owes nothing.
LEMMA EndedSound ==
    ASSUME NEW q \in QueryState, Sound(q), NEW status, status \notin {"ok", "panic"}
    PROVE  Sound(Ended(q, status))
  BY DEF Ended, QueryState, Sound, FromRows, GateCovers, Cleared, TextReal,
         PrintsPayload, Unfinished, Panicked, Judges

LEMMA AnswerSound ==
    ASSUME Strategy = "fresh_only", NEW q \in QueryState, Sound(q), q.status = "none",
           q.kind # "text"
    PROVE  Sound(Answer(q))
<1>1. q.payload \in SUBSET Fact
  BY DEF QueryState
<1> QED
  BY <1>1, GateSound, EndedSound DEF Answer

-----------------------------------------------------------------------------
(* The actions. *)

LEMMA StartKeeps ==
    ASSUME IInv, Start
    PROVE  IInv'
<1>1. ASSUME NEW short \in BOOLEAN, NEW kind \in Navigation, NEW s \in Symbols,
             ResolveSymbol(kind, short, s)
      PROVE  IInv'
  <2> DEFINE q == [Fresh EXCEPT !.kind = kind, !.short = short, !.target = s,
                                !.pending = {s}, !.visited = {s}]
             r == IF Records(s) = {} /\ s \notin External
                  THEN Ended(q, "no_result")
                  ELSE [q EXCEPT !.pc = "symbol"]
  <2>1. r \in QueryState
    <3>1. q \in QueryState
      BY FreshType DEF QueryState
    <3> HIDE DEF q
    <3>2. [q EXCEPT !.pc = "symbol"] \in QueryState
      BY <3>1 DEF QueryState
    <3> QED
      BY <3>1, <3>2, EndedType
  <2>2. Begin(r)
    BY <1>1 DEF ResolveSymbol
  <2>3. r.payload = {} /\ r.status \in {"none", "no_result"} /\ r.kind # "text"
    BY DEF Fresh, Ended, Navigation
  <2>4. (r.pc = "symbol" /\ r.status = "none") \/ r.pc = "done"
    BY DEF Fresh, Ended
  <2> HIDE DEF q, r
  <2> QED
    BY <2>1, <2>2, <2>3, <2>4, BeginKeeps
<1>2. ASSUME NEW short \in BOOLEAN, NEW kind \in Navigation, NEW u \in Units,
             ReadLocation(kind, short, u)
      PROVE  IInv'
  <2> DEFINE q == [Fresh EXCEPT !.kind = kind, !.short = short, !.place = u,
                                !.source = file[u]]
             r == IF file[u] = Absent THEN Ended(q, "error")
                  ELSE [q EXCEPT !.pc = "compare"]
  <2>1. r \in QueryState
    <3>1. file[u] \in FileState
      BY DEF IInv, TypeOK
    <3>2. q \in QueryState
      BY <3>1, FreshType DEF QueryState
    <3> HIDE DEF q
    <3>3. [q EXCEPT !.pc = "compare"] \in QueryState
      BY <3>2 DEF QueryState
    <3> QED
      BY <3>2, <3>3, EndedType
  <2>2. Begin(r)
    BY <1>2 DEF ReadLocation
  <2>3. r.payload = {} /\ r.status \in {"none", "error"} /\ r.kind # "text"
    BY DEF Fresh, Ended, Navigation
  <2>4. (r.pc = "compare" /\ r.status = "none") \/ r.pc = "done"
    BY DEF Fresh, Ended
  <2> HIDE DEF q, r
  <2> QED
    BY <2>1, <2>2, <2>3, <2>4, BeginKeeps
<1>3. ASSUME NEW short \in BOOLEAN, Search(short)
      PROVE  IInv'
  <2> DEFINE found == {[unit |-> u, saw |-> text[u], symbol |-> None] :
                         u \in {v \in Units : text[v] # None}}
             q == [Fresh EXCEPT !.short = short, !.left = found]
             r == IF found = {} THEN Ended(q, "no_result") ELSE [q EXCEPT !.pc = "search"]
  <2>1. found \in SUBSET Fact
    BY DEF IInv, TypeOK, Fact
  <2>2. r \in QueryState
    <3> HIDE DEF found
    <3>1. q \in QueryState
      BY <2>1, FreshType DEF QueryState
    <3> HIDE DEF q
    <3>2. [q EXCEPT !.pc = "search"] \in QueryState
      BY <3>1 DEF QueryState
    <3> QED
      BY <3>1, <3>2, EndedType
  <2>3. Begin(r)
    BY <1>3 DEF Search
  <2>4. r.payload = {} /\ r.status \in {"none", "no_result"}
    BY DEF Fresh, Ended
  <2>5. (r.pc = "search" /\ r.status = "none") \/ r.pc = "done"
    BY DEF Fresh, Ended
  <2> HIDE DEF found, q, r
  <2> QED
    BY <2>2, <2>3, <2>4, <2>5, BeginKeeps
<1> QED
  BY <1>1, <1>2, <1>3 DEF Start

\* What holds of the command at a program point of its own.
LEMMA Running ==
    ASSUME IInv, NEW step \in {"compare", "unit", "locate", "symbol", "inputs", "match",
                               "owners", "files", "facts", "records", "print"},
           At(step)
    PROVE  /\ query \in QueryState
           /\ Sound(query)
           /\ query.pc = step
           /\ query.status = "none"
           /\ query.kind # "text"
           /\ query.kind \in Navigation
  BY DEF IInv, TypeOK, At, Sound, Unfinished, TextReal, QueryState, Navigation

\* Moving on without new facts, away from the gate and the printing.
LEMMA MoveSound ==
    ASSUME NEW q \in QueryState, Sound(q), q.status = "none", q.kind # "text",
           NEW r \in QueryState, r.payload = q.payload, r.status = "none",
           r.kind = q.kind, r.pc \notin Judges \cup {"print", "search"}
    PROVE  Sound(r)
  BY DEF Sound, FromRows, GateCovers, Cleared, TextReal, PrintsPayload, Unfinished, Panicked

\* The same with facts just read from the rows.
LEMMA ReadSound ==
    ASSUME NEW q \in QueryState, Sound(q), q.status = "none", q.kind # "text",
           NEW r \in QueryState, r.status = "none", r.kind = q.kind,
           \A f \in r.payload : f \in q.payload \/ row[f.unit] = f.saw,
           r.pc \notin Judges \cup {"print", "search"}
    PROVE  Sound(r)
  BY DEF Sound, FromRows, GateCovers, Cleared, TextReal, PrintsPayload, Unfinished, Panicked

LEMMA ResolveKeeps ==
    ASSUME IInv, CompareLocation \/ FindUnit \/ LocateSymbol
    PROVE  IInv'
<1>1. CASE CompareLocation
  <2>1. query \in QueryState /\ Sound(query) /\ query.status = "none" /\ query.kind # "text"
    BY <1>1, Running DEF CompareLocation
  <2>2. \A status \in {"stale", "error"} :
          Ended(query, status) \in QueryState /\ Sound(Ended(query, status))
    BY <2>1, EndedType, EndedSound
  <2> DEFINE r == [query EXCEPT !.pc = "unit", !.source = Absent]
  <2>3. r \in QueryState
    BY <2>1 DEF QueryState, FileState
  <2>4. Sound(r)
    BY <2>1, <2>3, MoveSound DEF Judges, QueryState
  <2> QED
    BY <1>1, <2>2, <2>3, <2>4, StepKeeps DEF CompareLocation
<1>2. CASE FindUnit
  <2>1. query \in QueryState /\ Sound(query) /\ query.status = "none" /\ query.kind # "text"
    BY <1>2, Running DEF FindUnit
  <2>2. Ended(query, "error") \in QueryState /\ Sound(Ended(query, "error"))
    BY <2>1, EndedType, EndedSound
  <2> DEFINE r == [query EXCEPT !.pc = "locate"]
  <2>3. r \in QueryState
    BY <2>1 DEF QueryState
  <2>4. Sound(r)
    BY <2>1, <2>3, MoveSound DEF Judges, QueryState
  <2> QED
    BY <1>2, <2>2, <2>3, <2>4, StepKeeps DEF FindUnit
<1>3. CASE LocateSymbol
  <2>1. query \in QueryState /\ Sound(query) /\ query.status = "none" /\ query.kind # "text"
    BY <1>3, Running DEF LocateSymbol
  <2>2. \A status \in {"ambiguous", "no_result", "error"} :
          Ended(query, status) \in QueryState /\ Sound(Ended(query, status))
    BY <2>1, EndedType, EndedSound
  <2>3. ASSUME NEW s \in Located(query.place),
               Step([query EXCEPT !.pc = "symbol", !.target = s,
                                  !.pending = {s}, !.visited = {s}])
        PROVE  IInv'
    <3> DEFINE r == [query EXCEPT !.pc = "symbol", !.target = s,
                                  !.pending = {s}, !.visited = {s}]
    <3>1. s \in Symbols
      BY RowTypes, QueryAssumption DEF Located, IInv
    <3>2. r \in QueryState
      BY <2>1, <3>1 DEF QueryState
    <3>3. Sound(r)
      BY <2>1, <3>2, MoveSound DEF Judges, QueryState
    <3> QED
      BY <2>3, <3>2, <3>3, StepKeeps
  <2> QED
    BY <1>3, <2>2, <2>3, StepKeeps DEF LocateSymbol
<1> QED
  BY <1>1, <1>2, <1>3

LEMMA ReadSymbolKeeps ==
    ASSUME Strategy = "fresh_only", IInv, ReadSymbol
    PROVE  IInv'
<1> DEFINE records == Records(query.target)
           q == [query EXCEPT !.payload = records]
           r == [query EXCEPT !.pc = "facts"]
<1>1. query \in QueryState /\ Sound(query) /\ query.status = "none" /\ query.kind # "text"
      /\ query.pc = "symbol"
  BY Running DEF ReadSymbol
<1>2. records \in SUBSET Fact /\ \A f \in records : row[f.unit] = f.saw
  <2>1. query.target \in Symbols \cup {None}
    BY <1>1 DEF QueryState
  <2>2. CASE query.target \in Symbols
    BY <2>2, ReadTypes DEF IInv
  <2>3. CASE query.target = None
    BY <2>3, RowTypes, QueryAssumption DEF IInv, Records
  <2> QED
    BY <2>1, <2>2, <2>3
<1>3. q \in QueryState /\ r \in QueryState
  BY <1>1, <1>2 DEF QueryState
<1>4. Sound(q)
  BY <1>1, <1>2, <1>3, ReadSound DEF Judges, QueryState
<1>5. Sound(r)
  BY <1>1, <1>3, MoveSound DEF Judges, QueryState
<1>6. Gate(q, "answer", records) \in QueryState /\ Sound(Gate(q, "answer", records))
  <2>1. q.payload = records /\ q.status = "none" /\ q.kind # "text"
    BY <1>1 DEF QueryState
  <2> QED
    BY <2>1, <1>2, <1>3, <1>4, GateType, GateSound
<1>7. Gate(query, "target", records) \in QueryState /\ Sound(Gate(query, "target", records))
  BY <1>1, <1>2, GateType, GateSound
<1>8. Ended(query, "no_result") \in QueryState /\ Sound(Ended(query, "no_result"))
  BY <1>1, EndedType, EndedSound
<1> QED
  BY <1>3, <1>5, <1>6, <1>7, <1>8, StepKeeps DEF ReadSymbol

LEMMA GateKeeps ==
    ASSUME IInv, LoadInputs \/ MatchInputs
    PROVE  IInv'
<1>1. CASE LoadInputs
  <2>1. query \in QueryState /\ Sound(query) /\ query.status = "none" /\ query.kind # "text"
        /\ query.pc = "inputs"
    BY <1>1, Running DEF LoadInputs
  <2> DEFINE r == [query EXCEPT !.pc = "match", !.persisted = inputs]
  <2>2. r \in QueryState
    BY <2>1 DEF QueryState, IInv, TypeOK
  <2>3. Sound(r)
    BY <2>1 DEF Sound, FromRows, GateCovers, Cleared, TextReal, PrintsPayload, Unfinished,
                Panicked, Judges, Awaited, QueryState
  <2> QED
    BY <1>1, <2>2, <2>3, StepKeeps DEF LoadInputs
<1>2. CASE MatchInputs
  <2>1. query \in QueryState /\ Sound(query) /\ query.status = "none" /\ query.kind # "text"
        /\ query.pc = "match"
    BY <1>2, Running DEF MatchInputs
  <2>2. Ended(query, "stale") \in QueryState /\ Sound(Ended(query, "stale"))
    BY <2>1, EndedType, EndedSound
  <2> DEFINE r == [query EXCEPT !.persisted = Fresh.persisted]
  <2>3. r \in QueryState
    BY <2>1 DEF QueryState, Fresh, InputStates
  <2>4. /\ r.status = "none" /\ r.kind # "text" /\ r.pc = "match"
        /\ r.gate = query.gate /\ r.payload = query.payload
        /\ \A f \in r.payload : Awaited(query, f) => Awaited(r, f)
    BY <2>1 DEF QueryState, Awaited
  <2>5. Sound(r)
    BY <2>1, <2>4 DEF Sound, FromRows, GateCovers, Cleared, TextReal, PrintsPayload,
                      Unfinished, Panicked, Judges
  <2>6. r.gate = "answer" => \A f \in r.payload : Judged(f) \/ Awaited(r, f)
    BY <2>4, <2>5 DEF Sound, GateCovers, Judges
  <2> HIDE DEF r
  <2>7. Judging(r) \in QueryState /\ Sound(Judging(r))
    BY <2>3, <2>4, <2>5, <2>6, JudgingType, JudgingSound DEF Judges
  <2> QED
    BY <1>2, <2>2, <2>7, StepKeeps DEF MatchInputs, r
<1> QED
  BY <1>1, <1>2

\* A fact whose owner is loaded is that row's, or was committed meanwhile.
LEMMA LoadOwnerKeeps ==
    ASSUME IInv, NEW u \in Units, LoadOwner(u)
    PROVE  IInv'
<1> DEFINE found == {[unit |-> v, content |-> row[v]] : v \in Stored \cap {u}}
           r == [query EXCEPT !.owners = @ \ {u}, !.loaded = @ \cup found]
<1>1. query \in QueryState /\ Sound(query) /\ query.status = "none" /\ query.kind # "text"
      /\ query.pc = "owners"
  BY Running DEF LoadOwner
<1>2. found \in SUBSET Owner
  BY RowTypes DEF Owner, IInv
<1>3. r \in QueryState
  <2> HIDE DEF found
  <2> QED
    BY <1>1, <1>2 DEF QueryState
<1>4. /\ r.status = "none" /\ r.kind # "text" /\ r.pc = "owners"
      /\ r.gate = query.gate /\ r.payload = query.payload
      /\ r.owners = query.owners \ {u} /\ r.loaded = query.loaded \cup found
  <2> HIDE DEF found
  <2> QED
    BY <1>1 DEF QueryState
<1>5. ASSUME NEW f \in query.payload, Awaited(query, f)
      PROVE  Judged(f) \/ Awaited(r, f)
  <2>1. f.unit \in Units /\ f.saw \in Contents
    BY <1>1 DEF QueryState, Fact
  <2>2. CASE f.unit = u /\ row[u] = f.saw
    <3>1. u \in Stored
      BY <2>1, <2>2, QueryAssumption DEF Stored
    <3>2. [unit |-> f.unit, content |-> f.saw] \in found
      BY <2>2, <3>1
    <3> QED
      BY <1>4, <3>2 DEF Awaited
  <2>3. CASE f.unit = u /\ row[u] # f.saw
    BY <1>1, <2>3 DEF Sound, FromRows
  <2>4. CASE f.unit # u
    BY <1>4, <1>5, <2>4 DEF Awaited
  <2> QED
    BY <2>2, <2>3, <2>4
<1> HIDE DEF r
<1>6. r.gate = "answer" => \A f \in r.payload : Judged(f) \/ Awaited(r, f)
  BY <1>1, <1>4, <1>5 DEF Sound, GateCovers, Judges
<1>7. Sound(r)
  BY <1>1, <1>4, <1>6 DEF Sound, FromRows, GateCovers, Cleared, TextReal, PrintsPayload,
                          Unfinished, Panicked
<1>8. Judging(r) \in QueryState /\ Sound(Judging(r))
  BY <1>3, <1>4, <1>6, <1>7, JudgingType, JudgingSound DEF Judges
<1> QED
  BY <1>8, StepKeeps DEF LoadOwner, r

\* The file is the row's: the text behind the fact is on disk.
LEMMA CompareOwnerKeeps ==
    ASSUME IInv, NEW o \in query.loaded, CompareOwner(o)
    PROVE  IInv'
<1> DEFINE r == [query EXCEPT !.loaded = @ \ {o}]
<1>1. query \in QueryState /\ Sound(query) /\ query.status = "none" /\ query.kind # "text"
      /\ query.pc = "files"
  BY Running DEF CompareOwner
<1>2. Ended(query, "stale") \in QueryState /\ Sound(Ended(query, "stale"))
  BY <1>1, EndedType, EndedSound
<1>3. r \in QueryState
  BY <1>1 DEF QueryState
<1>4. /\ r.status = "none" /\ r.kind # "text" /\ r.pc = "files"
      /\ r.gate = query.gate /\ r.payload = query.payload
      /\ r.owners = query.owners /\ r.loaded = query.loaded \ {o}
  BY <1>1 DEF QueryState
<1> HIDE DEF r
<1>5. ASSUME file[o.unit] = o.content
      PROVE  Judging(r) \in QueryState /\ Sound(Judging(r))
  <2>1. ASSUME NEW f \in query.payload, Awaited(query, f)
        PROVE  Judged(f) \/ Awaited(r, f)
    <3>1. f.unit \in Units
      BY <1>1 DEF QueryState, Fact
    <3>2. CASE o = [unit |-> f.unit, content |-> f.saw]
      BY <1>5, <3>1, <3>2 DEF IInv, OnDiskNow, Judged
    <3>3. CASE o # [unit |-> f.unit, content |-> f.saw]
      BY <1>4, <2>1, <3>3 DEF Awaited
    <3> QED
      BY <3>2, <3>3
  <2>2. r.gate = "answer" => \A f \in r.payload : Judged(f) \/ Awaited(r, f)
    BY <1>1, <1>4, <2>1 DEF Sound, GateCovers, Judges
  <2>3. Sound(r)
    BY <1>1, <1>4, <2>2 DEF Sound, FromRows, GateCovers, Cleared, TextReal, PrintsPayload,
                            Unfinished, Panicked
  <2> QED
    BY <1>3, <1>4, <2>2, <2>3, JudgingType, JudgingSound DEF Judges
<1> QED
  BY <1>2, <1>5, StepKeeps DEF CompareOwner, r

LEMMA ReadReferencesKeeps ==
    ASSUME Strategy = "fresh_only", IInv, ReadReferences
    PROVE  IInv'
<1> DEFINE edges == ReferenceEdges(query.target)
           r == [query EXCEPT !.payload = edges]
<1>1. query \in QueryState /\ Sound(query) /\ query.status = "none" /\ query.kind # "text"
      /\ query.pc = "facts"
  BY Running DEF ReadReferences
<1>2. edges \in SUBSET Fact /\ \A f \in edges : row[f.unit] = f.saw
  <2>1. query.target \in Symbols \cup {None}
    BY <1>1 DEF QueryState
  <2>2. CASE query.target \in Symbols
    BY <2>2, ReadTypes DEF IInv
  <2>3. CASE query.target = None
    BY <2>3, RowTypes DEF IInv, ReferenceEdges, FactOf, Fact, Stored
  <2> QED
    BY <2>1, <2>2, <2>3
<1>3. r \in QueryState /\ r.payload = edges /\ r.status = "none" /\ r.kind = query.kind
      /\ r.pc = "facts"
  <2> HIDE DEF edges
  <2> QED
    BY <1>1, <1>2 DEF QueryState
<1> HIDE DEF r
<1>4. Sound(r)
  BY <1>1, <1>2, <1>3, ReadSound DEF Judges
<1>5. Answer(r) \in QueryState /\ Sound(Answer(r))
  BY <1>1, <1>3, <1>4, AnswerType, AnswerSound
<1> QED
  BY <1>5, StepKeeps DEF ReadReferences, r

LEMMA ExpandKeeps ==
    ASSUME Strategy = "fresh_only", IInv, NEW s \in Symbols, Expand(s)
    PROVE  IInv'
<1> DEFINE deep == query.kind = "transitive"
           new  == DirectSubtypes(s) \ (IF deep THEN query.visited ELSE {})
           more == IF deep THEN new ELSE {}
           r    == [query EXCEPT !.pending = (@ \ {s}) \cup more,
                                 !.visited = @ \cup new,
                                 !.found = @ \cup new]
           t    == [r EXCEPT !.pc = "records"]
<1>1. query \in QueryState /\ Sound(query) /\ query.status = "none" /\ query.kind # "text"
      /\ query.pc = "facts"
  BY Running DEF Expand
<1>2. new \in SUBSET Symbols /\ more \in SUBSET Symbols
  BY ReadTypes DEF IInv
<1>3. Step(IF r.pending # {} THEN r ELSE IF r.found = {} THEN Answer(r) ELSE t)
  BY DEF Expand
<1>4. r \in QueryState /\ r.payload = query.payload /\ r.status = "none"
      /\ r.kind = query.kind /\ r.pc = "facts"
  <2> HIDE DEF new, more
  <2> QED
    BY <1>1, <1>2 DEF QueryState
<1> HIDE DEF r
<1>5. t \in QueryState /\ t.payload = query.payload /\ t.status = "none"
      /\ t.kind = query.kind /\ t.pc = "records"
  BY <1>4 DEF QueryState
<1> HIDE DEF t
<1>6. Sound(r) /\ Sound(t)
  BY <1>1, <1>4, <1>5, MoveSound DEF Judges
<1>7. Answer(r) \in QueryState /\ Sound(Answer(r))
  BY <1>1, <1>4, <1>6, AnswerType, AnswerSound
<1> QED
  BY <1>3, <1>4, <1>5, <1>6, <1>7, StepKeeps

LEMMA ReadRecordKeeps ==
    ASSUME Strategy = "fresh_only", IInv, NEW s \in Symbols, ReadRecord(s)
    PROVE  IInv'
<1> DEFINE records == Records(s)
           r == [query EXCEPT !.found = @ \ {s}, !.payload = @ \cup records]
<1>1. query \in QueryState /\ Sound(query) /\ query.status = "none" /\ query.kind # "text"
      /\ query.pc = "records"
  BY Running DEF ReadRecord
<1>2. records \in SUBSET Fact /\ \A f \in records : row[f.unit] = f.saw
  BY ReadTypes DEF IInv
<1>3. r \in QueryState /\ r.payload = query.payload \cup records /\ r.status = "none"
      /\ r.kind = query.kind /\ r.pc = "records"
  <2> HIDE DEF records
  <2> QED
    BY <1>1, <1>2 DEF QueryState
<1>4. Step(IF r.found # {} THEN r ELSE Answer(r))
  BY DEF ReadRecord
<1> HIDE DEF r
<1>5. Sound(r)
  BY <1>1, <1>2, <1>3, ReadSound DEF Judges
<1>6. Answer(r) \in QueryState /\ Sound(Answer(r))
  BY <1>1, <1>3, <1>5, AnswerType, AnswerSound
<1> QED
  BY <1>3, <1>4, <1>5, <1>6, StepKeeps

\* A slice fails on a file that is not the text of the fact, which was judged: then
\* there were two texts, or the owner was committed.
LEMMA PrintFactKeeps ==
    ASSUME IInv, NEW f \in query.left, PrintFact(f)
    PROVE  IInv'
<1> DEFINE r == [query EXCEPT !.left = @ \ {f}]
<1>1. query \in QueryState /\ Sound(query) /\ query.status = "none" /\ query.kind # "text"
      /\ query.pc = "print"
  BY Running DEF PrintFact
<1>2. f \in query.payload /\ f \in Fact /\ Judged(f)
  BY <1>1 DEF Sound, PrintsPayload, Cleared, QueryState
<1>3. Ended(query, "error") \in QueryState /\ Sound(Ended(query, "error"))
  BY <1>1, EndedType, EndedSound
<1>4. ASSUME file[f.unit] \notin Fits[f.saw] \cup {Absent}
      PROVE  Ended(query, "panic") \in QueryState /\ Sound(Ended(query, "panic"))
  <2>1. f.unit \in Units /\ f.saw \in Contents
    BY <1>2 DEF Fact
  <2>2. f.unit \in committed \/ Cardinality(onDisk[f.unit]) > 1
    <3>1. SUFFICES ASSUME f.saw \in onDisk[f.unit]
                   PROVE  Cardinality(onDisk[f.unit]) > 1
      BY <1>2 DEF Judged
    <3>2. file[f.unit] # f.saw /\ file[f.unit] \in onDisk[f.unit]
          /\ IsFiniteSet(onDisk[f.unit])
      BY <1>4, <2>1, QueryAssumption DEF IInv, OnDiskNow
    <3> DEFINE both == {file[f.unit], f.saw}
    <3>3. both \subseteq onDisk[f.unit]
      BY <3>1, <3>2
    <3>4. Cardinality(both) = 2
      <4>1. Cardinality({f.saw}) = 1 /\ IsFiniteSet({f.saw})
        BY FS_Singleton
      <4>2. Cardinality({f.saw} \cup {file[f.unit]}) = 1 + 1
        BY <3>2, <4>1, FS_AddElement
      <4>3. both = {f.saw} \cup {file[f.unit]}
        OBVIOUS
      <4> QED
        BY <4>2, <4>3
    <3>5. Cardinality(both) <= Cardinality(onDisk[f.unit])
          /\ Cardinality(onDisk[f.unit]) \in Nat
      BY <3>2, <3>3, FS_Subset, FS_CardinalityType
    <3> QED
      BY <3>4, <3>5
  <2>3. Ended(query, "panic") \in QueryState
    BY <1>1, EndedType
  <2> QED
    BY <1>1, <1>2, <2>2, <2>3 DEF Ended, QueryState, Sound, FromRows, GateCovers, Cleared,
                                  TextReal, PrintsPayload, Unfinished, Panicked, Judges
<1>5. r \in QueryState /\ Sound(r)
  BY <1>1 DEF QueryState, Sound, FromRows, GateCovers, Cleared, TextReal, PrintsPayload,
              Unfinished, Panicked, Judges
<1>6. Ended(r, "ok") \in QueryState
  BY <1>5, EndedType
<1>7. Sound(Ended(r, "ok"))
  BY <1>1 DEF Ended, QueryState, Sound, FromRows, GateCovers, Cleared, TextReal,
              PrintsPayload, Unfinished, Panicked, Judges
<1> HIDE DEF r
<1> QED
  BY <1>3, <1>4, <1>5, <1>6, <1>7, StepKeeps DEF PrintFact, r

LEMMA ReadMatchKeeps ==
    ASSUME IInv, NEW m \in query.left, ReadMatch(m)
    PROVE  IInv'
<1> DEFINE real == IF file[m.unit] = m.saw THEN {m} ELSE {}
           r == [query EXCEPT !.left = @ \ {m}, !.payload = @ \cup real]
<1>1. query \in QueryState /\ Sound(query) /\ query.status = "none" /\ query.pc = "search"
  BY DEF ReadMatch, At, IInv, TypeOK, Sound, Unfinished
<1>2. m \in Fact /\ real \in SUBSET Fact /\ \A f \in real : f.saw \in onDisk[f.unit]
  BY <1>1 DEF QueryState, Fact, IInv, OnDiskNow
<1>3. /\ r \in QueryState /\ r.payload = query.payload \cup real
      /\ r.status = "none" /\ r.pc = "search" /\ r.kind = query.kind
  <2> HIDE DEF real
  <2> QED
    BY <1>1, <1>2 DEF QueryState
<1>4. Step(IF r.left # {} THEN r
           ELSE Ended(r, IF r.payload = {} THEN "no_result" ELSE "ok"))
  BY DEF ReadMatch
<1> HIDE DEF real, r
<1>5. Sound(r)
  BY <1>1, <1>2, <1>3 DEF Sound, FromRows, GateCovers, Cleared, TextReal, PrintsPayload,
                          Unfinished, Panicked, Judges, Judged
<1>6. ASSUME NEW status \in {"no_result", "ok"}
      PROVE  Ended(r, status) \in QueryState /\ Sound(Ended(r, status))
  <2>1. Ended(r, status) \in QueryState
    BY <1>3, EndedType
  <2>2. \A f \in r.payload : Judged(f)
    BY <1>3, <1>5 DEF Sound, Cleared
  <2> QED
    BY <1>3, <1>5, <2>1, <2>2 DEF Ended, QueryState, Sound, FromRows, GateCovers, Cleared,
                                  TextReal, PrintsPayload, Unfinished, Panicked, Judges
<1> QED
  BY <1>3, <1>4, <1>5, <1>6, StepKeeps

LEMMA ContinueKeeps ==
    ASSUME Strategy = "fresh_only", IInv, Continue
    PROVE  IInv'
  BY ResolveKeeps, ReadSymbolKeeps, GateKeeps, LoadOwnerKeeps, CompareOwnerKeeps,
     ReadReferencesKeeps, ExpandKeeps, ReadRecordKeeps, PrintFactKeeps, ReadMatchKeeps
  DEF Continue

LEMMA EditKeeps ==
    ASSUME IInv, Edit
    PROVE  IInv'
<1>1. ~At("done") /\ UNCHANGED <<row, text, inputs, query, committed, commits>>
      /\ edits' \in Nat /\ disturbed' = TRUE
  BY DEF Edit, index, IInv, TypeOK
<1> DEFINE Moved ==
             /\ file' \in [Units -> FileState]
             /\ config' \in InputStates
             /\ pastFiles' \in [Units -> SUBSET FileState]
             /\ pastInputs' \in [Inputs -> SUBSET (Settings \cup {Absent})]
             /\ onDisk' \in [Units -> SUBSET FileState]
             /\ OnDiskNow'
             /\ \A v \in Units : onDisk[v] \subseteq onDisk'[v]
<1>2. Moved
  <2>1. ASSUME NEW u \in Units, NEW state \in FileState, EditFile(u, state)
        PROVE  Moved
    <3>1. /\ file' \in [Units -> FileState]
          /\ config' \in InputStates
          /\ pastFiles' \in [Units -> SUBSET FileState]
          /\ pastInputs' \in [Inputs -> SUBSET (Settings \cup {Absent})]
      BY <2>1 DEF EditFile, IInv, TypeOK
    <3>2. /\ onDisk' \in [Units -> SUBSET FileState]
          /\ \A v \in Units : onDisk[v] \subseteq onDisk'[v]
      BY <2>1 DEF EditFile, IInv, TypeOK
    <3>3. \A v \in Units : IsFiniteSet(onDisk[v] \cup {state})
      BY FS_AddElement DEF IInv, OnDiskNow
    <3>4. OnDiskNow'
      BY <2>1, <3>3 DEF EditFile, IInv, TypeOK, OnDiskNow
    <3> QED
      BY <3>1, <3>2, <3>4
  <2>2. ASSUME NEW i \in Inputs, NEW state \in Settings \cup {Absent}, EditInput(i, state)
        PROVE  Moved
    <3>1. config' \in InputStates
      BY <2>2 DEF EditInput, IInv, TypeOK, InputStates
    <3>2. pastInputs' \in [Inputs -> SUBSET (Settings \cup {Absent})]
      BY <2>2 DEF EditInput, IInv, TypeOK
    <3> QED
      BY <2>2, <3>1, <3>2 DEF EditInput, IInv, TypeOK, OnDiskNow
  <2> QED
    BY <2>1, <2>2 DEF Edit
<1>3. Sound(query)'
  BY <1>1, <1>2, WorldKeeps DEF IInv
<1> QED
  BY <1>1, <1>2, <1>3 DEF IInv, TypeOK

LEMMA CommitKeeps ==
    ASSUME IInv, Commit
    PROVE  IInv'
<1>1. ~At("done") /\ UNCHANGED <<file, config, query, pastFiles, pastInputs, onDisk, edits>>
      /\ commits' \in Nat /\ disturbed' = TRUE
  BY DEF Commit, disk, IInv, TypeOK
<1> DEFINE Written ==
             /\ row' \in [Units -> Contents \cup {None}]
             /\ text' \in [Units -> Contents \cup {None}]
             /\ inputs' \in InputStates
             /\ committed' \in SUBSET Units /\ committed \subseteq committed'
             /\ \A v \in Units : row'[v] = row[v] \/ v \in committed'
<1>2. Written
  <2>1. \A state \in FileState : RowFor(state) \in Contents \cup {None}
    BY DEF RowFor, FileState
  <2>2. ASSUME NEW u \in Units, NEW state \in pastFiles[u], CommitRow(u, state)
        PROVE  Written
    <3>1. RowFor(state) \in Contents \cup {None}
      BY <2>1 DEF IInv, TypeOK
    <3> QED
      BY <2>2, <3>1 DEF CommitRow, IInv, TypeOK
  <2>3. ASSUME NEW found \in [Units -> FileState], SyncText(found)
        PROVE  Written
    BY <2>1, <2>3 DEF SyncText, IInv, TypeOK
  <2>4. ASSUME NEW recorded \in InputStates, ReplaceInputs(recorded)
        PROVE  Written
    BY <2>4 DEF ReplaceInputs, IInv, TypeOK
  <2> QED
    BY <2>2, <2>3, <2>4 DEF Commit
<1>3. OnDiskNow'
  BY <1>1 DEF IInv, OnDiskNow
<1>4. Sound(query)'
  BY <1>1, <1>2, WorldKeeps DEF IInv
<1> QED
  BY <1>1, <1>2, <1>3, <1>4 DEF IInv, TypeOK

LEMMA NextKeeps ==
    ASSUME Strategy = "fresh_only", IInv, [Next]_vars
    PROVE  IInv'
<1>1. CASE UNCHANGED vars
  BY <1>1 DEF vars, disk, index, history, IInv, TypeOK, OnDiskNow, Sound, FromRows,
              GateCovers, Cleared, TextReal, PrintsPayload, Unfinished, Panicked, Judged,
              Awaited
<1>2. CASE Start
  BY <1>2, StartKeeps
<1>3. CASE Continue
  BY <1>3, ContinueKeeps
<1>4. CASE Edit
  BY <1>4, EditKeeps
<1>5. CASE Commit
  BY <1>5, CommitKeeps
<1> QED
  BY <1>1, <1>2, <1>3, <1>4, <1>5 DEF Next

LEMMA Invariance ==
    ASSUME Strategy = "fresh_only"
    PROVE  Spec => []IInv
<1>1. IInv /\ [Next]_vars => IInv'
  BY NextKeeps
<1> QED
  BY InitInvariant, <1>1, PTL DEF Spec

-----------------------------------------------------------------------------
(* The theorems. *)

\* Every local of a command and every table keeps its type: a missing row never
\* becomes an owner the gate compares.
THEOREM TypeCorrect ==
    ASSUME Strategy = "fresh_only"
    PROVE  Spec => []TypeOK
<1>1. IInv => TypeOK
  BY DEF IInv
<1> QED
  BY <1>1, Invariance, PTL

\* No answer with status ok speaks of a text that was not on disk while it was
\* computed, unless an index run committed the fact's owner meanwhile.
THEOREM AnswersWereCurrentHolds ==
    ASSUME Strategy = "fresh_only"
    PROVE  Spec => []AnswersWereCurrent
<1>1. IInv => AnswersWereCurrent
  BY DEF IInv, Sound, Cleared, Judged, AnswersWereCurrent
<1> QED
  BY <1>1, Invariance, PTL

\* Every match a text search reports is of a text that was on disk while it ran.
THEOREM SearchReportsRealTextHolds ==
    ASSUME Strategy = "fresh_only"
    PROVE  Spec => []SearchReportsRealText
<1>1. IInv => SearchReportsRealText
  BY DEF IInv, Sound, TextReal, SearchReportsRealText
<1> QED
  BY <1>1, Invariance, PTL

\* A command that panics while printing met a changed file or a commit.
THEOREM PanicNeedsRaceHolds ==
    ASSUME Strategy = "fresh_only"
    PROVE  Spec => []PanicNeedsRace
<1>1. IInv => PanicNeedsRace
  BY DEF IInv, Sound, Panicked, PanicNeedsRace
<1> QED
  BY <1>1, Invariance, PTL

-----------------------------------------------------------------------------
(* Queries that nothing disturbs: what the command has seen is still so.   *)

Stepping == Judges \cup {"symbol", "facts", "records", "print"}

\* Asked and Differ, of a kind and a target.
Hits(kind, s) ==
    CASE kind = "definition"      -> Records(s)
      [] kind = "references"      -> ReferenceEdges(s)
      [] kind = "implementations" -> UNION {Records(t) : t \in DirectSubtypes(s)}
      [] kind = "transitive"      -> UNION {Records(t) : t \in Descendants(s)}

InputsMatch == \A i \in Inputs : inputs[i] \in {Absent, config[i]}
RowsMatch(facts) == \A u \in OwnersOf(facts) : row[u] = file[u]
PlaceMatches(q) == q.place # None => row[q.place] = file[q.place]

\* The gate of the target has passed, if the index has the target.
TargetMatches(q) ==
    Records(q.target) # {} => InputsMatch /\ RowsMatch(Records(q.target))

AllMatch(q) ==
    /\ InputsMatch /\ PlaceMatches(q)
    /\ RowsMatch(Records(q.target) \cup Hits(q.kind, q.target))

\* What the gate is run for.
Purpose(q) == IF q.gate = "target" THEN Records(q.target) ELSE q.payload

Untouched(q) ==
    /\ q.payload = {} /\ q.found = {}
    /\ q.pending = {q.target} /\ q.visited = {q.target}

\* Until a location is resolved there is no target; its row is compared first.
Locating(q) ==
    q.pc \in {"compare", "unit", "locate"} =>
        /\ q.place # None /\ q.target = None /\ q.payload = {} /\ q.found = {}
        /\ q.pc = "compare" => q.source = file[q.place]
        /\ q.pc = "unit" => row[q.place] \in {None, file[q.place]}
        /\ q.pc = "locate" => row[q.place] = file[q.place]

Targeted(q) ==
    /\ q.pc # "search"
    /\ q.pc \in Stepping => q.target \in Symbols /\ PlaceMatches(q)
    /\ q.pc = "symbol" => Untouched(q)
    /\ q.pc \notin Judges \cup {"print", "done"} => q.loaded = {}

\* What the gate is run for is what was read, and it has in hand all owners that it
\* has not found to match.
InHand(q) ==
    /\ IF q.gate = "target" THEN q.kind # "definition" /\ Untouched(q)
       ELSE /\ q.payload = Hits(q.kind, q.target)
            /\ q.kind # "definition" => TargetMatches(q)
    /\ q.owners \subseteq OwnersOf(Purpose(q))
    /\ \A o \in q.loaded : o.unit \in OwnersOf(Purpose(q)) /\ o.content = row[o.unit]
    /\ \A u \in OwnersOf(Purpose(q)) :
           u \in q.owners \/ [unit |-> u, content |-> row[u]] \in q.loaded \/ row[u] = file[u]

Gated(q) ==
    q.pc \in Judges =>
        /\ InHand(q)
        /\ q.pc = "match" => q.persisted = inputs
        /\ q.pc \in {"owners", "files"} => InputsMatch

\* The part of the hierarchy that was walked: what is found is below the target, and
\* what is below a visited symbol is visited or pending.
Walked(q) ==
    IF q.kind = "transitive"
    THEN /\ q.target \in q.visited /\ q.pending \subseteq q.visited
         /\ q.found = q.visited \ {q.target} /\ q.found \subseteq Descendants(q.target)
         /\ \A x \in q.visited \ q.pending : DirectSubtypes(x) \subseteq q.visited
    ELSE Untouched(q)

Collecting(q) ==
    /\ q.pc = "facts" =>
           /\ q.kind # "definition" /\ q.payload = {} /\ TargetMatches(q)
           /\ q.kind \in {"implementations", "transitive"} => Walked(q)
    /\ q.pc = "records" =>
           /\ q.kind \in {"implementations", "transitive"} /\ TargetMatches(q)
           /\ q.payload \cup UNION {Records(t) : t \in q.found} = Hits(q.kind, q.target)
    /\ q.pc = "print" => q.payload = Hits(q.kind, q.target) /\ AllMatch(q)

\* QuietAnswersAreExact of one command.
Outcome(q) ==
    q.pc = "done" =>
        \/ q.status = "ok" /\ q.payload = Hits(q.kind, q.target) /\ AllMatch(q)
        \/ /\ q.status = "stale"
           /\ IF q.target = None THEN row[q.place] # file[q.place] ELSE ~AllMatch(q)
        \/ /\ q.status = "no_result"
           /\ \/ q.target = None
              \/ Hits(q.kind, q.target) = {}
              \/ q.place = None /\ Records(q.target) = {} /\ q.target \notin External
        \/ q.status = "ambiguous" /\ q.target = None
        \/ q.status = "error" /\ q.place # None /\ q.target = None

Exact(q) == Locating(q) /\ Targeted(q) /\ Gated(q) /\ Collecting(q) /\ Outcome(q)

QuietInv == ~disturbed /\ ~At("idle") /\ query.kind \in Navigation => Exact(query)

\* The definitions speak of the command, the index and the disk.
LEMMA ExactFollows ==
    ASSUME NEW q, Exact(q), query' = q, UNCHANGED <<file, config, row, inputs>>
    PROVE  Exact(query)'
<1>1. UNCHANGED Stored
  BY DEF Stored
<1>2. ASSUME NEW s
      PROVE  /\ Records(s)' = Records(s) /\ ReferenceEdges(s)' = ReferenceEdges(s)
             /\ DirectSubtypes(s)' = DirectSubtypes(s)
  BY <1>1 DEF Records, ReferenceEdges, DirectSubtypes, FactOf
<1>3. ASSUME NEW s PROVE Descendants(s)' = Descendants(s)
  BY <1>2 DEF Descendants
<1>4. ASSUME NEW kind, NEW s PROVE Hits(kind, s)' = Hits(kind, s)
  <2>1. UNION {Records(t) : t \in DirectSubtypes(s)}' = UNION {Records(t) : t \in DirectSubtypes(s)}
    BY <1>2
  <2>2. UNION {Records(t) : t \in Descendants(s)}' = UNION {Records(t) : t \in Descendants(s)}
    BY <1>2, <1>3
  <2> QED
    BY <1>2, <2>1, <2>2 DEF Hits
<1>5. InputsMatch' <=> InputsMatch
  BY DEF InputsMatch
<1>6. ASSUME NEW facts PROVE RowsMatch(facts)' <=> RowsMatch(facts)
  BY DEF RowsMatch
<1>7. /\ PlaceMatches(query)' <=> PlaceMatches(q)
      /\ TargetMatches(query)' <=> TargetMatches(q)
      /\ AllMatch(query)' <=> AllMatch(q)
      /\ Purpose(query)' = Purpose(q)
      /\ Untouched(query)' <=> Untouched(q)
  BY <1>2, <1>4, <1>5, <1>6 DEF PlaceMatches, TargetMatches, AllMatch, Purpose, Untouched
<1>8. (InHand(query)' <=> InHand(q)) /\ (Walked(query)' <=> Walked(q))
  BY <1>2, <1>3, <1>4, <1>7 DEF InHand, Walked
<1>9. Locating(query)' /\ Targeted(query)'
  BY <1>7 DEF Exact, Locating, Targeted
<1>10. Gated(query)'
  BY <1>5, <1>8 DEF Exact, Gated
<1>11. Collecting(query)'
  BY <1>2, <1>4, <1>7, <1>8 DEF Exact, Collecting
<1>12. Outcome(query)'
  BY <1>2, <1>4, <1>7 DEF Exact, Outcome
<1> QED
  BY <1>9, <1>10, <1>11, <1>12 DEF Exact

\* A symbol's facts are of rows that are stored.
LEMMA HitsAreStored ==
    ASSUME TypeOK, NEW kind \in Navigation, NEW s \in Symbols
    PROVE  /\ Hits(kind, s) \in SUBSET Fact
           /\ \A f \in Records(s) \cup Hits(kind, s) : f.unit \in Stored /\ f.saw = row[f.unit]
<1>1. ASSUME NEW t \in Symbols
      PROVE  \A f \in Records(t) \cup ReferenceEdges(t) :
                 f \in Fact /\ f.unit \in Stored /\ f.saw = row[f.unit]
  BY ReadTypes DEF Records, ReferenceEdges, FactOf
<1>2. DirectSubtypes(s) \subseteq Symbols /\ Descendants(s) \subseteq Symbols
  BY DEF DirectSubtypes, Descendants
<1> QED
  BY <1>1, <1>2 DEF Hits, Navigation

\* Descendants is closed, and nothing that is closed lacks one of them.
LEMMA BelowIsBelow ==
    ASSUME NEW s \in Symbols, NEW x \in Descendants(s) \cup {s}, NEW t \in DirectSubtypes(x), t # s
    PROVE  t \in Descendants(s)
<1>1. t \in Symbols
  BY DEF DirectSubtypes
<1>2. ASSUME NEW closed \in SUBSET Symbols, s \in closed,
             \A y \in closed : DirectSubtypes(y) \subseteq closed
      PROVE  t \in closed
  BY <1>2 DEF Descendants
<1> QED
  BY <1>1, <1>2 DEF Descendants

LEMMA ClosedHasAll ==
    ASSUME NEW s \in Symbols, NEW closed \in SUBSET Symbols, s \in closed,
           \A x \in closed : DirectSubtypes(x) \subseteq closed
    PROVE  Descendants(s) \subseteq closed \ {s}
  BY DEF Descendants

-----------------------------------------------------------------------------
(* The gate of a quiet query. *)

LEMMA QuietEnded ==
    ASSUME NEW q \in QueryState, NEW status,
           Outcome([q EXCEPT !.pc = "done", !.status = status])
    PROVE  Exact(Ended(q, status))
<1> DEFINE r == [q EXCEPT !.pc = "done", !.status = status]
<1>1. r.pc = "done"
  BY DEF QueryState
<1> QED
  BY <1>1 DEF Ended, Exact, Locating, Targeted, Gated, Collecting, Judges, Stepping

\* Behind the gate everything that was judged agrees with the disk.
LEMMA QuietPassed ==
    ASSUME NEW q \in QueryState, q.kind \in Navigation, q.target \in Symbols,
           PlaceMatches(q), InputsMatch, RowsMatch(Purpose(q)), InHand(q), q.loaded = {}
    PROVE  Exact(Passed(q))
<1>1. CASE q.gate = "target"
  <2> DEFINE r == [q EXCEPT !.pc = "facts"]
  <2>1. /\ r.pc = "facts" /\ r.kind = q.kind /\ r.payload = q.payload /\ r.found = q.found
        /\ r.pending = q.pending /\ r.visited = q.visited /\ r.target = q.target
        /\ r.loaded = q.loaded /\ r.place = q.place
    BY DEF QueryState
  <2>2. q.kind # "definition" /\ Untouched(q) /\ RowsMatch(Records(q.target))
    BY <1>1 DEF InHand, Purpose
  <2>3. TargetMatches(r) /\ PlaceMatches(r)
    BY <2>1, <2>2 DEF TargetMatches, PlaceMatches
  <2>4. Walked(r)
    BY <2>1, <2>2 DEF Walked, Untouched
  <2>5. Exact(r)
    BY <2>1, <2>2, <2>3, <2>4
       DEF Exact, Locating, Targeted, Gated, Collecting, Outcome, Judges, Stepping, Untouched
  <2> QED
    BY <1>1, <2>5 DEF Passed
<1>2. CASE q.gate = "answer"
  <2>1. q.payload = Hits(q.kind, q.target) /\ RowsMatch(Hits(q.kind, q.target))
    BY <1>2 DEF InHand, Purpose
  <2>2. RowsMatch(Records(q.target))
    <3>1. CASE q.kind = "definition"
      BY <2>1, <3>1 DEF Hits
    <3>2. CASE q.kind # "definition"
      BY <1>2, <3>2 DEF InHand, TargetMatches, RowsMatch, OwnersOf
    <3> QED
      BY <3>1, <3>2
  <2>3. AllMatch(q)
    BY <2>1, <2>2 DEF AllMatch, RowsMatch, OwnersOf
  <2>4. CASE q.payload = {}
    <3> DEFINE r == [q EXCEPT !.pc = "done", !.status = "no_result"]
    <3>1. r.pc = "done" /\ r.status = "no_result" /\ r.kind = q.kind /\ r.target = q.target
      BY DEF QueryState
    <3>2. Outcome(r)
      BY <2>1, <2>4, <3>1 DEF Outcome
    <3> QED
      BY <1>2, <2>4, <3>2, QuietEnded DEF Passed
  <2>5. CASE q.payload # {} /\ q.short
    <3> DEFINE r == [q EXCEPT !.pc = "print", !.left = q.payload]
    <3>1. /\ r.pc = "print" /\ r.kind = q.kind /\ r.target = q.target /\ r.place = q.place
          /\ r.payload = q.payload
      BY DEF QueryState
    <3>2. AllMatch(r) /\ PlaceMatches(r)
      BY <2>3, <3>1 DEF AllMatch, PlaceMatches
    <3>3. Exact(r)
      BY <2>1, <3>1, <3>2
         DEF Exact, Locating, Targeted, Gated, Collecting, Outcome, Judges, Stepping
    <3> QED
      BY <1>2, <2>5, <3>3 DEF Passed
  <2>6. CASE q.payload # {} /\ ~q.short
    <3> DEFINE r == [q EXCEPT !.pc = "done", !.status = "ok"]
    <3>1. /\ r.pc = "done" /\ r.status = "ok" /\ r.kind = q.kind /\ r.target = q.target
          /\ r.place = q.place /\ r.payload = q.payload
      BY DEF QueryState
    <3>2. AllMatch(r)
      BY <2>3, <3>1 DEF AllMatch, PlaceMatches
    <3>3. Outcome(r)
      BY <2>1, <3>1, <3>2 DEF Outcome
    <3> QED
      BY <1>2, <2>6, <3>3, QuietEnded DEF Passed
  <2> QED
    BY <2>4, <2>5, <2>6
<1> QED
  BY <1>1, <1>2 DEF QueryState

LEMMA QuietJudging ==
    ASSUME NEW q \in QueryState, q.kind \in Navigation, q.target \in Symbols,
           PlaceMatches(q), InputsMatch, InHand(q)
    PROVE  Exact(Judging(q))
<1>1. CASE q.owners = {} /\ q.loaded = {}
  <2>1. RowsMatch(Purpose(q))
    BY <1>1 DEF InHand, RowsMatch
  <2> QED
    BY <1>1, <2>1, QuietPassed DEF Judging
<1>2. ASSUME NEW step \in {"owners", "files"}
      PROVE  Exact([q EXCEPT !.pc = step])
  <2> DEFINE r == [q EXCEPT !.pc = step]
  <2>1. /\ r.pc = step /\ r.kind = q.kind /\ r.target = q.target /\ r.place = q.place
        /\ r.payload = q.payload /\ r.gate = q.gate /\ r.owners = q.owners
        /\ r.loaded = q.loaded /\ r.found = q.found /\ r.pending = q.pending
        /\ r.visited = q.visited
    BY DEF QueryState
  <2>2. /\ PlaceMatches(r) /\ Purpose(r) = Purpose(q)
        /\ (Untouched(r) <=> Untouched(q)) /\ (TargetMatches(r) <=> TargetMatches(q))
    BY <2>1 DEF PlaceMatches, Purpose, Untouched, TargetMatches
  <2>3. InHand(r)
    BY <2>1, <2>2 DEF InHand
  <2> QED
    BY <2>1, <2>2, <2>3
       DEF Exact, Locating, Targeted, Gated, Collecting, Outcome, Judges, Stepping
<1> QED
  BY <1>1, <1>2 DEF Judging

\* The gate starts with all owners in hand.
LEMMA QuietGate ==
    ASSUME Strategy = "fresh_only", NEW q \in QueryState,
           q.target \in Symbols, PlaceMatches(q), q.loaded = {},
           NEW purpose \in {"target", "answer"}, NEW facts,
           purpose = "target" => /\ facts = Records(q.target)
                                 /\ q.kind # "definition" /\ Untouched(q),
           purpose = "answer" => /\ facts = q.payload /\ q.payload = Hits(q.kind, q.target)
                                 /\ q.kind # "definition" => TargetMatches(q)
    PROVE  Exact(Gate(q, purpose, facts))
<1> DEFINE r == [q EXCEPT !.pc = "inputs", !.gate = purpose, !.owners = OwnersOf(facts)]
<1>1. /\ r.pc = "inputs" /\ r.kind = q.kind /\ r.target = q.target /\ r.place = q.place
      /\ r.payload = q.payload /\ r.gate = purpose /\ r.owners = OwnersOf(facts)
      /\ r.loaded = {} /\ r.found = q.found /\ r.pending = q.pending
      /\ r.visited = q.visited
  BY DEF QueryState
<1>2. /\ PlaceMatches(r) /\ Purpose(r) = facts
      /\ (Untouched(r) <=> Untouched(q)) /\ (TargetMatches(r) <=> TargetMatches(q))
  BY <1>1 DEF PlaceMatches, Purpose, Untouched, TargetMatches
<1>3. InHand(r)
  BY <1>1, <1>2 DEF InHand
<1>4. Exact(r)
  BY <1>1, <1>2, <1>3
     DEF Exact, Locating, Targeted, Gated, Collecting, Outcome, Judges, Stepping
<1> QED
  BY <1>4 DEF Gate

LEMMA QuietAnswer ==
    ASSUME Strategy = "fresh_only", NEW q \in QueryState,
           q.target \in Symbols, PlaceMatches(q), q.loaded = {},
           q.payload = Hits(q.kind, q.target),
           q.kind # "definition" => TargetMatches(q)
    PROVE  Exact(Answer(q))
<1>1. Exact(Gate(q, "answer", q.payload))
  BY QuietGate
<1>2. CASE q.payload = {}
  <2> DEFINE r == [q EXCEPT !.pc = "done", !.status = "no_result"]
  <2>1. r.pc = "done" /\ r.status = "no_result" /\ r.kind = q.kind /\ r.target = q.target
    BY DEF QueryState
  <2>2. Outcome(r)
    BY <1>2, <2>1 DEF Outcome
  <2> QED
    BY <1>1, <2>2, QuietEnded DEF Answer
<1> QED
  BY <1>1, <1>2 DEF Answer

-----------------------------------------------------------------------------
(* The actions of a quiet query. *)

LEMMA QuietMoves ==
    ASSUME NEW q, Step(q), ~disturbed => Exact(q)
    PROVE  QuietInv'
<1>1. /\ query' = q /\ disturbed' = disturbed
      /\ UNCHANGED <<file, config, row, inputs>>
  BY DEF Step, disk, index, history
<1> QED
  BY <1>1, ExactFollows DEF QuietInv

LEMMA QuietBegins ==
    ASSUME NEW q, Begin(q), q.kind \in Navigation => Exact(q)
    PROVE  QuietInv'
<1>1. query' = q /\ UNCHANGED <<file, config, row, inputs>>
  BY DEF Begin, disk, index
<1> QED
  BY <1>1, ExactFollows DEF QuietInv

LEMMA QuietStart ==
    ASSUME IInv, Start
    PROVE  QuietInv'
<1>f. /\ Fresh \in QueryState /\ Fresh.pc = "idle" /\ Fresh.payload = {} /\ Fresh.found = {}
      /\ Fresh.loaded = {} /\ Fresh.place = None /\ Fresh.target = None
  BY FreshType DEF Fresh
<1>1. ASSUME NEW kind \in Navigation, NEW short \in BOOLEAN, NEW s \in Symbols,
             ResolveSymbol(kind, short, s)
      PROVE  QuietInv'
  <2> DEFINE q == [Fresh EXCEPT !.kind = kind, !.short = short, !.target = s,
                                !.pending = {s}, !.visited = {s}]
             r == [q EXCEPT !.pc = "symbol"]
             e == [q EXCEPT !.pc = "done", !.status = "no_result"]
  <2>1. q \in QueryState
    BY <1>f DEF QueryState
  <2>2. CASE Records(s) = {} /\ s \notin External
    <3>1. e.pc = "done" /\ e.status = "no_result" /\ e.place = None /\ e.target = s
      BY <1>f DEF QueryState
    <3>2. Outcome(e)
      BY <2>2, <3>1 DEF Outcome
    <3>3. Exact(Ended(q, "no_result"))
      BY <2>1, <3>2, QuietEnded
    <3> QED
      BY <1>1, <2>2, <3>3, QuietBegins DEF ResolveSymbol
  <2>3. CASE ~(Records(s) = {} /\ s \notin External)
    <3>1. /\ r.pc = "symbol" /\ r.place = None /\ r.target = s /\ r.payload = {} /\ r.found = {}
          /\ r.pending = {s} /\ r.visited = {s} /\ r.loaded = {}
      BY <1>f DEF QueryState
    <3>2. Exact(r)
      BY <3>1 DEF Exact, Locating, Targeted, Gated, Collecting, Outcome, Judges, Stepping,
                  PlaceMatches, Untouched
    <3> QED
      BY <1>1, <2>3, <3>2, QuietBegins DEF ResolveSymbol
  <2> QED
    BY <2>2, <2>3
<1>2. ASSUME NEW kind \in Navigation, NEW short \in BOOLEAN, NEW u \in Units,
             ReadLocation(kind, short, u)
      PROVE  QuietInv'
  <2> DEFINE q == [Fresh EXCEPT !.kind = kind, !.short = short, !.place = u, !.source = file[u]]
             r == [q EXCEPT !.pc = "compare"]
             e == [q EXCEPT !.pc = "done", !.status = "error"]
  <2>1. q \in QueryState
    BY <1>f DEF QueryState, IInv, TypeOK
  <2>2. CASE file[u] = Absent
    <3>1. e.pc = "done" /\ e.status = "error" /\ e.place # None /\ e.target = None
      BY <1>f, QueryAssumption DEF QueryState
    <3>2. Outcome(e)
      BY <2>2, <3>1 DEF Outcome
    <3>3. Exact(Ended(q, "error"))
      BY <2>1, <3>2, QuietEnded
    <3> QED
      BY <1>2, <2>2, <3>3, QuietBegins DEF ReadLocation
  <2>3. CASE file[u] # Absent
    <3>1. /\ r.pc = "compare" /\ r.place = u /\ r.target = None /\ r.payload = {} /\ r.found = {}
          /\ r.source = file[u] /\ r.loaded = {}
      BY <1>f DEF QueryState
    <3>2. Exact(r)
      BY <3>1, QueryAssumption
         DEF Exact, Locating, Targeted, Gated, Collecting, Outcome, Judges, Stepping
    <3> QED
      BY <1>2, <2>3, <3>2, QuietBegins DEF ReadLocation
  <2> QED
    BY <2>2, <2>3
<1>3. ASSUME NEW short \in BOOLEAN, Search(short)
      PROVE  QuietInv'
  <2> DEFINE q == [Fresh EXCEPT !.short = short,
                       !.left = {[unit |-> u, saw |-> text[u], symbol |-> None] :
                                    u \in {v \in Units : text[v] # None}}]
  <2>1. PICK r \in {Ended(q, "no_result"), [q EXCEPT !.pc = "search"]} : Begin(r)
    BY <1>3 DEF Search
  <2>2. r.kind = "text"
    BY DEF Fresh, Ended
  <2> QED
    BY <2>1, <2>2, QuietBegins DEF Navigation
<1> QED
  BY <1>1, <1>2, <1>3 DEF Start

\* A command under way that nothing has disturbed is where its invariant says.
LEMMA QuietRunning ==
    ASSUME IInv, QuietInv, ~disturbed,
           NEW step \in {"compare", "unit", "locate", "symbol", "inputs", "match",
                         "owners", "files", "facts", "records", "print"},
           At(step)
    PROVE  /\ query \in QueryState /\ query.pc = step /\ query.kind \in Navigation
           /\ Locating(query) /\ Targeted(query) /\ Gated(query) /\ Collecting(query)
<1>1. query \in QueryState /\ query.pc = step /\ query.kind \in Navigation
  BY Running
<1> QED
  BY <1>1 DEF QuietInv, At, Exact

LEMMA QuietResolve ==
    ASSUME IInv, QuietInv, CompareLocation \/ FindUnit \/ LocateSymbol
    PROVE  QuietInv'
<1>1. CASE CompareLocation
  <2> DEFINE e == [query EXCEPT !.pc = "done", !.status = "stale"]
             x == [query EXCEPT !.pc = "done", !.status = "error"]
             r == [query EXCEPT !.pc = "unit", !.source = Absent]
  <2>1. ASSUME ~disturbed, row[query.place] \notin {None, query.source}
        PROVE  Exact(Ended(query, "stale")) /\ Exact(Ended(query, "error"))
    <3>1. /\ query \in QueryState /\ query.place # None /\ query.target = None
          /\ query.source = file[query.place]
      BY <1>1, <2>1, QuietRunning DEF CompareLocation, Locating
    <3>2. /\ e.pc = "done" /\ e.status = "stale" /\ e.target = None /\ e.place = query.place
          /\ x.pc = "done" /\ x.status = "error" /\ x.target = None /\ x.place = query.place
      BY <3>1 DEF QueryState
    <3>3. Outcome(e) /\ Outcome(x)
      BY <2>1, <3>1, <3>2 DEF Outcome
    <3> QED
      BY <3>1, <3>3, QuietEnded
  <2>2. ASSUME ~disturbed, row[query.place] \in {None, query.source}
        PROVE  Exact(r)
    <3>1. /\ query \in QueryState /\ query.place # None /\ query.target = None
          /\ query.source = file[query.place] /\ query.payload = {} /\ query.found = {}
          /\ query.loaded = {}
      BY <1>1, <2>2, QuietRunning DEF CompareLocation, Locating, Targeted, Judges
    <3>2. /\ r.pc = "unit" /\ r.place = query.place /\ r.target = None /\ r.payload = {}
          /\ r.found = {} /\ r.loaded = {}
      BY <3>1 DEF QueryState
    <3> QED
      BY <2>2, <3>1, <3>2
         DEF Exact, Locating, Targeted, Gated, Collecting, Outcome, Judges, Stepping
  <2> QED
    BY <1>1, <2>1, <2>2, QuietMoves DEF CompareLocation
<1>2. CASE FindUnit
  <2> DEFINE e == [query EXCEPT !.pc = "done", !.status = "error"]
             r == [query EXCEPT !.pc = "locate"]
  <2>1. ASSUME ~disturbed
        PROVE  /\ query \in QueryState /\ query.place # None /\ query.target = None
               /\ row[query.place] \in {None, file[query.place]}
               /\ query.payload = {} /\ query.found = {} /\ query.loaded = {}
    BY <1>2, <2>1, QuietRunning DEF FindUnit, Locating, Targeted, Judges
  <2>2. ASSUME ~disturbed, row[query.place] = None
        PROVE  Exact(Ended(query, "error"))
    <3>1. e.pc = "done" /\ e.status = "error" /\ e.place # None /\ e.target = None
      BY <2>1, <2>2 DEF QueryState
    <3>2. Outcome(e)
      BY <2>2, <3>1 DEF Outcome
    <3> QED
      BY <2>1, <2>2, <3>2, QuietEnded
  <2>3. ASSUME ~disturbed, row[query.place] # None
        PROVE  Exact(r)
    <3>1. /\ r.pc = "locate" /\ r.place = query.place /\ r.target = None /\ r.payload = {}
          /\ r.found = {} /\ r.loaded = {}
      BY <2>1, <2>3 DEF QueryState
    <3> QED
      BY <2>1, <2>3, <3>1
         DEF Exact, Locating, Targeted, Gated, Collecting, Outcome, Judges, Stepping
  <2> QED
    BY <1>2, <2>2, <2>3, QuietMoves DEF FindUnit
<1>3. CASE LocateSymbol
  <2>1. ASSUME ~disturbed
        PROVE  /\ query \in QueryState /\ query.place # None /\ query.target = None
               /\ row[query.place] = file[query.place]
               /\ query.payload = {} /\ query.found = {} /\ query.loaded = {}
    BY <1>3, <2>1, QuietRunning DEF LocateSymbol, Locating, Targeted, Judges
  <2>2. ASSUME ~disturbed, NEW status \in {"ambiguous", "no_result", "error"}
        PROVE  Exact(Ended(query, status))
    <3> DEFINE e == [query EXCEPT !.pc = "done", !.status = status]
    <3>1. e.pc = "done" /\ e.status = status /\ e.target = None /\ e.place # None
      BY <2>1, <2>2 DEF QueryState
    <3>2. Outcome(e)
      BY <2>2, <3>1 DEF Outcome
    <3> QED
      BY <2>1, <2>2, <3>2, QuietEnded
  <2>3. ASSUME ~disturbed, NEW s \in Located(query.place)
        PROVE  Exact([query EXCEPT !.pc = "symbol", !.target = s,
                                   !.pending = {s}, !.visited = {s}])
    <3> DEFINE r == [query EXCEPT !.pc = "symbol", !.target = s,
                                  !.pending = {s}, !.visited = {s}]
    <3>1. s \in Symbols
      BY RowTypes, QueryAssumption DEF Located, IInv
    <3>2. /\ r.pc = "symbol" /\ r.place = query.place /\ r.target = s /\ r.payload = {}
          /\ r.found = {} /\ r.loaded = {} /\ r.pending = {s} /\ r.visited = {s}
      BY <2>1, <2>3 DEF QueryState
    <3> QED
      BY <2>1, <2>3, <3>1, <3>2
         DEF Exact, Locating, Targeted, Gated, Collecting, Outcome, Judges, Stepping,
             PlaceMatches, Untouched
  <2> QED
    BY <1>3, <2>2, <2>3, QuietMoves DEF LocateSymbol
<1> QED
  BY <1>1, <1>2, <1>3

LEMMA QuietReadSymbol ==
    ASSUME Strategy = "fresh_only", IInv, QuietInv, ReadSymbol
    PROVE  QuietInv'
<1> DEFINE records == Records(query.target)
           q == [query EXCEPT !.payload = records]
           r == [query EXCEPT !.pc = "facts"]
           e == [query EXCEPT !.pc = "done", !.status = "no_result"]
<1>1. ASSUME ~disturbed
      PROVE  /\ query \in QueryState /\ query.kind \in Navigation /\ query.target \in Symbols
             /\ PlaceMatches(query) /\ Untouched(query) /\ query.loaded = {}
  BY <1>1, QuietRunning DEF ReadSymbol, Targeted, Judges, Stepping
<1>2. ASSUME ~disturbed, query.kind # "definition", records = {}
      PROVE  Exact(r)
  <2>1. /\ r.pc = "facts" /\ r.kind = query.kind /\ r.target = query.target
        /\ r.place = query.place /\ r.payload = {} /\ r.found = {} /\ r.loaded = {}
        /\ r.pending = {query.target} /\ r.visited = {query.target}
    BY <1>1, <1>2 DEF QueryState, Untouched
  <2> QED
    BY <1>1, <1>2, <2>1
       DEF Exact, Locating, Targeted, Gated, Collecting, Outcome, Judges, Stepping,
           PlaceMatches, TargetMatches, Walked, Untouched
<1>3. ASSUME ~disturbed, query.kind # "definition"
      PROVE  Exact(Gate(query, "target", records))
  BY <1>1, <1>3, QuietGate
<1>4. ASSUME ~disturbed, query.kind = "definition", records = {}
      PROVE  Exact(Ended(query, "no_result"))
  <2>1. /\ e.pc = "done" /\ e.status = "no_result" /\ e.kind = "definition"
        /\ e.target = query.target
    BY <1>1, <1>4 DEF QueryState
  <2>2. Outcome(e)
    BY <1>4, <2>1 DEF Outcome, Hits
  <2> QED
    BY <1>1, <1>4, <2>2, QuietEnded
<1>5. ASSUME ~disturbed, query.kind = "definition"
      PROVE  Exact(Gate(q, "answer", records))
  <2>1. records \in SUBSET Fact
    BY <1>1, <1>5, ReadTypes DEF IInv
  <2>2. /\ q \in QueryState /\ q.payload = records /\ q.kind = "definition"
        /\ q.target = query.target /\ q.place = query.place /\ q.loaded = {}
    BY <1>1, <1>5, <2>1 DEF QueryState
  <2>3. PlaceMatches(q) /\ q.payload = Hits(q.kind, q.target)
    BY <1>1, <1>5, <2>2 DEF PlaceMatches, Hits
  <2> QED
    BY <1>1, <1>5, <2>2, <2>3, QuietGate
<1> QED
  BY <1>2, <1>3, <1>4, <1>5, QuietMoves DEF ReadSymbol

LEMMA QuietInputs ==
    ASSUME IInv, QuietInv, LoadInputs \/ MatchInputs
    PROVE  QuietInv'
<1>1. CASE LoadInputs
  <2> DEFINE r == [query EXCEPT !.pc = "match", !.persisted = inputs]
  <2>1. ASSUME ~disturbed PROVE Exact(r)
    <3>1. /\ query \in QueryState /\ query.target \in Symbols /\ PlaceMatches(query)
          /\ InHand(query)
      BY <1>1, <2>1, QuietRunning DEF LoadInputs, Targeted, Gated, Judges, Stepping
    <3>2. /\ r.pc = "match" /\ r.persisted = inputs /\ r.kind = query.kind
          /\ r.target = query.target /\ r.place = query.place /\ r.payload = query.payload
          /\ r.gate = query.gate /\ r.owners = query.owners /\ r.loaded = query.loaded
          /\ r.found = query.found /\ r.pending = query.pending /\ r.visited = query.visited
      BY <3>1 DEF QueryState
    <3>3. /\ PlaceMatches(r) /\ Purpose(r) = Purpose(query)
          /\ (Untouched(r) <=> Untouched(query)) /\ (TargetMatches(r) <=> TargetMatches(query))
      BY <3>1, <3>2 DEF PlaceMatches, Purpose, Untouched, TargetMatches
    <3>4. InHand(r)
      BY <3>1, <3>2, <3>3 DEF InHand
    <3> QED
      BY <3>1, <3>2, <3>3, <3>4
         DEF Exact, Locating, Targeted, Gated, Collecting, Outcome, Judges, Stepping
  <2> QED
    BY <1>1, <2>1, QuietMoves DEF LoadInputs
<1>2. CASE MatchInputs
  <2> DEFINE r == [query EXCEPT !.persisted = Fresh.persisted]
             e == [query EXCEPT !.pc = "done", !.status = "stale"]
  <2>1. ASSUME ~disturbed
        PROVE  /\ query \in QueryState /\ query.kind \in Navigation /\ query.target \in Symbols
               /\ PlaceMatches(query) /\ InHand(query) /\ query.persisted = inputs
    BY <1>2, <2>1, QuietRunning DEF MatchInputs, Targeted, Gated, Judges, Stepping
  <2>2. ASSUME ~disturbed, \E i \in Inputs : query.persisted[i] \notin {Absent, config[i]}
        PROVE  Exact(Ended(query, "stale"))
    <3>1. ~InputsMatch /\ query.target # None
      BY <2>1, <2>2, QueryAssumption DEF InputsMatch
    <3>2. e.pc = "done" /\ e.status = "stale" /\ e.target = query.target
      BY <2>1, <2>2 DEF QueryState
    <3>3. Outcome(e)
      BY <3>1, <3>2 DEF Outcome, AllMatch
    <3> QED
      BY <2>1, <2>2, <3>3, QuietEnded
  <2>3. ASSUME ~disturbed, \A i \in Inputs : query.persisted[i] \in {Absent, config[i]}
        PROVE  Exact(Judging(r))
    <3>1. InputsMatch
      BY <2>1, <2>3 DEF InputsMatch
    <3>2. r \in QueryState
      BY <2>1, <2>3, FreshType DEF QueryState
    <3>3. /\ r.kind = query.kind
          /\ r.target = query.target /\ r.place = query.place /\ r.payload = query.payload
          /\ r.gate = query.gate /\ r.owners = query.owners /\ r.loaded = query.loaded
          /\ r.found = query.found /\ r.pending = query.pending /\ r.visited = query.visited
      BY <2>1, <2>3 DEF QueryState
    <3>4. /\ PlaceMatches(r) /\ Purpose(r) = Purpose(query)
          /\ (Untouched(r) <=> Untouched(query)) /\ (TargetMatches(r) <=> TargetMatches(query))
      BY <2>1, <2>3, <3>3 DEF PlaceMatches, Purpose, Untouched, TargetMatches
    <3>5. InHand(r)
      BY <2>1, <2>3, <3>3, <3>4 DEF InHand
    <3> QED
      BY <2>1, <2>3, <3>1, <3>2, <3>3, <3>4, <3>5, QuietJudging
  <2> QED
    BY <1>2, <2>2, <2>3, QuietMoves DEF MatchInputs
<1> QED
  BY <1>1, <1>2

\* The facts the gate is run for are of stored rows.
LEMMA PurposeIsStored ==
    ASSUME TypeOK, NEW q, q.kind \in Navigation, q.target \in Symbols, InHand(q)
    PROVE  /\ \A u \in OwnersOf(Purpose(q)) : u \in Stored
           /\ Purpose(q) \subseteq Records(q.target) \cup Hits(q.kind, q.target)
<1>1. Purpose(q) \subseteq Records(q.target) \cup Hits(q.kind, q.target)
  BY DEF Purpose, InHand
<1> QED
  BY <1>1, HitsAreStored DEF OwnersOf

LEMMA QuietLoadOwner ==
    ASSUME IInv, QuietInv, NEW u \in Units, LoadOwner(u)
    PROVE  QuietInv'
<1> DEFINE new == {[unit |-> v, content |-> row[v]] : v \in Stored \cap {u}}
           r == [query EXCEPT !.owners = @ \ {u}, !.loaded = @ \cup new]
<1>1. ASSUME ~disturbed PROVE Exact(Judging(r))
  <2>1. /\ query \in QueryState /\ query.kind \in Navigation /\ query.target \in Symbols
        /\ PlaceMatches(query) /\ InHand(query) /\ InputsMatch /\ u \in query.owners
    BY <1>1, QuietRunning DEF LoadOwner, Targeted, Gated, Judges, Stepping
  <2>2. u \in OwnersOf(Purpose(query)) /\ u \in Stored
    BY <2>1, PurposeIsStored DEF IInv, InHand
  <2>3. new = {[unit |-> u, content |-> row[u]]} /\ row[u] \in Contents
    BY <2>2, RowTypes DEF IInv
  <2>4. r \in QueryState
    <3>1. query.loaded \cup new \in SUBSET Owner
      BY <2>1, <2>3 DEF QueryState, Owner
    <3>2. query.owners \ {u} \in SUBSET Units
      BY <2>1 DEF QueryState
    <3> HIDE DEF new
    <3> QED
      BY <2>1, <3>1, <3>2 DEF QueryState
  <2>5. /\ r.kind = query.kind /\ r.target = query.target /\ r.place = query.place
        /\ r.payload = query.payload /\ r.gate = query.gate
        /\ r.owners = query.owners \ {u} /\ r.loaded = query.loaded \cup new
        /\ r.found = query.found /\ r.pending = query.pending /\ r.visited = query.visited
    BY <2>1 DEF QueryState
  <2>6. /\ PlaceMatches(r) /\ Purpose(r) = Purpose(query)
        /\ (Untouched(r) <=> Untouched(query)) /\ (TargetMatches(r) <=> TargetMatches(query))
    BY <2>1, <2>5 DEF PlaceMatches, Purpose, Untouched, TargetMatches
  <2>7. \A o \in r.loaded : o.unit \in OwnersOf(Purpose(r)) /\ o.content = row[o.unit]
    BY <2>1, <2>2, <2>3, <2>5, <2>6 DEF InHand
  <2>8. InHand(r)
    BY <2>1, <2>3, <2>5, <2>6, <2>7 DEF InHand
  <2> QED
    BY <2>1, <2>4, <2>5, <2>6, <2>8, QuietJudging
<1> QED
  BY <1>1, QuietMoves DEF LoadOwner

LEMMA QuietCompareOwner ==
    ASSUME IInv, QuietInv, NEW o \in query.loaded, CompareOwner(o)
    PROVE  QuietInv'
<1> DEFINE r == [query EXCEPT !.loaded = @ \ {o}]
           e == [query EXCEPT !.pc = "done", !.status = "stale"]
<1>1. ASSUME ~disturbed
      PROVE  /\ query \in QueryState /\ query.kind \in Navigation /\ query.target \in Symbols
             /\ PlaceMatches(query) /\ InHand(query) /\ InputsMatch
             /\ o.unit \in OwnersOf(Purpose(query)) /\ o.content = row[o.unit]
  <2>1. /\ query \in QueryState /\ query.kind \in Navigation /\ query.target \in Symbols
        /\ PlaceMatches(query) /\ InHand(query) /\ InputsMatch
    BY <1>1, QuietRunning DEF CompareOwner, Targeted, Gated, Judges, Stepping
  <2> QED
    BY <2>1 DEF InHand
<1>2. ASSUME ~disturbed, file[o.unit] # o.content
      PROVE  Exact(Ended(query, "stale"))
  <2>1. Purpose(query) \subseteq Records(query.target) \cup Hits(query.kind, query.target)
    BY <1>1, <1>2, PurposeIsStored DEF IInv
  <2>5. o.unit \in OwnersOf(Purpose(query)) /\ row[o.unit] # file[o.unit]
    BY <1>1, <1>2
  <2>6. OwnersOf(Purpose(query))
            \subseteq OwnersOf(Records(query.target) \cup Hits(query.kind, query.target))
    BY <2>1 DEF OwnersOf
  <2>7. ~AllMatch(query)
    BY <2>5, <2>6 DEF AllMatch, RowsMatch
  <2>2. ~AllMatch(query) /\ query.target # None
    BY <1>1, <1>2, <2>7, QueryAssumption
  <2>3. /\ e.pc = "done" /\ e.status = "stale" /\ e.target = query.target
        /\ e.kind = query.kind /\ e.place = query.place
    BY <1>1, <1>2 DEF QueryState
  <2>4. Outcome(e)
    BY <2>2, <2>3 DEF Outcome, AllMatch, PlaceMatches
  <2> QED
    BY <1>1, <1>2, <2>4, QuietEnded
<1>3. ASSUME ~disturbed, file[o.unit] = o.content
      PROVE  Exact(Judging(r))
  <2>1. r \in QueryState
    BY <1>1, <1>3 DEF QueryState
  <2>2. /\ r.kind = query.kind /\ r.target = query.target /\ r.place = query.place
        /\ r.payload = query.payload /\ r.gate = query.gate
        /\ r.owners = query.owners /\ r.loaded = query.loaded \ {o}
        /\ r.found = query.found /\ r.pending = query.pending /\ r.visited = query.visited
    BY <1>1, <1>3 DEF QueryState
  <2>3. /\ PlaceMatches(r) /\ Purpose(r) = Purpose(query)
        /\ (Untouched(r) <=> Untouched(query)) /\ (TargetMatches(r) <=> TargetMatches(query))
    BY <1>1, <1>3, <2>2 DEF PlaceMatches, Purpose, Untouched, TargetMatches
  <2>4. ASSUME NEW v \in OwnersOf(Purpose(query)), [unit |-> v, content |-> row[v]] = o
        PROVE  row[v] = file[v]
    <3>1. o.unit = v /\ o.content = row[v]
      BY <2>4
    <3> QED
      BY <1>3, <3>1
  <2>5. \A v \in OwnersOf(Purpose(r)) :
            v \in r.owners \/ [unit |-> v, content |-> row[v]] \in r.loaded \/ row[v] = file[v]
    BY <1>1, <1>3, <2>2, <2>3, <2>4 DEF InHand
  <2>6. InHand(r)
    BY <1>1, <1>3, <2>2, <2>3, <2>5 DEF InHand
  <2> QED
    BY <1>1, <1>3, <2>1, <2>2, <2>3, <2>6, QuietJudging
<1> QED
  BY <1>2, <1>3, QuietMoves DEF CompareOwner

LEMMA QuietReadReferences ==
    ASSUME Strategy = "fresh_only", IInv, QuietInv, ReadReferences
    PROVE  QuietInv'
<1> DEFINE r == [query EXCEPT !.payload = ReferenceEdges(query.target)]
<1>1. ASSUME ~disturbed PROVE Exact(Answer(r))
  <2>1. /\ query \in QueryState /\ query.target \in Symbols /\ PlaceMatches(query)
        /\ query.loaded = {} /\ TargetMatches(query) /\ query.kind = "references"
    BY <1>1, QuietRunning DEF ReadReferences, Targeted, Collecting, Judges, Stepping
  <2>2. ReferenceEdges(query.target) \in SUBSET Fact
    BY <2>1, ReadTypes DEF IInv
  <2>3. /\ r \in QueryState /\ r.payload = ReferenceEdges(query.target) /\ r.kind = "references"
        /\ r.target = query.target /\ r.place = query.place /\ r.loaded = {}
    BY <2>1, <2>2 DEF QueryState
  <2>4. PlaceMatches(r) /\ TargetMatches(r) /\ r.payload = Hits(r.kind, r.target)
    BY <2>1, <2>3 DEF PlaceMatches, TargetMatches, Hits
  <2> HIDE DEF r
  <2> QED
    BY <2>1, <2>3, <2>4, QuietAnswer
<1> QED
  BY <1>1, QuietMoves DEF ReadReferences

\* One turn of the walk visits what is directly below one symbol; when nothing is
\* pending the visited symbols are closed, so all that is below the target was found.
LEMMA QuietExpand ==
    ASSUME Strategy = "fresh_only", IInv, QuietInv, NEW s \in Symbols, Expand(s)
    PROVE  QuietInv'
<1> DEFINE deep == query.kind = "transitive"
           new  == DirectSubtypes(s) \ (IF deep THEN query.visited ELSE {})
           more == IF deep THEN new ELSE {}
           q    == [query EXCEPT !.pending = (@ \ {s}) \cup more,
                                 !.visited = @ \cup new,
                                 !.found = @ \cup new]
           r    == [q EXCEPT !.pc = "records"]
<1>1. ASSUME ~disturbed
      PROVE  Exact(IF q.pending # {} THEN q ELSE IF q.found = {} THEN Answer(q) ELSE r)
  <2>1. /\ query \in QueryState /\ query.target \in Symbols /\ PlaceMatches(query)
        /\ query.loaded = {} /\ TargetMatches(query) /\ query.payload = {}
        /\ query.kind \in {"implementations", "transitive"} /\ query.pc = "facts"
        /\ Walked(query) /\ s \in query.pending
    BY <1>1, QuietRunning DEF Expand, Targeted, Collecting, Judges, Stepping
  <2>2. new \subseteq Symbols /\ DirectSubtypes(s) \subseteq Symbols
    BY DEF DirectSubtypes
  <2>9. /\ (query.pending \ {s}) \cup more \in SUBSET Symbols
        /\ query.visited \cup new \in SUBSET Symbols
        /\ query.found \cup new \in SUBSET Symbols
    BY <2>1, <2>2 DEF QueryState
  <2>3. q \in QueryState
    <3> HIDE DEF new, more
    <3> QED
      BY <2>1, <2>9 DEF QueryState
  <2>4. /\ q.kind = query.kind /\ q.target = query.target /\ q.place = query.place
        /\ q.payload = {} /\ q.loaded = {} /\ q.pc = "facts"
        /\ q.pending = (query.pending \ {s}) \cup more
        /\ q.visited = query.visited \cup new /\ q.found = query.found \cup new
    BY <2>1, <2>3 DEF QueryState
  <2>5. PlaceMatches(q) /\ TargetMatches(q)
    BY <2>1, <2>4 DEF PlaceMatches, TargetMatches
  <2>6. CASE deep
    <3>1. /\ query.target \in query.visited /\ query.pending \subseteq query.visited
          /\ query.found = query.visited \ {query.target}
          /\ query.found \subseteq Descendants(query.target)
          /\ \A x \in query.visited \ query.pending : DirectSubtypes(x) \subseteq query.visited
      BY <2>1, <2>6 DEF Walked
    <3>2. new = DirectSubtypes(s) \ query.visited /\ more = new
      BY <2>6
    <3>3. new \subseteq Descendants(query.target)
      BY <2>1, <2>2, <3>1, <3>2, BelowIsBelow
    <3>4. /\ query.target \in q.visited /\ q.pending \subseteq q.visited
          /\ q.found = q.visited \ {query.target} /\ q.found \subseteq Descendants(query.target)
      BY <2>4, <3>1, <3>2, <3>3
    <3>5. \A x \in q.visited \ q.pending : DirectSubtypes(x) \subseteq q.visited
      BY <2>4, <3>1, <3>2
    <3>6. Walked(q)
      BY <2>4, <2>6, <3>4, <3>5 DEF Walked
    <3>7. CASE q.pending # {}
      <4>1. Exact(q)
        BY <2>1, <2>4, <2>5, <3>6
           DEF Exact, Locating, Targeted, Gated, Collecting, Outcome, Judges, Stepping
      <4> QED
        BY <3>7, <4>1
    <3>8. CASE q.pending = {}
      <4>1. q.visited \in SUBSET Symbols
        BY <2>3 DEF QueryState
      <4> DEFINE closed == q.visited
      <4>c. query.target \in closed /\ \A x \in closed : DirectSubtypes(x) \subseteq closed
        BY <3>4, <3>5, <3>8
      <4>2. Descendants(query.target) \subseteq q.visited \ {query.target}
        <5> HIDE DEF closed
        <5>1. Descendants(query.target) \subseteq closed \ {query.target}
          BY <2>1, <4>1, <4>c, ClosedHasAll DEF closed
        <5> QED
          BY <5>1 DEF closed
      <4>3. q.found = Descendants(query.target)
        BY <3>4, <4>2
      <4>4. UNION {Records(t) : t \in q.found} = Hits(q.kind, q.target)
        BY <2>4, <2>6, <4>3 DEF Hits
      <4>5. CASE q.found = {}
        <5>1. q.payload = Hits(q.kind, q.target)
          BY <2>4, <4>4, <4>5
        <5>2. Exact(Answer(q))
          BY <2>1, <2>3, <2>4, <2>5, <5>1, QuietAnswer
        <5> QED
          BY <3>8, <4>5, <5>2
      <4>6. CASE q.found # {}
        <5>1. /\ r.pc = "records" /\ r.kind = q.kind /\ r.target = q.target
              /\ r.place = q.place /\ r.payload = q.payload /\ r.loaded = {}
              /\ r.found = q.found
          BY <2>3, <2>4 DEF QueryState
        <5>2. PlaceMatches(r) /\ TargetMatches(r)
          BY <2>5, <5>1 DEF PlaceMatches, TargetMatches
        <5>3. r.payload \cup UNION {Records(t) : t \in r.found} = Hits(r.kind, r.target)
          BY <2>4, <4>4, <5>1
        <5>4. Exact(r)
          BY <2>1, <2>4, <5>1, <5>2, <5>3
             DEF Exact, Locating, Targeted, Gated, Collecting, Outcome, Judges, Stepping
        <5> QED
          BY <3>8, <4>6, <5>4
      <4> QED
        BY <4>5, <4>6
    <3> QED
      BY <3>7, <3>8
  <2>7. CASE ~deep
    <3>1. query.kind = "implementations" /\ Untouched(query)
      BY <2>1, <2>7 DEF Walked
    <3>2. s = query.target /\ new = DirectSubtypes(s) /\ more = {}
      BY <2>1, <2>7, <3>1 DEF Untouched
    <3>3. q.pending = {} /\ q.found = DirectSubtypes(query.target)
      BY <2>4, <3>1, <3>2 DEF Untouched
    <3>4. UNION {Records(t) : t \in q.found} = Hits(q.kind, q.target)
      BY <2>4, <3>1, <3>3 DEF Hits
    <3>5. CASE q.found = {}
      <4>1. q.payload = Hits(q.kind, q.target)
        BY <2>4, <3>4, <3>5
      <4>2. Exact(Answer(q))
        BY <2>1, <2>3, <2>4, <2>5, <4>1, QuietAnswer
      <4> QED
        BY <3>3, <3>5, <4>2
    <3>6. CASE q.found # {}
      <4>1. /\ r.pc = "records" /\ r.kind = q.kind /\ r.target = q.target
            /\ r.place = q.place /\ r.payload = q.payload /\ r.loaded = {}
            /\ r.found = q.found
        BY <2>3, <2>4 DEF QueryState
      <4>2. PlaceMatches(r) /\ TargetMatches(r)
        BY <2>5, <4>1 DEF PlaceMatches, TargetMatches
      <4>3. r.payload \cup UNION {Records(t) : t \in r.found} = Hits(r.kind, r.target)
        BY <2>4, <3>4, <4>1
      <4>4. Exact(r)
        BY <2>1, <2>4, <4>1, <4>2, <4>3
           DEF Exact, Locating, Targeted, Gated, Collecting, Outcome, Judges, Stepping
      <4> QED
        BY <3>3, <3>6, <4>4
    <3> QED
      BY <3>5, <3>6
  <2> QED
    BY <2>6, <2>7
<1>2. Step(IF q.pending # {} THEN q ELSE IF q.found = {} THEN Answer(q) ELSE r)
  BY DEF Expand
<1> QED
  BY <1>1, <1>2, QuietMoves

LEMMA QuietReadRecord ==
    ASSUME Strategy = "fresh_only", IInv, QuietInv, NEW s \in Symbols, ReadRecord(s)
    PROVE  QuietInv'
<1> DEFINE q == [query EXCEPT !.found = @ \ {s}, !.payload = @ \cup Records(s)]
<1>1. ASSUME ~disturbed
      PROVE  Exact(IF q.found # {} THEN q ELSE Answer(q))
  <2>1. /\ query \in QueryState /\ query.target \in Symbols /\ PlaceMatches(query)
        /\ query.loaded = {} /\ TargetMatches(query) /\ query.pc = "records"
        /\ query.kind \in {"implementations", "transitive"} /\ s \in query.found
        /\ query.payload \cup UNION {Records(t) : t \in query.found}
               = Hits(query.kind, query.target)
    BY <1>1, QuietRunning DEF ReadRecord, Targeted, Collecting, Judges, Stepping
  <2>2. Records(s) \in SUBSET Fact
    BY ReadTypes DEF IInv
  <2>3. q \in QueryState
    BY <2>1, <2>2 DEF QueryState
  <2>4. /\ q.kind = query.kind /\ q.target = query.target /\ q.place = query.place
        /\ q.loaded = {} /\ q.pc = "records"
        /\ q.found = query.found \ {s} /\ q.payload = query.payload \cup Records(s)
    BY <2>1 DEF QueryState
  <2>5. PlaceMatches(q) /\ TargetMatches(q)
    BY <2>1, <2>4 DEF PlaceMatches, TargetMatches
  <2>6. q.payload \cup UNION {Records(t) : t \in q.found} = Hits(q.kind, q.target)
    BY <2>1, <2>4
  <2> HIDE DEF q
  <2>7. CASE q.found # {}
    <3>1. Exact(q)
      BY <2>1, <2>4, <2>5, <2>6
         DEF Exact, Locating, Targeted, Gated, Collecting, Outcome, Judges, Stepping
    <3> QED
      BY <2>7, <3>1
  <2>8. CASE q.found = {}
    <3>1. q.payload = Hits(q.kind, q.target)
      BY <2>6, <2>8
    <3>2. Exact(Answer(q))
      BY <2>1, <2>3, <2>4, <2>5, <3>1, QuietAnswer
    <3> QED
      BY <2>8, <3>2
  <2> QED
    BY <2>7, <2>8
<1>2. Step(IF q.found # {} THEN q ELSE Answer(q))
  BY DEF ReadRecord
<1> QED
  BY <1>1, <1>2, QuietMoves

\* What is printed agrees with the disk, so the slice is taken at offsets of the file.
LEMMA QuietPrint ==
    ASSUME IInv, QuietInv, NEW f \in query.left, PrintFact(f)
    PROVE  QuietInv'
<1> DEFINE q == [query EXCEPT !.left = @ \ {f}]
<1>1. ASSUME ~disturbed
      PROVE  /\ query \in QueryState /\ query.kind \in Navigation /\ query.target \in Symbols
             /\ PlaceMatches(query) /\ AllMatch(query) /\ query.pc = "print"
             /\ query.payload = Hits(query.kind, query.target)
             /\ row[f.unit] # None /\ file[f.unit] = f.saw /\ f.saw \in Contents
  <2>1. /\ query \in QueryState /\ query.kind \in Navigation /\ query.target \in Symbols
        /\ PlaceMatches(query) /\ AllMatch(query) /\ query.pc = "print"
        /\ query.payload = Hits(query.kind, query.target)
    BY <1>1, QuietRunning DEF PrintFact, Targeted, Collecting, Judges, Stepping
  <2>2. f \in Hits(query.kind, query.target)
    BY <2>1 DEF IInv, Sound, PrintsPayload
  <2>3. f.unit \in Stored /\ f.saw = row[f.unit]
    BY <2>1, <2>2, HitsAreStored DEF IInv
  <2>4. row[f.unit] = file[f.unit]
    BY <2>1, <2>2 DEF AllMatch, RowsMatch, OwnersOf
  <2>5. row[f.unit] \in Contents
    BY <2>3, RowTypes DEF IInv
  <2> QED
    BY <2>1, <2>3, <2>4, <2>5, QueryAssumption
<1>2. ASSUME ~disturbed
      PROVE  /\ Step(IF q.left # {} THEN q ELSE Ended(q, "ok"))
             /\ Exact(IF q.left # {} THEN q ELSE Ended(q, "ok"))
  <2>1. file[f.unit] \in Fits[f.saw]
    BY <1>1, <1>2, QueryAssumption
  <2>2. Step(IF q.left # {} THEN q ELSE Ended(q, "ok"))
    BY <1>1, <1>2, <2>1 DEF PrintFact
  <2>3. q \in QueryState
    BY <1>1, <1>2 DEF QueryState
  <2>4. /\ q.pc = "print" /\ q.kind = query.kind /\ q.target = query.target
        /\ q.place = query.place /\ q.payload = query.payload
    BY <1>1, <1>2 DEF QueryState
  <2>5. PlaceMatches(q) /\ AllMatch(q)
    BY <1>1, <1>2, <2>4 DEF PlaceMatches, AllMatch
  <2>6. Exact(q)
    BY <1>1, <1>2, <2>4, <2>5
       DEF Exact, Locating, Targeted, Gated, Collecting, Outcome, Judges, Stepping
  <2> DEFINE e == [q EXCEPT !.pc = "done", !.status = "ok"]
  <2>7. /\ e.pc = "done" /\ e.status = "ok" /\ e.kind = q.kind /\ e.target = q.target
        /\ e.place = q.place /\ e.payload = q.payload
    BY <2>3 DEF QueryState
  <2>8. Outcome(e)
    BY <1>1, <1>2, <2>4, <2>5, <2>7 DEF Outcome, AllMatch, PlaceMatches
  <2>9. Exact(Ended(q, "ok"))
    BY <2>3, <2>8, QuietEnded
  <2> QED
    BY <2>2, <2>6, <2>9
<1>3. CASE ~disturbed
  BY <1>2, <1>3, QuietMoves
<1>4. CASE disturbed
  BY <1>4 DEF PrintFact, Step, history, QuietInv
<1> QED
  BY <1>3, <1>4

LEMMA QuietReadMatch ==
    ASSUME IInv, QuietInv, NEW m \in query.left, ReadMatch(m)
    PROVE  QuietInv'
<1>1. PICK q : Step(q) /\ q.kind = query.kind
  <2> DEFINE r == [query EXCEPT !.left = @ \ {m},
                       !.payload = @ \cup (IF file[m.unit] = m.saw THEN {m} ELSE {})]
             q == IF r.left # {} THEN r
                  ELSE Ended(r, IF r.payload = {} THEN "no_result" ELSE "ok")
  <2>1. Step(q)
    BY DEF ReadMatch
  <2>2. r.kind = query.kind /\ \A status : Ended(r, status).kind = query.kind
    BY DEF Ended, IInv, TypeOK, QueryState
  <2>3. q.kind = query.kind
    BY <2>2
  <2> QED
    BY <2>1, <2>3
<1>2. query' = q /\ disturbed' = disturbed /\ query.pc = "search"
  BY <1>1 DEF ReadMatch, At, Step, history
<1>3. query.kind \in Navigation => disturbed
  BY <1>2 DEF QuietInv, Exact, Targeted, At
<1> QED
  BY <1>1, <1>2, <1>3 DEF QuietInv

LEMMA QuietNext ==
    ASSUME Strategy = "fresh_only", IInv, QuietInv, [Next]_vars
    PROVE  QuietInv'
<1>1. CASE UNCHANGED vars
  <2>1. query' = query /\ disturbed' = disturbed /\ UNCHANGED <<file, config, row, inputs>>
    BY <1>1 DEF vars, disk, index, history
  <2>2. ASSUME ~disturbed', ~At("idle")', query'.kind \in Navigation
        PROVE  Exact(query)'
    <3>1. Exact(query)
      BY <2>1, <2>2 DEF QuietInv, At
    <3> QED
      BY <2>1, <3>1, ExactFollows
  <2> QED
    BY <2>2 DEF QuietInv
<1>2. CASE Start
  BY <1>2, QuietStart
<1>3. CASE Continue
  BY <1>3, QuietResolve, QuietReadSymbol, QuietInputs, QuietLoadOwner, QuietCompareOwner,
     QuietReadReferences, QuietExpand, QuietReadRecord, QuietPrint, QuietReadMatch
  DEF Continue
<1>4. CASE Edit \/ Commit
  BY <1>4 DEF Edit, Commit, QuietInv
<1> QED
  BY <1>1, <1>2, <1>3, <1>4 DEF Next

LEMMA QuietInvariance ==
    ASSUME Strategy = "fresh_only"
    PROVE  Spec => []QuietInv
<1>1. Init => QuietInv
  BY DEF Init, Fresh, QuietInv, At
<1>2. IInv /\ QuietInv /\ [Next]_vars => QuietInv'
  BY QuietNext
<1> QED
  BY <1>1, <1>2, Invariance, PTL DEF Spec

\* In a workspace that stands still a navigation query is exact, for every hierarchy,
\* cyclic ones too: the walk of implementations_of_transitive finds all that is below
\* the target and nothing else, the gate says stale only for a difference it met, and
\* an answer has all the facts asked for (commands/navigation.rs, store.rs and
\* commands/freshness_gate.rs).
THEOREM QuietAnswersAreExactHolds ==
    ASSUME Strategy = "fresh_only"
    PROVE  Spec => []QuietAnswersAreExact
<1>1. IInv /\ QuietInv => QuietAnswersAreExact
  <2>1. SUFFICES ASSUME IInv, QuietInv, At("done"), ~disturbed, query.kind \in Navigation
                 PROVE  QuietAnswersAreExact
    BY DEF QuietAnswersAreExact
  <2>2. Outcome(query) /\ query.pc = "done" /\ query \in QueryState
    BY <2>1 DEF QuietInv, Exact, At, IInv, TypeOK
  <2>3. Asked = Hits(query.kind, query.target)
    BY <2>1 DEF Asked, Hits, Navigation
  <2>4. Differ <=> ~AllMatch(query)
    BY <2>3 DEF Differ, AllMatch, InputsMatch, PlaceMatches, RowsMatch
  <2> QED
    BY <2>2, <2>3, <2>4 DEF Outcome, QuietAnswersAreExact, Unknown
<1> QED
  BY <1>1, Invariance, QuietInvariance, PTL
=============================================================================
