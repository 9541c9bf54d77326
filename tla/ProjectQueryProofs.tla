------------------------- MODULE ProjectQueryProofs -------------------------
(***************************************************************************)
(* Proofs about ProjectQuery, for any packages, texts, symbols, catalogs,  *)
(* workers and answers of workers.                                         *)
(*                                                                         *)
(* The invariant follows the command.  Once the starting set is there, the *)
(* symbols it holds are those that match and that every answer so far has  *)
(* kept, unless the state or the mark "partial" says that something was    *)
(* left out; and a capability that is used and not supported has left that *)
(* mark.  What the end of the command is called is read off from these.    *)
(***************************************************************************)
EXTENDS ProjectQuery, FiniteSetTheorems, WellFoundedInduction, TLAPS

Fields == {"pc", "program", "bound", "requirements", "worker", "symbols", "state", "partial",
           "step", "plan", "answers", "status", "cause"}

\* What a worker process may have said that it can do.
Capabilities == UNION {w.capabilities : w \in Advertised}

Answers == [capability : Capabilities, response : Responses, said : Advertised]

Shape ==
    /\ DOMAIN query = Fields
    /\ query.partial \in BOOLEAN
    /\ query.step \in Nat \ {0}
    /\ query.answers \in Seq(Answers)

\* Before the first step there are neither symbols nor answers, and before the end
\* there is no verdict.
Early ==
    /\ query.pc \notin {"step", "execute", "done"} =>
           query.symbols = {} /\ query.answers = << >> /\ query.step = 1
    /\ query.pc # "done" => query.status = "none" /\ query.cause = "none"

\* The program is that of the project, and there is one once the text is read.
Loaded ==
    /\ query.program # Error => query.program = ProgramOf(project)
    /\ query.pc \notin {"load", "done"} => query.program # Error
    /\ query.pc = "load" => query.program = Error

\* A capability that is used and not supported has marked the result.
Negotiated ==
    query.pc \in {"select", "step", "execute"} =>
        \A r \in query.requirements :
            ~Supported(r) /\ r.name \in UsedNames(query.program) => query.partial

\* The symbols that match, of the one the start stands for.
StartID == StartingSymbol(StartValue)
Matching == Selected(StartID)

\* What the answers so far have left of them.
Narrowed ==
    {s \in Matching : \A i \in DOMAIN query.answers :
                          s.id \in ToSet(query.answers[i].response.symbols)}

NothingSkipped ==
    /\ Len(query.answers) = query.step - 1
    /\ \A i \in DOMAIN query.answers : query.answers[i].response.state = "complete"

\* The symbols are what their state and the mark say of them.
Exact ==
    query.pc \in {"step", "execute"} =>
        /\ StartID # Error
        /\ query.program.limit \in 1 .. MaxResultLimit
        /\ query.step <= Len(query.program.steps) + 1
        /\ query.pc = "execute" => query.step <= Len(query.program.steps)
        /\ query.state = "no_result" => Matching = {}
        /\ query.state = "complete" => \A s \in Matching : s.current
        /\ query.state = "complete" /\ ~query.partial => query.symbols = Narrowed
        /\ ~query.partial => NothingSkipped

\* What the end of the command is called.
Verdict ==
    /\ query.status = "no_result" => StartID # Error /\ Matching = {}
    /\ query.status = "ok" =>
           /\ StartID # Error
           /\ \A s \in Matching : s.current
           /\ Len(query.answers) = Len(query.program.steps)
           /\ \A i \in DOMAIN query.answers : query.answers[i].response.state = "complete"
           /\ query.symbols = Narrowed

IInv ==
    /\ TypeOK /\ Shape /\ Early /\ Loaded /\ Negotiated /\ Exact /\ Verdict
    /\ AnswersWereNegotiated /\ BudgetNeedsSharedUnit

-----------------------------------------------------------------------------
(* Operators. *)

\* Only a project with a program is loaded, and its steps are a sequence.
LEMMA ProgramShape ==
    ASSUME Shape, Loaded, query.program # Error, project \in Projects
    PROVE  /\ query.program.steps \in Seq(ToSet(query.program.steps))
           /\ Len(query.program.steps) \in Nat
           /\ query.program.limit \in Nat
BY ProjectsAssumption DEF Loaded

LEMMA MinOfTwo ==
    ASSUME NEW m \in Nat, NEW n \in Nat
    PROVE  Min({m, n}) \in Nat /\ Min({m, n}) <= m /\ Min({m, n}) <= n
<1> DEFINE least == IF m <= n THEN m ELSE n
<1>1. least \in {m, n} /\ \A y \in {m, n} : least <= y
  OBVIOUS
<1>2. Min({m, n}) \in {m, n} /\ \A y \in {m, n} : Min({m, n}) <= y
  BY <1>1 DEF Min
<1> QED
  BY <1>2

LEMMA MaxOfTwo ==
    ASSUME NEW m \in Nat, NEW n \in Nat
    PROVE  /\ Max({m, n}) \in {m, n}
           /\ Max({m, n}) >= m /\ Max({m, n}) >= n
<1> DEFINE most == IF m >= n THEN m ELSE n
<1>1. most \in {m, n} /\ \A y \in {m, n} : most >= y
  OBVIOUS
<1>2. Max({m, n}) \in {m, n} /\ \A y \in {m, n} : Max({m, n}) >= y
  BY <1>1 DEF Max
<1> QED
  BY <1>2

\* A limit leaves no more than it says.
LEMMA LimitedIsBounded ==
    ASSUME NEW id, NEW limit \in Nat, NEW kept \in Limited(Selected(id), limit)
    PROVE  /\ kept \subseteq Symbols /\ kept \subseteq Selected(id)
           /\ IsFiniteSet(kept) /\ Cardinality(kept) <= limit
<1>1. Selected(id) \subseteq Symbols
  BY DEF Selected, Posting
<1>2. IsFiniteSet(Selected(id)) /\ Cardinality(Selected(id)) \in Nat
  BY <1>1, CapsAssumption, FS_Subset, FS_CardinalityType
<1>3. kept \subseteq Selected(id) /\ Cardinality(kept) = Min({limit, Cardinality(Selected(id))})
  BY DEF Limited
<1> QED
  BY <1>1, <1>2, <1>3, MinOfTwo, FS_Subset

\* The names of a package's exporters are shorter than the name they are part of,
\* so one of them is the longest.
LEMMA LongestExporter ==
    ASSUME NEW p \in Projects, NEW name, name \in Seq(ToSet(name)),
           Exporters(p.directories, name) # {}
    PROVE  /\ ResolveMacro(p.directories, name) \in Exporters(p.directories, name)
           /\ \A other \in Exporters(p.directories, name) :
                  Len(other) <= Len(ResolveMacro(p.directories, name))
<1> DEFINE E == Exporters(p.directories, name)
           Left == {Len(name) - Len(id) : id \in E}
<1>1. \A id \in E : id \in Seq(ToSet(id)) /\ Len(id) \in Nat /\ Len(id) <= Len(name)
  BY ProjectsAssumption DEF Exporters, IsStrictPrefix, IsPrefix
<1>2. Left \subseteq Nat /\ Left # {}
  BY <1>1
<1>3. PICK least \in Left : \A n \in Left : ~(<<n, least>> \in OpToRel(<, Nat))
  BY <1>2, NatLessThanWellFounded, WFMin
<1>4. PICK id \in E : least = Len(name) - Len(id)
  BY <1>3
<1>5. \A other \in E : Len(other) <= Len(id)
  <2>1. SUFFICES ASSUME NEW other \in E PROVE Len(other) <= Len(id)
    OBVIOUS
  <2>2. Len(name) - Len(other) \in Left
    OBVIOUS
  <2>3. ~(Len(name) - Len(other) < least)
    BY <1>2, <1>3, <2>2 DEF OpToRel
  <2> QED
    BY <1>1, <1>4, <2>3
<1> QED
  BY <1>5 DEF ResolveMacro

\* The macro of a project's text is that of the most specific package.
LEMMA MacroIsSpecific ==
    ASSUME NEW p \in Projects, NEW s \in MacrosOf(p.text), NEW id \in Exporters(p.directories, s.name)
    PROVE  ~IsStrictPrefix(ResolveMacro(p.directories, s.name), id)
<1> DEFINE r == ResolveMacro(p.directories, s.name)
<1>1. s.name \in Seq(ToSet(s.name))
  BY ProjectsAssumption
<1>2. r \in Exporters(p.directories, s.name) /\ Len(id) <= Len(r)
  BY <1>1, LongestExporter
<1>3. r \in Seq(ToSet(r)) /\ id \in Seq(ToSet(id))
  BY <1>2, ProjectsAssumption DEF Exporters
<1>4. SUFFICES ASSUME IsPrefix(r, id), r # id PROVE FALSE
  BY DEF IsStrictPrefix
<1>5. Len(r) = Len(id) /\ SubSeq(r, 1, Len(r)) = SubSeq(id, 1, Len(r))
  BY <1>2, <1>3, <1>4 DEF IsPrefix
<1>6. \A i \in 1 .. Len(r) : r[i] = id[i]
  BY <1>3, <1>5
<1> QED
  BY <1>3, <1>4, <1>5, <1>6

\* Symbols of different units have as many units as there are symbols.
LEMMA UnitsAreCounted ==
    ASSUME NEW symbols, IsFiniteSet(symbols), \A s, t \in symbols : s.unit = t.unit => s = t
    PROVE  Cardinality(UnitsOf(symbols)) = Cardinality(symbols)
<1> DEFINE f == [s \in symbols |-> s.unit]
<1>1. f \in Bijection(symbols, UnitsOf(symbols))
  BY DEF Bijection, Injection, Surjection, UnitsOf, IsInjective
<1>2. ExistsBijection(symbols, UnitsOf(symbols))
  BY <1>1 DEF ExistsBijection
<1> QED
  BY <1>2, FS_Bijection

\* Different symbols that share no unit do not exceed a budget.
LEMMA BudgetSuffices ==
    ASSUME NEW symbols, IsFiniteSet(symbols), Cardinality(symbols) <= MaxResultLimit,
           \/ Budget(symbols).candidates > MaxCandidates
           \/ SourceInput(symbols) > Budget(symbols).nodes
    PROVE  \E s, t \in symbols : s # t /\ s.unit = t.unit
<1>1. SUFFICES ASSUME \A s, t \in symbols : s.unit = t.unit => s = t PROVE FALSE
  OBVIOUS
<1>2. Cardinality(UnitsOf(symbols)) = Cardinality(symbols) /\ Cardinality(symbols) \in Nat
  BY <1>1, UnitsAreCounted, FS_CardinalityType
<1> DEFINE most == Max({1, Cardinality(symbols)})
<1>3. most \in {1, Cardinality(symbols)} /\ most >= Cardinality(symbols)
  BY <1>2, MaxOfTwo
<1>4. Budget(symbols).candidates = most /\ Budget(symbols).nodes = most
  BY <1>2 DEF Budget
<1> QED
  BY <1>2, <1>3, <1>4, CapsAssumption DEF SourceInput

-----------------------------------------------------------------------------
(* The end of the command. *)

\* The command ends: it keeps what it knows, but a stale owner takes the symbols away.
Ends ==
    /\ project' = project
    /\ DOMAIN query' = Fields
    /\ query'.pc = "done"
    /\ query'.symbols \in {query.symbols, {}}
    /\ query'.program = query.program /\ query'.bound = query.bound
    /\ query'.requirements = query.requirements /\ query'.worker = query.worker
    /\ query'.state = query.state /\ query'.partial = query.partial
    /\ query'.step = query.step /\ query'.answers = query.answers
    /\ query'.status \in {"ok", "stale", "no_result", "unsupported", "failed"}

LEMMA EndsKeeps ==
    ASSUME IInv, Ends, Verdict', BudgetNeedsSharedUnit'
    PROVE  IInv'
<1>1. TypeOK'
  <2>1. query.program # Error => query.program.limit \in Nat
    BY ProgramShape DEF IInv, TypeOK
  <2>2. query'.program # Error => Cardinality(query'.symbols) <= query'.program.limit
    BY <2>1, FS_EmptySet DEF IInv, TypeOK, Ends
  <2> QED
    BY <2>2 DEF IInv, TypeOK, Ends
<1>2. Shape'
  BY DEF IInv, Shape, Ends
<1>3. Early' /\ Negotiated' /\ Exact'
  BY DEF Early, Negotiated, Exact, Ends
<1>4. Loaded'
  BY DEF IInv, Loaded, Ends
<1>5. AnswersWereNegotiated'
  BY DEF IInv, AnswersWereNegotiated, Ends
<1> QED
  BY <1>1, <1>2, <1>3, <1>4, <1>5 DEF IInv

\* The command fails; that a budget was exceeded has its reason.
LEMMA FailKeeps ==
    ASSUME IInv, NEW cause, Fail(cause), project' = project, query.pc # "done",
           cause = "budget" => \E s, t \in query.symbols : s # t /\ s.unit = t.unit
    PROVE  IInv'
<1>1. Ends /\ query'.status = "failed" /\ query'.cause = cause /\ query'.symbols = query.symbols
  BY DEF IInv, Shape, Fields, Fail, Ends
<1>2. Verdict'
  BY <1>1 DEF Verdict
<1>3. BudgetNeedsSharedUnit'
  BY <1>1 DEF BudgetNeedsSharedUnit
<1> QED
  BY <1>1, <1>2, <1>3, EndsKeeps

\* The command ends without symbols that the status speaks for.
LEMMA EndKeeps ==
    ASSUME IInv, End("unsupported"), project' = project, query.pc # "done"
    PROVE  IInv'
<1>1. Ends /\ query'.status = "unsupported" /\ query'.cause = "none"
  BY DEF IInv, Shape, Early, Fields, End, Ends
<1> QED
  BY <1>1, EndsKeeps DEF Verdict, BudgetNeedsSharedUnit

-----------------------------------------------------------------------------
(* The steps before there are symbols. *)

\* What the steps before the index is read have in common.
Prepares ==
    /\ project' = project
    /\ DOMAIN query' = Fields
    /\ query'.pc \in {"bind", "discover", "negotiate", "select"}
    /\ query'.symbols = query.symbols /\ query'.state = query.state
    /\ query'.step = query.step /\ query'.answers = query.answers
    /\ query'.status = query.status /\ query'.cause = query.cause
    /\ query'.worker \in Advertised \cup {NoWorker}
    /\ query'.partial \in BOOLEAN
    /\ query'.program = ProgramOf(project) /\ query'.program # Error

LEMMA PreparesKeeps ==
    ASSUME IInv, Prepares, query.pc \notin {"step", "execute", "done"}, Negotiated'
    PROVE  IInv'
<1>1. /\ query'.symbols = {} /\ query'.answers = << >> /\ query'.step = 1
      /\ query'.status = "none" /\ query'.cause = "none"
  BY DEF IInv, Early, Prepares
<1>2. TypeOK'
  <2>1. ProgramOf(project).limit \in Nat
    BY ProjectsAssumption DEF IInv, TypeOK, Prepares
  <2>2. Cardinality(query'.symbols) <= query'.program.limit
    BY <1>1, <2>1, FS_EmptySet DEF Prepares
  <2> QED
    BY <1>1, <2>2 DEF IInv, TypeOK, Prepares
<1>3. Shape'
  BY DEF IInv, Shape, Prepares
<1>4. Early' /\ Loaded' /\ Exact'
  BY <1>1 DEF Early, Loaded, Exact, Prepares
<1>5. Verdict' /\ AnswersWereNegotiated' /\ BudgetNeedsSharedUnit'
  BY <1>1 DEF Verdict, AnswersWereNegotiated, BudgetNeedsSharedUnit
<1> QED
  BY <1>2, <1>3, <1>4, <1>5 DEF IInv

LEMMA LoadKeeps ==
    ASSUME IInv, Load
    PROVE  IInv'
<1>1. project' = project /\ query.pc = "load"
  BY DEF Load
<1>2. CASE Fail("text")
  BY <1>1, <1>2, FailKeeps
<1>3. CASE ~Fail("text")
  <2>1. PICK requirements :
           /\ ProgramOf(project) # Error
           /\ query' = [query EXCEPT !.pc = "bind", !.program = ProgramOf(project),
                                      !.requirements = requirements]
    BY <1>3 DEF Load
  <2>2. Prepares
    BY <1>1, <2>1 DEF IInv, TypeOK, Shape, Fields, Prepares
  <2>3. Negotiated'
    BY <2>1 DEF IInv, Shape, Fields, Negotiated
  <2> QED
    BY <1>1, <2>2, <2>3, PreparesKeeps
<1> QED
  BY <1>2, <1>3

LEMMA BindKeeps ==
    ASSUME IInv, BindParameters
    PROVE  IInv'
<1>1. project' = project /\ query.pc = "bind"
  BY DEF BindParameters
<1>2. CASE Fail("parameters")
  BY <1>1, <1>2, FailKeeps
<1>3. CASE ~Fail("parameters")
  <2>1. PICK bound : query' = [query EXCEPT !.pc = "discover", !.bound = bound]
    BY <1>3 DEF BindParameters
  <2>2. query.program = ProgramOf(project) /\ query.program # Error
    BY <1>1 DEF IInv, Loaded
  <2>3. Prepares
    BY <1>1, <2>1, <2>2 DEF IInv, TypeOK, Shape, Fields, Prepares
  <2>4. Negotiated'
    BY <2>1 DEF IInv, Shape, Fields, Negotiated
  <2> QED
    BY <1>1, <2>3, <2>4, PreparesKeeps
<1> QED
  BY <1>2, <1>3

LEMMA DiscoverKeeps ==
    ASSUME IInv, Discover
    PROVE  IInv'
<1>1. project' = project /\ query.pc = "discover"
  BY DEF Discover
<1>2. CASE Fail("worker")
  BY <1>1, <1>2, FailKeeps
<1>3. CASE ~Fail("worker")
  <2>1. PICK w \in Advertised \cup {NoWorker} :
            query' = [query EXCEPT !.pc = "negotiate", !.worker = w]
    <3>1. CASE NeedsDiscovery
      BY <1>3, <3>1 DEF Discover
    <3>2. CASE ~NeedsDiscovery
      <4>1. query' = [query EXCEPT !.pc = "negotiate"]
        BY <1>3, <3>2 DEF Discover
      <4>2. query' = [query EXCEPT !.pc = "negotiate", !.worker = query.worker]
        BY <4>1 DEF IInv, Shape, Fields
      <4> QED
        BY <4>2 DEF IInv, TypeOK
    <3> QED
      BY <3>1, <3>2
  <2>2. query.program = ProgramOf(project) /\ query.program # Error
    BY <1>1 DEF IInv, Loaded
  <2>3. Prepares
    BY <1>1, <2>1, <2>2 DEF IInv, TypeOK, Shape, Fields, Prepares
  <2>4. Negotiated'
    BY <2>1 DEF IInv, Shape, Fields, Negotiated
  <2> QED
    BY <1>1, <2>3, <2>4, PreparesKeeps
<1> QED
  BY <1>2, <1>3

LEMMA NegotiateKeeps ==
    ASSUME IInv, Negotiate
    PROVE  IInv'
<1>1. project' = project /\ query.pc = "negotiate"
  BY DEF Negotiate
<1>2. CASE End("unsupported")
  BY <1>1, <1>2, EndKeeps
<1>3. CASE ~End("unsupported")
  <2> DEFINE left == \E r \in query.requirements :
                         ~r.required /\ ~Supported(r) /\ r.name \in UsedNames(query.program)
  <2>1. /\ \A r \in query.requirements : r.required => Supported(r)
        /\ query' = [query EXCEPT !.pc = "select", !.partial = left]
    BY <1>3 DEF Negotiate
  <2>2. query.program = ProgramOf(project) /\ query.program # Error
    BY <1>1 DEF IInv, Loaded
  <2>3. Prepares
    BY <1>1, <2>1, <2>2 DEF IInv, TypeOK, Shape, Fields, Prepares
  <2>4. /\ query'.partial = left /\ query'.requirements = query.requirements
        /\ query'.worker = query.worker /\ query'.program = query.program
    BY <2>1 DEF IInv, Shape, Fields
  <2>5. Negotiated'
    BY <2>1, <2>4 DEF Negotiated, Supported, Provided
  <2> QED
    BY <1>1, <2>3, <2>5, PreparesKeeps
<1> QED
  BY <1>2, <1>3

-----------------------------------------------------------------------------
(* The steps that have symbols. *)

\* What matches does not change under a query.
LEMMA MatchingStays ==
    ASSUME query'.program = query.program, query'.bound = query.bound
    PROVE  StartID' = StartID /\ Matching' = Matching
<1>1. StartValue' = StartValue
  BY DEF StartValue
<1>2. ASSUME NEW s, NEW p PROVE Matches(s, p)' <=> Matches(s, p)
  BY DEF Matches, Operand
<1>3. ASSUME NEW id PROVE Selected(id)' = Selected(id)
  BY <1>2 DEF Selected, Posting
<1> QED
  BY <1>1, <1>3 DEF StartID, Matching

\* The command goes on with fewer symbols, or with the same.
Narrows ==
    /\ project' = project
    /\ DOMAIN query' = Fields
    /\ query'.pc \in {"step", "execute"}
    /\ query'.symbols \subseteq query.symbols
    /\ query'.program = query.program /\ query'.bound = query.bound
    /\ query'.requirements = query.requirements /\ query'.worker = query.worker
    /\ query'.state = query.state
    /\ query'.status = query.status /\ query'.cause = query.cause
    /\ query'.step \in Nat \ {0}
    /\ query.partial => query'.partial = TRUE
    /\ query'.partial \in BOOLEAN
    /\ query'.answers \in Seq(Answers)

LEMMA NarrowsKeeps ==
    ASSUME IInv, Narrows, query.pc \in {"step", "execute"}, Exact', AnswersWereNegotiated'
    PROVE  IInv'
<1>1. TypeOK'
  <2>1. query.program # Error /\ query.program.limit \in Nat
    BY ProgramShape DEF IInv, TypeOK, Loaded
  <2>2. query.symbols \subseteq Symbols /\ Cardinality(query.symbols) <= query.program.limit
    BY <2>1 DEF IInv, TypeOK
  <2>3. IsFiniteSet(query.symbols) /\ query'.symbols \subseteq query.symbols
    BY <2>2, CapsAssumption, FS_Subset DEF Narrows
  <2>4. /\ Cardinality(query'.symbols) <= Cardinality(query.symbols)
        /\ Cardinality(query'.symbols) \in Nat /\ Cardinality(query.symbols) \in Nat
    BY <2>3, FS_Subset, FS_CardinalityType
  <2>5. Cardinality(query'.symbols) <= query'.program.limit
    BY <2>1, <2>2, <2>4 DEF Narrows
  <2>6. query'.status = query.status /\ query'.pc \in {"step", "execute"}
    BY DEF Narrows
  <2> QED
    BY <2>2, <2>3, <2>5, <2>6 DEF IInv, TypeOK, Narrows
<1>2. Shape'
  BY DEF Shape, Narrows
<1>3. query'.status = "none" /\ query'.cause = "none"
  BY DEF IInv, Early, Narrows
<1>4. Early' /\ Verdict' /\ BudgetNeedsSharedUnit'
  BY <1>3 DEF Early, Verdict, BudgetNeedsSharedUnit, Narrows
<1>5. Loaded'
  BY DEF IInv, Loaded, Narrows
<1>6. Negotiated'
  BY DEF IInv, Negotiated, Supported, Provided, Narrows
<1> QED
  BY <1>1, <1>2, <1>4, <1>5, <1>6 DEF IInv

LEMMA SelectKeeps ==
    ASSUME IInv, Select
    PROVE  IInv'
<1>1. project' = project /\ query.pc = "select"
  BY DEF Select
<1>2. CASE Fail("limit")
  BY <1>1, <1>2, FailKeeps
<1>3. CASE Fail("symbol")
  BY <1>1, <1>3, FailKeeps
<1>4. CASE ~Fail("limit") /\ ~Fail("symbol")
  <2>1. PICK kept \in Limited(Matching, query.program.limit) :
           /\ query.program.limit \in 1 .. MaxResultLimit
           /\ StartID # Error
           /\ query' = [query EXCEPT !.pc = "step", !.symbols = kept,
                           !.state = IF kept = Matching THEN StateOf(Matching) ELSE "partial"]
    BY <1>4 DEF Select, Matching, StartID, StartValue
  <2>2. /\ DOMAIN query' = Fields /\ query'.pc = "step" /\ query'.symbols = kept
        /\ query'.state = IF kept = Matching THEN StateOf(Matching) ELSE "partial"
        /\ query'.program = query.program /\ query'.bound = query.bound
        /\ query'.requirements = query.requirements /\ query'.worker = query.worker
        /\ query'.partial = query.partial /\ query'.step = query.step
        /\ query'.answers = query.answers
        /\ query'.status = query.status /\ query'.cause = query.cause
    BY <2>1 DEF IInv, Shape, Fields
  <2>3. /\ query.answers = << >> /\ query.step = 1
        /\ query.status = "none" /\ query.cause = "none"
    BY <1>1 DEF IInv, Early
  <2>4. query.program # Error /\ query.program = ProgramOf(project)
    BY <1>1 DEF IInv, Loaded
  <2>5. Len(query.program.steps) \in Nat /\ query.program.limit \in Nat
    BY <2>4, ProgramShape DEF IInv, TypeOK
  <2>6. kept \subseteq Symbols /\ kept \subseteq Matching /\ Cardinality(kept) <= query.program.limit
    BY <2>5, LimitedIsBounded DEF Matching
  <2>7. /\ query'.state \in {"complete", "partial", "no_result"}
        /\ query'.state = "no_result" => Matching = {}
        /\ query'.state = "complete" => kept = Matching /\ \A s \in Matching : s.current
    BY <2>2 DEF StateOf
  <2>8. StartID' = StartID /\ Matching' = Matching
    BY <2>2, MatchingStays
  <2>9. TypeOK'
    BY <1>1, <2>2, <2>3, <2>6, <2>7 DEF IInv, TypeOK
  <2>10. Shape'
    BY <2>2 DEF IInv, Shape
  <2>11. Early' /\ Verdict' /\ BudgetNeedsSharedUnit'
    BY <2>2, <2>3 DEF Early, Verdict, BudgetNeedsSharedUnit
  <2>12. Loaded'
    BY <1>1, <2>2, <2>4 DEF Loaded
  <2>13. Negotiated'
    BY <1>1, <2>2 DEF IInv, Negotiated, Supported, Provided
  <2>14. Narrowed' = Matching
    BY <2>2, <2>3, <2>8 DEF Narrowed
  <2>15. NothingSkipped'
    BY <2>2, <2>3 DEF NothingSkipped
  <2>16. Exact'
    BY <2>1, <2>2, <2>3, <2>5, <2>7, <2>8, <2>14, <2>15 DEF Exact
  <2>17. AnswersWereNegotiated'
    BY <2>2, <2>3 DEF AnswersWereNegotiated
  <2> QED
    BY <2>9, <2>10, <2>11, <2>12, <2>13, <2>16, <2>17 DEF IInv
<1> QED
  BY <1>2, <1>3, <1>4

LEMMA PlanStepKeeps ==
    ASSUME IInv, PlanStep
    PROVE  IInv'
<1>1. project' = project /\ query.pc = "step" /\ query.step <= Len(query.program.steps)
  BY DEF PlanStep
<1>2. query.program # Error
  BY <1>1 DEF IInv, Loaded
<1>3. /\ query.program.steps \in Seq(ToSet(query.program.steps))
      /\ Len(query.program.steps) \in Nat /\ query.program.limit \in Nat
  BY <1>2, ProgramShape DEF IInv, TypeOK
<1>4. StartID # Error /\ query.program.limit \in 1 .. MaxResultLimit
  BY <1>1 DEF IInv, Exact
<1>5. CASE \E cause \in {"conflict", "arguments", "facts"} : Fail(cause)
  BY <1>1, <1>5, FailKeeps
<1>6. CASE /\ \A cause \in {"conflict", "arguments", "facts"} : ~Fail(cause)
           /\ \E r \in RequirementsFor(Current) : Supported(r) /\ PlanCapability(r)
  <2>1. PICK r \in RequirementsFor(Current) : PlanCapability(r)
    BY <1>6
  <2>2. CASE /\ \/ Budget(query.symbols).candidates > MaxCandidates
                \/ SourceInput(query.symbols) > Budget(query.symbols).nodes
             /\ Fail("budget")
    <3>1. query.symbols \subseteq Symbols /\ Cardinality(query.symbols) <= query.program.limit
      BY <1>2 DEF IInv, TypeOK
    <3>2. IsFiniteSet(query.symbols) /\ Cardinality(query.symbols) <= MaxResultLimit
      BY <1>4, <3>1, CapsAssumption, FS_Subset, FS_CardinalityType
    <3>3. \E s, t \in query.symbols : s # t /\ s.unit = t.unit
      BY <2>2, <3>2, BudgetSuffices
    <3> QED
      BY <1>1, <2>2, <3>3, FailKeeps
  <2>3. CASE \E plan : query' = [query EXCEPT !.pc = "execute", !.plan = plan]
    <3>1. PICK plan : query' = [query EXCEPT !.pc = "execute", !.plan = plan]
      BY <2>3
    <3>2. Narrows /\ query'.symbols = query.symbols /\ query'.step = query.step
          /\ query'.partial = query.partial /\ query'.answers = query.answers
          /\ query'.pc = "execute"
      BY <1>1, <3>1 DEF IInv, Shape, Fields, Narrows
    <3>3. StartID' = StartID /\ Matching' = Matching
      BY <3>2, MatchingStays DEF Narrows
    <3>4. Narrowed' = Narrowed
      BY <3>2, <3>3 DEF Narrowed
    <3>5. NothingSkipped' <=> NothingSkipped
      BY <3>2 DEF NothingSkipped
    <3>6. Exact'
      BY <1>1, <3>2, <3>3, <3>4, <3>5 DEF IInv, Exact, Narrows
    <3>7. AnswersWereNegotiated'
      BY <3>2 DEF IInv, AnswersWereNegotiated
    <3> QED
      BY <1>1, <3>2, <3>6, <3>7, NarrowsKeeps
  <2> QED
    BY <1>6, <2>1, <2>2, <2>3 DEF PlanCapability
<1>7. CASE \E r \in RequirementsFor(Current) :
               ~Supported(r) /\ query' = [query EXCEPT !.step = @ + 1]
  <2>1. PICK r \in RequirementsFor(Current) : ~Supported(r)
    BY <1>7
  <2>2. Current \in ToSet(query.program.steps)
    BY <1>1, <1>3 DEF IInv, Shape, Current, ToSet
  <2>3. query.partial = TRUE
    BY <1>1, <2>1, <2>2 DEF IInv, Shape, Negotiated, RequirementsFor, UsedNames
  <2>4. Narrows /\ query'.step = query.step + 1 /\ query'.partial = TRUE /\ query'.pc = "step"
        /\ query'.answers = query.answers
    BY <1>1, <1>7, <2>3 DEF IInv, Shape, Fields, Narrows
  <2>5. StartID' = StartID /\ Matching' = Matching
    BY <2>4, MatchingStays DEF Narrows
  <2>6. query'.step <= Len(query.program.steps) + 1
    BY <1>1, <1>3, <2>4 DEF IInv, Shape
  <2>7. Exact'
    BY <1>1, <2>4, <2>5, <2>6 DEF IInv, Exact, Narrows
  <2>8. AnswersWereNegotiated'
    BY <2>4 DEF IInv, AnswersWereNegotiated
  <2> QED
    BY <1>1, <2>4, <2>7, <2>8, NarrowsKeeps
<1> QED
  BY <1>5, <1>6, <1>7 DEF PlanStep

LEMMA ExecuteKeeps ==
    ASSUME IInv, Execute
    PROVE  IInv'
<1>1. project' = project /\ query.pc = "execute"
  BY DEF Execute
<1>2. CASE \E cause \in {"worker", "response"} : Fail(cause)
  BY <1>1, <1>2, FailKeeps
<1>3. CASE End("unsupported")
  BY <1>1, <1>3, EndKeeps
<1>4. CASE /\ \A cause \in {"worker", "response"} : ~Fail(cause)
           /\ ~End("unsupported")
  <2>1. PICK said \in Advertised \cup {NoWorker}, r \in Responses :
            SameWorker(said) /\ ValidResponse(query.plan, query.worker, r) /\ Accept(r, said)
    BY <1>4 DEF Execute
  <2> DEFINE a == [capability |-> query.plan.capability, response |-> r, said |-> said]
  <2>2. /\ said \in Advertised /\ query.plan.capability \in said.capabilities
        /\ r.from = said.identity
    BY <2>1 DEF SameWorker, ValidResponse
  <2>3. a \in Answers
    BY <2>2 DEF Answers, Capabilities
  <2>4. /\ DOMAIN query' = Fields /\ query'.pc = "step" /\ query'.step = query.step + 1
        /\ query'.partial = (query.partial \/ r.state # "complete")
        /\ query'.symbols = IF r.state = "unsupported" THEN query.symbols ELSE Refined(r)
        /\ query'.answers = Append(query.answers, a)
        /\ query'.program = query.program /\ query'.bound = query.bound
        /\ query'.requirements = query.requirements /\ query'.worker = query.worker
        /\ query'.state = query.state
        /\ query'.status = query.status /\ query'.cause = query.cause
    BY <2>1 DEF Accept, IInv, Shape, Fields
  <2>5. Refined(r) \subseteq query.symbols
    BY DEF Refined
  <2>6. /\ query.answers \in Seq(Answers) /\ query.step \in Nat \ {0}
        /\ query.partial \in BOOLEAN
    BY DEF IInv, Shape
  <2>7. /\ query'.answers \in Seq(Answers)
        /\ Len(query'.answers) = Len(query.answers) + 1
        /\ \A i \in DOMAIN query.answers : query'.answers[i] = query.answers[i]
        /\ query'.answers[Len(query.answers) + 1] = a
        /\ DOMAIN query'.answers = DOMAIN query.answers \cup {Len(query.answers) + 1}
    BY <2>3, <2>4, <2>6
  <2>8. Narrows
    BY <1>1, <2>4, <2>5, <2>6, <2>7 DEF Narrows
  <2>9. StartID' = StartID /\ Matching' = Matching
    BY <2>4, MatchingStays
  <2>10. query.state = "complete" /\ ~query'.partial => query'.symbols = Narrowed'
    <3>1. SUFFICES ASSUME query.state = "complete", ~query'.partial
                   PROVE  query'.symbols = Narrowed'
      OBVIOUS
    <3>2. ~query.partial /\ r.state = "complete"
      BY <2>4, <2>6, <3>1
    <3>3. query.symbols = Narrowed /\ query'.symbols = Refined(r)
      BY <1>1, <2>4, <3>1, <3>2 DEF IInv, Exact
    <3>4. \A s : (\A i \in DOMAIN query'.answers : s.id \in ToSet(query'.answers[i].response.symbols))
                <=> /\ \A i \in DOMAIN query.answers :
                            s.id \in ToSet(query.answers[i].response.symbols)
                    /\ s.id \in ToSet(r.symbols)
      BY <2>7
    <3> QED
      BY <2>9, <3>3, <3>4 DEF Narrowed, Refined
  <2>11. ~query'.partial => NothingSkipped'
    <3>1. SUFFICES ASSUME ~query'.partial PROVE NothingSkipped'
      OBVIOUS
    <3>2. ~query.partial /\ r.state = "complete"
      BY <2>4, <2>6, <3>1
    <3>3. NothingSkipped
      BY <1>1, <3>2 DEF IInv, Exact
    <3>4. Len(query.answers) \in Nat /\ query'.step = query.step + 1 /\ a.response.state = "complete"
      BY <2>4, <2>6, <3>2
    <3>5. Len(query'.answers) = query'.step - 1
      BY <2>6, <2>7, <3>3, <3>4 DEF NothingSkipped
    <3>6. \A i \in DOMAIN query'.answers : query'.answers[i].response.state = "complete"
      BY <2>7, <3>3, <3>4 DEF NothingSkipped
    <3> QED
      BY <3>5, <3>6 DEF NothingSkipped
  <2>12. query'.step <= Len(query'.program.steps) + 1
    <3>1. query.program # Error /\ query.step <= Len(query.program.steps)
      BY <1>1 DEF IInv, Exact, Loaded
    <3>2. Len(query.program.steps) \in Nat
      BY <3>1, ProgramShape DEF IInv, TypeOK
    <3> QED
      BY <2>4, <2>6, <3>1, <3>2
  <2>13. Exact'
    BY <1>1, <2>4, <2>9, <2>10, <2>11, <2>12 DEF IInv, Exact
  <2>14. AnswersWereNegotiated'
    <3>1. SUFFICES ASSUME NEW i \in DOMAIN query'.answers
                   PROVE  /\ query'.answers[i].capability \in query'.answers[i].said.capabilities
                          /\ query'.answers[i].response.from = query'.answers[i].said.identity
      BY DEF AnswersWereNegotiated
    <3>2. CASE i \in DOMAIN query.answers
      BY <2>7, <3>2 DEF IInv, AnswersWereNegotiated
    <3>3. CASE i = Len(query.answers) + 1
      <4>1. query'.answers[i] = a
        BY <2>7, <3>3
      <4> QED
        BY <2>2, <4>1
    <3> QED
      BY <2>7, <3>2, <3>3
  <2> QED
    BY <1>1, <2>8, <2>13, <2>14, NarrowsKeeps
<1> QED
  BY <1>2, <1>3, <1>4

LEMMA AnswerKeeps ==
    ASSUME IInv, Answer
    PROVE  IInv'
<1>1. /\ project' = project /\ query.pc = "step"
      /\ query.step > Len(query.program.steps)
  BY DEF Answer
<1>2. CASE query' = [query EXCEPT !.pc = "done", !.status = "stale", !.symbols = {}]
  <2>1. Ends /\ query'.status = "stale" /\ query'.cause = "none"
    BY <1>1, <1>2 DEF IInv, Shape, Early, Fields, Ends
  <2>2. Verdict' /\ BudgetNeedsSharedUnit'
    BY <2>1 DEF Verdict, BudgetNeedsSharedUnit
  <2> QED
    BY <2>1, <2>2, EndsKeeps
<1>3. CASE End(Status)
  <2>1. Status \in {"ok", "stale", "no_result"}
    BY DEF Status
  <2>2. /\ Ends /\ query'.status = Status /\ query'.cause = "none"
        /\ query'.symbols = query.symbols
    BY <1>1, <1>3, <2>1 DEF IInv, Shape, Early, Fields, End, Ends
  <2>3. StartID' = StartID /\ Matching' = Matching
    BY <2>2, MatchingStays DEF Ends
  <2>4. Narrowed' = Narrowed
    BY <2>2, <2>3 DEF Narrowed, Ends
  <2>5. Status = "no_result" => query.state = "no_result"
    BY DEF IInv, TypeOK, Status
  <2>6. Status = "ok" => query.state = "complete" /\ ~query.partial
    BY DEF IInv, Shape, Status
  <2>7. Len(query.program.steps) \in Nat /\ query.step \in Nat
    BY <1>1, ProgramShape DEF IInv, TypeOK, Loaded, Shape
  <2>8. query.step - 1 = Len(query.program.steps)
    BY <1>1, <2>7 DEF IInv, Exact
  <2>9. Verdict'
    BY <1>1, <2>2, <2>3, <2>4, <2>5, <2>6, <2>8
       DEF IInv, Exact, NothingSkipped, Verdict, Ends
  <2>10. BudgetNeedsSharedUnit'
    BY <2>2 DEF BudgetNeedsSharedUnit
  <2> QED
    BY <2>2, <2>9, <2>10, EndsKeeps
<1> QED
  BY <1>2, <1>3 DEF Answer

-----------------------------------------------------------------------------
(* The invariant, and what follows from it. *)

LEMMA InitInvariant == Init => IInv
<1>1. SUFFICES ASSUME Init PROVE IInv
  OBVIOUS
<1>2. project \in Projects /\ query = Start
  BY <1>1 DEF Init
<1>3. TypeOK /\ Shape /\ Early /\ Loaded
  BY <1>2 DEF Start, Fields, TypeOK, Shape, Early, Loaded
<1>4. Negotiated /\ Exact /\ Verdict /\ AnswersWereNegotiated /\ BudgetNeedsSharedUnit
  BY <1>2 DEF Start, Negotiated, Exact, Verdict, AnswersWereNegotiated, BudgetNeedsSharedUnit
<1> QED
  BY <1>3, <1>4 DEF IInv

LEMMA StutterKeeps ==
    ASSUME IInv, UNCHANGED vars
    PROVE  IInv'
<1>1. query' = query /\ project' = project
  BY DEF vars
<1>2. StartID' = StartID /\ Matching' = Matching
  BY <1>1, MatchingStays
<1>3. Narrowed' = Narrowed
  BY <1>1, <1>2 DEF Narrowed
<1>4. TypeOK' /\ Shape' /\ Early' /\ Loaded'
  BY <1>1 DEF IInv, TypeOK, Shape, Early, Loaded
<1>5. Negotiated' /\ AnswersWereNegotiated' /\ BudgetNeedsSharedUnit'
  BY <1>1 DEF IInv, Negotiated, Supported, Provided, AnswersWereNegotiated, BudgetNeedsSharedUnit
<1>6. Exact'
  BY <1>1, <1>2, <1>3 DEF IInv, Exact, NothingSkipped
<1>7. Verdict'
  BY <1>1, <1>2, <1>3 DEF IInv, Verdict
<1> QED
  BY <1>4, <1>5, <1>6, <1>7 DEF IInv

LEMMA NextKeeps == IInv /\ [Next]_vars => IInv'
<1>1. SUFFICES ASSUME IInv, [Next]_vars PROVE IInv'
  OBVIOUS
<1>2. CASE Load
  BY <1>1, <1>2, LoadKeeps
<1>3. CASE BindParameters
  BY <1>1, <1>3, BindKeeps
<1>4. CASE Discover
  BY <1>1, <1>4, DiscoverKeeps
<1>5. CASE Negotiate
  BY <1>1, <1>5, NegotiateKeeps
<1>6. CASE Select
  BY <1>1, <1>6, SelectKeeps
<1>7. CASE PlanStep
  BY <1>1, <1>7, PlanStepKeeps
<1>8. CASE Execute
  BY <1>1, <1>8, ExecuteKeeps
<1>9. CASE Answer
  BY <1>1, <1>9, AnswerKeeps
<1>10. CASE UNCHANGED vars
  BY <1>1, <1>10, StutterKeeps
<1> QED
  BY <1>1, <1>2, <1>3, <1>4, <1>5, <1>6, <1>7, <1>8, <1>9, <1>10 DEF Next

LEMMA Invariance == Spec => []IInv
BY InitInvariant, NextKeeps, PTL DEF Spec

\* Whatever texts, packages, workers and answers there are, the command keeps its
\* types and never holds more symbols than the limit of the query lets through
\* (semantic_query.rs, execute; query.rs, execute_resolved).
THEOREM TypeCorrect == Spec => []TypeOK
<1>1. IInv => TypeOK
  BY DEF IInv
<1> QED
  BY <1>1, Invariance, PTL

\* Every answer that narrowed a result is of a process that had itself advertised the
\* capability as it was planned with: the process that is started for a step is
\* compared with the one that was discovered (semantic_capability.rs,
\* execute_semantic_capability), for any number of steps and of replaced workers.
THEOREM AnswersWereNegotiatedHolds == Spec => []AnswersWereNegotiated
<1>1. IInv => AnswersWereNegotiated
  BY DEF IInv
<1> QED
  BY <1>1, Invariance, PTL

\* No package whose ID extends that of the chosen one exports the macro: among any
\* number of packages there is one with the longest ID, and it is the one that
\* resolve_macro takes.
THEOREM MacrosAreSpecificHolds == Spec => []MacrosAreSpecific
<1>1. IInv => MacrosAreSpecific
  BY MacroIsSpecific DEF IInv, TypeOK, MacrosAreSpecific
<1> QED
  BY <1>1, Invariance, PTL

\* The budget that capability_budget derives is exceeded only where two symbols share
\* a source unit, for any number of symbols and any caps that agree.
THEOREM BudgetNeedsSharedUnitHolds == Spec => []BudgetNeedsSharedUnit
<1>1. IInv => BudgetNeedsSharedUnit
  BY DEF IInv
<1> QED
  BY <1>1, Invariance, PTL

\* No stored symbol refers to the JVM type of a name that the catalog resolves to
\* another ID: such an ID is stored only where the analysis could not resolve the name.
AnalysedWithCatalog ==
    \A l \in Locators : l.id # JvmType(l.name) =>
        \A s \in Symbols : JvmType(l.name) \notin s.applied \cup s.supertypes

\* Then the one ID that the command looks for stands for all that its start means.
LEMMA StartIsMeant ==
    ASSUME AnalysedWithCatalog, IInv, StartID # Error, ~NamesWorkspaceSymbol
    PROVE  Meant = Matching
<1>1. CASE StartValue.type = "qualified_symbol"
  <2> DEFINE name == StartValue.value
             ids == {l.id : l \in {k \in Locators : k.name = name}}
  <2>1. StartID = Named(name) /\ Named(name) # Error
    BY <1>1 DEF StartID, StartingSymbol
  <2>2. Meaning = ids \cup {JvmType(name)}
    BY <1>1 DEF Meaning, NamesWorkspaceSymbol
  <2>3. CASE Cardinality(ids) = 1
    <3>1. PICK id : ids = {id}
      <4> DEFINE named == {l \in Locators : l.name = name}
                 f == [l \in named |-> l.id]
      <4>1. IsFiniteSet(named)
        BY CapsAssumption, FS_Subset
      <4>2. f \in Surjection(named, ids)
        BY DEF Surjection
      <4>3. IsFiniteSet(ids)
        BY <4>1, <4>2, FS_Surjection
      <4> QED
        BY <2>3, <4>3, FS_Singleton
    <3>2. StartID = id
      BY <2>1, <2>3, <3>1 DEF Named
    <3>3. PICK l \in Locators : l.name = name /\ l.id = id
      BY <3>1
    <3>4. JvmType(name) # id => Selected(JvmType(name)) = {}
      BY <3>3 DEF AnalysedWithCatalog, Selected, Posting
    <3> QED
      BY <2>2, <3>1, <3>2, <3>4 DEF Meant, Matching
  <2>4. CASE Cardinality(ids) # 1
    <3>1. ids = {} /\ StartID = JvmType(name)
      BY <2>1, <2>4 DEF Named
    <3> QED
      BY <2>2, <3>1 DEF Meant, Matching
  <2> QED
    BY <2>3, <2>4
<1>2. CASE StartValue.type # "qualified_symbol"
  BY <1>2 DEF Meant, Meaning, Matching, StartID, StartingSymbol
<1> QED
  BY <1>1, <1>2

\* A query that says no_result has nothing to find, unless its start is a name of the
\* workspace: neither a limit, nor a capability that is missing, nor any number of
\* answers of workers can make an empty result look like one (semantic_query.rs,
\* execute; query.rs, execute_resolved).
THEOREM NoResultHoldsAlways ==
    ASSUME AnalysedWithCatalog
    PROVE  Spec => []NoResultHolds
<1>1. IInv => NoResultHolds
  BY StartIsMeant DEF IInv, Verdict, NoResultHolds
<1> QED
  BY <1>1, Invariance, PTL

\* An answer with status ok is what the query asks for, as far as every capability it
\* uses keeps it: no step of any program is skipped, partial or unsupported, no limit
\* has cut anything off, and every record is fresh.
THEOREM CompleteAnswersAreExactHolds ==
    ASSUME AnalysedWithCatalog
    PROVE  Spec => []CompleteAnswersAreExact
<1>1. ASSUME IInv PROVE CompleteAnswersAreExact
  <2>1. SUFFICES ASSUME query.status = "ok" PROVE CompleteAnswersAreExact
    BY DEF CompleteAnswersAreExact
  <2>2. Narrowed \subseteq Matching
    BY DEF Narrowed
  <2>3. ~NamesWorkspaceSymbol => Meant = Matching
    BY <1>1, <2>1, StartIsMeant DEF IInv, Verdict
  <2> QED
    BY <1>1, <2>1, <2>2, <2>3 DEF IInv, Verdict, Narrowed, CompleteAnswersAreExact
<1> QED
  BY <1>1, Invariance, PTL
=============================================================================
