---------------------------- MODULE ProjectQuery ----------------------------
(***************************************************************************)
(* kide query: a project's query from its text to its answer.  The text is *)
(* expanded and bound, the capabilities its packages require are matched   *)
(* with what a worker advertises, the index gives a bounded starting set,  *)
(* and each capability step lets a fresh worker process narrow that set.   *)
(*                                                                         *)
(* The index does not change while the query runs; SemanticQuery has the   *)
(* races of reads with index runs.  The order of symbols is left out: a    *)
(* limit keeps any of them.                                                *)
(***************************************************************************)
EXTENDS QueryPackages, FiniteSets

CONSTANTS
    Symbols,        \* the indexed symbols
    Locators,       \* names and IDs of the catalog of dependencies
    Projects,       \* workspaces with a query and the values for its parameters
    Advertised,     \* what a worker process may say of itself in a handshake
    NoWorker,       \* the worker does not start or does not greet
    Responses,      \* what a worker may answer to a request
    MaxResultLimit, \* the largest limit
    MaxCandidates,  \* MAX_CAPABILITY_CANDIDATES
    MaxBytes        \* QUERY_CAPABILITY_MAX_BYTES

\* The documented caps agree: what a limit lets through fits a capability budget.
ASSUME CapsAssumption ==
    /\ MaxResultLimit \in Nat \ {0}
    /\ MaxCandidates \in Nat /\ MaxResultLimit <= MaxCandidates
    /\ NoWorker \notin Advertised
    /\ IsFiniteSet(Symbols) /\ IsFiniteSet(Locators)

VARIABLES
    project,    \* the workspace the query runs in
    query       \* the command

vars == <<project, query>>

\* load and load_with_macros: the program of a project's text, or Error.
ProgramOf(p) ==
    LET registry == LoadWorkspace(p.directories)
        text == IF registry = Error THEN Error ELSE Expand(p.text, registry, p.bodies)
    IN  IF text = Error THEN Error ELSE Parse(text)

\* What a file system and the parser give: directories and macros have names, and a
\* program has a sequence of steps and a number for its limit.
ASSUME ProjectsAssumption ==
    \A p \in Projects :
        /\ \A id \in DOMAIN p.directories : id \in Seq(ToSet(id))
        /\ \A s \in MacrosOf(p.text) : s.name \in Seq(ToSet(s.name))
        /\ ProgramOf(p) # Error =>
               /\ ProgramOf(p).steps \in Seq(ToSet(ProgramOf(p).steps))
               /\ ProgramOf(p).limit \in Nat

\* answers is history: what was accepted of workers, and what the process that
\* answered had said of itself.
Start == [pc |-> "load", program |-> Error, bound |-> << >>, requirements |-> {},
          worker |-> NoWorker, symbols |-> {}, state |-> "complete", partial |-> FALSE,
          step |-> 1, plan |-> Error, answers |-> << >>, status |-> "none", cause |-> "none"]

Init == project \in Projects /\ query = Start

End(status) == query' = [query EXCEPT !.pc = "done", !.status = status]

\* The command ends with an error.
Fail(cause) == query' = [query EXCEPT !.pc = "done", !.status = "failed", !.cause = cause]

-----------------------------------------------------------------------------
(* The text. *)

Load ==
    /\ query.pc = "load"
    /\ LET program == ProgramOf(project)
           capabilities == CapabilitiesOf(PackagesOf(project.text, project.directories),
                                          project.directories)
       IN  IF program = Error \/ ~ParametersWell(project.parameters) THEN Fail("text")
           ELSE IF ~StepsDeclared(program, capabilities) THEN Fail("text")
           ELSE query' = [query EXCEPT !.pc = "bind", !.program = program,
                                       !.requirements = Requirements(capabilities)]
    /\ UNCHANGED project

BindParameters ==
    /\ query.pc = "bind"
    /\ LET bound == Bind(project.parameters, project.values)
       IN  IF bound = Error THEN Fail("parameters")
           ELSE query' = [query EXCEPT !.pc = "discover", !.bound = bound]
    /\ UNCHANGED project

-----------------------------------------------------------------------------
(* Capabilities. *)

NeedsDiscovery ==
    \E r \in query.requirements : r.required \/ r.name \in UsedNames(query.program)

\* discover: a worker is only started when a capability may be needed.
Discover ==
    /\ query.pc = "discover"
    /\ IF NeedsDiscovery
       THEN \E w \in Advertised \cup {NoWorker} :
                IF w = NoWorker THEN Fail("worker")
                ELSE query' = [query EXCEPT !.pc = "negotiate", !.worker = w]
       ELSE query' = [query EXCEPT !.pc = "negotiate"]
    /\ UNCHANGED project

Provided(name, version) ==
    {c \in IF query.worker = NoWorker THEN {} ELSE query.worker.capabilities :
        c.name = name /\ c.version = version}

\* negotiate_query_capabilities: QueryCapabilityStatus::Supported.
Supported(r) == Provided(r.name, r.version) # {}

Negotiate ==
    /\ query.pc = "negotiate"
    /\ IF \E r \in query.requirements : r.required /\ ~Supported(r)
       THEN End("unsupported")
       ELSE query' = [query EXCEPT !.pc = "select",
                          !.partial = \E r \in query.requirements :
                              /\ ~r.required /\ ~Supported(r)
                              /\ r.name \in UsedNames(query.program)]
    /\ UNCHANGED project

-----------------------------------------------------------------------------
(* The index. *)

\* An ID is a sequence, like a name.
JvmType(name) == <<"jvm:type">> \o name

\* resolve_qualified_symbol: only the catalog of dependencies is asked; a name
\* with a dot that it lacks stands for a JVM type.
Named(name) ==
    LET ids == {l.id : l \in {l \in Locators : l.name = name}}
    IN  IF Cardinality(ids) = 1 THEN CHOOSE id \in ids : TRUE
        ELSE IF ids = {} /\ Len(name) > 1 THEN JvmType(name)
        ELSE Error

\* resolve_symbol: the symbol a value stands for.
StartingSymbol(value) ==
    IF value = Error THEN Error
    ELSE IF value.type = "symbol_id" THEN value.value
    ELSE IF value.type = "qualified_symbol" THEN Named(value.value)
    ELSE Error

\* The type each predicate takes; kinds and languages are literals.
Accepts(field) == CASE field = "component" -> "component_id"
                    [] field = "prefix" -> "string"
                    [] OTHER -> field

\* The predicate's value, or Error.
Operand(predicate) ==
    LET value == Resolve(predicate.value, query.bound)
    IN  IF value # Error THEN IF value.type = Accepts(predicate.field) THEN value ELSE Error
        ELSE Error

\* matches.
Matches(s, predicate) ==
    LET value == Operand(predicate).value
    IN  IF predicate.field = "prefix" THEN IsPrefix(value, s.name)
        ELSE s[predicate.field] = value

\* The posting of a relation: symbols_with_applied_symbol, or the subtypes that
\* implementations_of names and that have a record.
Posting(relation, id) ==
    IF relation = "applies" THEN {s \in Symbols : id \in s.applied}
    ELSE {s \in Symbols : id \in s.supertypes}

Selected(id) ==
    {s \in Posting(query.program.relation, id) :
        \A p \in ToSet(query.program.predicates) : Matches(s, p)}

StateOf(symbols) ==
    IF symbols = {} THEN "no_result"
    ELSE IF \A s \in symbols : s.current THEN "complete" ELSE "partial"

\* Faulty variant of the next definition: a limit that lets one more through.
OneTooMany(selected, limit) ==
    {kept \in SUBSET selected : Cardinality(kept) = Min({limit + 1, Cardinality(selected)})}

\* What a limit can leave of the symbols.
Limited(selected, limit) ==
    {kept \in SUBSET selected : Cardinality(kept) = Min({limit, Cardinality(selected)})}

\* compile, select and execute.
Select ==
    /\ query.pc = "select"
    /\ LET program == query.program
           start == StartingSymbol(Resolve(program.symbol, query.bound))
           selected == Selected(start)
       IN  IF program.limit \notin 1 .. MaxResultLimit THEN Fail("limit")
           ELSE IF start = Error \/ \E p \in ToSet(program.predicates) : Operand(p) = Error
           THEN Fail("symbol")
           ELSE \E kept \in Limited(selected, program.limit) :
                    query' = [query EXCEPT !.pc = "step", !.symbols = kept,
                           !.state = IF kept = selected THEN StateOf(selected) ELSE "partial"]
    /\ UNCHANGED project

-----------------------------------------------------------------------------
(* Capability steps. *)

UnitsOf(symbols) == {s.unit : s \in symbols}

\* Faulty variant of the next definition: room for one source unit.
OneUnitBudget(symbols) == [candidates |-> Max({1, Cardinality(symbols)}), nodes |-> 1]

\* capability_budget.
Budget(symbols) ==
    [candidates |-> Max({1, Cardinality(symbols)}),
     nodes      |-> Max({1, Cardinality(UnitsOf(symbols))})]

\* bind_capability_arguments: a name is resolved, the rest is taken as it is.
Argument(value) ==
    LET resolved == Resolve(value, query.bound)
    IN  IF resolved = Error THEN Error
        ELSE IF resolved.type = "qualified_symbol"
        THEN IF Named(resolved.value) = Error THEN Error
             ELSE [type |-> "symbol_id", value |-> Named(resolved.value)]
        ELSE resolved

\* validate_arguments: Ok.
ValidArguments(capability, arguments) ==
    /\ \A p, q \in capability.parameters : p.name = q.name => p = q
    /\ IsInjective([i \in DOMAIN arguments |-> arguments[i].name])
    /\ \A a \in ToSet(arguments) : Argument(a.value) # Error /\
           \E p \in capability.parameters : p.name = a.name /\ p.type = Argument(a.value).type
    /\ \A p \in capability.parameters : p.required => \E a \in ToSet(arguments) : a.name = p.name

\* The requirements of a step's name: more than one is a conflict of versions.
RequirementsFor(step) == {r \in query.requirements : r.name = step.name}

Current == query.program.steps[query.step]

\* One source unit is passed for each symbol, and counted before duplicates go.
SourceInput(symbols) == Cardinality(symbols)

\* plan_semantic_capability, for a step whose requirement a worker supports.
PlanCapability(r) ==
    LET budget == Budget(query.symbols)
        capability == CHOOSE c \in Provided(r.name, r.version) : TRUE
    IN  IF \E a \in ToSet(Current.arguments) : Argument(a.value) = Error THEN Fail("arguments")
        ELSE IF budget.candidates > MaxCandidates \/ SourceInput(query.symbols) > budget.nodes
             THEN Fail("budget")
        ELSE IF ~ValidArguments(capability, Current.arguments) THEN Fail("arguments")
        ELSE IF capability.result # "candidate_symbols" THEN Fail("facts")
        ELSE query' = [query EXCEPT !.pc = "execute",
                           !.plan = [capability |-> capability, budget |-> budget,
                                     units |-> UnitsOf(query.symbols), required |-> r.required]]

PlanStep ==
    /\ query.pc = "step" /\ query.step <= Len(query.program.steps)
    /\ IF Cardinality(RequirementsFor(Current)) # 1 THEN Fail("conflict")
       ELSE \E r \in RequirementsFor(Current) :
                IF Supported(r) THEN PlanCapability(r)
                ELSE query' = [query EXCEPT !.step = @ + 1]
    /\ UNCHANGED project

\* validate_semantic_capability_response: Ok.
ValidResponse(plan, worker, r) ==
    /\ r.name = plan.capability.name /\ r.version = plan.capability.version
    /\ r.from = worker.identity
    /\ ~r.late
    /\ r.nodes <= plan.budget.nodes
    /\ r.bytes <= MaxBytes /\ r.encoded <= MaxBytes
    /\ Len(r.symbols) <= plan.budget.candidates /\ Len(r.snapshots) <= plan.budget.nodes
    /\ plan.capability.result = "candidate_symbols" => r.snapshots = << >>
    /\ plan.capability.result = "normalized_facts" => r.symbols = << >>
    /\ r.state = "unsupported" => r.symbols = << >> /\ r.snapshots = << >>
    /\ IsInjective([i \in DOMAIN r.snapshots |-> r.snapshots[i].unit])
    /\ \A s \in ToSet(r.snapshots) : s.unit \in plan.units /\ s.from = worker.identity

\* Faulty variant of the next definition: what the process says is not compared.
AnyGreeting(said) == said # NoWorker

\* The process that is started now is the one that was planned with.
SameWorker(said) ==
    /\ said # NoWorker
    /\ said.identity = query.worker.identity
    /\ query.plan.capability \in said.capabilities

\* Faulty variant of the next definition: the worker's candidates are the result.
TakenFrom(r) == {s \in Symbols : s.id \in ToSet(r.symbols)}

\* What an answer leaves of the symbols.
Refined(r) == {s \in query.symbols : s.id \in ToSet(r.symbols)}

\* The answer is used, and the next step begins.
Accept(r, said) ==
    query' = [query EXCEPT
        !.pc = "step", !.step = @ + 1, !.plan = Error,
        !.partial = @ \/ r.state # "complete",
        !.symbols = IF r.state = "unsupported" THEN @ ELSE Refined(r),
        !.answers = Append(@, [capability |-> query.plan.capability, response |-> r,
                               said |-> said])]

\* execute_semantic_capability in a process of its own, and what its answer does.
Execute ==
    /\ query.pc = "execute"
    /\ \E said \in Advertised \cup {NoWorker} :
           IF ~SameWorker(said) THEN Fail("worker")
           ELSE \E r \in Responses :
                IF ~ValidResponse(query.plan, query.worker, r) THEN Fail("response")
                ELSE IF r.state = "unsupported" /\ query.plan.required THEN End("unsupported")
                ELSE Accept(r, said)
    /\ UNCHANGED project

-----------------------------------------------------------------------------
(* The answer. *)

\* Faulty variant of the next definition: an empty answer is no result.
StatusOfSymbols ==
    LET state == IF query.partial /\ query.state = "complete" THEN "partial" ELSE query.state
    IN  IF query.symbols = {} THEN "no_result" ELSE IF state = "complete" THEN "ok" ELSE "stale"

\* Faulty variant of the next definition: a partial step does not count.
StatusOfIndex ==
    CASE query.state = "complete" -> "ok"
      [] query.state = "partial" -> "stale"
      [] OTHER -> "no_result"

\* The status of a result that passes the freshness gate.
Status ==
    LET state == IF query.partial /\ query.state = "complete" THEN "partial" ELSE query.state
    IN  CASE state = "complete" -> "ok"
          [] state = "partial" -> "stale"
          [] OTHER -> "no_result"

\* freshness_problem, then print_records: a stale owner takes the symbols away.
Answer ==
    /\ query.pc = "step" /\ query.step > Len(query.program.steps)
    /\ \/ query' = [query EXCEPT !.pc = "done", !.status = "stale", !.symbols = {}]
       \/ End(Status)
    /\ UNCHANGED project

Next ==
    \/ Load \/ BindParameters \/ Discover \/ Negotiate
    \/ Select \/ PlanStep \/ Execute \/ Answer

Spec == Init /\ [][Next]_vars

-----------------------------------------------------------------------------
(* Properties. *)

\* The command and its place; it never holds more symbols than the query's limit.
TypeOK ==
    /\ project \in Projects
    /\ query.pc \in {"load", "bind", "discover", "negotiate", "select", "step", "execute", "done"}
    /\ query.status \in {"none", "ok", "stale", "no_result", "unsupported", "failed"}
    /\ query.symbols \subseteq Symbols
    /\ query.program # Error => Cardinality(query.symbols) <= query.program.limit
    /\ query.state \in {"complete", "partial", "no_result"}
    /\ query.worker \in Advertised \cup {NoWorker}

\* What the query asks for: a name means every symbol that has it.
StartValue == Resolve(query.program.symbol, query.bound)

Meaning ==
    IF StartValue.type = "qualified_symbol"
    THEN {l.id : l \in {l \in Locators : l.name = StartValue.value}}
             \cup {s.id : s \in {s \in Symbols : s.name = StartValue.value}}
             \cup {JvmType(StartValue.value)}
    ELSE {StartValue.value}

Meant == UNION {Selected(id) : id \in Meaning}

\* The start is given by a name that a declaration of the workspace has.
NamesWorkspaceSymbol ==
    /\ StartValue.type = "qualified_symbol"
    /\ \E s \in Symbols : s.name = StartValue.value

\* For the names that can be resolved, no_result says that nothing matches, whatever
\* limits, missing capabilities and workers took away; a name of a declaration of the
\* workspace is looked up among the locators of dependencies only (semantic_query.rs).
NoResultHolds == query.status = "no_result" => NamesWorkspaceSymbol \/ Meant = {}

\* An answer with status ok is exactly what the query asks for, as far as every
\* capability it uses keeps it: nothing was cut off by the limit, no step was
\* skipped or partial, and every record of it is fresh.
CompleteAnswersAreExact ==
    query.status = "ok" =>
        /\ \A s \in query.symbols : s.current
        /\ Len(query.answers) = Len(query.program.steps)
        /\ \A i \in DOMAIN query.answers : query.answers[i].response.state = "complete"
        /\ NamesWorkspaceSymbol \/
           query.symbols = {s \in Meant : \A i \in DOMAIN query.answers :
                                s.id \in ToSet(query.answers[i].response.symbols)}

\* Every answer that was used is of a process that had itself advertised the
\* capability as it was planned with, although the worker may have been replaced
\* since the discovery.
AnswersWereNegotiated ==
    \A i \in DOMAIN query.answers :
        /\ query.answers[i].capability \in query.answers[i].said.capabilities
        /\ query.answers[i].response.from = query.answers[i].said.identity

\* A macro is that of the most specific package that exports it.
MacrosAreSpecific ==
    query.program # Error =>
        \A s \in MacrosOf(project.text) : \A id \in Exporters(project.directories, s.name) :
            ~IsStrictPrefix(ResolveMacro(project.directories, s.name), id)

\* A budget that Core derives itself is only exceeded by symbols of one source unit,
\* which are counted once in the budget and twice against it.
BudgetNeedsSharedUnit ==
    query.cause = "budget" => \E s, t \in query.symbols : s # t /\ s.unit = t.unit
=============================================================================
