---------------------------- MODULE QueryPackages ----------------------------
(***************************************************************************)
(* What a project query is before it touches the index: the registry of    *)
(* query packages, the expansion of macros, the statements a text may      *)
(* consist of, and the binding of parameters.                              *)
(*                                                                         *)
(* A dotted name is the sequence of its segments.  A file is the sequence  *)
(* of its statements, a manifest the record it parses to.                  *)
(***************************************************************************)
EXTENDS Integers, SequencesExt

CONSTANTS
    Segments,           \* segments of ASCII lower-case letters, digits and -
    Underscored,        \* segments that have a _ as well
    SemanticVersions,   \* versions of three numbers
    Numerals,           \* texts that parse as a u32
    Error               \* what an operation returns that fails

-----------------------------------------------------------------------------
(* The registry. *)

\* is_dotted_name.
DottedName(name) == name # << >> /\ ToSet(name) \subseteq Segments

CapabilityName(name) == name # << >> /\ ToSet(name) \subseteq Segments \cup Underscored

ValidNames(names) == IsInjective(names) /\ \A i \in DOMAIN names : DottedName(names[i])

\* validate_manifest: Ok(()).
ValidManifest(manifest) ==
    /\ manifest.format = 1
    /\ manifest.requires_core = "^1"
    /\ DottedName(manifest.id)
    /\ manifest.version \in SemanticVersions
    /\ ValidNames(manifest.macros) /\ ValidNames(manifest.commands)
    /\ \A i \in DOMAIN manifest.capabilities :
           CapabilityName(manifest.capabilities[i].name) /\ manifest.capabilities[i].version > 0
    /\ IsInjective([i \in DOMAIN manifest.capabilities |-> manifest.capabilities[i].name])

\* load_workspace: directories is what package.toml parses to, or Error, for the
\* name of each directory.  One directory that is refused fails the whole load.
LoadWorkspace(directories) ==
    IF \A name \in DOMAIN directories :
           /\ directories[name] # Error
           /\ ValidManifest(directories[name])
           /\ directories[name].id = name
    THEN directories
    ELSE Error

\* What is left of a name after a package's ID and the dot.
Suffix(name, id) == SubSeq(name, Len(id) + 1, Len(name))

Exporters(registry, name) ==
    {id \in DOMAIN registry :
        IsStrictPrefix(id, name) /\ Contains(registry[id].macros, Suffix(name, id))}

\* Faulty variant of the next definition: the shortest ID.
ShortestExporter(registry, name) ==
    IF Exporters(registry, name) = {} THEN Error
    ELSE CHOOSE id \in Exporters(registry, name) :
             \A other \in Exporters(registry, name) : Len(id) <= Len(other)

\* resolve_macro: the package with the longest ID among those that export it.
ResolveMacro(registry, name) ==
    IF Exporters(registry, name) = {} THEN Error
    ELSE CHOOSE id \in Exporters(registry, name) :
             \A other \in Exporters(registry, name) : Len(other) <= Len(id)

-----------------------------------------------------------------------------
(* The text of a query. *)

MacrosOf(text) == {s \in ToSet(text) : s.op = "macro"}

\* load_with_macros up to the parser: each macro is replaced by its body.  bodies
\* holds the files under queries/ by package and export.
Expand(text, registry, bodies) ==
    LET Package(s) == ResolveMacro(registry, s.name)
        Body(s) == <<Package(s), Suffix(s.name, Package(s))>>
    IN  IF \E s \in MacrosOf(text) : Package(s) = Error \/ Body(s) \notin DOMAIN bodies
        THEN Error
        ELSE FlattenSeq([i \in DOMAIN text |->
                 IF text[i].op = "macro" THEN bodies[Body(text[i])] ELSE <<text[i]>>])

Statements(text, op) == SelectSeq(text, LAMBDA s : s.op = op)

\* parse_from and parse_symbol: the relations, and the values they start at.
StartsWell(s) ==
    /\ s.relation \in {"applies", "subtype_of", "implements"}
    /\ s.symbol.type \in {"parameter", "symbol_id", "qualified_symbol"}

Operands == [kind      |-> {"class", "interface", "method", "function"},
             language  |-> {"kotlin", "java"},
             component |-> {"parameter", "component_id"},
             prefix    |-> {"parameter", "string"}]

\* parse_predicates: kinds and languages are words, the rest literals or parameters.
TermsWell(s) ==
    \A term \in ToSet(s.terms) :
        /\ term.field \in DOMAIN Operands
        /\ IF term.field \in {"kind", "language"} THEN term.value.value \in Operands[term.field]
           ELSE term.value.type \in Operands[term.field]

\* valid_name without a dot.
WordName(name) == Len(name) = 1 /\ DottedName(name)

\* parse_capability_step and parse_capability_value; a name with a _ is refused,
\* although a manifest may declare it.
StepsWell(s) ==
    /\ DottedName(s.name)
    /\ \A a \in ToSet(s.arguments) :
           /\ WordName(a.name)
           /\ a.value.type \in {"parameter", "symbol_id", "component_id", "string", "integer"}

WellFormed(s) ==
    \/ s.op = "from" /\ StartsWell(s)
    \/ s.op = "where" /\ TermsWell(s)
    \/ s.op = "using" /\ StepsWell(s)
    \/ s.op = "limit" /\ s.limit \in Nat
    \/ s.op = "return"

\* parse_from: implements is a second word for subtype_of.
Relation(s) == IF s.relation = "applies" THEN "applies" ELSE "subtype_of"

\* ProjectQuery::parse, but for the parameters.  A macro that is left, of a macro's
\* body, is no statement; of several limits the last one counts.
Parse(text) ==
    LET froms == Statements(text, "from")
        limits == Statements(text, "limit")
        terms == [i \in DOMAIN Statements(text, "where") |-> Statements(text, "where")[i].terms]
    IN  IF (\E s \in ToSet(text) : ~WellFormed(s)) \/ Len(froms) # 1 \/ limits = << >>
        THEN Error
        ELSE [relation   |-> Relation(froms[1]),
              symbol     |-> froms[1].symbol,
              predicates |-> FlattenSeq(terms),
              steps      |-> Statements(text, "using"),
              limit      |-> Last(limits).limit]

\* What a text's macros bring with them.
PackagesOf(text, registry) == {ResolveMacro(registry, s.name) : s \in MacrosOf(text)}

CapabilitiesOf(packages, registry) ==
    UNION {ToSet(registry[id].capabilities) : id \in packages}

\* Every step names a capability that a package on the path declares.
StepsDeclared(program, capabilities) ==
    \A s \in ToSet(program.steps) : \E c \in capabilities : c.name = s.name

\* Faulty variant of the next definition: required if all packages require it.
RequiredByAll(capabilities) ==
    {[name |-> c.name, version |-> c.version,
      required |-> \A d \in capabilities :
                       d.name = c.name /\ d.version = c.version => d.required] : c \in capabilities}

\* requirements: one for each name and version, required if a package requires it.
Requirements(capabilities) ==
    {[name |-> c.name, version |-> c.version,
      required |-> \E d \in capabilities :
                       d.name = c.name /\ d.version = c.version /\ d.required] : c \in capabilities}

UsedNames(program) == {s.name : s \in ToSet(program.steps)}

-----------------------------------------------------------------------------
(* Parameters. *)

ParameterTypes == {"symbol_id", "qualified_symbol", "component_id", "string", "integer"}

\* parse_parameters: Ok.  A name may be declared twice.
ParametersWell(parameters) ==
    \A p \in ToSet(parameters) : WordName(p.name) /\ p.type \in ParameterTypes

\* A value of the command line as a parameter's type: an integer has to be one.
Typed(type, text) ==
    IF type = "integer" /\ text \notin Numerals THEN Error ELSE [type |-> type, value |-> text]

\* ProjectQuery::bind: values by name, or Error.  Of two declarations of a name the
\* last one counts.
Bind(parameters, values) ==
    LET Declared(name) == SelectSeq(parameters, LAMBDA p : p.name = name)
    IN  IF \/ DOMAIN values # {p.name : p \in ToSet(parameters)}
           \/ \E p \in ToSet(parameters) : Typed(p.type, values[p.name]) = Error
        THEN Error
        ELSE [name \in DOMAIN values |-> Typed(Last(Declared(name)).type, values[name])]

\* A literal, or what its parameter is bound to.
Resolve(value, bound) ==
    IF value.type # "parameter" THEN value
    ELSE IF value.value \in DOMAIN bound THEN bound[value.value] ELSE Error
=============================================================================
