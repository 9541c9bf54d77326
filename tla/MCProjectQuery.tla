--------------------------- MODULE MCProjectQuery ---------------------------
(* Four symbols in three units; packages whose names are prefixes of one      *)
(* another, which agree or disagree on a capability; texts that go wrong in   *)
(* each way; a worker that is upgraded, replaced or gone between two starts.  *)
EXTENDS ProjectQuery, TLC

MCSegments == {"w", "x", "ctl", "cap", "t", "target"}
MCUnderscored == {"a_b"}

Symbol(id, unit, name, applied, supertypes, current) ==
    [id |-> <<id>>, unit |-> unit, kind |-> "class", language |-> "java", component |-> "main",
     name |-> name, applied |-> {<<a>> : a \in applied},
     supertypes |-> {<<t>> : t \in supertypes}, current |-> current]

MCNumerals == {<<"1">>}

MCSymbols ==
    {Symbol("s1", "u", <<"app", "One">>, {"api", "dep"}, {}, TRUE),
     Symbol("s2", "u", <<"app", "Two">>, {"api"}, {"s1"}, TRUE),
     Symbol("s3", "v", <<"app", "Three">>, {"dep"}, {"s1"}, TRUE),
     Symbol("s4", "w", <<"lib", "Four">>, {"api", "old"}, {}, FALSE)}

MCLocators == {[name |-> <<"dep", "Note">>, id |-> <<"dep">>],
               [name |-> <<"two", "Note">>, id |-> <<"x1">>], [name |-> <<"two", "Note">>, id |-> <<"x2">>]}

Value(type, value) == [type |-> type, value |-> value]
From(relation, value) == [op |-> "from", relation |-> relation, symbol |-> value]
Macro(name) == [op |-> "macro", name |-> name]
Limit(n) == [op |-> "limit", limit |-> n]
Term(field, type, value) == [field |-> field, value |-> Value(type, value)]
Where(field, type, value) == [op |-> "where", terms |-> << Term(field, type, value) >>]
Using(name, arguments) == [op |-> "using", name |-> name, arguments |-> arguments]
Return == [op |-> "return"]
Target == << [name |-> <<"target">>, value |-> Value("parameter", <<"t">>)] >>

Capability(version, required) == [name |-> <<"cap">>, version |-> version, required |-> required]
Package(id, macros, capabilities) ==
    [format |-> 1, requires_core |-> "^1", id |-> id, version |-> "1.0.0",
     macros |-> macros, commands |-> << >>, capabilities |-> capabilities]

W == <<"w">>
WX == <<"w", "x">>
X == <<"x">>
Packages(ofW, ofWX, ofX) ==
    (W :> Package(W, << <<"x", "ctl">>, <<"ctl">> >>, ofW))
        @@ (WX :> Package(WX, << <<"ctl">> >>, ofWX)) @@ (X :> Package(X, << <<"ctl">> >>, ofX))
Plain == Packages(<< >>, << >>, << >>)
Both == Packages(<< >>, << Capability(1, TRUE) >>, << Capability(1, FALSE) >>)
Optional == Packages(<< >>, << Capability(1, FALSE) >>, << Capability(1, FALSE) >>)
Conflict == Packages(<< >>, << Capability(1, FALSE) >>, << Capability(2, FALSE) >>)

Bodies == (<<W, <<"ctl">> >> :> << Macro(<<"w", "x", "ctl">>) >>)
    @@ (<<W, <<"x", "ctl">> >> :> << From("applies", Value("symbol_id", <<"old">>)), Limit(1) >>)
    @@ (<<WX, <<"ctl">> >> :> << From("applies", Value("parameter", <<"t">>)), Limit(3) >>)
    @@ (<<X, <<"ctl">> >> :> << Using(<<"cap">>, Target) >>)
Missing == <<WX, <<"ctl">> >> :> << >>

CtlX == Macro(<<"w", "x", "ctl">>)
Step == Macro(<<"x", "ctl">>)

Project(directories, bodies, text, type, value) ==
    [directories |-> directories, bodies |-> bodies, text |-> text,
     parameters |-> << [name |-> <<"t">>, type |-> type] >>, values |-> <<"t">> :> value]

Simple(text) == Project(Plain, Bodies, text, "symbol_id", <<"api">>)

MCProjects ==
    {Simple(<< From("applies", Value("parameter", <<"t">>)), Where("component", "component_id", "main"),
               Return, Limit(3) >>),
     Simple(<< From("applies", Value("parameter", <<"t">>)), Where("kind", "kind", "class"),
               Limit(3), Limit(1) >>),
     Simple(<< From("applies", Value("symbol_id", <<"api">>)), Limit(0) >>),
     Simple(<< From("applies", Value("symbol_id", <<"api">>)),
               Where("prefix", "string", <<"app">>), Limit(2) >>),
     Simple(<< From("applies", Value("symbol_id", <<"api">>)),
               Where("component", "parameter", <<"t">>), Limit(2) >>),
     Simple(<< From("implements", Value("symbol_id", <<"s1">>)), Limit(2) >>),
     Simple(<< From("applies", Value("string", "api")), Limit(2) >>),
     Simple(<< CtlX, Using(<<"a_b">>, << >>) >>), Simple(<< CtlX, Where("kind", "kind", "enum") >>),
     Simple(<< CtlX, [op |-> "where", terms |-> << Term("kind", "kind", "class"),
                                                   Term("language", "language", "kotlin") >>] >>),
     [Simple(<< CtlX >>) EXCEPT !.parameters =
         << [name |-> <<"t">>, type |-> "string"], [name |-> <<"t">>, type |-> "symbol_id"] >>],
     [Simple(<< CtlX >>) EXCEPT !.parameters[1].type = "text"],
     Simple(<< From("subtype_of", Value("symbol_id", <<"s1">>)), CtlX, Limit(2) >>),
     Simple(<< Macro(<<"w", "ctl">>), Limit(2) >>), Simple(<< Macro(<<"q", "ctl">>), Limit(2) >>),
     Simple(<< CtlX, Step, Limit(2) >>), Simple(<< CtlX >>), Simple(<< Return, Limit(1) >>),
     Simple(<< From("applies", Value("parameter", <<"u">>)), Limit(2) >>),
     [Simple(<< CtlX >>) EXCEPT !.values = <<"u">> :> <<"api">>],
     Project(Plain, Missing, << CtlX, Step, Limit(2) >>, "symbol_id", <<"api">>),
     Project(Plain, Bodies, << CtlX, Limit(1) >>, "integer", <<"many">>),
     Project([Plain EXCEPT ![X].requires_core = "^2"], Bodies, << CtlX >>, "symbol_id", <<"api">>),
     Project([Plain EXCEPT ![X].id = W], Bodies, << CtlX >>, "symbol_id", <<"api">>),
     Project([Plain EXCEPT ![X] = Error], Bodies, << CtlX >>, "symbol_id", <<"api">>),
     Project([Plain EXCEPT ![X].capabilities = << Capability(0, TRUE) >>], Bodies, << CtlX >>,
             "symbol_id", <<"api">>)}
    \cup {Project(Plain, Bodies, << CtlX >>, "qualified_symbol", name) :
              name \in {<<"dep", "Note">>, <<"two", "Note">>, <<"app", "One">>, <<"bare">>}}
    \cup {Project(Plain, Bodies, << From("subtype_of", Value("parameter", <<"t">>)), Limit(2) >>,
                  "qualified_symbol", <<"app", "One">>)}
    \cup {Project(directories, Bodies, text, "symbol_id", value) :
              directories \in {Both, Optional, Conflict},
              text \in {<< CtlX, Step >>, << CtlX, Step, Step >>, << CtlX, Step, Limit(1) >>, << CtlX >>},
              value \in {<<"api">>, <<"dep">>, <<"old">>, <<"nothing">>}}

Parameter == [name |-> <<"target">>, type |-> "symbol_id", required |-> TRUE]
Provides(version, parameters, result) ==
    [name |-> <<"cap">>, version |-> version, parameters |-> parameters, result |-> result]
Old == Provides(1, {Parameter}, "candidate_symbols")

MCAdvertised ==
    {[identity |-> i, capabilities |-> cs] :
        i \in {"v1", "v2"},
        cs \in {{}, {Old}, {Provides(2, {Parameter}, "candidate_symbols")},
                {Provides(1, {Parameter}, "normalized_facts")},
                {Provides(1, {[Parameter EXCEPT !.type = "string"]}, "candidate_symbols")}}}

Response(state, symbols) ==
    [name |-> <<"cap">>, version |-> 1, state |-> state, symbols |-> [i \in DOMAIN symbols |-> <<symbols[i]>>],
     snapshots |-> << >>,     from |-> "v1", late |-> FALSE, nodes |-> 1, bytes |-> 1, encoded |-> 1]
Good == {Response(state, symbols) : state \in {"complete", "partial"},
             symbols \in {<< >>, <<"s3">>, <<"s2">>, <<"s4", "s4">>, <<"s1", "s3">>}}
MCResponses ==
    Good \cup {[r EXCEPT !.from = "v2"] : r \in Good}
        \cup {Response("unsupported", << >>), Response("unsupported", <<"s3">>),
              Response("complete", <<"s1", "s2", "s3">>)}
        \cup {[Response("complete", <<"s3">>) EXCEPT !.late = TRUE],
              [Response("complete", <<"s3">>) EXCEPT !.nodes = 9],
              [Response("complete", <<"s3">>) EXCEPT !.encoded = 9],
              [Response("complete", <<"s3">>) EXCEPT !.version = 2],
              [Response("complete", << >>) EXCEPT !.snapshots =
                   << [unit |-> "v", from |-> "v1"] >>]}
=============================================================================
