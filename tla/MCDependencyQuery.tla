-------------------------- MODULE MCDependencyQuery --------------------------
(* An artifact of two files and an empty one, whose declarations fill one     *)
(* block and half of two, and a second one that declares a name of the first; *)
(* strings long and repeated enough for the table, and languages and          *)
(* provenances that are and are not shared; payloads of the JVM worker, of    *)
(* Core's own encoder, and of a worker older than hierarchy postings.         *)
EXTENDS DependencyQuery

MCLongStrings == {"annotation", "interface"}

Symbol(id, kind, qualified, owner, modifiers, language, provenance) ==
    [id |-> id, kind |-> kind, qualified |-> qualified, owner |-> owner,
     modifiers |-> modifiers, language |-> language, provenance |-> provenance]
Edge(subtype, supertype) == [subtype |-> subtype, supertype |-> supertype]
Snapshot(unit, symbols, hierarchy) ==
    [unit |-> unit, provenances |-> <<"context", "artifact">>, symbols |-> symbols,
     hierarchy |-> hierarchy]

MCGraph ==
    [lib |-> << Snapshot("lib",
                    << Symbol("l0", "interface", <<"pkg.A">>, << >>, <<"annotation">>, "java", 1),
                       Symbol("l1", "field", << >>, <<"l0">>, <<"annotation", "final">>, "java", 1),
                       Symbol("l2", "interface", <<"pkg.A">>, <<"other">>, << >>, "kotlin", 0) >>,
                    << Edge("l2", "l0"), Edge("gone", "l0") >>),
                Snapshot("empty", << >>, << >>),
                Snapshot("extra",
                    << Symbol("l3", "class", <<"pkg.B">>, <<"l0">>, <<"annotation">>, "java", 1) >>,
                    << Edge("l3", "l0"), Edge("l0", "l0") >>) >>,
     two |-> << Snapshot("two",
                    << Symbol("t0", "class", <<"pkg.A">>, << >>, << >>, "java", 0) >>, << >>) >>]

Locator(name, id) == [name |-> name, id |-> id]
MCCatalog ==
    [lib |-> {Locator("pkg.A", "l0"), Locator("pkg.B", "l3")}, two |-> {Locator("pkg.A", "t0")}]

Writer(ordinalized, interned, postings) ==
    [ordinalized |-> ordinalized, interned |-> interned, postings |-> postings]
MCWriters ==
    {Writer(TRUE, FALSE, TRUE), Writer(FALSE, TRUE, TRUE), Writer(TRUE, FALSE, FALSE)}

MCEntryBytes == [dictionary |-> 2, hierarchy |-> 5, directory |-> 3, detail |-> 7, facts |-> 11]
=============================================================================
