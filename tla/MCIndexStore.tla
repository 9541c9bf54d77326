---------------------------- MODULE MCIndexStore ----------------------------
(* Two processes, two units.  Unit a has two snapshots that share IDs, one    *)
(* with two rows of one key, one with an offset SQLite cannot hold, one that  *)
(* speaks of unit b and one of other inputs; unit b has one of its own and    *)
(* one that claims a symbol of unit a.                                        *)
EXTENDS IndexStore, TLC

CONSTANTS p1, p2, a, b

MCOpeners == {p1, p2}
MCSymmetry == Permutations(MCOpeners)
MCUnits == {a, b}
MCInitialVersions == {0, 14}

Fact(table, owner, id, start, end) ==
    [table |-> table, owner |-> owner, id |-> id, start |-> start, end |-> end,
     located |-> IF owner = b THEN b ELSE a]

MCFactsOf ==
    [a1 |-> << Fact("symbols", a, "s", 0, 1), Fact("annotation_edges", a, "s@t", 0, 0),
               Fact("applications", a, "p", 0, 1),
               Fact("application_arguments", "p", "0", 0, 0) >>,
     a2 |-> << Fact("symbols", a, "s", 1, 2), Fact("applications", a, "p", 1, 2),
               Fact("application_arguments", "p", "0", 0, 0),
               Fact("occurrences", a, "1-2", 1, 2) >>,
     twice |-> << Fact("occurrences", a, "0-1", 0, 1), Fact("occurrences", a, "0-1", 0, 1) >>,
     large |-> << Fact("symbols", a, "s", 0, 4), Fact("occurrences", a, "0-4", 0, 4) >>,
     foreign |-> << [Fact("symbols", a, "s", 0, 1) EXCEPT !.located = b] >>,
     other |-> << Fact("symbols", a, "s", 0, 1) >>,
     b1 |-> << Fact("symbols", b, "t", 0, 1), Fact("hierarchy_edges", b, "t<s", 0, 0) >>,
     claims |-> << Fact("symbols", b, "s", 0, 1) >>]

MCSnapshots == DOMAIN MCFactsOf
MCUnitOf == [s \in MCSnapshots |-> IF s \in {"b1", "claims"} THEN b ELSE a]
MCInputsOf == [s \in MCSnapshots |-> IF s = "other" THEN "edited" ELSE "discovered"]
MCBatches ==
    {<< <<UnitOf[s], s>> >> : s \in MCSnapshots \ {"twice"}}
        \cup {<< <<b, "b1">>, <<a, "a2">> >>, << <<b, "b1">>, <<a, "twice">> >>,
              << <<a, "b1">> >>}
MCExpected == [u \in MCUnits |-> "discovered"]
=============================================================================
