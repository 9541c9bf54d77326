------------------------ MODULE MCConcurrentIndexing ------------------------
(* Small values for ConcurrentIndexing: the two sources of MCIndexPublication, *)
(* the first referring to the second.                                          *)
EXTENDS ConcurrentIndexing

CONSTANTS u1, u2, c1, c2

MCUnits == {u1, u2}
MCContents == {c1, c2}
MCRefs == [u \in MCUnits |-> IF u = u1 THEN {u2} ELSE {}]
MCApi == [c \in MCContents |-> c]
MCSameApi == [c \in MCContents |-> 0]
MCIds == [c \in MCContents |-> c]
=============================================================================
