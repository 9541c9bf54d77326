------------------------- MODULE MCIndexPublication -------------------------
(* Small values for IndexPublication: two sources, the first referring to the *)
(* second; two contents, with different public APIs (MCApi) or with the same   *)
(* one, as after an edit that changes bodies only (MCSameApi); every edit      *)
(* moves the declarations, and so changes their symbol IDs.                    *)
EXTENDS IndexPublication

CONSTANTS u1, u2, c1, c2

MCUnits == {u1, u2}
MCContents == {c1, c2}
MCRefs == [u \in MCUnits |-> IF u = u1 THEN {u2} ELSE {}]
MCApi == [c \in MCContents |-> c]
MCSameApi == [c \in MCContents |-> 0]
MCIds == [c \in MCContents |-> c]
=============================================================================
