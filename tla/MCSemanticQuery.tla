-------------------------- MODULE MCSemanticQuery --------------------------
(* Small values for SemanticQuery: two sources with two contents each.  The    *)
(* first declares A and B, B below A, and with its second content, which is    *)
(* shorter, A below C; the second source declares C below B, or only refers to *)
(* A.  The hierarchy is a chain, or a cycle over both sources.  D is declared  *)
(* in a dependency.                                                            *)
EXTENDS SemanticQuery

CONSTANTS u1, u2, long, brief, A, B, C, D

MCUnits == {u1, u2}
MCContents == {long, brief}
MCSymbols == {A, B, C, D}
MCDeclares ==
    [u \in MCUnits |-> [c \in MCContents |->
        IF u = u1 THEN {A, B} ELSE IF c = long THEN {C} ELSE {}]]
MCMentions ==
    [u \in MCUnits |-> [c \in MCContents |->
        IF u = u1 THEN {A} ELSE IF c = long THEN {A, B} ELSE {A}]]
MCSubtypes ==
    [u \in MCUnits |-> [c \in MCContents |->
        CASE u = u1 /\ c = long  -> {<<B, A>>}
          [] u = u1 /\ c = brief -> {<<B, A>>, <<A, C>>}
          [] u = u2 /\ c = long  -> {<<C, B>>, <<C, D>>}
          [] OTHER               -> {}]]
MCFits == [c \in MCContents |-> IF c = brief THEN {brief, long} ELSE {long}]
=============================================================================
