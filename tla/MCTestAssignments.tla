------------------------- MODULE MCTestAssignments -------------------------
(***************************************************************************)
(* Parameterised tests for TestAssignments.  Variables are x, y, z; a     *)
(* field's text is a1, a2, b1, ...                                        *)
(***************************************************************************)
EXTENDS TestAssignments

P(v, fs) == [var |-> v, fields |-> fs]

\* A test with x "a1,,a2" (two values, an empty field skipped) under a
\* parameterless suite under a root with y "b1 b2 b3".
Nested == << << P("x", << "a1", Empty, "a2" >>) >>, << >>, << P("y", << "b1", "b2", "b3" >>) >> >>

\* Two parameters on the test itself, and one on its parent.
Three == << << P("x", << "a1", "a2" >>), P("y", << "b1" >>) >>, << P("z", << "c1", "c2" >>) >> >>

\* A test with no parameters anywhere: it runs once.
Plain == << << >>, << >> >>

\* A parameter whose value string has no tokens (" , "), next to one that has.
Tokenless == << << P("x", << "a1", "a2" >>), P("y", << Empty, Empty >>) >> >>

\* Every value string of one to three fields with at least one token.
Strings == {s \in BoundedSeq({"a1", "a2", Empty}, 3) : Len(Values([fields |-> s])) > 0}

\* A test with parameter x under a suite with parameter y, over all strings.
Pairs == {<< << P("x", f) >>, << P("y", g) >> >> : f, g \in Strings}

GoodChains == {Nested, Three, Plain} \cup Pairs
EmptyChains == {Tokenless}
=============================================================================
