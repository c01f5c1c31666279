--------------------------- MODULE MCNestedWrites ---------------------------
(* Instances of NestedWrites: two entries over two stored rows and three     *)
(* targets, a parent or two with three target rows, or two requests that     *)
(* write the links of two parents.                                           *)
EXTENDS NestedWrites, TLC

CONSTANTS x, y, shown, hides, scoped, p1, p2, p3, r1, r2, q1, q2, s1, s2, a, b, hidden

\* A connect's filter: one row, none that the request reaches, and two.
Selections == {{shown}, {hides, scoped}, {shown, hides}}

\* No parent row, one, or two.
UpToTwo == {<<>>, <<p1>>, <<p1, p2>>}

\* Filters on the row alone: none, one row, only the hidden row, every row, two rows in turn.
On(these) == [rows |-> these, holder |-> AnyHolder]
RowFilters == {<<>>, <<On({r1})>>, <<On({hidden})>>, <<On({r1, r2, hidden})>>, <<On({r2}), On({r1})>>}

\* The requests are alike.
Requests == Permutations(Request)

\* Both sources at once, one after the other, or only the first.
TwoSources == {<<{s1, s2}>>, <<{s1}, {s2}>>, <<{s1}>>}

\* Every input alone, and the ones that meet on a target.
Input(set, disconnect, connect) == [set |-> set, disconnect |-> disconnect, connect |-> connect]
SomeInputs ==
  {Input(<<{a, hidden}>>, NotGiven, NotGiven), Input(<<>>, NotGiven, <<{b}>>),
   Input(NotGiven, <<{a}, {b}>>, NotGiven),    Input(NotGiven, <<{a}>>, <<{a, b}>>),
   Input(NotGiven, NotGiven, <<{b}, {a, hidden}>>)}

\* The first source has every mix of links to `a', one to `b' or none; the second one has links
\* to the hidden target and to `b'.
Owned(l, ours) == l.ours = ours /\ l.copy = 1
SomeTables ==
  {[l \in [source : Source, target : LinkTarget, ours : BOOLEAN, copy : Copy] |->
      IF l.source = s1 /\ l.target = a /\ Owned(l, TRUE) THEN mine
      ELSE IF l.source = s1 /\ l.target = a /\ Owned(l, FALSE) THEN theirs
      ELSE IF l.target = b /\ Owned(l, TRUE) THEN other
      ELSE IF l.source = s2 /\ l.target = hidden /\ Owned(l, TRUE) THEN "live"
      ELSE "absent"] :
     mine \in {"absent", "live", "marked"}, theirs \in {"absent", "live"}, other \in {"absent", "live"}}
=============================================================================
