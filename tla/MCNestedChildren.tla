-------------------------- MODULE MCNestedChildren --------------------------
EXTENDS NestedChildren

CONSTANTS p1, p2, p3, r1, r2, hidden

\* One parent row, or two.
OneOrTwo == {<<p1>>, <<p1, p2>>}

On(rows) == [rows |-> rows, holder |-> AnyHolder]
\* A filter on the foreign key itself.
KeyFilters == {<<[rows |-> Row, holder |-> p1]>>, <<On({r1})>>}
=============================================================================
