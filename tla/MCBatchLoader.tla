--------------------------- MODULE MCBatchLoader ----------------------------
EXTENDS BatchLoader, TLC

CONSTANTS e1, e2, n1, n2, c1, c2, c3, c4, c5, lower, upper, other, none, r1, r2, a1, a2

\* One cached document in two executions whose variables differ; in the first, two fields ask for
\* the same arguments.
ByVariables == [e \in Execution |-> [n \in Nodes |-> IF e = e1 THEN a1 ELSE IF n = n1 THEN a2 ELSE a1]]
CallExecution == [c \in Call |-> IF c \in {c1, c2, c3, c5} THEN e1 ELSE e2]
CallNodes == [c \in Call |-> IF c = c3 THEN n2 ELSE n1]
CallKey == (c1 :> lower) @@ (c2 :> upper) @@ (c3 :> lower) @@ (c4 :> lower) @@ (c5 :> none)

\* The rows spell their keys in one way each; the collation folds the case.
Spelling == (r1 :> upper) @@ (r2 :> other)
FoldCase == [k \in Key |-> IF k = upper THEN lower ELSE k]

\* The second execution's arguments hide the row.
ShownRows == [e \in Execution |-> [a \in Args |-> IF a = a1 THEN Row ELSE {r2}]]
=============================================================================
