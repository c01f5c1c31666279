--------------------------- MODULE MCCallerCommit ---------------------------
EXTENDS CallerCommit

CONSTANTS e1, e2, f1, f2, f3

\* Two executions on one context: one with two fields, one with a nested entry in a savepoint.
TwoExecutions == [e \in Execution |-> IF e = e1 THEN <<f1, f2>> ELSE <<f3>>]
OneSavepoint == [f \in Field |-> IF f = f3 THEN 1 ELSE 0]
=============================================================================
