\* Two executions on one context object, two transactions of the caller's.
SPECIFICATION FairSpec
CONSTANTS
  e1 = e1
  e2 = e2
  f1 = f1
  f2 = f2
  f3 = f3
  Execution = {e1, e2}
  Field = {f1, f2, f3}
  FieldsOf <- TwoExecutions
  Guarded <- OneSavepoint
  MaxCallbacks = 2
  MaxTx = 2
INVARIANTS OnePlace OnlyCommitted
PROPERTIES EveryCallbackEnds
