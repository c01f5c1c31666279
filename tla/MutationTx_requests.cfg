\* One execution, or two handed one context object; every document, every failure of the driver.
SPECIFICATION FairSpec
CONSTANTS
  e1 = e1
  e2 = e2
  Execution = {e1, e2}
  ContextOf <- OneContext
  Documents <- AtOnce
  AutoTransactions = TRUE
  TimerFinite = TRUE
  BeginMayFail = TRUE
  CommitMayFail = TRUE
  MaxCallbacks = 2
INVARIANTS TypeOK AllOrNothing FailureUndoesAll OkMeansDurable
  ReadsSeeOwnWrites SettledUnlessRefused
PROPERTIES KeepsPromise SharedTxSettles ExecutionEnds
