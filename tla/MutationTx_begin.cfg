\* BEGIN may fail: a later field opens a second transaction that nothing completes.
SPECIFICATION Spec
CONSTANTS
  e1 = e1
  e2 = e2
  Execution = {e1}
  ContextOf <- OwnContext
  Documents <- Alone
  AutoTransactions = TRUE
  TimerFinite = TRUE
  BeginMayFail = TRUE
  CommitMayFail = TRUE
  MaxCallbacks = 2
INVARIANTS SettledWhenAnswered
