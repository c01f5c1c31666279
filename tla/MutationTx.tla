----------------------------- MODULE MutationTx -----------------------------
(***************************************************************************)
(* The commit units of a mutation request: common/transactions.ts, with    *)
(* the parts of common/executor.ts, common/write-scaffold.ts and           *)
(* common/commit-callbacks.ts it drives.                                   *)
(*                                                                         *)
(* A GraphQL server executes the root fields of a mutation one after       *)
(* another and calls one resolver per field.  The library never sees the   *)
(* request as a whole: the first resolver of an execution opens a          *)
(* transaction, parks it under the execution's key, and every later        *)
(* resolver of the execution joins it.  The last one to complete releases  *)
(* a latch (COMMIT), the first failure or an inactivity timer rejects it   *)
(* (ROLLBACK).  An action below runs from one `await' of the code to the   *)
(* next.  Executions that carry an executor of the caller's are the        *)
(* subject of CallerCommit.tla, not of this module.                        *)
(***************************************************************************)
EXTENDS Integers, Sequences, FiniteSets

CONSTANTS
  Execution,     \* concurrent executions; each is its own executionKey
  ContextOf,     \* the context object of an execution, named by the first execution it was handed to
  Documents,     \* what the executions may run at once: a sequence of root fields for each
  AutoTransactions,          \* transactions: 'auto'
  TimerFinite,   \* timeoutMs is not Infinity
  BeginMayFail,  \* the driver may fail to open a transaction
  CommitMayFail, \* the driver may fail to commit one
  MaxCallbacks   \* bound: onCommit registrations accepted per field

(***************************************************************************)
(* A root field is of a table without hooks ("plain"), of one with an      *)
(* onWrite hook ("hooked"), without a hook of its own but with a nested    *)
(* write that fires another table's hooks ("nested"), a library field      *)
(* whose arguments do not coerce ("uncoercible"), or a field the build did *)
(* not generate ("foreign").                                               *)
(***************************************************************************)
Resolved  == {"plain", "hooked", "nested"}
RootField == Resolved \cup {"uncoercible", "foreign"}

ASSUME DocumentsAssumption == Documents \subseteq [Execution -> Seq(RootField)]
ASSUME ContextAssumption == ContextOf \in [Execution -> Execution]
ASSUME SwitchAssumption == /\ AutoTransactions \in BOOLEAN
                           /\ TimerFinite \in BOOLEAN
                           /\ BeginMayFail \in BOOLEAN
                           /\ CommitMayFail \in BOOLEAN
ASSUME BoundAssumption == MaxCallbacks \in Nat

VARIABLES
  doc,        \* the document an execution runs
  pos,        \* its current root field, Len(doc) + 1 once every field was answered
  call,       \* the locals of the running resolver call
  outcome,    \* how each root field was answered
  registered, \* how many onCommit callbacks each field had accepted
  states,     \* MutationTxCtx.states, by execution key
  tx,         \* the SharedTxState of that entry and its database transaction
  published,  \* executor.ts autoTransactions, by execution key
  durable,    \* the fields whose write the database has made durable
  ran         \* the callbacks an execution has run, in order

vars == <<doc, pos, call, outcome, registered, states, tx, published, durable, ran>>

-----------------------------------------------------------------------------
(* What collectRootMutationKeys reads off the document. *)

Fields(e)    == 1..Len(doc[e])
Coercible(e) == {i \in Fields(e) : doc[e][i] \in Resolved}

AllKnown(e)  == \A i \in Fields(e) : doc[e][i] # "foreign"

\* Mutated form: a field whose arguments do not coerce is waited for.
CountsUncoercible(e) == Cardinality({i \in Fields(e) : doc[e][i] # "foreign"})
Expected(e)          == Cardinality(Coercible(e))

Shares(e) == AutoTransactions /\ AllKnown(e) /\ Expected(e) > 1

\* Mutated form: the state is parked on the context object rather than on the execution.
ContextKey(e)   == ContextOf[e]
ExecutionKey(e) == e

Kind(e)   == doc[e][pos[e]]
Write(e)  == <<e, pos[e]>>

-----------------------------------------------------------------------------
(* SharedTxState and its methods. *)

Callback == Nat \X Nat      \* the n-th callback of the i-th field

Idle == [pc |-> "between", unit |-> "none", wrote |-> FALSE,
         queue |-> <<>>, open |-> FALSE, todo |-> <<>>]

NewShared(expected) ==
  [expected |-> expected, completed |-> 0, aborted |-> FALSE, timedOut |-> FALSE,
   latch |-> "pending", timer |-> FALSE, commits |-> <<>>, closed |-> FALSE,
   db |-> "begin", pending |-> {}]

NoShared == [NewShared(0) EXCEPT !.db = "none"]

SuspendTimer(s) == [s EXCEPT !.timer = FALSE]

\* Mutated form: only a resolver that is about to run ever touches the timer.
NeverArmed(s) == s

Done(s)      == s.db \in {"committed", "rolledBack", "beginFailed"}
BumpTimer(s) == [s EXCEPT !.timer = IF Done(s) THEN FALSE ELSE TimerFinite]

\* abort: the first failure is kept, every queued callback goes, the latch is rejected.
Abort(s) ==
  [s EXCEPT !.aborted = TRUE, !.commits = <<>>, !.closed = TRUE,
            !.latch = IF s.latch = "pending" THEN "rejected" ELSE s.latch]

TimeOut(s) == [s EXCEPT !.timedOut = IF s.aborted THEN s.timedOut ELSE TRUE]
Release(s) == [s EXCEPT !.latch = IF s.latch = "pending" THEN "released" ELSE s.latch]

\* Mutated form: one field too few.
ReleasesOneEarly(s) == s.completed >= s.expected - 1
IsLast(s)           == s.completed >= s.expected

\* stage.keep: the field's callbacks join the transaction's unless it was already dropped.
\* Mutated forms: the stage is closed without handing its callbacks on, or pushed as one element.
KeepLosesStage(s, queue) == s
KeepNests(s, queue)      == IF s.closed THEN s ELSE [s EXCEPT !.commits = Append(s.commits, queue)]
Keep(s, queue) == IF s.closed THEN s ELSE [s EXCEPT !.commits = s.commits \o queue]

-----------------------------------------------------------------------------
(* One resolver call. *)

\* The call returns or throws; the executor goes on to the next root field.
Answer(e, how) ==
  /\ outcome' = [outcome EXCEPT ![e][pos[e]] = how]
  /\ pos' = [pos EXCEPT ![e] = @ + 1]
  /\ call' = [call EXCEPT ![e] = Idle]

Calls(e) ==
  /\ call[e].pc = "between"
  /\ pos[e] \in Fields(e)
  /\ Kind(e) \in Resolved

\* runMutation, the first field of an execution that shares: db.transaction() is called.
OpenShared(e) ==
  LET k == ExecutionKey(e) IN
  /\ Calls(e)
  /\ states[k] = "none"
  /\ Shares(e)
  /\ states' = [states EXCEPT ![k] = "shared"]
  /\ tx' = [tx EXCEPT ![k] = SuspendTimer(BumpTimer(NewShared(Expected(e))))]
  /\ call' = [call EXCEPT ![e].pc = "awaitReady"]
  /\ UNCHANGED <<doc, pos, outcome, registered, published, durable, ran>>

\* runOnSharedTx up to `await state.ready', or fail-fast up to `await state.settled'.
JoinShared(e) ==
  LET k == ExecutionKey(e) IN
  /\ Calls(e)
  /\ states[k] = "shared"
  /\ IF tx[k].aborted
       THEN /\ call' = [call EXCEPT ![e].pc = "failFast"]
            /\ UNCHANGED tx
       ELSE /\ call' = [call EXCEPT ![e].pc = "awaitReady"]
            /\ tx' = [tx EXCEPT ![k] = SuspendTimer(tx[k])]
  /\ UNCHANGED <<doc, pos, outcome, registered, states, published, durable, ran>>

\* Mutated form: `readyReject' is never called.
WaitsForOpen(e) ==
  LET k == ExecutionKey(e) IN
  /\ call[e].pc = "awaitReady"
  /\ tx[k].db \notin {"begin", "beginFailed"}
  /\ call' = [call EXCEPT ![e] = [Idle EXCEPT !.pc = "body", !.unit = "shared", !.open = TRUE]]
  /\ UNCHANGED <<doc, pos, outcome, registered, states, tx, published, durable, ran>>

\* After `await state.ready': run the body with a stage of its own, unless BEGIN failed.
ReadyResumes(e) ==
  LET k == ExecutionKey(e) IN
  /\ call[e].pc = "awaitReady"
  /\ tx[k].db # "begin"
  /\ IF tx[k].db = "beginFailed"
       THEN Answer(e, "noBegin")
       ELSE /\ call' = [call EXCEPT ![e] = IF tx[k].aborted
                                             THEN [Idle EXCEPT !.pc = "unwind"]
                                             ELSE [Idle EXCEPT !.pc = "body", !.unit = "shared",
                                                               !.open = TRUE]]
            /\ UNCHANGED <<pos, outcome>>
  /\ UNCHANGED <<doc, registered, states, tx, published, durable, ran>>

\* runAsOwnUnit: on db, or in a transaction forced by the field's hook.
StartOwn(e) ==
  LET k == ExecutionKey(e) IN
  /\ Calls(e)
  /\ states[k] \in {"none", "passthrough"}
  /\ states[k] = "passthrough" \/ ~Shares(e)
  /\ states' = [states EXCEPT ![k] = IF AutoTransactions THEN "passthrough" ELSE @]
  /\ call' = [call EXCEPT ![e] = IF Kind(e) = "hooked"
                                   THEN [Idle EXCEPT !.pc = "ownBegin", !.unit = "tx"]
                                   ELSE [Idle EXCEPT !.pc = "body", !.unit = "db", !.open = TRUE]]
  /\ UNCHANGED <<doc, pos, outcome, registered, tx, published, durable, ran>>

\* The driver answers the BEGIN of the field's own transaction.
OwnBegins(e) ==
  /\ call[e].pc = "ownBegin"
  /\ \/ /\ call' = [call EXCEPT ![e].pc = "body", ![e].open = TRUE]
        /\ UNCHANGED <<pos, outcome>>
     \/ /\ BeginMayFail
        /\ Answer(e, "noBegin")
  /\ UNCHANGED <<doc, registered, states, tx, published, durable, ran>>

\* payload.onCommit, also by a hook that kept its payload: refused once the queue is closed.
HookRegisters(e) ==
  /\ call[e].open
  /\ Kind(e) \in {"hooked", "nested"}
  /\ registered[e][pos[e]] < MaxCallbacks
  /\ registered' = [registered EXCEPT ![e][pos[e]] = @ + 1]
  /\ call' = [call EXCEPT ![e].queue = Append(@, <<pos[e], registered[e][pos[e]] + 1>>)]
  /\ UNCHANGED <<doc, pos, outcome, states, tx, published, durable, ran>>

\* The write.  Straight on db it is durable at once; in a transaction, once that commits.
Statement(e) ==
  LET k == ExecutionKey(e) IN
  /\ call[e].pc = "body"
  /\ ~call[e].wrote
  /\ call' = [call EXCEPT ![e].wrote = TRUE]
  /\ durable' = IF call[e].unit = "db" THEN durable \cup {Write(e)} ELSE durable
  /\ tx' = IF call[e].unit = "shared" THEN [tx EXCEPT ![k].pending = tx[k].pending \cup {Write(e)}] ELSE tx
  /\ UNCHANGED <<doc, pos, outcome, registered, states, published, ran>>

\* The body of a field on the shared transaction resolved.
SharedReturns(e) ==
  LET k == ExecutionKey(e)
      s == Keep([tx[k] EXCEPT !.completed = tx[k].completed + 1], call[e].queue)
  IN
  /\ call[e].pc = "body" /\ call[e].unit = "shared" /\ call[e].wrote
  /\ IF IsLast(s)
       THEN /\ tx' = [tx EXCEPT ![k] = Release(s)]
            /\ call' = [call EXCEPT ![e] = [Idle EXCEPT !.pc = "commit"]]
            /\ UNCHANGED <<pos, outcome>>
       ELSE /\ tx' = [tx EXCEPT ![k] = BumpTimer(s)]
            /\ Answer(e, "ok")
  /\ UNCHANGED <<doc, registered, states, published, durable, ran>>

\* Mutated form: a field that failed is counted like one that succeeded.
FailureCountsAsCompletion(e) ==
  LET k == ExecutionKey(e) IN
  /\ call[e].pc = "body" /\ call[e].unit = "shared"
  /\ tx' = [tx EXCEPT ![k] = BumpTimer([tx[k] EXCEPT !.completed = tx[k].completed + 1])]
  /\ Answer(e, "error")
  /\ UNCHANGED <<doc, registered, states, published, durable, ran>>

\* The body of a field on the shared transaction threw: drop its stage, abort, await settled.
SharedThrows(e) ==
  LET k == ExecutionKey(e) IN
  /\ call[e].pc = "body" /\ call[e].unit = "shared"
  /\ tx' = [tx EXCEPT ![k] = Abort(tx[k])]
  /\ call' = [call EXCEPT ![e] = [Idle EXCEPT !.pc = "unwind"]]
  /\ UNCHANGED <<doc, pos, outcome, registered, states, published, durable, ran>>

\* After `await state.settled' in the last field: run every field's callbacks, or fail.
CommitResumes(e) ==
  LET k == ExecutionKey(e) IN
  /\ call[e].pc = "commit"
  /\ Done(tx[k])
  /\ IF tx[k].db = "committed"
       THEN /\ call' = [call EXCEPT ![e] = [Idle EXCEPT !.pc = "callbacks", !.todo = tx[k].commits]]
            /\ tx' = [tx EXCEPT ![k].commits = <<>>, ![k].closed = TRUE]
            /\ UNCHANGED <<pos, outcome>>
       ELSE /\ tx' = [tx EXCEPT ![k] = Abort(tx[k])]
            /\ Answer(e, "error")
  /\ UNCHANGED <<doc, registered, states, published, durable, ran>>

\* After `await state.settled' in a field that failed, or was refused.
UnwindResumes(e) ==
  LET k == ExecutionKey(e) IN
  /\ call[e].pc \in {"unwind", "failFast"}
  /\ Done(tx[k])
  /\ Answer(e, IF call[e].pc = "unwind" THEN "error"
               ELSE IF tx[k].timedOut THEN "timedOut" ELSE "aborted")
  /\ UNCHANGED <<doc, registered, states, tx, published, durable, ran>>

\* Mutated form: the callbacks run before the field's transaction has committed.
RunsInsideTx(e) ==
  /\ call[e].pc = "body" /\ call[e].unit \in {"db", "tx"} /\ call[e].wrote
  /\ call' = [call EXCEPT ![e] = [Idle EXCEPT !.pc = "callbacks", !.todo = call[e].queue]]
  /\ UNCHANGED <<doc, pos, outcome, registered, states, tx, published, durable, ran>>

\* The body of a field that is its own commit unit resolved or threw.
OwnReturns(e) ==
  /\ call[e].pc = "body" /\ call[e].unit \in {"db", "tx"} /\ call[e].wrote
  /\ call' = [call EXCEPT ![e] =
       IF @.unit = "tx" THEN [@ EXCEPT !.pc = "ownCommit"]
       ELSE [Idle EXCEPT !.pc = "callbacks", !.todo = call[e].queue]]
  /\ UNCHANGED <<doc, pos, outcome, registered, states, tx, published, durable, ran>>

OwnThrows(e) ==
  /\ call[e].pc = "body" /\ call[e].unit \in {"db", "tx"}
  /\ IF call[e].unit = "tx"
       THEN /\ call' = [call EXCEPT ![e].pc = "ownRollback"]
            /\ UNCHANGED <<pos, outcome>>
       ELSE Answer(e, "error")
  /\ UNCHANGED <<doc, registered, states, tx, published, durable, ran>>

\* The driver settles the field's own transaction.
OwnSettles(e) ==
  \/ /\ call[e].pc = "ownCommit"
     /\ durable' = durable \cup {Write(e)}
     /\ call' = [call EXCEPT ![e] = [Idle EXCEPT !.pc = "callbacks", !.todo = call[e].queue]]
     /\ UNCHANGED <<doc, pos, outcome, registered, states, tx, published, ran>>
  \/ /\ call[e].pc \in {"ownRollback"} \cup (IF CommitMayFail THEN {"ownCommit"} ELSE {})
     /\ Answer(e, "error")
     /\ UNCHANGED <<doc, registered, states, tx, published, durable, ran>>

\* runInOrder: one callback at a time; one that throws is logged and the rest still run.
RunCallback(e) ==
  /\ call[e].pc = "callbacks"
  /\ call[e].todo # <<>>
  /\ ran' = [ran EXCEPT ![e] = Append(@, Head(call[e].todo))]
  /\ call' = [call EXCEPT ![e].todo = Tail(@)]
  /\ UNCHANGED <<doc, pos, outcome, registered, states, tx, published, durable>>

CallbacksDone(e) ==
  /\ call[e].pc = "callbacks"
  /\ call[e].todo = <<>>
  /\ Answer(e, "ok")
  /\ UNCHANGED <<doc, registered, states, tx, published, durable, ran>>

-----------------------------------------------------------------------------
(* The driver and the timer of the shared transaction. *)

\* Mutated form: nested resolvers cannot find the transaction.
NeverPublishes(e) ==
  /\ tx[e].db = "begin"
  /\ tx' = [tx EXCEPT ![e].db = "open"]
  /\ UNCHANGED <<doc, pos, call, outcome, registered, states, published, durable, ran>>

\* The transaction callback runs: publish the transaction and resolve `ready'.
SharedBegins(e) ==
  /\ tx[e].db = "begin"
  /\ tx' = [tx EXCEPT ![e].db = "open"]
  /\ published' = [published EXCEPT ![e] = TRUE]
  /\ UNCHANGED <<doc, pos, call, outcome, registered, states, durable, ran>>

\* `settled' is answered and cleanup runs: an aborted state stays for later fields.
CleansUp(e, how) ==
  /\ tx' = [tx EXCEPT ![e].db = how, ![e].timer = FALSE, ![e].pending = {}]
  /\ published' = [published EXCEPT ![e] = FALSE]
  /\ states' = [states EXCEPT ![e] = IF tx[e].aborted THEN @ ELSE "none"]
  /\ UNCHANGED <<doc, pos, call, outcome, registered, ran>>

SharedBeginFails(e) ==
  /\ BeginMayFail
  /\ tx[e].db = "begin"
  /\ CleansUp(e, "beginFailed")
  /\ UNCHANGED durable

SharedCommits(e) ==
  /\ tx[e].db = "open" /\ tx[e].latch = "released"
  /\ CleansUp(e, "committed")
  /\ durable' = durable \cup tx[e].pending

SharedRollsBack(e) ==
  /\ tx[e].db = "open"
  /\ tx[e].latch \in {"rejected"} \cup (IF CommitMayFail THEN {"released"} ELSE {})
  /\ CleansUp(e, "rolledBack")
  /\ UNCHANGED durable

\* The inactivity timer: the first failure names the cause.
TimerFires(e) ==
  /\ tx[e].timer
  /\ tx' = [tx EXCEPT ![e] = Abort(TimeOut(SuspendTimer(tx[e])))]
  /\ UNCHANGED <<doc, pos, call, outcome, registered, states, published, durable, ran>>

-----------------------------------------------------------------------------
(* The GraphQL executor. *)

\* A root field no resolver of this library is called for.
SkipField(e) ==
  /\ call[e].pc = "between"
  /\ pos[e] \in Fields(e)
  /\ Kind(e) \notin Resolved
  /\ Answer(e, Kind(e))
  /\ UNCHANGED <<doc, registered, states, tx, published, durable, ran>>

\* The host calls no further resolver: a non-null completion error, or a client gone.
HostStops(e) ==
  /\ call[e].pc = "between"
  /\ pos[e] \in Fields(e)
  /\ call' = [call EXCEPT ![e].pc = "stopped"]
  /\ UNCHANGED <<doc, pos, outcome, registered, states, tx, published, durable, ran>>

-----------------------------------------------------------------------------
Init ==
  /\ doc \in Documents
  /\ pos = [e \in Execution |-> 1]
  /\ call = [e \in Execution |-> Idle]
  /\ outcome = [e \in Execution |-> [i \in Fields(e) |-> "none"]]
  /\ registered = [e \in Execution |-> [i \in Fields(e) |-> 0]]
  /\ states = [e \in Execution |-> "none"]
  /\ tx = [e \in Execution |-> NoShared]
  /\ published = [e \in Execution |-> FALSE]
  /\ durable = {}
  /\ ran = [e \in Execution |-> <<>>]

Starts(e)   == OpenShared(e) \/ JoinShared(e) \/ StartOwn(e) \/ SkipField(e)
BodyEnds(e) == SharedReturns(e) \/ SharedThrows(e) \/ OwnReturns(e) \/ OwnThrows(e)
Driver(e)   == \/ OwnBegins(e) \/ OwnSettles(e)
               \/ SharedBegins(e) \/ SharedBeginFails(e)
               \/ SharedCommits(e) \/ SharedRollsBack(e)
Resumes(e)  == ReadyResumes(e) \/ CommitResumes(e) \/ UnwindResumes(e)
Callbacks(e) == RunCallback(e) \/ CallbacksDone(e)

Step(e) ==
  \/ Starts(e) \/ HookRegisters(e) \/ Statement(e) \/ BodyEnds(e)
  \/ Driver(e) \/ Resumes(e) \/ Callbacks(e) \/ TimerFires(e) \/ HostStops(e)

Answered(e) == call[e].pc = "between" /\ pos[e] > Len(doc[e])
Finished(e) == Answered(e) \/ call[e].pc = "stopped"
HoldsTx(s)  == s.db \in {"begin", "open"}

\* The system stops once every execution is over and no transaction is held open.
Rest == /\ \A e \in Execution : Finished(e) /\ ~HoldsTx(tx[e])
        /\ UNCHANGED vars

Next == Rest \/ \E e \in Execution : Step(e)

Spec == Init /\ [][Next]_vars

(***************************************************************************)
(* Fairness.  The driver answers, a consumer's hooks and callbacks end, a  *)
(* timer that stays armed fires, promise continuations run, and the host   *)
(* goes on with the document or drops it.                                  *)
(***************************************************************************)
Fairness ==
  \A e \in Execution :
    /\ WF_vars(Starts(e) \/ HostStops(e))
    /\ WF_vars(Statement(e) \/ BodyEnds(e))
    /\ WF_vars(Driver(e))
    /\ WF_vars(Resumes(e))
    /\ WF_vars(Callbacks(e))
    /\ WF_vars(TimerFires(e))

FairSpec == Spec /\ Fairness

-----------------------------------------------------------------------------
(* Properties. *)

Failures == {"error", "noBegin", "aborted", "timedOut"}
Outcome  == Failures \cup {"none", "ok", "uncoercible", "foreign"}

SharedTxState ==
  [expected : Nat, completed : Nat, aborted : BOOLEAN, timedOut : BOOLEAN,
   latch : {"pending", "released", "rejected"}, timer : BOOLEAN,
   commits : Seq(Callback), closed : BOOLEAN,
   db : {"none", "begin", "open", "committed", "rolledBack", "beginFailed"},
   pending : SUBSET (Execution \X Nat)]

ResolverCall ==
  [pc : {"between", "awaitReady", "body", "commit", "unwind", "failFast", "callbacks",
         "ownBegin", "ownCommit", "ownRollback", "stopped"},
   unit : {"none", "shared", "tx", "db"}, wrote : BOOLEAN,
   queue : Seq(Callback), open : BOOLEAN, todo : Seq(Callback)]

\* Every variable has its type.
TypeOK ==
  /\ doc \in Documents
  /\ pos \in [Execution -> Nat \ {0}]
  /\ call \in [Execution -> ResolverCall]
  /\ outcome \in [Execution -> Seq(Outcome)]
  /\ registered \in [Execution -> Seq(Nat)]
  /\ \A e \in Execution : /\ pos[e] <= Len(doc[e]) + 1
                          /\ Len(outcome[e]) = Len(doc[e])
                          /\ Len(registered[e]) = Len(doc[e])
  /\ states \in [Execution -> {"none", "passthrough", "shared"}]
  /\ tx \in [Execution -> SharedTxState]
  /\ published \in [Execution -> BOOLEAN]
  /\ durable \in SUBSET (Execution \X Nat)
  /\ ran \in [Execution -> Seq(Callback)]

DurableOf(e) == {i \in Fields(e) : <<e, i>> \in durable}
Ran(e)       == {ran[e][j] : j \in 1..Len(ran[e])}

\* A request that shares a transaction is atomic: the database never keeps some of its root
\* fields' writes without the others (transactions.ts, latch and completion count).
AllOrNothing ==
  \A e \in Execution : Shares(e) => DurableOf(e) = {} \/ DurableOf(e) = Coercible(e)

\* One root field that fails, is refused or never gets its transaction leaves none of the
\* sharing request's writes behind, whether it comes before or after the ones that succeeded.
FailureUndoesAll ==
  \A e \in Execution :
    Shares(e) /\ (\E i \in Fields(e) : outcome[e][i] \in Failures) => DurableOf(e) = {}

\* A response without errors is the truth: once a sharing request is answered with every field
\* "ok", every write is durable and every onCommit callback that was accepted has run; a field
\* of its own unit has its write durable and its callbacks run by the time it resolves.
OkMeansDurable ==
  \A e \in Execution : \A i \in Coercible(e) :
    (/\ outcome[e][i] = "ok"
     /\ Shares(e) => Answered(e) /\ \A j \in Coercible(e) : outcome[e][j] = "ok")
    => /\ <<e, i>> \in durable
       /\ \A n \in 1..registered[e][i] : <<i, n>> \in Ran(e)

\* What a resolver nested under a mutation field reads: the execution's published transaction
\* if there is one, else the database (executor.ts resolveExecutor).
Visible(e) ==
  durable \cup (IF published[ExecutionKey(e)] THEN tx[ExecutionKey(e)].pending ELSE {})

\* Between two root fields, the reads nested under a field that succeeded see its write,
\* unless the shared transaction is being rolled back or already was.
ReadsSeeOwnWrites ==
  \A e \in Execution : \A i \in Coercible(e) :
    (call[e].pc = "between" /\ outcome[e][i] = "ok")
    => \/ <<e, i>> \in Visible(e)
       \/ Shares(e) /\ tx[ExecutionKey(e)].aborted

\* When the executor has been answered for the last root field the shared transaction is over:
\* "the last field to complete resolves it (COMMIT) and the first failure rejects it
\* (ROLLBACK)" (transactions.ts, module comment).
SettledWhenAnswered ==
  \A e \in Execution : Answered(e) => ~HoldsTx(tx[ExecutionKey(e)])

\* The same of every request whose transactions did begin: no count of completions and no
\* fail-fast branch leaves a transaction open behind the last answer (runOnSharedTx).
SettledUnlessRefused ==
  \A e \in Execution :
    Answered(e) /\ (\A i \in Fields(e) : outcome[e][i] # "noBegin") => ~HoldsTx(tx[ExecutionKey(e)])

\* A shared transaction is never leaked: whatever the fields and the host do, it is committed
\* or rolled back in the end (the reason the inactivity timer exists).
SharedTxSettles == \A e \in Execution : HoldsTx(tx[e]) ~> ~HoldsTx(tx[e])

\* No resolver waits for ever on `ready' or `settled': every execution is answered or dropped.
ExecutionEnds == \A e \in Execution : <>Finished(e)

-----------------------------------------------------------------------------
(* Why it is atomic: the inductive invariant of MutationTxProofs.tla. *)

\* The fields that succeeded so far, the one that is committing for all of them included.
Kept(e) == {i \in Coercible(e) : \/ outcome[e][i] = "ok"
                                 \/ i = pos[e] /\ call[e].pc \in {"commit", "callbacks"}}

\* A resolver runs for the field the executor is at, and no later field was answered.
AtField(e) ==
  /\ call[e].pc \notin {"between", "stopped"} => pos[e] \in Coercible(e)
  /\ \A i \in Fields(e) : i >= pos[e] => outcome[e][i] = "none"
  /\ \A i \in Fields(e) : outcome[e][i] \in Failures => i \in Coercible(e)

\* An execution uses the shared transaction for all its fields or for none.
OneDiscipline(e) ==
  /\ Shares(e) => /\ states[e] # "passthrough"
                  /\ call[e].pc \notin {"ownBegin", "ownCommit", "ownRollback"}
                  /\ call[e].pc = "body" => call[e].unit = "shared"
  /\ ~Shares(e) => /\ states[e] # "shared"
                   /\ tx[e].db = "none"
                   /\ call[e].pc \notin {"awaitReady", "commit", "unwind", "failFast"}
                   /\ call[e].pc = "body" => call[e].unit # "shared"
                   /\ call[e].pc = "ownBegin" => call[e].unit = "tx"

\* No field of a sharing execution waits while the timer runs, and none works after an abort.
Undisturbed(e) ==
  /\ call[e].pc \in {"awaitReady", "body", "commit"} => ~tx[e].timer
  /\ call[e].pc = "awaitReady" => tx[e].db \in {"begin", "open", "beginFailed"}
  /\ call[e].pc = "body" => tx[e].db = "open"
  /\ call[e].pc = "commit" => tx[e].db \in {"open", "committed", "rolledBack"}
  /\ call[e].pc = "callbacks" => tx[e].db = "committed"
  /\ call[e].pc \in {"awaitReady", "body"} => tx[e].latch = "pending" /\ ~tx[e].aborted
  /\ tx[e].db = "begin" => /\ call[e].pc = "awaitReady"
                           /\ Kept(e) = {} /\ tx[e].completed = 0
  /\ tx[e].latch = "rejected" => tx[e].aborted
  /\ states[e] = "shared" /\ ~tx[e].aborted => tx[e].db \in {"begin", "open"}
  /\ tx[e].db \in {"begin", "open"} => states[e] = "shared"

\* The completion count is backed by fields that succeeded and whose writes the transaction holds.
Backed(e) ==
  /\ tx[e].db # "none" => tx[e].expected = Expected(e)
  /\ tx[e].pending \subseteq {e} \X Coercible(e)
  /\ tx[e].db = "open" => /\ tx[e].completed <= Cardinality(Kept(e))
                          /\ {e} \X Kept(e) \subseteq tx[e].pending
                          /\ call[e].pc = "body" /\ call[e].wrote => Write(e) \in tx[e].pending
  /\ tx[e].latch = "released" /\ tx[e].db = "open" => /\ call[e].pc = "commit"
                                                     /\ Kept(e) = Coercible(e)

\* Nothing is durable before the commit, everything after it; a transaction that is over
\* without a failure leaves no field that would open another one on top of it.
Decided(e) ==
  /\ tx[e].db # "committed" => DurableOf(e) = {}
  /\ tx[e].db = "committed" => DurableOf(e) = Coercible(e) /\ Kept(e) = Coercible(e)
  /\ states[e] = "none" /\ Kept(e) # {}
       => \A i \in Coercible(e) : i < pos[e] \/ (i = pos[e] /\ call[e].pc # "between")

Atomic(e) ==
  /\ AtField(e)
  /\ OneDiscipline(e)
  /\ Shares(e) => Undisturbed(e) /\ Backed(e) /\ Decided(e)

AtomicInv == \A e \in Execution : Atomic(e)

-----------------------------------------------------------------------------
(* The promise this protocol keeps. *)

UnitOf(e, i) == IF Shares(e) THEN <<e, 0>> ELSE <<e, i>>

Lengths == {Len(d[e]) : d \in Documents, e \in Execution}
MaxLen == CHOOSE m \in Lengths : \A n \in Lengths : n <= m

\* Bound: some document is the longest, so that the commit units are finitely many.
ASSUME LengthAssumption == \E m \in Lengths : \A n \in Lengths : n <= m

FateOf(e, i) ==
  IF i = 0 THEN IF tx[e].db = "committed" THEN "committed"
                ELSE IF tx[e].db = "rolledBack" THEN "aborted" ELSE "open"
  ELSE IF Shares(e) THEN "open"
  ELSE IF <<e, i>> \in durable THEN "committed"
  ELSE IF i \in Fields(e) /\ outcome[e][i] # "none" THEN "aborted" ELSE "open"

Promise == INSTANCE AtomicCommit WITH
  Owner <- Execution,
  Units <- Execution \X (0..MaxLen),
  fate <- [u \in Execution \X (0..MaxLen) |-> FateOf(u[1], u[2])],
  delivered <- ran

\* Every step of the protocol is a step of AtomicCommit or changes nothing it promises.
KeepsPromise == Promise!Spec

-----------------------------------------------------------------------------
(* Why it keeps the promise: what MutationTxPromiseProofs.tla adds to AtomicInv. *)

\* The fields the executor still has to answer with a resolver of this library.
Ahead(e) == {i \in Coercible(e) : i > pos[e] \/ (i = pos[e] /\ call[e].pc = "between")}

\* The completion count misses no field, a transaction that is not over still waits for one,
\* and no field fails under a transaction before that transaction does.
Counted(e) ==
  /\ tx[e].db = "open" => tx[e].completed = Cardinality(Kept(e)) /\ published[e]
  /\ tx[e].db \in {"none", "begin", "beginFailed"} => Kept(e) = {}
  /\ tx[e].db \in {"open", "rolledBack"} /\ call[e].pc # "commit" => Kept(e) # Coercible(e)
  /\ tx[e].db \in {"none", "begin", "open", "beginFailed"} =>
       \A i \in Coercible(e) : outcome[e][i] \in {"none", "ok", "noBegin"}
  /\ states[e] = "none" /\ tx[e].db \notin {"none", "beginFailed"} => Ahead(e) = {}

\* Only a transaction that did begin is aborted, and the field that commits is never too late.
Dropped(e) ==
  /\ tx[e].timer => tx[e].db = "open"
  /\ tx[e].aborted => tx[e].db \in {"open", "rolledBack"}
  /\ tx[e].db = "rolledBack" /\ ~tx[e].aborted => call[e].pc = "commit"
  /\ tx[e].db \in {"begin", "open"} /\ tx[e].closed => tx[e].aborted
  /\ call[e].pc = "commit" => ~tx[e].aborted /\ ~tx[e].closed
  /\ call[e].pc \in {"unwind", "failFast"} => tx[e].aborted

Listed(s)        == {s[j] : j \in DOMAIN s}
InOrder(s)       == \A j, k \in DOMAIN s : j < k => Promise!Precedes(s[j], s[k])
Accepted(e, i)   == {<<i, n>> : n \in 1..registered[e][i]}

\* A running field's queue is what was registered for it, in order; later fields have none.
Queued(e) ==
  /\ \A i \in Fields(e) :
       \/ i > pos[e]
       \/ i = pos[e] /\ call[e].pc \in {"between", "stopped", "awaitReady", "ownBegin", "failFast"}
       => registered[e][i] = 0
  /\ call[e].pc \in {"ownBegin", "body", "ownCommit", "ownRollback"} =>
       call[e].queue = [n \in 1..registered[e][pos[e]] |-> <<pos[e], n>>]

\* A transaction that can still commit holds the callbacks of every field that succeeded.
Handed(e) ==
  (tx[e].db \in {"begin", "open"} /\ ~tx[e].closed) \/ call[e].pc = "commit" =>
    /\ InOrder(tx[e].commits)
    /\ \A c \in Listed(tx[e].commits) : c[1] \in Kept(e)
    /\ \A i \in Kept(e) : Accepted(e, i) \subseteq Listed(tx[e].commits)

\* The fields whose callbacks run together.
Together(e) == IF Shares(e) THEN Coercible(e) ELSE {pos[e]}

\* While the callbacks run: each was run or is still to come, and none comes before its turn.
Running(e) ==
  call[e].pc = "callbacks" =>
    /\ InOrder(call[e].todo)
    /\ \A c \in Listed(call[e].todo) : c[1] \in Together(e)
    /\ \A b \in Listed(ran[e]), c \in Listed(call[e].todo) : Promise!Precedes(b, c)
    /\ \A i \in Together(e) : Accepted(e, i) \subseteq Listed(call[e].todo) \cup Listed(ran[e])

\* What was run belongs to what is durable, and an answer without error leaves nothing to run.
RanShared(e) ==
  /\ tx[e].db # "committed" \/ call[e].pc = "commit" => ran[e] = <<>>
  /\ tx[e].db = "committed" /\ call[e].pc \notin {"commit", "callbacks"} =>
       \A i \in Coercible(e) : Accepted(e, i) \subseteq Listed(ran[e])

RanOwn(e) ==
  /\ \A c \in Listed(ran[e]) : c[1] < pos[e] \/ (c[1] = pos[e] /\ call[e].pc = "callbacks")
  /\ \A i \in Coercible(e) : outcome[e][i] = "ok" =>
       <<e, i>> \in durable /\ Accepted(e, i) \subseteq Listed(ran[e])
  /\ call[e].pc = "callbacks" => Write(e) \in durable
  /\ call[e].pc = "body" /\ call[e].unit = "db" /\ call[e].wrote => Write(e) \in durable

Promised(e) ==
  /\ \A i \in Fields(e) : i < pos[e] => outcome[e][i] # "none"
  /\ Queued(e)
  /\ Running(e)
  /\ Shares(e) => Counted(e) /\ Dropped(e) /\ Handed(e) /\ RanShared(e)
  /\ ~Shares(e) => RanOwn(e)

PromiseInv == \A e \in Execution : Promised(e)

=============================================================================
