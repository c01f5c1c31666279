---------------------------- MODULE CallerCommit ----------------------------
(***************************************************************************)
(* `payload.onCommit' under an executor of the caller's                    *)
(* (drizzleExecutorKey): common/commit-callbacks.ts, the branch of         *)
(* common/transactions.ts that uses it, and the savepoint stage of         *)
(* nested-writes/entry.ts.                                                 *)
(*                                                                         *)
(* The library cannot see the caller's commit, so the callbacks of every   *)
(* field that ran with a context object wait in one queue on that object.  *)
(* Each field, and each savepoint that can roll back without failing its   *)
(* field, collects in a stage of its own first.  The caller runs or        *)
(* discards the queue.  It may hand the context to several executions at   *)
(* once and use it for one transaction after another.                      *)
(***************************************************************************)
EXTENDS Integers, Sequences, FiniteSets

CONSTANTS
  Execution,    \* the executions handed the context object
  Field,        \* their root mutation fields
  FieldsOf,     \* the root fields of an execution, in the order it runs them
  Guarded,      \* how many nested entries of a field run in a savepoint of their own
  MaxCallbacks, \* bound: onCommit registrations accepted in all
  MaxTx         \* bound: transactions the caller opens on the context

ASSUME ShapeAssumption == /\ FieldsOf \in [Execution -> Seq(Field)]
                          /\ Guarded \in [Field -> Nat]
ASSUME BoundAssumption == MaxCallbacks \in Nat /\ MaxTx \in Nat \ {0}

VARIABLES
  host,       \* the caller: whether it awaits its executions, and its transactions so far
  pos,        \* the root field an execution is at
  call,       \* the resolver call of a field: where it is, its stage and its savepoint's stage
  queue,      \* callerQueues, the entry of the context object
  flushes,    \* the callbacks each runCommitCallbacks call still has to run
  registered, \* the callbacks that were accepted, in the order of onCommit calls
  dropped,    \* the callbacks that were dropped
  ran         \* the callbacks that have run, in order

vars == <<host, pos, call, queue, flushes, registered, dropped, ran>>

Callback == Field \X Nat    \* the n-th callback of a field

Fresh   == [callbacks |-> <<>>, closed |-> FALSE]
Drained == [callbacks |-> <<>>, closed |-> TRUE]
Absent  == [callbacks |-> <<>>, closed |-> FALSE, present |-> FALSE]

Elements(s) == {s[i] : i \in DOMAIN s}

Now == Len(host.fate)    \* the transaction the context carries, by number

\* stage.keep: a parent that already ran or was dropped takes nothing.
Joined(parent, own) ==
  IF parent.closed THEN parent ELSE [parent EXCEPT !.callbacks = @ \o own.callbacks]

\* callerQueueState: the context's queue, a new one if it has none.
CallerQueue == IF queue.present THEN queue ELSE [queue EXCEPT !.present = TRUE]

-----------------------------------------------------------------------------
(* A field of an execution that carries the caller's executor. *)

Running(f) == call[f].pc \in {"body", "savepoint"}

StartField(e) ==
  /\ pos[e] <= Len(FieldsOf[e])
  /\ LET f == FieldsOf[e][pos[e]] IN
       /\ call[f].pc = "waiting"
       /\ call' = [call EXCEPT ![f] = [@ EXCEPT !.pc = "body", !.own = Fresh, !.tx = Now]]
  /\ host.at = "open"
  /\ UNCHANGED <<host, pos, queue, flushes, registered, dropped, ran>>

\* payload.onCommit of a hook of the field, or of a nested statement inside the savepoint.
Register(f) ==
  LET c == <<f, Cardinality({b \in Elements(registered) : b[1] = f}) + 1>> IN
  /\ Running(f)
  /\ Len(registered) < MaxCallbacks
  /\ call' = IF call[f].pc = "savepoint"
               THEN [call EXCEPT ![f].nested.callbacks = Append(@, c)]
               ELSE [call EXCEPT ![f].own.callbacks = Append(@, c)]
  /\ registered' = Append(registered, c)
  /\ UNCHANGED <<host, pos, queue, flushes, dropped, ran>>

\* writeNestedEntry with a parent-side create: a savepoint with a stage under the field's.
EnterSavepoint(f) ==
  /\ call[f].pc = "body"
  /\ call[f].entries < Guarded[f]
  /\ call' = [call EXCEPT ![f].pc = "savepoint", ![f].entries = @ + 1, ![f].nested = Fresh]
  /\ UNCHANGED <<host, pos, queue, flushes, registered, dropped, ran>>

\* Mutated form: the savepoint's stage hangs on the context's queue, not on the field's stage.
SavepointJoinsQueue(f) ==
  /\ call[f].pc = "savepoint"
  /\ queue' = Joined(CallerQueue, call[f].nested)
  /\ call' = [call EXCEPT ![f].pc = "body", ![f].nested = Drained]
  /\ UNCHANGED <<host, pos, flushes, registered, dropped, ran>>

\* The savepoint is released: its callbacks join the field's.
SavepointKeeps(f) ==
  /\ call[f].pc = "savepoint"
  /\ call' = [call EXCEPT ![f].pc = "body", ![f].nested = Drained,
                          ![f].own = Joined(call[f].own, call[f].nested)]
  /\ UNCHANGED <<host, pos, queue, flushes, registered, dropped, ran>>

\* The parent write produced no row: the savepoint rolls back and the field goes on without it.
SavepointRollsBack(f) ==
  /\ call[f].pc = "savepoint"
  /\ dropped' = dropped \cup Elements(call[f].nested.callbacks)
  /\ call' = [call EXCEPT ![f].pc = "body", ![f].nested = Drained]
  /\ UNCHANGED <<host, pos, queue, flushes, registered, ran>>

Answer(e, how) ==
  /\ call' = [call EXCEPT ![FieldsOf[e][pos[e]]] = [@ EXCEPT !.pc = how, !.own = Drained, !.nested = Drained]]
  /\ pos' = [pos EXCEPT ![e] = @ + 1]

\* The body resolved: the field's callbacks join the queue the context has by then.
FieldReturns(e) ==
  /\ pos[e] <= Len(FieldsOf[e])
  /\ LET f == FieldsOf[e][pos[e]] IN
       /\ call[f].pc = "body"
       /\ call[f].entries = Guarded[f]
       /\ queue' = Joined(CallerQueue, call[f].own)
  /\ Answer(e, "ok")
  /\ UNCHANGED <<host, flushes, registered, dropped, ran>>

\* Mutated form: a field that fails keeps what it queued.
FailedFieldKeeps(e) ==
  /\ pos[e] <= Len(FieldsOf[e])
  /\ LET f == FieldsOf[e][pos[e]] IN
       /\ Running(f)
       /\ queue' = Joined(CallerQueue, call[f].own)
  /\ Answer(e, "error")
  /\ UNCHANGED <<host, flushes, registered, dropped, ran>>

\* The body, or the savepoint in it, threw: every stage of the field is dropped.
FieldThrows(e) ==
  /\ pos[e] <= Len(FieldsOf[e])
  /\ LET f == FieldsOf[e][pos[e]] IN
       /\ Running(f)
       /\ dropped' = dropped \cup Elements(call[f].own.callbacks) \cup Elements(call[f].nested.callbacks)
  /\ Answer(e, "error")
  /\ UNCHANGED <<host, queue, flushes, registered, ran>>

-----------------------------------------------------------------------------
(* The caller, following the documented protocol: run the queue after a commit, discard it *)
(* after a rollback, before the context carries another transaction.  A caller that does   *)
(* not await its executions ends its transaction while some of their fields still run.     *)

Quiet == \A f \in Field : ~Running(f)
Over  == \A e \in Execution : pos[e] > Len(FieldsOf[e])

Settles(how) ==
  /\ host.at = "open"
  /\ host.awaits => Quiet
  /\ host' = [host EXCEPT !.at = how, !.fate = [@ EXCEPT ![Now] = how]]
  /\ UNCHANGED <<pos, call, queue, flushes, registered, dropped, ran>>

HostCommits   == Settles("committed")
HostRollsBack == Settles("rolledBack")

\* Mutated form: the drained queue stays on the context.
LeavesDrainedQueue ==
  /\ host.at = "committed"
  /\ flushes' = Append(flushes, queue.callbacks)
  /\ queue' = [queue EXCEPT !.callbacks = <<>>, !.closed = queue.present]
  /\ host' = [host EXCEPT !.at = "idle"]
  /\ UNCHANGED <<pos, call, registered, dropped, ran>>

\* runCommitCallbacks: the queue is taken off the context before the first callback starts.
HostFlushes ==
  /\ host.at = "committed"
  /\ flushes' = Append(flushes, queue.callbacks)
  /\ queue' = Absent
  /\ host' = [host EXCEPT !.at = "idle"]
  /\ UNCHANGED <<pos, call, registered, dropped, ran>>

\* discardCommitCallbacks.
HostDiscards ==
  /\ host.at = "rolledBack"
  /\ dropped' = dropped \cup Elements(queue.callbacks)
  /\ queue' = Absent
  /\ host' = [host EXCEPT !.at = "idle"]
  /\ UNCHANGED <<pos, call, flushes, registered, ran>>

\* The context carries the caller's next transaction; callbacks of the last may still run.
HostBegins ==
  /\ host.at = "idle"
  /\ Now < MaxTx
  /\ ~Over
  /\ host' = [host EXCEPT !.at = "open", !.fate = Append(@, "open")]
  /\ UNCHANGED <<pos, call, queue, flushes, registered, dropped, ran>>

\* runInOrder of one runCommitCallbacks call: a callback that throws does not stop the rest.
RunCallback(i) ==
  /\ flushes[i] # <<>>
  /\ ran' = Append(ran, Head(flushes[i]))
  /\ flushes' = [flushes EXCEPT ![i] = Tail(@)]
  /\ UNCHANGED <<host, pos, call, queue, registered, dropped>>

-----------------------------------------------------------------------------
Init ==
  /\ host \in {[at |-> "open", awaits |-> a, fate |-> <<"open">>] : a \in BOOLEAN}
  /\ pos = [e \in Execution |-> 1]
  /\ call = [f \in Field |-> [pc |-> "waiting", own |-> Drained, nested |-> Drained,
                              entries |-> 0, tx |-> 0]]
  /\ queue = Absent
  /\ flushes = <<>>
  /\ registered = <<>>
  /\ dropped = {}
  /\ ran = <<>>

FieldStep == \/ \E e \in Execution : StartField(e) \/ FieldReturns(e) \/ FieldThrows(e)
             \/ \E f \in Field : EnterSavepoint(f) \/ SavepointKeeps(f) \/ SavepointRollsBack(f)
Hook      == \E f \in Field : Register(f)
Host      == HostCommits \/ HostRollsBack \/ HostFlushes \/ HostDiscards \/ HostBegins
Callbacks == \E i \in DOMAIN flushes : RunCallback(i)

\* The caller is done with the context.
Rest == /\ host.at = "idle" /\ Quiet
        /\ Over \/ Now = MaxTx
        /\ \A i \in DOMAIN flushes : flushes[i] = <<>>
        /\ UNCHANGED vars

Next == FieldStep \/ Hook \/ Host \/ Callbacks \/ Rest

Spec == Init /\ [][Next]_vars

\* The bodies of the fields end, the caller goes on with its protocol, callbacks end.
FairSpec == Spec /\ WF_vars(FieldStep) /\ WF_vars(Host) /\ WF_vars(Callbacks)

-----------------------------------------------------------------------------
(* Properties. *)

\* Where a callback is, once per occurrence.
Occurrences(s, c) == Cardinality({i \in DOMAIN s : s[i] = c})

Waiting(c) ==
  Occurrences(call[c[1]].own.callbacks, c) + Occurrences(call[c[1]].nested.callbacks, c)
    + Occurrences(queue.callbacks, c)

Pending     == UNION {{i} \X DOMAIN flushes[i] : i \in DOMAIN flushes}
Flushing(c) == Cardinality({p \in Pending : flushes[p[1]][p[2]] = c})

Places(c) == Waiting(c) + Flushing(c) + Occurrences(ran, c) + (IF c \in dropped THEN 1 ELSE 0)

\* An accepted callback is always in exactly one place: staged, queued, about to run, dropped or
\* run.  None is lost and none runs twice, even when the caller flushes while a field still runs:
\* that field's callbacks wait for the next flush (commit-callbacks.ts, stageOf).
OnePlace == \A c \in Elements(registered) : Places(c) = 1

\* With a caller that awaits its executions, a callback only runs once the transaction its field
\* ran on has committed and its field succeeded; a rollback takes every one of its own.
OnlyCommitted ==
  host.awaits =>
    \A c \in Elements(ran) : /\ call[c[1]].pc = "ok"
                             /\ host.fate[call[c[1]].tx] = "committed"

\* Every callback of a caller that awaits its executions is run or dropped in the end.
EveryCallbackEnds ==
  \A f \in Field : \A n \in 1..MaxCallbacks :
    host.awaits /\ <<f, n>> \in Elements(registered) ~> <<f, n>> \in dropped \cup Elements(ran)

-----------------------------------------------------------------------------
(* Why each callback has one place: the inductive invariant of CallerCommitProofs.tla. *)

Stage     == [callbacks : Seq(Callback), closed : BOOLEAN]
Resolver  == [pc : {"waiting", "body", "savepoint", "ok", "error"}, own : Stage, nested : Stage,
              entries : Nat, tx : Nat]
Fate      == {"open", "committed", "rolledBack"}

\* Every variable has its type.
TypeOK ==
  /\ host \in [at : Fate \cup {"idle"}, awaits : BOOLEAN, fate : Seq(Fate) \ {<<>>}]
  /\ pos \in [Execution -> Nat \ {0}]
  /\ call \in [Field -> Resolver]
  /\ queue \in [callbacks : Seq(Callback), closed : BOOLEAN, present : BOOLEAN]
  /\ flushes \in Seq(Seq(Callback))
  /\ registered \in Seq(Callback)
  /\ dropped \in SUBSET Callback
  /\ ran \in Seq(Callback)

\* A field's stages hold its own callbacks, and only while it runs: a stage is open until its
\* callbacks move on, and so is the queue of the context.
Staged(f) ==
  /\ \A c \in Elements(call[f].own.callbacks) \cup Elements(call[f].nested.callbacks) : c[1] = f
  /\ Running(f) => ~call[f].own.closed
  /\ ~Running(f) => call[f].own.callbacks = <<>>
  /\ call[f].pc # "savepoint" => call[f].nested.callbacks = <<>>

\* A field's callbacks are numbered in the order it registers them.
Numbered ==
  \A c \in Elements(registered) : c[2] <= Cardinality({b \in Elements(registered) : b[1] = c[1]})

\* What was never registered is nowhere.
Accepted == \A c \in Callback : Places(c) = IF c \in Elements(registered) THEN 1 ELSE 0

PlaceInv == TypeOK /\ ~queue.closed /\ (\A f \in Field : Staged(f)) /\ Numbered /\ Accepted

\* A field that succeeded on a transaction that committed.
Earned(c) ==
  /\ call[c[1]].pc = "ok" /\ call[c[1]].tx \in 1..Now
  /\ host.fate[call[c[1]].tx] = "committed"

\* With a caller that awaits its executions, fields only run while their transaction is open,
\* the queue is of the transaction the context carries, and what is flushed has committed.
CommitInv ==
  /\ host.at # "idle" => host.fate[Now] = host.at
  /\ host.awaits =>
       /\ \A f \in Field : Running(f) => host.at = "open" /\ call[f].tx = Now
       /\ \A c \in Elements(queue.callbacks) :
            host.at # "idle" /\ call[c[1]].pc = "ok" /\ call[c[1]].tx = Now
       /\ \A i \in DOMAIN flushes : \A c \in Elements(flushes[i]) : Earned(c)
       /\ \A c \in Elements(ran) : Earned(c)

=============================================================================
