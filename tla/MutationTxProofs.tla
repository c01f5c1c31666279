-------------------------- MODULE MutationTxProofs --------------------------
(***************************************************************************)
(* Proofs about MutationTx.tla, for any number of executions and any set   *)
(* of documents.                                                           *)
(***************************************************************************)
EXTENDS MutationTx, FiniteSetTheorems, TLAPS

USE SwitchAssumption, BoundAssumption DEF RootField, Resolved

\* A call is only ever running for a field of the document, and only it takes callbacks.
RunsAField == \A e \in Execution :
  /\ call[e].pc \notin {"between", "stopped"} => pos[e] \in Fields(e)
  /\ call[e].open => call[e].pc \in {"body", "ownCommit", "ownRollback"}

TypeInv == TypeOK /\ RunsAField

\* A resolver call that is between two fields has its type.
LEMMA IdleTyped == Idle \in ResolverCall
  <1>1. <<>> \in Seq(Callback)
    OBVIOUS
  <1> HIDE DEF Callback
  <1> QED
    BY <1>1 DEF Idle, ResolverCall

\* The number of fields a request waits for is a natural number.
LEMMA ExpectedNat ==
  ASSUME TypeOK, NEW e \in Execution
  PROVE  /\ IsFiniteSet(Coercible(e))
         /\ Expected(e) \in Nat
  <1>1. Len(doc[e]) \in Nat
    BY DEF TypeOK
  <1>2. IsFiniteSet(1..Len(doc[e]))
    BY <1>1, FS_Interval
  <1>3. IsFiniteSet(Coercible(e))
    BY <1>2, FS_Subset DEF Coercible, Fields
  <1> QED
    BY <1>3, FS_CardinalityType DEF Expected


\* The methods of a shared transaction keep its type.
LEMMA SharedMethods ==
  ASSUME NEW s \in SharedTxState
  PROVE  /\ SuspendTimer(s) \in SharedTxState
         /\ BumpTimer(s) \in SharedTxState
         /\ Abort(s) \in SharedTxState
         /\ TimeOut(s) \in SharedTxState
         /\ Release(s) \in SharedTxState
         /\ \A q \in Seq(Callback) : Keep(s, q) \in SharedTxState
  <1>1. SuspendTimer(s) \in SharedTxState
    BY DEF SuspendTimer, SharedTxState
  <1>2. BumpTimer(s) \in SharedTxState
    BY DEF BumpTimer, SharedTxState
  <1>0. <<>> \in Seq(Callback)
    OBVIOUS
  <1>3. Abort(s) \in SharedTxState
    BY <1>0 DEF Abort, SharedTxState
  <1>4. TimeOut(s) \in SharedTxState
    BY DEF TimeOut, SharedTxState
  <1>5. Release(s) \in SharedTxState
    BY DEF Release, SharedTxState
  <1>6. ASSUME NEW q \in Seq(Callback) PROVE Keep(s, q) \in SharedTxState
    <2>1. s.commits \in Seq(Callback)
      BY DEF SharedTxState
    <2>2. s.commits \o q \in Seq(Callback)
      BY <2>1
    <2> HIDE DEF Callback
    <2>3. s.closed = FALSE => Keep(s, q) = [s EXCEPT !.commits = s.commits \o q]
      BY DEF Keep, SharedTxState
    <2>4. [s EXCEPT !.commits = s.commits \o q] \in SharedTxState
      BY <2>2 DEF SharedTxState
    <2> QED BY <2>3, <2>4 DEF Keep, SharedTxState
  <1> QED BY <1>1, <1>2, <1>3, <1>4, <1>5, <1>6

\* Answering the current field keeps every type and moves on to a place in the document.
LEMMA AnswerTyped ==
  ASSUME TypeInv, NEW e \in Execution, NEW how \in Outcome, Answer(e, how),
         pos[e] \in Fields(e), UNCHANGED <<doc, registered, states, published, ran>>,
         tx' \in [Execution -> SharedTxState], durable' \in SUBSET (Execution \X Nat)
  PROVE  TypeInv'
  <1> USE DEF TypeInv
  <1> HIDE DEF Callback
  <1>1. Idle \in ResolverCall
    BY IdleTyped
  <1>2. \A f \in Execution : doc[f] \in Seq(RootField)
    BY DocumentsAssumption DEF TypeOK
  <1>3. outcome[e] \in Seq(Outcome) /\ pos[e] \in 1..Len(outcome[e])
    BY <1>2 DEF TypeOK, Fields
  <1>4. [outcome[e] EXCEPT ![pos[e]] = how] \in Seq(Outcome)
        /\ Len([outcome[e] EXCEPT ![pos[e]] = how]) = Len(outcome[e])
    BY <1>3
  <1>5. call'[e].pc = "between" /\ ~call'[e].open
    BY DEF Answer, Idle, TypeOK
  <1>6. /\ pos' \in [Execution -> Nat \ {0}]
        /\ call' \in [Execution -> ResolverCall]
        /\ outcome' \in [Execution -> Seq(Outcome)]
    BY <1>1, <1>3, <1>4 DEF Answer, TypeOK, Fields
  <1>7. \A f \in Execution : pos'[f] <= Len(doc'[f]) + 1 /\ Len(outcome'[f]) = Len(doc'[f])
    BY <1>2, <1>3, <1>4 DEF Answer, TypeOK, Fields
  <1>8. TypeOK'
    BY <1>6, <1>7 DEF TypeOK
  <1>9. RunsAField'
    BY <1>2, <1>5 DEF Answer, TypeOK, RunsAField, Fields
  <1> QED
    BY <1>8, <1>9

\* The forms a resolver call takes when it is told to wait, to work or to stop.
LEMMA CallForms ==
  ASSUME NEW c \in ResolverCall
  PROVE  /\ Idle \in ResolverCall
         /\ [c EXCEPT !.wrote = TRUE] \in ResolverCall
         /\ [c EXCEPT !.pc = "body", !.open = TRUE] \in ResolverCall
         /\ \A q \in Seq(Callback) :
              /\ [c EXCEPT !.queue = q] \in ResolverCall
              /\ [c EXCEPT !.todo = q] \in ResolverCall
              /\ [Idle EXCEPT !.pc = "callbacks", !.todo = q] \in ResolverCall
         /\ \A p \in {"awaitReady", "failFast", "ownCommit", "ownRollback", "stopped"} :
              [c EXCEPT !.pc = p] \in ResolverCall
         /\ \A p \in {"commit", "unwind"} : [Idle EXCEPT !.pc = p] \in ResolverCall
         /\ \A p \in {"body", "ownBegin"} : \A u \in {"shared", "tx", "db"} : \A o \in BOOLEAN :
              [Idle EXCEPT !.pc = p, !.unit = u, !.open = o] \in ResolverCall
         /\ [Idle EXCEPT !.pc = "ownBegin", !.unit = "tx"] \in ResolverCall
  <1>0. <<>> \in Seq(Callback)
    OBVIOUS
  <1> HIDE DEF Callback
  <1> QED
    BY <1>0 DEF Idle, ResolverCall

\* Moving the program counter of one call changes nothing else.
LEMMA PcMoves ==
  ASSUME call \in [Execution -> ResolverCall], NEW e \in Execution, NEW p,
         call' = [call EXCEPT ![e].pc = p]
  PROVE  /\ call'[e].pc = p /\ call'[e].open = call[e].open
         /\ \A f \in Execution \ {e} : call'[f] = call[f]
  BY DEF ResolverCall

\* Every action of Next keeps the types.
LEMMA TypeStep == TypeInv /\ [Next]_vars => TypeInv'
  <1> SUFFICES ASSUME TypeInv, [Next]_vars PROVE TypeInv'
    OBVIOUS
  <1> USE DEF TypeInv
  <1>1. ASSUME NEW e \in Execution, OpenShared(e) PROVE TypeInv'
    <2> USE <1>1
    <2> HIDE DEF Callback
    <2>1. NewShared(Expected(e)) \in SharedTxState
      BY ExpectedNat DEF NewShared, SharedTxState
    <2>2. tx' \in [Execution -> SharedTxState]
      BY <2>1, SharedMethods DEF OpenShared, ExecutionKey, TypeOK
    <2>3. call' \in [Execution -> ResolverCall]
      BY CallForms DEF OpenShared, TypeOK
    <2>4. TypeOK'
      BY <2>1, <2>2, <2>3 DEF OpenShared, Calls, ExecutionKey, TypeOK
    <2>5. RunsAField'
      BY <2>1, <2>2, <2>3 DEF OpenShared, Calls, ExecutionKey, Idle, RunsAField, Fields, TypeOK
    <2> QED
      BY <2>4, <2>5
  <1>2. ASSUME NEW e \in Execution, JoinShared(e) PROVE TypeInv'
    <2> USE <1>2
    <2> HIDE DEF Callback
    <2>1. tx[e] \in SharedTxState /\ SuspendTimer(tx[e]) \in SharedTxState
      BY SharedMethods DEF TypeOK
    <2>2. tx' \in [Execution -> SharedTxState]
      BY <2>1 DEF JoinShared, ExecutionKey, TypeOK
    <2>3. call[e] \in ResolverCall
      BY DEF TypeOK
    <2>4. call' \in [Execution -> ResolverCall]
      BY <2>3, CallForms DEF JoinShared, TypeOK
    <2>5. ~call[e].open
      BY DEF JoinShared, Calls, RunsAField
    <2>6. \/ call' = [call EXCEPT ![e].pc = "awaitReady"]
         \/ call' = [call EXCEPT ![e].pc = "failFast"]
      BY DEF JoinShared, ExecutionKey
    <2>7. call'[e].pc \in {"awaitReady", "failFast"} /\ ~call'[e].open /\ \A f \in Execution \ {e} : call'[f] = call[f]
      BY <2>3, <2>5, <2>6, PcMoves DEF TypeOK
    <2>8. TypeOK'
      BY <2>1, <2>2, <2>3, <2>4, <2>5, <2>6, <2>7 DEF JoinShared, Calls, ExecutionKey, TypeOK
    <2>9. RunsAField'
      BY <2>1, <2>2, <2>3, <2>4, <2>5, <2>6, <2>7 DEF JoinShared, Calls, ExecutionKey, Idle, RunsAField, Fields, TypeOK
    <2> QED
      BY <2>8, <2>9
  <1>3. ASSUME NEW e \in Execution, StartOwn(e) PROVE TypeInv'
    <2> USE <1>3
    <2> HIDE DEF Callback
    <2>1. call' \in [Execution -> ResolverCall]
      BY CallForms DEF StartOwn, TypeOK
    <2>2. TypeOK'
      BY <2>1 DEF StartOwn, Calls, ExecutionKey, TypeOK
    <2>3. RunsAField'
      BY <2>1 DEF StartOwn, Calls, ExecutionKey, Idle, RunsAField, Fields, TypeOK
    <2> QED
      BY <2>2, <2>3
  <1>4. ASSUME NEW e \in Execution, HookRegisters(e) PROVE TypeInv'
    <2> USE <1>4
    <2> HIDE DEF Callback
    <2>1. registered[e] \in Seq(Nat) /\ pos[e] \in 1..Len(registered[e])
      BY DEF HookRegisters, TypeOK, RunsAField, Fields, ResolverCall
    <2>2. registered' \in [Execution -> Seq(Nat)] /\ \A f \in Execution : Len(registered'[f]) = Len(doc[f])
      BY <2>1 DEF HookRegisters, TypeOK
    <2>3. call[e].queue \in Seq(Callback) /\ <<pos[e], registered[e][pos[e]] + 1>> \in Callback
      BY <2>1 DEF TypeOK, ResolverCall, Callback
    <2>4. Append(call[e].queue, <<pos[e], registered[e][pos[e]] + 1>>) \in Seq(Callback)
      BY <2>3
    <2>5. call' \in [Execution -> ResolverCall]
      BY <2>4, CallForms DEF HookRegisters, TypeOK
    <2>6. TypeOK'
      BY <2>1, <2>2, <2>3, <2>4, <2>5 DEF HookRegisters, TypeOK
    <2>7. RunsAField'
      BY <2>1, <2>2, <2>3, <2>4, <2>5 DEF HookRegisters, Idle, RunsAField, Fields, TypeOK
    <2> QED
      BY <2>6, <2>7
  <1>5. ASSUME NEW e \in Execution, Statement(e) PROVE TypeInv'
    <2> USE <1>5
    <2> HIDE DEF Callback
    <2>1. Write(e) \in Execution \X Nat
      BY DEF Write, TypeOK
    <2>2. tx[e] \in SharedTxState
      BY DEF TypeOK
    <2>3. [tx[e] EXCEPT !.pending = tx[e].pending \cup {Write(e)}] \in SharedTxState
      BY <2>1, <2>2 DEF SharedTxState
    <2>4. tx' \in [Execution -> SharedTxState]
      BY <2>3 DEF Statement, ExecutionKey, TypeOK
    <2>5. call[e] \in ResolverCall
      BY DEF TypeOK
    <2>6. call' \in [Execution -> ResolverCall]
      BY <2>5, CallForms DEF Statement, TypeOK
    <2>7. call'[e].pc = call[e].pc /\ call'[e].open = call[e].open /\ \A f \in Execution \ {e} : call'[f] = call[f]
      BY <2>5 DEF Statement, ResolverCall, TypeOK
    <2>8. TypeOK'
      BY <2>1, <2>2, <2>3, <2>4, <2>5, <2>6, <2>7 DEF Statement, TypeOK
    <2>9. RunsAField'
      BY <2>1, <2>2, <2>3, <2>4, <2>5, <2>6, <2>7 DEF Statement, Idle, RunsAField, Fields, TypeOK
    <2> QED
      BY <2>8, <2>9
  <1>6. ASSUME NEW e \in Execution, SharedThrows(e) PROVE TypeInv'
    <2> USE <1>6
    <2> HIDE DEF Callback
    <2>1. tx' \in [Execution -> SharedTxState]
      BY SharedMethods DEF SharedThrows, ExecutionKey, TypeOK
    <2>2. call' \in [Execution -> ResolverCall]
      BY CallForms DEF SharedThrows, TypeOK
    <2>3. TypeOK'
      BY <2>1, <2>2 DEF SharedThrows, TypeOK
    <2>4. RunsAField'
      BY <2>1, <2>2 DEF SharedThrows, Idle, RunsAField, Fields, TypeOK
    <2> QED
      BY <2>3, <2>4
  <1>7. ASSUME NEW e \in Execution, OwnReturns(e) PROVE TypeInv'
    <2> USE <1>7
    <2> HIDE DEF Callback
    <2>1. call[e].queue \in Seq(Callback)
      BY DEF TypeOK, ResolverCall
    <2>2. call' \in [Execution -> ResolverCall]
      BY <2>1, CallForms DEF OwnReturns, TypeOK
    <2>3. TypeOK'
      BY <2>1, <2>2 DEF OwnReturns, TypeOK
    <2>4. RunsAField'
      BY <2>1, <2>2 DEF OwnReturns, Idle, RunsAField, Fields, TypeOK
    <2> QED
      BY <2>3, <2>4
  <1>8. ASSUME NEW e \in Execution, SharedBegins(e) PROVE TypeInv'
    <2> USE <1>8
    <2> HIDE DEF Callback
    <2>1. tx[e] \in SharedTxState
      BY DEF TypeOK
    <2>2. [tx[e] EXCEPT !.db = "open"] \in SharedTxState
      BY <2>1 DEF SharedTxState
    <2>3. tx' \in [Execution -> SharedTxState]
      BY <2>2 DEF SharedBegins, TypeOK
    <2>4. TypeOK'
      BY <2>1, <2>2, <2>3 DEF SharedBegins, TypeOK
    <2>5. RunsAField'
      BY <2>1, <2>2, <2>3 DEF SharedBegins, Idle, RunsAField, Fields, TypeOK
    <2> QED
      BY <2>4, <2>5
  <1>9. ASSUME NEW e \in Execution, SharedBeginFails(e) PROVE TypeInv'
    <2> USE <1>9
    <2> HIDE DEF Callback
    <2>1. tx[e] \in SharedTxState
      BY DEF TypeOK
    <2>2. [tx[e] EXCEPT !.db = "beginFailed", !.timer = FALSE, !.pending = {}] \in SharedTxState
      BY <2>1 DEF SharedTxState
    <2>3. tx' \in [Execution -> SharedTxState]
      BY <2>2 DEF SharedBeginFails, CleansUp, TypeOK
    <2>4. TypeOK'
      BY <2>1, <2>2, <2>3 DEF SharedBeginFails, CleansUp, TypeOK
    <2>5. RunsAField'
      BY <2>1, <2>2, <2>3 DEF SharedBeginFails, CleansUp, Idle, RunsAField, Fields, TypeOK
    <2> QED
      BY <2>4, <2>5
  <1>10. ASSUME NEW e \in Execution, SharedCommits(e) PROVE TypeInv'
    <2> USE <1>10
    <2> HIDE DEF Callback
    <2>1. tx[e] \in SharedTxState
      BY DEF TypeOK
    <2>2. [tx[e] EXCEPT !.db = "committed", !.timer = FALSE, !.pending = {}] \in SharedTxState
      BY <2>1 DEF SharedTxState
    <2>3. tx' \in [Execution -> SharedTxState]
      BY <2>2 DEF SharedCommits, CleansUp, TypeOK
    <2>4. tx[e].pending \subseteq Execution \X Nat
      BY DEF TypeOK, SharedTxState
    <2>5. TypeOK'
      BY <2>1, <2>2, <2>3, <2>4 DEF SharedCommits, CleansUp, TypeOK
    <2>6. RunsAField'
      BY <2>1, <2>2, <2>3, <2>4 DEF SharedCommits, CleansUp, Idle, RunsAField, Fields, TypeOK
    <2> QED
      BY <2>5, <2>6
  <1>11. ASSUME NEW e \in Execution, SharedRollsBack(e) PROVE TypeInv'
    <2> USE <1>11
    <2> HIDE DEF Callback
    <2>1. tx[e] \in SharedTxState
      BY DEF TypeOK
    <2>2. [tx[e] EXCEPT !.db = "rolledBack", !.timer = FALSE, !.pending = {}] \in SharedTxState
      BY <2>1 DEF SharedTxState
    <2>3. tx' \in [Execution -> SharedTxState]
      BY <2>2 DEF SharedRollsBack, CleansUp, TypeOK
    <2>4. TypeOK'
      BY <2>1, <2>2, <2>3 DEF SharedRollsBack, CleansUp, TypeOK
    <2>5. RunsAField'
      BY <2>1, <2>2, <2>3 DEF SharedRollsBack, CleansUp, Idle, RunsAField, Fields, TypeOK
    <2> QED
      BY <2>4, <2>5
  <1>12. ASSUME NEW e \in Execution, RunCallback(e) PROVE TypeInv'
    <2> USE <1>12
    <2> HIDE DEF Callback
    <2>1. call[e].todo \in Seq(Callback) /\ call[e].todo # <<>>
      BY DEF RunCallback, TypeOK, ResolverCall
    <2>2. Head(call[e].todo) \in Callback /\ Tail(call[e].todo) \in Seq(Callback)
      BY <2>1
    <2>3. call' \in [Execution -> ResolverCall]
      BY <2>2, CallForms DEF RunCallback, TypeOK
    <2>4. ran' \in [Execution -> Seq(Callback)]
      BY <2>2 DEF RunCallback, TypeOK
    <2>5. TypeOK'
      BY <2>1, <2>2, <2>3, <2>4 DEF RunCallback, TypeOK
    <2>6. RunsAField'
      BY <2>1, <2>2, <2>3, <2>4 DEF RunCallback, Idle, RunsAField, Fields, TypeOK
    <2> QED
      BY <2>5, <2>6
  <1>13. ASSUME NEW e \in Execution, TimerFires(e) PROVE TypeInv'
    <2> USE <1>13
    <2> HIDE DEF Callback
    <2>1. tx' \in [Execution -> SharedTxState]
      BY SharedMethods DEF TimerFires, TypeOK
    <2>2. TypeOK'
      BY <2>1 DEF TimerFires, TypeOK
    <2>3. RunsAField'
      BY <2>1 DEF TimerFires, Idle, RunsAField, Fields, TypeOK
    <2> QED
      BY <2>2, <2>3
  <1>14. ASSUME NEW e \in Execution, HostStops(e) PROVE TypeInv'
    <2> USE <1>14
    <2> HIDE DEF Callback
    <2>1. call' \in [Execution -> ResolverCall]
      BY CallForms DEF HostStops, TypeOK
    <2>2. TypeOK'
      BY <2>1 DEF HostStops, TypeOK
    <2>3. RunsAField'
      BY <2>1 DEF HostStops, Idle, RunsAField, Fields, TypeOK
    <2> QED
      BY <2>2, <2>3
  <1>15. ASSUME NEW e \in Execution, SkipField(e) PROVE TypeInv'
    <2> USE <1>15
    <2> HIDE DEF Callback
    <2>1. doc[e] \in Seq(RootField) /\ pos[e] \in 1..Len(doc[e])
      BY DocumentsAssumption DEF SkipField, Fields, TypeOK
    <2>2. Kind(e) \in Outcome
      BY <2>1 DEF SkipField, Kind, Outcome
    <2> QED
      BY <2>2, AnswerTyped DEF SkipField, TypeOK
  <1>16. ASSUME NEW e \in Execution, SharedReturns(e) PROVE TypeInv'
    <2> USE <1>16
    <2> HIDE DEF Callback
    <2> DEFINE t == [tx[e] EXCEPT !.completed = tx[e].completed + 1]
               s == Keep(t, call[e].queue)
    <2>1. tx[e] \in SharedTxState /\ call[e].queue \in Seq(Callback)
      BY DEF TypeOK, ResolverCall
    <2>2. t \in SharedTxState
      BY <2>1 DEF SharedTxState
    <2>3. s \in SharedTxState
      BY <2>1, <2>2, SharedMethods
    <2>4. Release(s) \in SharedTxState /\ BumpTimer(s) \in SharedTxState
      BY <2>3, SharedMethods
    <2> HIDE DEF t, s
    <2>5. tx' \in [Execution -> SharedTxState]
      BY <2>4 DEF SharedReturns, ExecutionKey, TypeOK, t, s
    <2>6. CASE IsLast(s)
      <3>1. call' = [call EXCEPT ![e] = [Idle EXCEPT !.pc = "commit"]]
            /\ UNCHANGED <<pos, outcome>>
        BY <2>6 DEF SharedReturns, ExecutionKey, t, s
      <3>2. call' \in [Execution -> ResolverCall]
        BY <3>1, <2>1, CallForms DEF TypeOK
      <3>3. TypeOK'
        BY <3>1, <3>2, <2>5 DEF SharedReturns, TypeOK
      <3>4. RunsAField'
        BY <3>1 DEF SharedReturns, Idle, TypeOK, RunsAField, Fields
      <3> QED
        BY <3>3, <3>4
    <2>7. CASE ~IsLast(s)
      <3>1. Answer(e, "ok")
        BY <2>7 DEF SharedReturns, ExecutionKey, t, s
      <3> QED
        BY <3>1, <2>5, AnswerTyped DEF SharedReturns, Outcome, RunsAField, TypeOK
    <2> QED
      BY <2>6, <2>7
  <1>17. ASSUME NEW e \in Execution, OwnThrows(e) PROVE TypeInv'
    <2> USE <1>17
    <2> HIDE DEF Callback
    <2>1. CASE call[e].unit = "tx"
      <3>1. call[e] \in ResolverCall /\ call' = [call EXCEPT ![e].pc = "ownRollback"]
        BY <2>1 DEF OwnThrows, TypeOK
      <3>2. call' \in [Execution -> ResolverCall]
        BY <3>1, CallForms DEF TypeOK
      <3>3. TypeOK'
        BY <2>1, <3>2 DEF OwnThrows, TypeOK
      <3>4. RunsAField'
        BY <2>1, <3>1 DEF OwnThrows, TypeOK, RunsAField, Fields
      <3> QED
        BY <3>3, <3>4
    <2>2. CASE call[e].unit # "tx"
      BY <2>2, AnswerTyped DEF OwnThrows, Outcome, Failures, RunsAField, TypeOK
    <2> QED
      BY <2>1, <2>2
  <1>18. ASSUME NEW e \in Execution, OwnBegins(e) PROVE TypeInv'
    <2> USE <1>18
    <2> HIDE DEF Callback
    <2>1. CASE Answer(e, "noBegin")
      BY <2>1, AnswerTyped DEF OwnBegins, Outcome, Failures, RunsAField, TypeOK
    <2>2. CASE call' = [call EXCEPT ![e].pc = "body", ![e].open = TRUE] /\ UNCHANGED <<pos, outcome>>
      <3>1. call[e] \in ResolverCall
        BY DEF TypeOK
      <3>2. call' \in [Execution -> ResolverCall]
        BY <2>2, <3>1, CallForms DEF TypeOK
      <3>3. TypeOK'
        BY <2>2, <3>2 DEF OwnBegins, TypeOK
      <3>4. RunsAField'
        BY <2>2, <3>1 DEF OwnBegins, TypeOK, ResolverCall, RunsAField, Fields
      <3> QED
        BY <3>3, <3>4
    <2> QED
      BY <2>1, <2>2 DEF OwnBegins
  <1>19. ASSUME NEW e \in Execution, OwnSettles(e) PROVE TypeInv'
    <2> USE <1>19
    <2> HIDE DEF Callback
    <2>1. CASE Answer(e, "error") /\ UNCHANGED <<doc, registered, states, tx, published, durable, ran>>
      BY <2>1, AnswerTyped DEF OwnSettles, Outcome, Failures, RunsAField, TypeOK
    <2>2. CASE /\ call[e].pc = "ownCommit"
               /\ durable' = durable \cup {Write(e)}
               /\ call' = [call EXCEPT ![e] =
                             [Idle EXCEPT !.pc = "callbacks", !.todo = call[e].queue]]
               /\ UNCHANGED <<doc, pos, outcome, registered, states, tx, published, ran>>
      <3>1. call[e] \in ResolverCall /\ call[e].queue \in Seq(Callback)
        BY DEF TypeOK, ResolverCall
      <3>2. call' \in [Execution -> ResolverCall]
        BY <2>2, <3>1, CallForms DEF TypeOK
      <3>3. TypeOK'
        BY <2>2, <3>2 DEF Write, TypeOK
      <3>4. RunsAField'
        BY <2>2, <3>1 DEF Idle, TypeOK, RunsAField, Fields
      <3> QED
        BY <3>3, <3>4
    <2> QED
      BY <2>1, <2>2 DEF OwnSettles
  <1>20. ASSUME NEW e \in Execution, ReadyResumes(e) PROVE TypeInv'
    <2> USE <1>20
    <2> HIDE DEF Callback
    <2>1. CASE tx[e].db = "beginFailed"
      BY <2>1, AnswerTyped DEF ReadyResumes, ExecutionKey, Outcome, Failures, RunsAField, TypeOK
    <2>2. CASE tx[e].db # "beginFailed"
      <3>1. /\ call' = [call EXCEPT ![e] = call'[e]]
            /\ \/ call'[e] = [Idle EXCEPT !.pc = "unwind"]
               \/ call'[e] = [Idle EXCEPT !.pc = "body", !.unit = "shared", !.open = TRUE]
            /\ UNCHANGED <<pos, outcome>>
        BY <2>2 DEF ReadyResumes, ExecutionKey, TypeOK
      <3>2. call' \in [Execution -> ResolverCall]
        <4>1. call'[e] \in ResolverCall
          BY <3>1, IdleTyped, CallForms
        <4> QED
          BY <3>1, <4>1 DEF TypeOK
      <3>3. TypeOK'
        BY <3>1, <3>2 DEF ReadyResumes, TypeOK
      <3>4. call'[e].pc \in {"body", "unwind"} /\ (call'[e].open => call'[e].pc = "body")
        BY <3>1 DEF Idle
      <3>5. pos[e] \in Fields(e) /\ \A f \in Execution \ {e} : call'[f] = call[f]
        BY <3>1 DEF ReadyResumes, RunsAField, TypeOK
      <3>6. RunsAField'
        BY <3>1, <3>4, <3>5 DEF ReadyResumes, RunsAField, Fields
      <3> QED
        BY <3>3, <3>6
    <2> QED
      BY <2>1, <2>2
  <1>21. ASSUME NEW e \in Execution, CommitResumes(e) PROVE TypeInv'
    <2> USE <1>21
    <2> HIDE DEF Callback
    <2>1. tx[e] \in SharedTxState /\ <<>> \in Seq(Callback)
      BY DEF TypeOK
    <2>2. CASE tx[e].db = "committed"
      <3>1. [tx[e] EXCEPT !.commits = <<>>, !.closed = TRUE] \in SharedTxState
            /\ tx[e].commits \in Seq(Callback)
        BY <2>1 DEF SharedTxState
      <3>2. tx' \in [Execution -> SharedTxState]
        BY <2>2, <3>1 DEF CommitResumes, ExecutionKey, TypeOK
      <3>3. call' = [call EXCEPT ![e] = [Idle EXCEPT !.pc = "callbacks", !.todo = tx[e].commits]]
        BY <2>2 DEF CommitResumes, ExecutionKey
      <3>4. call' \in [Execution -> ResolverCall]
        BY <3>1, <3>3, IdleTyped, CallForms DEF TypeOK
      <3>5. TypeOK'
        BY <2>2, <3>2, <3>4 DEF CommitResumes, ExecutionKey, TypeOK
      <3>6. RunsAField'
        BY <2>2, <3>3 DEF CommitResumes, ExecutionKey, Idle, TypeOK, RunsAField, Fields
      <3> QED
        BY <3>5, <3>6
    <2>3. CASE tx[e].db # "committed"
      <3>1. tx' \in [Execution -> SharedTxState]
        BY <2>1, <2>3, SharedMethods DEF CommitResumes, ExecutionKey, TypeOK
      <3> QED
        BY <2>3, <3>1, AnswerTyped
        DEF CommitResumes, ExecutionKey, Outcome, Failures, RunsAField, TypeOK
    <2> QED
      BY <2>2, <2>3
  <1>22. ASSUME NEW e \in Execution, UnwindResumes(e) PROVE TypeInv'
    <2> USE <1>22
    <2> HIDE DEF Callback
    <2> DEFINE how == IF call[e].pc = "unwind" THEN "error"
                      ELSE IF tx[e].timedOut THEN "timedOut" ELSE "aborted"
    <2>1. how \in Outcome /\ Answer(e, how)
      BY DEF UnwindResumes, ExecutionKey, Outcome, Failures
    <2> HIDE DEF how
    <2> QED
      BY <2>1, AnswerTyped DEF UnwindResumes, RunsAField, TypeOK
  <1>23. ASSUME NEW e \in Execution, CallbacksDone(e) PROVE TypeInv'
    <2> USE <1>23
    <2> HIDE DEF Callback
    <2> QED
      BY AnswerTyped DEF CallbacksDone, Outcome, RunsAField, TypeOK
  <1>24. CASE UNCHANGED vars
    BY <1>24 DEF vars, TypeOK, RunsAField, Fields
  <1> QED
    BY <1>1, <1>2, <1>3, <1>4, <1>5, <1>6, <1>7, <1>8, <1>9, <1>10, <1>11, <1>12,
       <1>13, <1>14, <1>15, <1>16, <1>17, <1>18, <1>19, <1>20, <1>21, <1>22, <1>23, <1>24
    DEF Next, Rest, Step, Starts, BodyEnds, Driver, Resumes, Callbacks

\* The initial states have their types.
LEMMA InitTyped == Init => TypeInv
  <1> SUFFICES ASSUME Init PROVE TypeInv
    OBVIOUS
  <1> HIDE DEF Callback
  <1>1. \A e \in Execution : doc[e] \in Seq(RootField)
    BY DocumentsAssumption DEF Init
  <1>2. \A e \in Execution : /\ [j \in Fields(e) |-> "none"] \in Seq(Outcome)
                           /\ [j \in Fields(e) |-> 0] \in Seq(Nat)
    BY <1>1 DEF Fields, Outcome
  <1>3. NoShared \in SharedTxState
    <2>1. <<>> \in Seq(Callback)
      OBVIOUS
    <2> QED
      BY <2>1 DEF NoShared, NewShared, SharedTxState
  <1>4. TypeOK
    BY <1>1, <1>2, <1>3, IdleTyped DEF Init, TypeOK, Fields
  <1>5. RunsAField
    BY DEF Init, RunsAField, Idle
  <1> QED
    BY <1>4, <1>5 DEF TypeInv

\* Every variable has its type in every reachable state, whatever the documents and the number
\* of executions.
THEOREM TypeCorrect == Spec => []TypeOK
  <1>1. Init => TypeInv
    BY InitTyped
  <1>2. TypeInv => TypeOK
    BY DEF TypeInv
  <1> QED
    BY <1>1, <1>2, TypeStep, PTL DEF Spec

-----------------------------------------------------------------------------
(* Atomicity. *)

\* All that Atomic(f) reads of an execution is as it was.
Same(f) ==
  /\ doc' = doc /\ pos'[f] = pos[f] /\ outcome'[f] = outcome[f]
  /\ call'[f].pc = call[f].pc /\ call'[f].unit = call[f].unit /\ call'[f].wrote = call[f].wrote
  /\ states'[f] = states[f] /\ tx'[f] = tx[f] /\ DurableOf(f)' = DurableOf(f)

\* An execution nothing changes for keeps its part of the invariant.
LEMMA Frame ==
  ASSUME NEW f \in Execution, Atomic(f), Same(f)
  PROVE  Atomic(f)'
  <1>1. /\ Fields(f)' = Fields(f) /\ Coercible(f)' = Coercible(f)
        /\ Expected(f)' = Expected(f) /\ Shares(f)' = Shares(f)
    BY DEF Same, Fields, Coercible, Expected, Shares, AllKnown
  <1>2. Kept(f)' = Kept(f)
    BY <1>1 DEF Same, Kept
  <1>3. AtField(f)'
    BY <1>1 DEF Atomic, AtField, Same
  <1>4. OneDiscipline(f)'
    BY <1>1 DEF Atomic, OneDiscipline, Same
  <1>5. Shares(f) => Undisturbed(f)'
    BY <1>2 DEF Atomic, Undisturbed, Same
  <1>6. Shares(f) => Backed(f)'
    BY <1>1, <1>2 DEF Atomic, Backed, Same, Write
  <1>7. Shares(f) => Decided(f)'
    BY <1>1, <1>2 DEF Atomic, Decided, Same
  <1> QED
    BY <1>1, <1>3, <1>4, <1>5, <1>6, <1>7 DEF Atomic

\* What the definitions above need to know of the types.
LEMMA Ground ==
  ASSUME TypeInv, NEW e \in Execution
  PROVE  /\ pos[e] \in Nat /\ Fields(e) \subseteq Nat /\ Coercible(e) \subseteq Fields(e)
         /\ tx[e].completed \in Nat /\ tx[e].expected \in Nat /\ Expected(e) \in Nat
         /\ IsFiniteSet(Kept(e)) /\ Cardinality(Kept(e)) \in Nat
         /\ Kept(e) \subseteq Coercible(e)
         /\ tx[e] \in SharedTxState /\ call[e] \in ResolverCall
         /\ \A i \in Coercible(e) : i \in Nat
  <1>1. Len(doc[e]) \in Nat /\ tx[e] \in SharedTxState /\ call[e] \in ResolverCall /\ pos[e] \in Nat
    BY DEF TypeInv, TypeOK
  <1>2. Fields(e) \subseteq Nat /\ Coercible(e) \subseteq Fields(e) /\ Kept(e) \subseteq Coercible(e)
    BY <1>1 DEF Fields, Coercible, Kept
  <1>3. IsFiniteSet(Coercible(e)) /\ Expected(e) \in Nat
    BY ExpectedNat DEF TypeInv
  <1>4. IsFiniteSet(Kept(e)) /\ Cardinality(Kept(e)) \in Nat
    BY <1>2, <1>3, FS_Subset, FS_CardinalityType
  <1>5. tx[e].completed \in Nat /\ tx[e].expected \in Nat
    BY <1>1 DEF SharedTxState
  <1> QED
    BY <1>1, <1>2, <1>3, <1>4, <1>5

\* What an answer changes: the current field has an outcome and the executor moves on.
LEMMA AnswerEffect ==
  ASSUME TypeInv, NEW e \in Execution, NEW how \in Outcome, Answer(e, how), pos[e] \in Fields(e)
  PROVE  /\ pos'[e] = pos[e] + 1 /\ call'[e].pc = "between" /\ call'[e].wrote = FALSE
         /\ \A i \in Fields(e) : outcome'[e][i] = IF i = pos[e] THEN how ELSE outcome[e][i]
         /\ \A f \in Execution \ {e} : /\ pos'[f] = pos[f] /\ call'[f] = call[f]
                                       /\ outcome'[f] = outcome[f]
  <1>1. /\ pos \in [Execution -> Nat \ {0}] /\ call \in [Execution -> ResolverCall]
        /\ outcome \in [Execution -> Seq(Outcome)] /\ Len(outcome[e]) = Len(doc[e])
    BY DEF TypeInv, TypeOK
  <1>2. DOMAIN outcome[e] = Fields(e)
    BY <1>1 DEF Fields
  <1> QED
    BY <1>1, <1>2 DEF Answer, Idle

\* Reading the document again gives the same answers.
LEMMA DocSame ==
  ASSUME NEW e, doc' = doc
  PROVE  /\ Fields(e)' = Fields(e) /\ Coercible(e)' = Coercible(e)
         /\ Expected(e)' = Expected(e) /\ Shares(e)' = Shares(e)
  BY DEF Fields, Coercible, Expected, Shares, AllKnown

\* A step within the call keeps the fields that succeeded, and every field's answer.
LEMMA KeptStays ==
  ASSUME NEW e, doc' = doc, pos'[e] = pos[e], outcome'[e] = outcome[e],
         call'[e].pc \in {"commit", "callbacks"} <=> call[e].pc \in {"commit", "callbacks"}
  PROVE  Kept(e)' = Kept(e)
  BY DocSame DEF Kept

\* An answer adds its field to the ones that succeeded, or takes back one that was committing.
LEMMA KeptAnswers ==
  ASSUME TypeInv, NEW e \in Execution, AtField(e), NEW how \in Outcome \ {"none"},
         Answer(e, how), pos[e] \in Fields(e), doc' = doc,
         how \in Failures => pos[e] \in Coercible(e)
  PROVE  /\ AtField(e)'
         /\ pos[e] \notin Coercible(e) => Kept(e)' = Kept(e)
         /\ how = "ok" /\ pos[e] \in Coercible(e) => Kept(e)' = Kept(e) \cup {pos[e]}
         /\ how # "ok" => Kept(e)' = Kept(e) \ {pos[e]}
  <1>1. /\ pos'[e] = pos[e] + 1 /\ call'[e].pc = "between"
        /\ \A i \in Fields(e) : outcome'[e][i] = IF i = pos[e] THEN how ELSE outcome[e][i]
    BY AnswerEffect
  <1>2. pos[e] \in Nat /\ Fields(e) \subseteq Nat /\ Coercible(e) \subseteq Fields(e)
    BY Ground
  <1>3. Fields(e)' = Fields(e) /\ Coercible(e)' = Coercible(e)
    BY DocSame
  <1>4. AtField(e)'
    BY <1>1, <1>2, <1>3 DEF AtField
  <1>5. \A i \in Coercible(e) : i \in Kept(e)' <=> outcome'[e][i] = "ok"
    BY <1>1, <1>3 DEF Kept
  <1>6. Kept(e)' \subseteq Coercible(e) /\ Kept(e) \subseteq Coercible(e)
    BY <1>3 DEF Kept
  <1>7. \A i \in Coercible(e) \ {pos[e]} : i \in Kept(e) <=> outcome[e][i] = "ok"
    BY DEF Kept
  <1>8. \A i \in Coercible(e) \ {pos[e]} : i \in Kept(e)' <=> i \in Kept(e)
    BY <1>1, <1>2, <1>5, <1>7
  <1>9. pos[e] \in Coercible(e) => (pos[e] \in Kept(e)' <=> how = "ok")
    BY <1>1, <1>2, <1>5
  <1> QED
    BY <1>4, <1>6, <1>8, <1>9

\* A field that succeeded is not ahead of the executor.
LEMMA KeptBehind ==
  ASSUME TypeInv, NEW e \in Execution, AtField(e), NEW i \in Kept(e)
  PROVE  i <= pos[e]
  <1>1. i \in Fields(e) /\ i \in Nat /\ pos[e] \in Nat
    BY Ground
  <1>2. outcome[e][i] = "ok" \/ i = pos[e]
    BY DEF Kept
  <1>3. i >= pos[e] => outcome[e][i] = "none"
    BY <1>1 DEF AtField
  <1> QED
    BY <1>1, <1>2, <1>3

\* An answer that adds no field to the ones that succeeded keeps the invariant.
LEMMA AnswerAtomic ==
  ASSUME TypeInv, NEW e \in Execution, Atomic(e), NEW how \in Outcome \ {"none"},
         Answer(e, how), pos[e] \in Fields(e), doc' = doc, how \in Failures => pos[e] \in Coercible(e),
         states'[e] = states[e], tx'[e] = tx[e], DurableOf(e)' = DurableOf(e),
         call[e].pc # "commit", Shares(e) => tx[e].db # "begin",
         call[e].pc = "callbacks" => how = "ok",
         how = "ok" => pos[e] \in Kept(e)
  PROVE  Atomic(e)'
  <1>1. pos'[e] = pos[e] + 1 /\ call'[e].pc = "between"
    BY AnswerEffect
  <1>2. pos[e] \in Nat /\ Kept(e) \subseteq Coercible(e) /\ \A i \in Coercible(e) : i \in Nat
    BY Ground
  <1>3. call[e].pc # "callbacks" => pos[e] \notin Kept(e)
    BY <1>2 DEF Atomic, AtField, Kept, Coercible
  <1>4. Kept(e)' = Kept(e)
    <2>1. /\ how = "ok" /\ pos[e] \in Coercible(e) => Kept(e)' = Kept(e) \cup {pos[e]}
          /\ how # "ok" => Kept(e)' = Kept(e) \ {pos[e]}
      BY KeptAnswers DEF Atomic
    <2>2. CASE how = "ok"
      BY <1>2, <2>1, <2>2
    <2>3. CASE how # "ok"
      BY <1>3, <2>1, <2>3
    <2> QED
      BY <2>2, <2>3
  <1>5. AtField(e)'
    BY KeptAnswers DEF Atomic
  <1>6. OneDiscipline(e)'
    BY <1>1, DocSame DEF Atomic, OneDiscipline
  <1>7. Shares(e) => Undisturbed(e)'
    BY <1>1, <1>4 DEF Atomic, Undisturbed
  <1>8. Shares(e) => Backed(e)'
    BY <1>1, <1>4, DocSame DEF Atomic, Backed
  <1>9. Shares(e) => Decided(e)'
    BY <1>1, <1>2, <1>4, DocSame DEF Atomic, Decided
  <1> QED
    BY <1>5, <1>6, <1>7, <1>8, <1>9, DocSame DEF Atomic

\* Every step of every action keeps the invariant.
LEMMA AtomicStep == TypeInv /\ AtomicInv /\ [Next]_vars => AtomicInv'
  <1> SUFFICES ASSUME TypeInv, AtomicInv, [Next]_vars PROVE AtomicInv'
    OBVIOUS
  <1>1. ASSUME NEW e \in Execution, HookRegisters(e) PROVE AtomicInv'
    <2> USE <1>1
    <2>1. \A f \in Execution \ {e} : Same(f)
      BY DEF Same, HookRegisters, DurableOf, Fields, TypeInv, TypeOK
    <2>2. Same(e)
      BY Ground DEF Same, HookRegisters, DurableOf, Fields, ResolverCall, TypeInv, TypeOK
    <2> QED
      BY <2>1, <2>2, Frame DEF AtomicInv
  <1>2. ASSUME NEW e \in Execution, RunCallback(e) PROVE AtomicInv'
    <2> USE <1>2
    <2>1. \A f \in Execution \ {e} : Same(f)
      BY DEF Same, RunCallback, DurableOf, Fields, TypeInv, TypeOK
    <2>2. Same(e)
      BY Ground DEF Same, RunCallback, DurableOf, Fields, ResolverCall, TypeInv, TypeOK
    <2> QED
      BY <2>1, <2>2, Frame DEF AtomicInv
  <1>3. ASSUME NEW e \in Execution, OpenShared(e) PROVE AtomicInv'
    <2> USE <1>3
    <2>0. Atomic(e)
      BY DEF AtomicInv
    <2>1. \A f \in Execution \ {e} : Same(f)
      BY DEF Same, OpenShared, Calls, ExecutionKey, DurableOf, Fields, TypeInv, TypeOK
    <2>2. /\ doc' = doc /\ pos'[e] = pos[e] /\ outcome'[e] = outcome[e] /\ DurableOf(e)' = DurableOf(e)
          /\ Shares(e) /\ pos[e] \in Coercible(e) /\ call[e].pc = "between" /\ states[e] = "none"
          /\ call'[e].pc = "awaitReady" /\ states'[e] = "shared"
          /\ tx'[e].expected = Expected(e) /\ tx'[e].completed = 0 /\ tx'[e].pending = {}
          /\ tx'[e].db = "begin" /\ tx'[e].latch = "pending" /\ ~tx'[e].aborted /\ ~tx'[e].timer
      BY Ground DEF OpenShared, Calls, Kind, Coercible, ExecutionKey, SuspendTimer, BumpTimer, NewShared, DurableOf, Fields, SharedTxState, ResolverCall, TypeInv, TypeOK
    <2>3. Kept(e) = {} /\ Kept(e)' = {} /\ DurableOf(e) = {}
      BY <2>0, <2>2, KeptStays, Ground DEF Atomic, Decided
    <2>4. AtField(e)'
      BY <2>0, <2>2, DocSame DEF Atomic, AtField
    <2>5. OneDiscipline(e)'
      BY <2>0, <2>2, DocSame DEF Atomic, OneDiscipline
    <2>6. Shares(e) => Undisturbed(e)'
      BY <2>0, <2>2, <2>3, DocSame, Ground DEF Atomic, OneDiscipline, Undisturbed
    <2>7. Shares(e) => Backed(e)'
      BY <2>0, <2>2, <2>3, DocSame, Ground DEF Atomic, OneDiscipline, AtField, Undisturbed, Backed, Write
    <2>8. Shares(e) => Decided(e)'
      BY <2>0, <2>2, <2>3, DocSame, Ground DEF Atomic, OneDiscipline, AtField, Undisturbed, Backed, Decided
    <2>9. Atomic(e)'
      BY <2>2, <2>4, <2>5, <2>6, <2>7, <2>8, DocSame DEF Atomic
    <2> QED
      BY <2>1, <2>9, Frame DEF AtomicInv
  <1>4. ASSUME NEW e \in Execution, JoinShared(e) PROVE AtomicInv'
    <2> USE <1>4
    <2>0. Atomic(e)
      BY DEF AtomicInv
    <2>1. \A f \in Execution \ {e} : Same(f)
      BY DEF Same, JoinShared, Calls, ExecutionKey, DurableOf, Fields, TypeInv, TypeOK
    <2>2. /\ doc' = doc /\ pos'[e] = pos[e] /\ outcome'[e] = outcome[e] /\ DurableOf(e)' = DurableOf(e)
          /\ pos[e] \in Coercible(e) /\ call[e].pc = "between" /\ states[e] = "shared" /\ states'[e] = "shared"
          /\ call'[e].pc = IF tx[e].aborted THEN "failFast" ELSE "awaitReady"
          /\ tx'[e] = IF tx[e].aborted THEN tx[e] ELSE SuspendTimer(tx[e])
      <3>1. /\ tx[e] \in SharedTxState /\ call[e] \in ResolverCall
            /\ tx \in [Execution -> SharedTxState] /\ call \in [Execution -> ResolverCall]
        BY DEF TypeInv, TypeOK
      <3>2. doc' = doc /\ pos'[e] = pos[e] /\ outcome'[e] = outcome[e] /\ DurableOf(e)' = DurableOf(e)
        BY DEF JoinShared, DurableOf, Fields
      <3>3. pos[e] \in Coercible(e)
        BY DEF JoinShared, Calls, Kind, Coercible
      <3>4. /\ call[e].pc = "between" /\ states[e] = "shared" /\ states'[e] = "shared"
            /\ call'[e].pc = IF tx[e].aborted THEN "failFast" ELSE "awaitReady"
        BY <3>1 DEF JoinShared, Calls, ExecutionKey, ResolverCall
      <3>5. tx'[e] = IF tx[e].aborted THEN tx[e] ELSE SuspendTimer(tx[e])
        BY <3>1 DEF JoinShared, ExecutionKey
      <3> QED
        BY <3>2, <3>3, <3>4, <3>5
    <2>10. /\ ~tx[e].aborted => ~tx'[e].timer
           /\ tx'[e].expected = tx[e].expected /\ tx'[e].completed = tx[e].completed
           /\ tx'[e].pending = tx[e].pending /\ tx'[e].db = tx[e].db
           /\ tx'[e].latch = tx[e].latch /\ tx'[e].aborted = tx[e].aborted
           /\ tx[e].latch \in {"pending", "released", "rejected"}
      BY <2>2, Ground DEF SuspendTimer, SharedTxState
    <2>3. Kept(e)' = Kept(e)
      BY <2>2, KeptStays
    <2>4. AtField(e)'
      BY <2>0, <2>2, <2>10, DocSame DEF Atomic, AtField
    <2>5. OneDiscipline(e)'
      BY <2>0, <2>2, <2>10, DocSame DEF Atomic, OneDiscipline
    <2>6. Shares(e) => Undisturbed(e)'
      BY <2>0, <2>2, <2>3, <2>10, DocSame, Ground DEF Atomic, OneDiscipline, Undisturbed, Backed
    <2>7. Shares(e) => Backed(e)'
      BY <2>0, <2>2, <2>3, <2>10, DocSame, Ground DEF Atomic, OneDiscipline, AtField, Undisturbed, Backed, Write
    <2>8. Shares(e) => Decided(e)'
      BY <2>0, <2>2, <2>3, <2>10, DocSame, Ground DEF Atomic, OneDiscipline, AtField, Undisturbed, Backed, Decided
    <2>9. Atomic(e)'
      BY <2>2, <2>4, <2>5, <2>6, <2>7, <2>8, DocSame DEF Atomic
    <2> QED
      BY <2>1, <2>9, Frame DEF AtomicInv
  <1>5. ASSUME NEW e \in Execution, SharedThrows(e) PROVE AtomicInv'
    <2> USE <1>5
    <2>0. Atomic(e)
      BY DEF AtomicInv
    <2>1. \A f \in Execution \ {e} : Same(f)
      BY DEF Same, SharedThrows, ExecutionKey, DurableOf, Fields, TypeInv, TypeOK
    <2>2. /\ doc' = doc /\ pos'[e] = pos[e] /\ outcome'[e] = outcome[e] /\ DurableOf(e)' = DurableOf(e)
          /\ call[e].pc = "body" /\ call[e].unit = "shared" /\ call'[e].pc = "unwind" /\ states'[e] = states[e]
          /\ tx'[e].expected = tx[e].expected /\ tx'[e].completed = tx[e].completed /\ tx'[e].pending = tx[e].pending
          /\ tx'[e].db = tx[e].db /\ tx'[e].aborted /\ tx'[e].latch = IF tx[e].latch = "pending" THEN "rejected" ELSE tx[e].latch
      BY Ground DEF SharedThrows, ExecutionKey, Abort, Idle, DurableOf, Fields, SharedTxState, ResolverCall, TypeInv, TypeOK
    <2>3. Kept(e)' = Kept(e)
      BY <2>2, KeptStays
    <2>4. AtField(e)'
      BY <2>0, <2>2, DocSame DEF Atomic, AtField
    <2>5. OneDiscipline(e)'
      BY <2>0, <2>2, DocSame DEF Atomic, OneDiscipline
    <2>6. Shares(e) => Undisturbed(e)'
      BY <2>0, <2>2, <2>3, DocSame, Ground DEF Atomic, OneDiscipline, Undisturbed
    <2>7. Shares(e) => Backed(e)'
      BY <2>0, <2>2, <2>3, DocSame, Ground DEF Atomic, OneDiscipline, AtField, Undisturbed, Backed, Write
    <2>8. Shares(e) => Decided(e)'
      BY <2>0, <2>2, <2>3, DocSame, Ground DEF Atomic, OneDiscipline, AtField, Undisturbed, Backed, Decided
    <2>9. Atomic(e)'
      BY <2>2, <2>4, <2>5, <2>6, <2>7, <2>8, DocSame DEF Atomic
    <2> QED
      BY <2>1, <2>9, Frame DEF AtomicInv
  <1>6. ASSUME NEW e \in Execution, TimerFires(e) PROVE AtomicInv'
    <2> USE <1>6
    <2>0. Atomic(e)
      BY DEF AtomicInv
    <2>1. \A f \in Execution \ {e} : Same(f)
      BY DEF Same, TimerFires, DurableOf, Fields, TypeInv, TypeOK
    <2>2. /\ doc' = doc /\ pos'[e] = pos[e] /\ outcome'[e] = outcome[e] /\ DurableOf(e)' = DurableOf(e)
          /\ call'[e].pc = call[e].pc /\ call'[e].unit = call[e].unit /\ call'[e].wrote = call[e].wrote
          /\ tx[e].timer /\ ~tx'[e].timer /\ states'[e] = states[e]
          /\ tx'[e].expected = tx[e].expected /\ tx'[e].completed = tx[e].completed /\ tx'[e].pending = tx[e].pending
          /\ tx'[e].db = tx[e].db /\ tx'[e].aborted /\ tx'[e].latch = IF tx[e].latch = "pending" THEN "rejected" ELSE tx[e].latch
      BY Ground DEF TimerFires, Abort, TimeOut, SuspendTimer, DurableOf, Fields, SharedTxState, ResolverCall, TypeInv, TypeOK
    <2>3. Kept(e)' = Kept(e)
      BY <2>2, KeptStays
    <2>4. AtField(e)'
      BY <2>0, <2>2, DocSame DEF Atomic, AtField
    <2>5. OneDiscipline(e)'
      BY <2>0, <2>2, DocSame DEF Atomic, OneDiscipline
    <2>6. Shares(e) => Undisturbed(e)'
      BY <2>0, <2>2, <2>3, DocSame, Ground DEF Atomic, OneDiscipline, Undisturbed
    <2>7. Shares(e) => Backed(e)'
      BY <2>0, <2>2, <2>3, DocSame, Ground DEF Atomic, OneDiscipline, AtField, Undisturbed, Backed, Write
    <2>8. Shares(e) => Decided(e)'
      BY <2>0, <2>2, <2>3, DocSame, Ground DEF Atomic, OneDiscipline, AtField, Undisturbed, Backed, Decided
    <2>9. Atomic(e)'
      BY <2>2, <2>4, <2>5, <2>6, <2>7, <2>8, DocSame DEF Atomic
    <2> QED
      BY <2>1, <2>9, Frame DEF AtomicInv
  <1>7. ASSUME NEW e \in Execution, HostStops(e) PROVE AtomicInv'
    <2> USE <1>7
    <2>0. Atomic(e)
      BY DEF AtomicInv
    <2>1. \A f \in Execution \ {e} : Same(f)
      BY DEF Same, HostStops, DurableOf, Fields, TypeInv, TypeOK
    <2>2. /\ doc' = doc /\ pos'[e] = pos[e] /\ outcome'[e] = outcome[e] /\ DurableOf(e)' = DurableOf(e)
          /\ states'[e] = states[e] /\ tx'[e] = tx[e]
          /\ call[e].pc = "between" /\ call'[e].pc = "stopped"
      BY Ground DEF HostStops, DurableOf, Fields, SharedTxState, ResolverCall, TypeInv, TypeOK
    <2>3. Kept(e)' = Kept(e)
      BY <2>2, KeptStays
    <2>4. AtField(e)'
      BY <2>0, <2>2, DocSame DEF Atomic, AtField
    <2>5. OneDiscipline(e)'
      BY <2>0, <2>2, DocSame DEF Atomic, OneDiscipline
    <2>6. Shares(e) => Undisturbed(e)'
      BY <2>0, <2>2, <2>3, DocSame, Ground DEF Atomic, OneDiscipline, Undisturbed
    <2>7. Shares(e) => Backed(e)'
      BY <2>0, <2>2, <2>3, DocSame, Ground DEF Atomic, OneDiscipline, AtField, Undisturbed, Backed, Write
    <2>8. Shares(e) => Decided(e)'
      BY <2>0, <2>2, <2>3, DocSame, Ground DEF Atomic, OneDiscipline, AtField, Undisturbed, Backed, Decided
    <2>9. Atomic(e)'
      BY <2>2, <2>4, <2>5, <2>6, <2>7, <2>8, DocSame DEF Atomic
    <2> QED
      BY <2>1, <2>9, Frame DEF AtomicInv
  <1>8. ASSUME NEW e \in Execution, SharedBegins(e) PROVE AtomicInv'
    <2> USE <1>8
    <2>0. Atomic(e)
      BY DEF AtomicInv
    <2>1. \A f \in Execution \ {e} : Same(f)
      BY DEF Same, SharedBegins, DurableOf, Fields, TypeInv, TypeOK
    <2>2. /\ doc' = doc /\ pos'[e] = pos[e] /\ outcome'[e] = outcome[e] /\ DurableOf(e)' = DurableOf(e)
          /\ call'[e].pc = call[e].pc /\ call'[e].unit = call[e].unit /\ call'[e].wrote = call[e].wrote
          /\ states'[e] = states[e] /\ tx[e].db = "begin" /\ tx'[e].db = "open"
          /\ tx'[e].expected = tx[e].expected /\ tx'[e].completed = tx[e].completed /\ tx'[e].pending = tx[e].pending
          /\ tx'[e].latch = tx[e].latch /\ tx'[e].aborted = tx[e].aborted /\ tx'[e].timer = tx[e].timer
      BY Ground DEF SharedBegins, DurableOf, Fields, SharedTxState, ResolverCall, TypeInv, TypeOK
    <2>3. Kept(e)' = Kept(e)
      BY <2>2, KeptStays
    <2>4. AtField(e)'
      BY <2>0, <2>2, DocSame DEF Atomic, AtField
    <2>5. OneDiscipline(e)'
      BY <2>0, <2>2, DocSame DEF Atomic, OneDiscipline
    <2>6. Shares(e) => Undisturbed(e)'
      BY <2>0, <2>2, <2>3, DocSame, Ground DEF Atomic, OneDiscipline, Undisturbed
    <2>7. Shares(e) => Backed(e)'
      BY <2>0, <2>2, <2>3, DocSame, Ground DEF Atomic, OneDiscipline, AtField, Undisturbed, Backed, Write
    <2>8. Shares(e) => Decided(e)'
      BY <2>0, <2>2, <2>3, DocSame, Ground DEF Atomic, OneDiscipline, AtField, Undisturbed, Backed, Decided
    <2>9. Atomic(e)'
      BY <2>2, <2>4, <2>5, <2>6, <2>7, <2>8, DocSame DEF Atomic
    <2> QED
      BY <2>1, <2>9, Frame DEF AtomicInv
  <1>9. ASSUME NEW e \in Execution, SharedBeginFails(e) PROVE AtomicInv'
    <2> USE <1>9
    <2>0. Atomic(e)
      BY DEF AtomicInv
    <2>1. \A f \in Execution \ {e} : Same(f)
      BY DEF Same, SharedBeginFails, CleansUp, DurableOf, Fields, TypeInv, TypeOK
    <2>2. /\ doc' = doc /\ pos'[e] = pos[e] /\ outcome'[e] = outcome[e] /\ DurableOf(e)' = DurableOf(e)
          /\ call'[e].pc = call[e].pc /\ call'[e].unit = call[e].unit /\ call'[e].wrote = call[e].wrote
          /\ tx[e].db = "begin" /\ tx'[e].db = "beginFailed" /\ ~tx'[e].timer
          /\ states'[e] = IF tx[e].aborted THEN states[e] ELSE "none"
          /\ tx'[e].expected = tx[e].expected /\ tx'[e].completed = tx[e].completed /\ tx'[e].pending = {}
          /\ tx'[e].latch = tx[e].latch /\ tx'[e].aborted = tx[e].aborted
      BY Ground DEF SharedBeginFails, CleansUp, DurableOf, Fields, SharedTxState, ResolverCall, TypeInv, TypeOK
    <2>3. Kept(e)' = Kept(e)
      BY <2>2, KeptStays
    <2>4. AtField(e)'
      BY <2>0, <2>2, DocSame DEF Atomic, AtField
    <2>5. OneDiscipline(e)'
      BY <2>0, <2>2, DocSame DEF Atomic, OneDiscipline
    <2>6. Shares(e) => Undisturbed(e)'
      BY <2>0, <2>2, <2>3, DocSame, Ground DEF Atomic, OneDiscipline, Undisturbed
    <2>7. Shares(e) => Backed(e)'
      BY <2>0, <2>2, <2>3, DocSame, Ground DEF Atomic, OneDiscipline, AtField, Undisturbed, Backed, Write
    <2>8. Shares(e) => Decided(e)'
      BY <2>0, <2>2, <2>3, DocSame, Ground DEF Atomic, OneDiscipline, AtField, Undisturbed, Backed, Decided
    <2>9. Atomic(e)'
      BY <2>2, <2>4, <2>5, <2>6, <2>7, <2>8, DocSame DEF Atomic
    <2> QED
      BY <2>1, <2>9, Frame DEF AtomicInv
  <1>10. ASSUME NEW e \in Execution, SharedRollsBack(e) PROVE AtomicInv'
    <2> USE <1>10
    <2>0. Atomic(e)
      BY DEF AtomicInv
    <2>1. \A f \in Execution \ {e} : Same(f)
      BY DEF Same, SharedRollsBack, CleansUp, DurableOf, Fields, TypeInv, TypeOK
    <2>2. /\ doc' = doc /\ pos'[e] = pos[e] /\ outcome'[e] = outcome[e] /\ DurableOf(e)' = DurableOf(e)
          /\ call'[e].pc = call[e].pc /\ call'[e].unit = call[e].unit /\ call'[e].wrote = call[e].wrote
          /\ tx[e].db = "open" /\ tx[e].latch \in {"released", "rejected"} /\ tx'[e].db = "rolledBack" /\ ~tx'[e].timer
          /\ states'[e] = IF tx[e].aborted THEN states[e] ELSE "none"
          /\ tx'[e].expected = tx[e].expected /\ tx'[e].completed = tx[e].completed /\ tx'[e].pending = {}
          /\ tx'[e].latch = tx[e].latch /\ tx'[e].aborted = tx[e].aborted
      BY Ground DEF SharedRollsBack, CleansUp, DurableOf, Fields, SharedTxState, ResolverCall, TypeInv, TypeOK
    <2>3. Kept(e)' = Kept(e)
      BY <2>2, KeptStays
    <2>4. AtField(e)'
      BY <2>0, <2>2, DocSame DEF Atomic, AtField
    <2>5. OneDiscipline(e)'
      BY <2>0, <2>2, DocSame DEF Atomic, OneDiscipline
    <2>6. Shares(e) => Undisturbed(e)'
      BY <2>0, <2>2, <2>3, DocSame, Ground DEF Atomic, OneDiscipline, Undisturbed
    <2>7. Shares(e) => Backed(e)'
      BY <2>0, <2>2, <2>3, DocSame, Ground DEF Atomic, OneDiscipline, AtField, Undisturbed, Backed, Write
    <2>10. \A i \in Kept(e) : i <= pos[e]
      BY <2>0, KeptBehind DEF Atomic
    <2>8. Shares(e) => Decided(e)'
      BY <2>10, <2>0, <2>2, <2>3, DocSame, Ground DEF Atomic, OneDiscipline, AtField, Undisturbed, Backed, Decided
    <2>9. Atomic(e)'
      BY <2>2, <2>4, <2>5, <2>6, <2>7, <2>8, DocSame DEF Atomic
    <2> QED
      BY <2>1, <2>9, Frame DEF AtomicInv
  <1>11. ASSUME NEW e \in Execution, SharedCommits(e) PROVE AtomicInv'
    <2> USE <1>11
    <2>0. Atomic(e)
      BY DEF AtomicInv
    <2>1. \A f \in Execution \ {e} : Same(f)
      BY <2>0 DEF Same, SharedCommits, CleansUp, DurableOf, Fields, TypeInv, TypeOK, Atomic, OneDiscipline, Backed
    <2>2. /\ doc' = doc /\ pos'[e] = pos[e] /\ outcome'[e] = outcome[e] /\ DurableOf(e)' = {i \in Fields(e) : <<e, i>> \in durable \cup tx[e].pending}
          /\ call'[e].pc = call[e].pc /\ call'[e].unit = call[e].unit /\ call'[e].wrote = call[e].wrote
          /\ tx[e].db = "open" /\ tx[e].latch = "released" /\ tx'[e].db = "committed" /\ ~tx'[e].timer
          /\ states'[e] = IF tx[e].aborted THEN states[e] ELSE "none"
          /\ tx'[e].expected = tx[e].expected /\ tx'[e].completed = tx[e].completed /\ tx'[e].pending = {}
          /\ tx'[e].latch = tx[e].latch /\ tx'[e].aborted = tx[e].aborted
      BY <2>0, Ground DEF SharedCommits, CleansUp, DurableOf, Fields, SharedTxState, ResolverCall, TypeInv, TypeOK
    <2>3. Kept(e)' = Kept(e)
      BY <2>2, KeptStays
    <2>4. AtField(e)'
      BY <2>0, <2>2, DocSame DEF Atomic, AtField
    <2>5. OneDiscipline(e)'
      BY <2>0, <2>2, DocSame DEF Atomic, OneDiscipline
    <2>6. Shares(e) => Undisturbed(e)'
      BY <2>0, <2>2, <2>3, DocSame, Ground DEF Atomic, OneDiscipline, Undisturbed
    <2>7. Shares(e) => Backed(e)'
      BY <2>0, <2>2, <2>3, DocSame, Ground DEF Atomic, OneDiscipline, AtField, Undisturbed, Backed, Write
    <2>10. Shares(e) => /\ \A i \in Kept(e) : i <= pos[e]
                        /\ DurableOf(e)' = Coercible(e) /\ Kept(e) = Coercible(e)
                        /\ call[e].pc = "commit"
      <3>1. \A i \in Kept(e) : i <= pos[e]
        BY <2>0, KeptBehind DEF Atomic
      <3>2. ASSUME Shares(e)
            PROVE  /\ Kept(e) = Coercible(e) /\ call[e].pc = "commit" /\ DurableOf(e) = {}
                   /\ {e} \X Coercible(e) \subseteq tx[e].pending
                   /\ tx[e].pending \subseteq {e} \X Coercible(e)
        BY <2>0, <2>2, <3>2 DEF Atomic, Backed, Decided
      <3>3. ASSUME Shares(e) PROVE DurableOf(e)' = Coercible(e)
        <4>1. \A i \in Fields(e) : <<e, i>> \in tx[e].pending <=> i \in Coercible(e)
          BY <3>2, <3>3
        <4>2. \A i \in Fields(e) : <<e, i>> \notin durable
          BY <3>2, <3>3 DEF DurableOf
        <4> QED
          BY <2>2, <4>1, <4>2, Ground
      <3> QED
        BY <3>1, <3>2, <3>3
    <2>8. Shares(e) => Decided(e)'
      BY <2>10, <2>0, <2>2, <2>3, DocSame, Ground DEF Atomic, OneDiscipline, AtField, Undisturbed, Backed, Decided
    <2>9. Atomic(e)'
      BY <2>2, <2>4, <2>5, <2>6, <2>7, <2>8, DocSame DEF Atomic
    <2> QED
      BY <2>1, <2>9, Frame DEF AtomicInv
  <1>12. ASSUME NEW e \in Execution, Statement(e) PROVE AtomicInv'
    <2> USE <1>12
    <2>0. Atomic(e)
      BY DEF AtomicInv
    <2>1. \A f \in Execution \ {e} : Same(f)
      BY DEF Same, Statement, ExecutionKey, Write, DurableOf, Fields, TypeInv, TypeOK
    <2>2. /\ doc' = doc /\ pos'[e] = pos[e] /\ outcome'[e] = outcome[e]
          /\ Shares(e) => DurableOf(e)' = DurableOf(e)
          /\ call[e].pc = "body" /\ call'[e].pc = "body" /\ call'[e].unit = call[e].unit /\ states'[e] = states[e]
          /\ tx'[e].pending = IF call[e].unit = "shared" THEN tx[e].pending \cup {Write(e)} ELSE tx[e].pending
          /\ tx'[e].expected = tx[e].expected /\ tx'[e].completed = tx[e].completed /\ tx'[e].timer = tx[e].timer
          /\ tx'[e].db = tx[e].db /\ tx'[e].latch = tx[e].latch /\ tx'[e].aborted = tx[e].aborted
      BY <2>0, Ground DEF Statement, ExecutionKey, Atomic, OneDiscipline, DurableOf, Fields, SharedTxState, ResolverCall, TypeInv, TypeOK
    <2>3. Kept(e)' = Kept(e)
      BY <2>2, KeptStays
    <2>4. AtField(e)'
      BY <2>0, <2>2, DocSame DEF Atomic, AtField
    <2>5. OneDiscipline(e)'
      BY <2>0, <2>2, DocSame DEF Atomic, OneDiscipline
    <2>6. Shares(e) => Undisturbed(e)'
      BY <2>0, <2>2, <2>3, DocSame, Ground DEF Atomic, OneDiscipline, Undisturbed
    <2>7. Shares(e) => Backed(e)'
      BY <2>0, <2>2, <2>3, DocSame, Ground DEF Atomic, OneDiscipline, AtField, Undisturbed, Backed, Write
    <2>8. Shares(e) => Decided(e)'
      BY <2>0, <2>2, <2>3, DocSame, Ground DEF Atomic, OneDiscipline, AtField, Undisturbed, Backed, Decided
    <2>9. Atomic(e)'
      BY <2>2, <2>4, <2>5, <2>6, <2>7, <2>8, DocSame DEF Atomic
    <2> QED
      BY <2>1, <2>9, Frame DEF AtomicInv
  <1>13. ASSUME NEW e \in Execution, StartOwn(e) PROVE AtomicInv'
    <2> USE <1>13
    <2>0. Atomic(e)
      BY DEF AtomicInv
    <2>1. \A f \in Execution \ {e} : Same(f)
      BY DEF Same, StartOwn, Calls, ExecutionKey, DurableOf, Fields, TypeInv, TypeOK
    <2>2. /\ doc' = doc /\ pos'[e] = pos[e] /\ outcome'[e] = outcome[e]
          /\ ~Shares(e) /\ tx'[e] = tx[e]
          /\ pos[e] \in Coercible(e) /\ call'[e].pc \in {"ownBegin", "body"} /\ (call'[e].pc = "body" => call'[e].unit = "db")
          /\ call'[e].pc = "ownBegin" => call'[e].unit = "tx"
          /\ states'[e] \in {"none", "passthrough"}
      BY <2>0, Ground DEF StartOwn, Calls, Kind, Coercible, ExecutionKey, Idle, Atomic, OneDiscipline, SharedTxState, ResolverCall, TypeInv, TypeOK
    <2>4. AtField(e)'
      BY <2>0, <2>2, DocSame DEF Atomic, AtField
    <2>5. OneDiscipline(e)'
      BY <2>0, <2>2, DocSame DEF Atomic, OneDiscipline
    <2>9. Atomic(e)'
      BY <2>2, <2>4, <2>5, DocSame DEF Atomic
    <2> QED
      BY <2>1, <2>9, Frame DEF AtomicInv
  <1>14. ASSUME NEW e \in Execution, OwnReturns(e) PROVE AtomicInv'
    <2> USE <1>14
    <2>0. Atomic(e)
      BY DEF AtomicInv
    <2>1. \A f \in Execution \ {e} : Same(f)
      BY DEF Same, OwnReturns, DurableOf, Fields, TypeInv, TypeOK
    <2>2. /\ doc' = doc /\ pos'[e] = pos[e] /\ outcome'[e] = outcome[e]
          /\ ~Shares(e) /\ tx'[e] = tx[e] /\ states'[e] = states[e]
          /\ call[e].pc = "body" /\ call'[e].pc \in {"ownCommit", "callbacks"}
      BY <2>0, Ground DEF OwnReturns, Idle, Atomic, OneDiscipline, SharedTxState, ResolverCall, TypeInv, TypeOK
    <2>4. AtField(e)'
      BY <2>0, <2>2, DocSame DEF Atomic, AtField
    <2>5. OneDiscipline(e)'
      BY <2>0, <2>2, DocSame DEF Atomic, OneDiscipline
    <2>9. Atomic(e)'
      BY <2>2, <2>4, <2>5, DocSame DEF Atomic
    <2> QED
      BY <2>1, <2>9, Frame DEF AtomicInv
  <1>15. ASSUME NEW e \in Execution, SkipField(e) PROVE AtomicInv'
    <2> USE <1>15
    <2>0. Atomic(e)
      BY DEF AtomicInv
    <2>1. \A f \in Execution \ {e} : Same(f)
      BY DEF Same, SkipField, Answer, DurableOf, Fields, TypeInv, TypeOK
    <2>2. Kind(e) \in Outcome \ ({"none", "ok"} \cup Failures) /\ pos[e] \in Fields(e)
      <3>1. doc[e] \in Seq(RootField) /\ pos[e] \in 1..Len(doc[e])
        BY DocumentsAssumption DEF SkipField, Fields, TypeInv, TypeOK
      <3> QED
        BY <3>1 DEF SkipField, Kind, Outcome, Failures, Fields
    <2>9. Atomic(e)'
      <3>1. Shares(e) => tx[e].db # "begin"
        BY <2>0 DEF Atomic, Undisturbed, SkipField
      <3>2. DurableOf(e)' = DurableOf(e)
        BY DEF SkipField, DurableOf, Fields
      <3> QED
        BY <2>0, <2>2, <3>1, <3>2, AnswerAtomic DEF SkipField
    <2> QED
      BY <2>1, <2>9, Frame DEF AtomicInv
  <1>16. ASSUME NEW e \in Execution, ReadyResumes(e) PROVE AtomicInv'
    <2> USE <1>16
    <2>0. Atomic(e)
      BY DEF AtomicInv
    <2>1. \A f \in Execution \ {e} : Same(f)
      BY DEF Same, ReadyResumes, Answer, ExecutionKey, DurableOf, Fields, TypeInv, TypeOK
    <2>2. pos[e] \in Coercible(e) /\ pos[e] \in Fields(e) /\ DurableOf(e)' = DurableOf(e)
          /\ Shares(e) /\ tx[e].db # "begin"
      BY <2>0 DEF ReadyResumes, ExecutionKey, Atomic, AtField, OneDiscipline, Coercible, DurableOf, Fields
    <2>3. CASE tx[e].db = "beginFailed"
      <3>1. Atomic(e)'
        BY <2>0, <2>2, <2>3, AnswerAtomic DEF ReadyResumes, ExecutionKey, Outcome, Failures
      <3> QED
        BY <2>1, <3>1, Frame DEF AtomicInv
    <2>4. CASE tx[e].db # "beginFailed"
      <3>1. tx[e].db = "open" /\ ~tx[e].aborted
        BY <2>0, <2>2, <2>4 DEF ReadyResumes, Atomic, Undisturbed
      <3>2. /\ doc' = doc /\ pos'[e] = pos[e] /\ outcome'[e] = outcome[e] /\ states'[e] = states[e]
            /\ tx'[e] = tx[e] /\ call[e].pc = "awaitReady" /\ call'[e].pc = "body"
            /\ call'[e].unit = "shared" /\ ~call'[e].wrote
        <4>1. call' = [call EXCEPT ![e] = [Idle EXCEPT !.pc = "body", !.unit = "shared", !.open = TRUE]]
          BY <2>4, <3>1 DEF ReadyResumes, ExecutionKey
        <4>2. call'[e] = [Idle EXCEPT !.pc = "body", !.unit = "shared", !.open = TRUE]
          BY <4>1 DEF TypeInv, TypeOK
        <4>3. call'[e].pc = "body" /\ call'[e].unit = "shared" /\ ~call'[e].wrote
          BY <4>2 DEF Idle
        <4> QED
          BY <2>4, <4>3 DEF ReadyResumes, ExecutionKey
      <3>3. Kept(e)' = Kept(e)
        BY <3>2, KeptStays
      <3>4. AtField(e)' /\ OneDiscipline(e)'
        BY <2>0, <2>2, <3>2, DocSame DEF Atomic, AtField, OneDiscipline
      <3>5. Undisturbed(e)'
        BY <2>0, <2>2, <3>1, <3>2, <3>3 DEF Atomic, Undisturbed
      <3>6. Backed(e)'
        BY <2>0, <2>2, <3>1, <3>2, <3>3, DocSame DEF Atomic, Undisturbed, Backed
      <3>7. Decided(e)'
        BY <2>0, <2>2, <3>1, <3>2, <3>3, DocSame DEF Atomic, Decided
      <3>8. Atomic(e)'
        BY <3>4, <3>5, <3>6, <3>7 DEF Atomic
      <3> QED
        BY <2>1, <3>8, Frame DEF AtomicInv
    <2> QED
      BY <2>3, <2>4
  <1>17. ASSUME NEW e \in Execution, UnwindResumes(e) PROVE AtomicInv'
    <2> USE <1>17
    <2>0. Atomic(e)
      BY DEF AtomicInv
    <2>1. \A f \in Execution \ {e} : Same(f)
      BY DEF Same, UnwindResumes, Answer, DurableOf, Fields, TypeInv, TypeOK
    <2> DEFINE how == IF call[e].pc = "unwind" THEN "error"
                      ELSE IF tx[e].timedOut THEN "timedOut" ELSE "aborted"
    <2>2. how \in Failures /\ Answer(e, how) /\ DurableOf(e)' = DurableOf(e)
      BY DEF UnwindResumes, ExecutionKey, Failures, DurableOf, Fields
    <2>3. pos[e] \in Coercible(e) /\ pos[e] \in Fields(e)
      BY <2>0 DEF UnwindResumes, Atomic, AtField, Coercible
    <2> HIDE DEF how
    <2>9. Atomic(e)'
      BY <2>0, <2>2, <2>3, AnswerAtomic DEF UnwindResumes, Outcome, Failures, Atomic, Undisturbed
    <2> QED
      BY <2>1, <2>9, Frame DEF AtomicInv
  <1>18. ASSUME NEW e \in Execution, CallbacksDone(e) PROVE AtomicInv'
    <2> USE <1>18
    <2>0. Atomic(e)
      BY DEF AtomicInv
    <2>1. \A f \in Execution \ {e} : Same(f)
      BY DEF Same, CallbacksDone, Answer, DurableOf, Fields, TypeInv, TypeOK
    <2>2. pos[e] \in Coercible(e) /\ pos[e] \in Fields(e) /\ pos[e] \in Kept(e)
      BY <2>0 DEF CallbacksDone, Atomic, AtField, Coercible, Kept
    <2>9. Atomic(e)'
      <3>1. DurableOf(e)' = DurableOf(e)
        BY DEF CallbacksDone, DurableOf, Fields
      <3> QED
        BY <2>0, <2>2, <3>1, AnswerAtomic DEF CallbacksDone, Outcome, Failures, Atomic, Undisturbed
    <2> QED
      BY <2>1, <2>9, Frame DEF AtomicInv
  <1>19. ASSUME NEW e \in Execution, OwnThrows(e) PROVE AtomicInv'
    <2> USE <1>19
    <2>0. Atomic(e)
      BY DEF AtomicInv
    <2>1. \A f \in Execution \ {e} : Same(f)
      BY DEF Same, OwnThrows, Answer, DurableOf, Fields, TypeInv, TypeOK
    <2>2. ~Shares(e) /\ pos[e] \in Coercible(e) /\ pos[e] \in Fields(e) /\ call[e].pc \notin {"commit", "callbacks"}
      BY <2>0 DEF OwnThrows, Atomic, AtField, OneDiscipline, Coercible
    <2>3. ASSUME NEW how \in {"error", "noBegin"}, Answer(e, how), UNCHANGED <<doc, states, tx, durable>>
          PROVE  Atomic(e)'
      <3>1. DurableOf(e)' = DurableOf(e)
        BY <2>3 DEF DurableOf, Fields
      <3> QED
        BY <2>0, <2>2, <2>3, <3>1, AnswerAtomic DEF Outcome, Failures
    <2>4. ASSUME call' = [call EXCEPT ![e].pc = "ownRollback"], UNCHANGED <<pos, outcome>>
          PROVE  Atomic(e)'
      <3>1. /\ doc' = doc /\ pos'[e] = pos[e] /\ outcome'[e] = outcome[e] /\ states'[e] = states[e]
            /\ tx'[e] = tx[e] /\ call'[e].pc = "ownRollback"
        BY <2>4, Ground DEF OwnThrows, Idle, ResolverCall, TypeInv, TypeOK
      <3>2. AtField(e)'
        BY <2>0, <2>2, <3>1, DocSame DEF Atomic, AtField
      <3>3. OneDiscipline(e)'
        BY <2>0, <2>2, <3>1, DocSame DEF Atomic, OneDiscipline
      <3> QED
        BY <2>2, <3>1, <3>2, <3>3, DocSame DEF Atomic
    <2>9. Atomic(e)'
      BY <2>3, <2>4 DEF OwnThrows
    <2> QED
      BY <2>1, <2>9, Frame DEF AtomicInv
  <1>20. ASSUME NEW e \in Execution, OwnBegins(e) PROVE AtomicInv'
    <2> USE <1>20
    <2>0. Atomic(e)
      BY DEF AtomicInv
    <2>1. \A f \in Execution \ {e} : Same(f)
      BY DEF Same, OwnBegins, Answer, DurableOf, Fields, TypeInv, TypeOK
    <2>2. call[e].unit = "tx" /\ ~Shares(e) /\ pos[e] \in Coercible(e) /\ pos[e] \in Fields(e) /\ call[e].pc \notin {"commit", "callbacks"}
      BY <2>0 DEF OwnBegins, Atomic, AtField, OneDiscipline, Coercible
    <2>3. ASSUME NEW how \in {"error", "noBegin"}, Answer(e, how), UNCHANGED <<doc, states, tx, durable>>
          PROVE  Atomic(e)'
      <3>1. DurableOf(e)' = DurableOf(e)
        BY <2>3 DEF DurableOf, Fields
      <3> QED
        BY <2>0, <2>2, <2>3, <3>1, AnswerAtomic DEF Outcome, Failures
    <2>4. ASSUME call' = [call EXCEPT ![e].pc = "body", ![e].open = TRUE], UNCHANGED <<pos, outcome>>
          PROVE  Atomic(e)'
      <3>1. /\ doc' = doc /\ pos'[e] = pos[e] /\ outcome'[e] = outcome[e] /\ states'[e] = states[e]
            /\ tx'[e] = tx[e] /\ call'[e].pc = "body" /\ call'[e].unit = call[e].unit
        BY <2>4, Ground DEF OwnBegins, Idle, ResolverCall, TypeInv, TypeOK
      <3>2. AtField(e)'
        BY <2>0, <2>2, <3>1, DocSame DEF Atomic, AtField
      <3>3. OneDiscipline(e)'
        BY <2>0, <2>2, <3>1, DocSame DEF Atomic, OneDiscipline
      <3> QED
        BY <2>2, <3>1, <3>2, <3>3, DocSame DEF Atomic
    <2>9. Atomic(e)'
      BY <2>3, <2>4 DEF OwnBegins
    <2> QED
      BY <2>1, <2>9, Frame DEF AtomicInv
  <1>21. ASSUME NEW e \in Execution, OwnSettles(e) PROVE AtomicInv'
    <2> USE <1>21
    <2>0. Atomic(e)
      BY DEF AtomicInv
    <2>1. \A f \in Execution \ {e} : Same(f)
      BY DEF Same, OwnSettles, Write, Answer, DurableOf, Fields, TypeInv, TypeOK
    <2>2. ~Shares(e) /\ pos[e] \in Coercible(e) /\ pos[e] \in Fields(e) /\ call[e].pc \notin {"commit", "callbacks"}
      BY <2>0 DEF OwnSettles, Atomic, AtField, OneDiscipline, Coercible
    <2>3. ASSUME NEW how \in {"error", "noBegin"}, Answer(e, how), UNCHANGED <<doc, states, tx, durable>>
          PROVE  Atomic(e)'
      <3>1. DurableOf(e)' = DurableOf(e)
        BY <2>3 DEF DurableOf, Fields
      <3> QED
        BY <2>0, <2>2, <2>3, <3>1, AnswerAtomic DEF Outcome, Failures
    <2>4. ASSUME call' = [call EXCEPT ![e] = [Idle EXCEPT !.pc = "callbacks", !.todo = call[e].queue]],
                 UNCHANGED <<doc, pos, outcome, states, tx>>
          PROVE  Atomic(e)'
      <3>1. /\ doc' = doc /\ pos'[e] = pos[e] /\ outcome'[e] = outcome[e] /\ states'[e] = states[e]
            /\ tx'[e] = tx[e] /\ call'[e].pc = "callbacks"
        BY <2>4, Ground DEF OwnSettles, Idle, ResolverCall, TypeInv, TypeOK
      <3>2. AtField(e)'
        BY <2>0, <2>2, <3>1, DocSame DEF Atomic, AtField
      <3>3. OneDiscipline(e)'
        BY <2>0, <2>2, <3>1, DocSame DEF Atomic, OneDiscipline
      <3> QED
        BY <2>2, <3>1, <3>2, <3>3, DocSame DEF Atomic
    <2>9. Atomic(e)'
      BY <2>3, <2>4 DEF OwnSettles
    <2> QED
      BY <2>1, <2>9, Frame DEF AtomicInv
  <1>22. ASSUME NEW e \in Execution, CommitResumes(e) PROVE AtomicInv'
    <2> USE <1>22
    <2>0. Atomic(e)
      BY DEF AtomicInv
    <2>1. \A f \in Execution \ {e} : Same(f)
      BY DEF Same, CommitResumes, Answer, ExecutionKey, DurableOf, Fields, TypeInv, TypeOK
    <2>2. /\ call[e].pc = "commit" /\ pos[e] \in Coercible(e) /\ pos[e] \in Fields(e) /\ pos[e] \in Kept(e)
          /\ Shares(e) /\ tx[e].db \in {"committed", "rolledBack"} /\ doc' = doc
          /\ DurableOf(e)' = DurableOf(e) /\ states'[e] = states[e]
      BY <2>0 DEF CommitResumes, Done, ExecutionKey, Atomic, AtField, OneDiscipline, Undisturbed,
                  Coercible, Kept, DurableOf, Fields
    <2>3. CASE tx[e].db = "committed"
      <3>1. /\ pos'[e] = pos[e] /\ outcome'[e] = outcome[e] /\ call'[e].pc = "callbacks"
            /\ tx'[e].db = tx[e].db /\ tx'[e].expected = tx[e].expected /\ tx'[e].pending = tx[e].pending
            /\ tx'[e].latch = tx[e].latch /\ tx'[e].aborted = tx[e].aborted
        <4>1. /\ tx' = [tx EXCEPT ![e].commits = <<>>, ![e].closed = TRUE] /\ UNCHANGED <<pos, outcome>>
              /\ call' = [call EXCEPT ![e] = [Idle EXCEPT !.pc = "callbacks", !.todo = tx[e].commits]]
          BY <2>3 DEF CommitResumes, ExecutionKey
        <4>2. /\ tx'[e] = [tx[e] EXCEPT !.commits = <<>>, !.closed = TRUE]
              /\ call'[e] = [Idle EXCEPT !.pc = "callbacks", !.todo = tx[e].commits]
          BY <4>1 DEF TypeInv, TypeOK
        <4>3. call'[e].pc = "callbacks"
          BY <4>2 DEF Idle
        <4>4. tx[e] \in SharedTxState
          BY Ground
        <4>5. /\ tx'[e].db = tx[e].db /\ tx'[e].expected = tx[e].expected /\ tx'[e].pending = tx[e].pending
              /\ tx'[e].latch = tx[e].latch /\ tx'[e].aborted = tx[e].aborted
          BY <4>2, <4>4 DEF SharedTxState
        <4> QED
          BY <4>1, <4>3, <4>5
      <3>2. Kept(e)' = Kept(e)
        BY <2>2, <3>1, KeptStays
      <3>3. AtField(e)' /\ OneDiscipline(e)'
        BY <2>0, <2>2, <3>1, DocSame DEF Atomic, AtField, OneDiscipline
      <3>4. Undisturbed(e)'
        BY <2>0, <2>2, <2>3, <3>1, <3>2 DEF Atomic, Undisturbed
      <3>5. Backed(e)'
        BY <2>0, <2>2, <2>3, <3>1, <3>2, DocSame DEF Atomic, Backed
      <3>6. Decided(e)'
        BY <2>0, <2>2, <2>3, <3>1, <3>2, DocSame DEF Atomic, Decided
      <3>7. Atomic(e)'
        BY <3>3, <3>4, <3>5, <3>6 DEF Atomic
      <3> QED
        BY <2>1, <3>7, Frame DEF AtomicInv
    <2>4. CASE tx[e].db = "rolledBack"
      <3>1. /\ Answer(e, "error")
            /\ tx'[e].db = tx[e].db /\ tx'[e].expected = tx[e].expected /\ tx'[e].pending = tx[e].pending
            /\ tx'[e].aborted
        <4>1. Answer(e, "error") /\ tx' = [tx EXCEPT ![e] = Abort(tx[e])]
          BY <2>4 DEF CommitResumes, ExecutionKey
        <4>2. tx'[e] = Abort(tx[e])
          BY <4>1 DEF TypeInv, TypeOK
        <4>3. tx[e] \in SharedTxState
          BY Ground
        <4>4. /\ Abort(tx[e]).db = tx[e].db /\ Abort(tx[e]).expected = tx[e].expected
              /\ Abort(tx[e]).pending = tx[e].pending
          BY <4>3 DEF Abort, SharedTxState
        <4>5. Abort(tx[e]).aborted = TRUE
          BY <4>3 DEF Abort, SharedTxState
        <4> QED
          BY <4>1, <4>2, <4>4, <4>5
      <3>2. pos'[e] = pos[e] + 1 /\ call'[e].pc = "between"
        BY <2>2, <3>1, AnswerEffect DEF Outcome, Failures
      <3>3. Kept(e)' = Kept(e) \ {pos[e]} /\ AtField(e)'
        BY <2>0, <2>2, <3>1, KeptAnswers DEF Outcome, Failures, Atomic
      <3>4. OneDiscipline(e)'
        BY <2>0, <2>2, <3>2, DocSame DEF Atomic, OneDiscipline
      <3>5. Undisturbed(e)'
        BY <2>4, <3>1, <3>2 DEF Undisturbed
      <3>6. Backed(e)'
        BY <2>0, <2>2, <2>4, <3>1, <3>2, DocSame DEF Atomic, Backed
      <3>7. Decided(e)'
        BY <2>0, <2>2, <2>4, <3>1, <3>2, <3>3, DocSame, Ground DEF Atomic, Decided
      <3>8. Atomic(e)'
        BY <3>3, <3>4, <3>5, <3>6, <3>7 DEF Atomic
      <3> QED
        BY <2>1, <3>8, Frame DEF AtomicInv
    <2> QED
      BY <2>2, <2>3, <2>4
  <1>23. ASSUME NEW e \in Execution, SharedReturns(e) PROVE AtomicInv'
    <2> USE <1>23
    <2>0. Atomic(e)
      BY DEF AtomicInv
    <2>1. \A f \in Execution \ {e} : Same(f)
      BY DEF Same, SharedReturns, Answer, ExecutionKey, DurableOf, Fields, TypeInv, TypeOK
    <2> DEFINE t == [tx[e] EXCEPT !.completed = tx[e].completed + 1]
               s == Keep(t, call[e].queue)
    <2>2. /\ call[e].pc = "body" /\ call[e].wrote /\ pos[e] \in Coercible(e) /\ pos[e] \in Fields(e)
          /\ Shares(e) /\ tx[e].db = "open" /\ tx[e].latch = "pending" /\ doc' = doc
          /\ DurableOf(e)' = DurableOf(e) /\ states'[e] = states[e] /\ ~tx[e].timer
      BY <2>0 DEF SharedReturns, Atomic, AtField, OneDiscipline, Undisturbed, Coercible, DurableOf, Fields
    <2>3. /\ s.db = tx[e].db /\ s.expected = tx[e].expected /\ s.pending = tx[e].pending
          /\ s.latch = tx[e].latch /\ s.aborted = tx[e].aborted /\ s.timer = tx[e].timer
          /\ s.completed = tx[e].completed + 1 /\ s \in SharedTxState
      <3>1. tx[e] \in SharedTxState /\ call[e].queue \in Seq(Callback) /\ tx[e].completed \in Nat
        BY Ground DEF ResolverCall
      <3>2. t \in SharedTxState
        <4>1. tx[e].completed + 1 \in Nat
          BY <3>1
        <4>2. \A n \in Nat : [tx[e] EXCEPT !.completed = n] \in SharedTxState
          BY <3>1 DEF SharedTxState
        <4> QED
          BY <4>1, <4>2
      <3>3. s \in SharedTxState
        BY <3>1, <3>2, SharedMethods
      <3> QED
        BY <3>1, <3>3 DEF Keep, SharedTxState
    <2>4. pos[e] \notin Kept(e)
      <3>1. outcome[e][pos[e]] = "none"
        BY <2>0, <2>2, Ground DEF Atomic, AtField
      <3> QED
        BY <2>2, <3>1 DEF Kept
    <2>5. Cardinality(Kept(e) \cup {pos[e]}) = Cardinality(Kept(e)) + 1
      BY <2>4, Ground, FS_AddElement
    <2> HIDE DEF t, s
    <2>6. CASE IsLast(s)
      <3>1. /\ pos'[e] = pos[e] /\ outcome'[e] = outcome[e] /\ call'[e].pc = "commit"
            /\ tx'[e] = Release(s)
        BY <2>6, Ground DEF SharedReturns, ExecutionKey, Idle, t, s, TypeInv, TypeOK
      <3>2. /\ tx'[e].db = tx[e].db /\ tx'[e].expected = tx[e].expected /\ tx'[e].pending = tx[e].pending
            /\ tx'[e].latch = "released" /\ tx'[e].aborted = tx[e].aborted /\ ~tx'[e].timer
            /\ tx'[e].completed = tx[e].completed + 1
        BY <2>2, <2>3, <3>1 DEF Release, SharedTxState
      <3>3. Kept(e)' = Kept(e) \cup {pos[e]}
        BY <2>2, <3>1, DocSame DEF Kept
      <3>4. Kept(e)' = Coercible(e)
        <4>1. Kept(e) \cup {pos[e]} \subseteq Coercible(e) /\ IsFiniteSet(Coercible(e))
          BY <2>2, Ground, ExpectedNat DEF TypeInv
        <4>2. tx[e].completed + 1 >= Cardinality(Coercible(e))
          BY <2>0, <2>2, <2>3, <2>6, Ground DEF IsLast, Atomic, Backed, Expected
        <4>3. Cardinality(Kept(e) \cup {pos[e]}) >= Cardinality(Coercible(e))
          BY <2>0, <2>2, <2>5, <4>2, Ground, ExpectedNat DEF Atomic, Backed, TypeInv, Expected
        <4> QED
          BY <3>3, <4>1, <4>3, <2>5, Ground, FS_Subset, FS_CardinalityType
      <3>5. AtField(e)' /\ OneDiscipline(e)'
        BY <2>0, <2>2, <3>1, <3>2, DocSame DEF Atomic, AtField, OneDiscipline
      <3>6. Undisturbed(e)'
        BY <2>0, <2>2, <3>1, <3>2 DEF Atomic, Undisturbed
      <3>7. Backed(e)'
        BY <2>0, <2>2, <2>5, <3>1, <3>2, <3>3, <3>4, DocSame, Ground DEF Atomic, Backed, Write
      <3>8. Decided(e)'
        BY <2>0, <2>2, <3>1, <3>2, DocSame DEF Atomic, Undisturbed, Decided
      <3>9. Atomic(e)'
        BY <3>5, <3>6, <3>7, <3>8 DEF Atomic
      <3> QED
        BY <2>1, <3>9, Frame DEF AtomicInv
    <2>7. CASE ~IsLast(s)
      <3>1. Answer(e, "ok") /\ tx'[e] = BumpTimer(s)
        BY <2>7, Ground DEF SharedReturns, ExecutionKey, t, s, TypeInv, TypeOK
      <3>2. /\ tx'[e].db = tx[e].db /\ tx'[e].expected = tx[e].expected /\ tx'[e].pending = tx[e].pending
            /\ tx'[e].latch = "pending" /\ tx'[e].aborted = tx[e].aborted
            /\ tx'[e].completed = tx[e].completed + 1
        BY <2>2, <2>3, <3>1 DEF BumpTimer, SharedTxState
      <3>3. pos'[e] = pos[e] + 1 /\ call'[e].pc = "between"
        BY <2>2, <3>1, AnswerEffect DEF Outcome
      <3>4. Kept(e)' = Kept(e) \cup {pos[e]} /\ AtField(e)'
        BY <2>0, <2>2, <3>1, KeptAnswers DEF Outcome, Failures, Atomic
      <3>5. OneDiscipline(e)'
        BY <2>0, <2>2, <3>3, DocSame DEF Atomic, OneDiscipline
      <3>6. Undisturbed(e)'
        BY <2>0, <2>2, <3>2, <3>3 DEF Atomic, Undisturbed
      <3>7. Backed(e)'
        BY <2>0, <2>2, <2>5, <3>2, <3>3, <3>4, DocSame, Ground DEF Atomic, Backed, Write
      <3>8. Decided(e)'
        BY <2>0, <2>2, <3>2, <3>3, DocSame DEF Atomic, Undisturbed, Decided
      <3>9. Atomic(e)'
        BY <3>4, <3>5, <3>6, <3>7, <3>8 DEF Atomic
      <3> QED
        BY <2>1, <3>9, Frame DEF AtomicInv
    <2> QED
      BY <2>6, <2>7
  <1>24. CASE UNCHANGED vars
    <2>1. \A f \in Execution : Same(f)
      BY <1>24 DEF Same, vars, DurableOf, Fields
    <2> QED
      BY <2>1, Frame DEF AtomicInv
  <1> QED
    BY <1>1, <1>2, <1>3, <1>4, <1>5, <1>6, <1>7, <1>8, <1>9, <1>10, <1>11, <1>12,
       <1>13, <1>14, <1>15, <1>16, <1>17, <1>18, <1>19, <1>20, <1>21, <1>22, <1>23, <1>24
    DEF Next, Rest, Step, Starts, BodyEnds, Driver, Resumes, Callbacks

\* The initial states satisfy the inductive invariant.
LEMMA AtomicStart == Init => TypeInv /\ AtomicInv
  <1> SUFFICES ASSUME Init, NEW e \in Execution PROVE TypeInv /\ Atomic(e)
    BY InitTyped DEF AtomicInv
  <1>1. TypeInv
    BY InitTyped
  <1>2. /\ pos[e] = 1 /\ call[e].pc = "between" /\ states[e] = "none" /\ durable = {}
        /\ \A i \in Fields(e) : outcome[e][i] = "none"
        /\ tx[e].db = "none" /\ tx[e].pending = {} /\ tx[e].latch = "pending"
    BY DEF Init, Idle, NoShared, NewShared
  <1>3. Kept(e) = {} /\ DurableOf(e) = {}
    BY <1>2 DEF Kept, Coercible, DurableOf
  <1>4. AtField(e) /\ OneDiscipline(e)
    BY <1>2 DEF AtField, OneDiscipline, Failures
  <1>5. Undisturbed(e) /\ Backed(e) /\ Decided(e)
    BY <1>2, <1>3 DEF Undisturbed, Backed, Decided
  <1> QED
    BY <1>1, <1>4, <1>5 DEF Atomic

\* The inductive invariant holds in every state of every behaviour.
LEMMA AtomicInvariant == Spec => [](TypeInv /\ AtomicInv)
  <1>1. Init => TypeInv /\ AtomicInv
    BY AtomicStart
  <1>2. TypeInv /\ AtomicInv /\ [Next]_vars => (TypeInv /\ AtomicInv)'
    BY TypeStep, AtomicStep
  <1> QED
    BY <1>1, <1>2, PTL DEF Spec

\* A request that shares a transaction is atomic: none of its root fields' writes is ever
\* durable without all the others (transactions.ts, completion count and latch).
THEOREM SharedRequestAtomic == Spec => []AllOrNothing
  <1>1. AtomicInv => AllOrNothing
    BY DEF AtomicInv, Atomic, Decided, AllOrNothing
  <1> QED
    BY <1>1, AtomicInvariant, PTL

\* A root field of a sharing request that is answered with an error leaves none of the
\* request's writes durable, whichever field it is and whatever failed.
THEOREM SharedFailureUndoesAll == Spec => []FailureUndoesAll
  <1>1. TypeInv /\ AtomicInv => FailureUndoesAll
    <2> SUFFICES ASSUME TypeInv, AtomicInv, NEW e \in Execution, Shares(e),
                        NEW i \in Fields(e), outcome[e][i] \in Failures, DurableOf(e) # {}
                 PROVE  FALSE
      BY DEF FailureUndoesAll
    <2>1. i \in Coercible(e) /\ Kept(e) = Coercible(e)
      BY DEF AtomicInv, Atomic, AtField, Decided
    <2>2. i = pos[e]
      BY <2>1 DEF Kept, Failures
    <2>3. outcome[e][i] = "none"
      BY <2>2, Ground DEF AtomicInv, Atomic, AtField
    <2> QED
      BY <2>3 DEF Failures
  <1> QED
    BY <1>1, AtomicInvariant, PTL

=============================================================================
