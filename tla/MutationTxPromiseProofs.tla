----------------------- MODULE MutationTxPromiseProofs -----------------------
(***************************************************************************)
(* More proofs about MutationTx.tla: what an answer without error means,   *)
(* and that the protocol implements AtomicCommit.tla.  They rest on        *)
(* PromiseInv, the second half of the inductive invariant.                 *)
(***************************************************************************)
EXTENDS MutationTxProofs, SequenceTheorems

USE SwitchAssumption, BoundAssumption DEF RootField, Resolved

-----------------------------------------------------------------------------
(* Queues of callbacks. *)

\* Appending lists one element more, concatenating lists both.
LEMMA ListedGrows ==
  ASSUME NEW s \in Seq(Callback), NEW t \in Seq(Callback), NEW c \in Callback
  PROVE  /\ Listed(Append(s, c)) = Listed(s) \cup {c}
         /\ Listed(s \o t) = Listed(s) \cup Listed(t)
  <1> HIDE DEF Callback
  <1>1. /\ Len(Append(s, c)) = Len(s) + 1
        /\ \A j \in 1..Len(s) : Append(s, c)[j] = s[j]
        /\ Append(s, c)[Len(s) + 1] = c
    OBVIOUS
  <1>2. Listed(Append(s, c)) = Listed(s) \cup {c}
    BY <1>1 DEF Listed
  <1>3. /\ Len(s \o t) = Len(s) + Len(t)
        /\ \A j \in 1..Len(s) : (s \o t)[j] = s[j]
        /\ \A j \in 1..Len(t) : (s \o t)[Len(s) + j] = t[j]
    OBVIOUS
  <1>4. Listed(s \o t) \subseteq Listed(s) \cup Listed(t)
    <2> SUFFICES ASSUME NEW j \in DOMAIN (s \o t) PROVE (s \o t)[j] \in Listed(s) \cup Listed(t)
      BY DEF Listed
    <2>1. CASE j <= Len(s)
      BY <1>3, <2>1 DEF Listed
    <2>2. CASE j > Len(s)
      <3>1. j - Len(s) \in 1..Len(t) /\ j = Len(s) + (j - Len(s))
        BY <1>3, <2>2
      <3> QED
        BY <1>3, <3>1 DEF Listed
    <2> QED
      BY <2>1, <2>2
  <1>5. Listed(s) \cup Listed(t) \subseteq Listed(s \o t)
    <2>1. \A j \in 1..Len(t) : Len(s) + j \in DOMAIN (s \o t)
      BY <1>3
    <2>2. \A j \in 1..Len(s) : j \in DOMAIN (s \o t)
      BY <1>3
    <2>3. \A j \in 1..Len(t) : t[j] \in Listed(s \o t)
      BY <1>3, <2>1 DEF Listed
    <2>4. \A j \in 1..Len(s) : s[j] \in Listed(s \o t)
      BY <1>3, <2>2 DEF Listed
    <2>5. DOMAIN s = 1..Len(s) /\ DOMAIN t = 1..Len(t)
      OBVIOUS
    <2> QED
      BY <2>3, <2>4, <2>5 DEF Listed
  <1> QED
    BY <1>2, <1>4, <1>5

\* A queue is its head and its tail.
LEMMA ListedHead ==
  ASSUME NEW s \in Seq(Callback), s # <<>>
  PROVE  /\ Listed(s) = {Head(s)} \cup Listed(Tail(s))
         /\ InOrder(s) => /\ InOrder(Tail(s))
                          /\ \A c \in Listed(Tail(s)) : Promise!Precedes(Head(s), c)
  <1> HIDE DEF Callback
  <1>1. /\ Len(s) >= 1 /\ Head(s) = s[1] /\ Len(Tail(s)) = Len(s) - 1 /\ Len(s) \in Nat
        /\ DOMAIN Tail(s) = 1..(Len(s) - 1)
        /\ \A j \in 1..(Len(s) - 1) : Tail(s)[j] = s[j + 1]
    OBVIOUS
  <1>2. Listed(s) \subseteq {Head(s)} \cup Listed(Tail(s))
    <2> SUFFICES ASSUME NEW j \in 1..Len(s) PROVE s[j] \in {Head(s)} \cup Listed(Tail(s))
      BY DEF Listed
    <2>1. CASE j = 1
      BY <1>1, <2>1
    <2>2. CASE j # 1
      <3>1. j - 1 \in 1..(Len(s) - 1) /\ (j - 1) + 1 = j
        BY <1>1, <2>2
      <3> QED
        BY <1>1, <3>1 DEF Listed
    <2> QED
      BY <2>1, <2>2
  <1>3. \A j \in 1..(Len(s) - 1) : j + 1 \in 1..Len(s)
    BY <1>1
  <1>4. {Head(s)} \cup Listed(Tail(s)) \subseteq Listed(s)
    BY <1>1, <1>3 DEF Listed
  <1>5. ASSUME InOrder(s) PROVE InOrder(Tail(s))
    <2> SUFFICES ASSUME NEW j \in 1..(Len(s) - 1), NEW k \in 1..(Len(s) - 1), j < k
                 PROVE  Promise!Precedes(Tail(s)[j], Tail(s)[k])
      BY <1>1 DEF InOrder
    <2>1. j + 1 \in 1..Len(s) /\ k + 1 \in 1..Len(s) /\ j + 1 < k + 1
      BY <1>1
    <2> QED
      BY <1>1, <1>5, <2>1 DEF InOrder
  <1>6. ASSUME InOrder(s), NEW c \in Listed(Tail(s)) PROVE Promise!Precedes(Head(s), c)
    <2>1. PICK j \in 1..(Len(s) - 1) : c = Tail(s)[j]
      BY <1>1 DEF Listed
    <2>2. 1 \in 1..Len(s) /\ j + 1 \in 1..Len(s) /\ 1 < j + 1
      BY <1>1
    <2> QED
      BY <1>1, <1>6, <2>1, <2>2 DEF InOrder
  <1> QED
    BY <1>2, <1>4, <1>5, <1>6

\* Two queues in order make one when the first comes before the second.
LEMMA InOrderConcat ==
  ASSUME NEW s \in Seq(Callback), NEW t \in Seq(Callback), InOrder(s), InOrder(t),
         \A b \in Listed(s), c \in Listed(t) : Promise!Precedes(b, c)
  PROVE  InOrder(s \o t)
  <1> HIDE DEF Callback
  <1>1. /\ Len(s \o t) = Len(s) + Len(t) /\ Len(s) \in Nat /\ Len(t) \in Nat
        /\ \A j \in 1..Len(s) : (s \o t)[j] = s[j]
        /\ \A j \in 1..Len(t) : (s \o t)[Len(s) + j] = t[j]
    OBVIOUS
  <1> SUFFICES ASSUME NEW j \in 1..Len(s \o t), NEW k \in 1..Len(s \o t), j < k
               PROVE  Promise!Precedes((s \o t)[j], (s \o t)[k])
    BY DEF InOrder
  <1>2. CASE k <= Len(s)
    BY <1>1, <1>2 DEF InOrder
  <1>3. CASE j <= Len(s) /\ k > Len(s)
    <2>1. k - Len(s) \in 1..Len(t) /\ k = Len(s) + (k - Len(s)) /\ j \in 1..Len(s)
      BY <1>1, <1>3
    <2> QED
      BY <1>1, <2>1 DEF Listed
  <1>4. CASE j > Len(s)
    <2>1. /\ k - Len(s) \in 1..Len(t) /\ k = Len(s) + (k - Len(s))
          /\ j - Len(s) \in 1..Len(t) /\ j = Len(s) + (j - Len(s)) /\ j - Len(s) < k - Len(s)
      BY <1>1, <1>4
    <2>2. Promise!Precedes(t[j - Len(s)], t[k - Len(s)])
      BY <2>1 DEF InOrder
    <2> QED
      BY <1>1, <2>1, <2>2
  <1> QED
    BY <1>1, <1>2, <1>3, <1>4

\* One field's own queue is in order and lists exactly what the field registered.
LEMMA OwnQueue ==
  ASSUME NEW p \in Nat, NEW m \in Nat
  PROVE  LET q == [n \in 1..m |-> <<p, n>>] IN
         /\ q \in Seq(Callback)
         /\ InOrder(q)
         /\ Listed(q) = {<<p, n>> : n \in 1..m}
         /\ Append(q, <<p, m + 1>>) = [n \in 1..(m + 1) |-> <<p, n>>]
  <1> DEFINE q == [n \in 1..m |-> <<p, n>>]
  <1>1. q \in Seq(Callback) /\ Len(q) = m
    BY DEF Callback
  <1>2. InOrder(q)
    BY DEF InOrder, Promise!Precedes
  <1>3. Listed(q) = {<<p, n>> : n \in 1..m}
    BY DEF Listed
  <1>4. Append(q, <<p, m + 1>>) = [n \in 1..(m + 1) |-> <<p, n>>]
    <2>1. [n \in 1..(m + 1) |-> <<p, n>>] \in Seq(Callback)
          /\ Len([n \in 1..(m + 1) |-> <<p, n>>]) = m + 1
      BY DEF Callback
    <2>2. <<p, m + 1>> \in Callback
      BY DEF Callback
    <2> HIDE DEF Callback
    <2>3. Append(q, <<p, m + 1>>) \in Seq(Callback) /\ Len(Append(q, <<p, m + 1>>)) = m + 1
      BY <1>1, <2>2
    <2>4. \A j \in 1..(m + 1) : Append(q, <<p, m + 1>>)[j] = <<p, j>>
      BY <1>1, <2>2
    <2> QED
      BY <2>1, <2>3, <2>4
  <1> QED
    BY <1>1, <1>2, <1>3, <1>4

-----------------------------------------------------------------------------
(* One execution at a time. *)

\* Nothing of an execution changed, the durability of its writes included.
Still(f) ==
  /\ doc' = doc /\ pos'[f] = pos[f] /\ outcome'[f] = outcome[f] /\ call'[f] = call[f]
  /\ registered'[f] = registered[f] /\ states'[f] = states[f] /\ tx'[f] = tx[f]
  /\ published'[f] = published[f] /\ ran'[f] = ran[f]
  /\ \A i \in Nat : <<f, i>> \in durable' <=> <<f, i>> \in durable

\* A step of one execution, its driver or its timer leaves every other execution alone.
LEMMA StepsAlone ==
  ASSUME TypeInv, AtomicInv, NEW e \in Execution, Step(e), NEW f \in Execution \ {e}
  PROVE  Still(f)
  <1> USE DEF TypeInv, TypeOK, Still, ExecutionKey
  <1> HIDE DEF Callback
  <1>1. CASE OpenShared(e)
    BY <1>1 DEF OpenShared
  <1>2. CASE JoinShared(e)
    BY <1>2 DEF JoinShared
  <1>3. CASE StartOwn(e)
    BY <1>3 DEF StartOwn
  <1>4. CASE HookRegisters(e)
    BY <1>4 DEF HookRegisters
  <1>5. CASE Statement(e)
    BY <1>5 DEF Statement, Write
  <1>6. CASE SharedReturns(e)
    BY <1>6 DEF SharedReturns, Answer
  <1>7. CASE SharedThrows(e)
    BY <1>7 DEF SharedThrows
  <1>8. CASE OwnReturns(e)
    BY <1>8 DEF OwnReturns
  <1>9. CASE OwnThrows(e)
    BY <1>9 DEF OwnThrows, Answer
  <1>10. CASE OwnBegins(e)
    BY <1>10 DEF OwnBegins, Answer
  <1>11. CASE OwnSettles(e)
    BY <1>11 DEF OwnSettles, Write, Answer
  <1>12. CASE SharedBegins(e)
    BY <1>12 DEF SharedBegins
  <1>13. CASE SharedBeginFails(e)
    BY <1>13 DEF SharedBeginFails, CleansUp
  <1>14. CASE SharedCommits(e)
    <2>1. \A w \in tx[e].pending : w[1] = e
      BY <1>14 DEF AtomicInv, Atomic, OneDiscipline, Backed, SharedCommits
    <2> QED
      BY <1>14, <2>1 DEF SharedCommits, CleansUp
  <1>15. CASE SharedRollsBack(e)
    BY <1>15 DEF SharedRollsBack, CleansUp
  <1>16. CASE ReadyResumes(e)
    BY <1>16 DEF ReadyResumes, Answer
  <1>17. CASE CommitResumes(e)
    BY <1>17 DEF CommitResumes, Answer
  <1>18. CASE UnwindResumes(e)
    BY <1>18 DEF UnwindResumes, Answer
  <1>19. CASE RunCallback(e)
    BY <1>19 DEF RunCallback
  <1>20. CASE CallbacksDone(e)
    BY <1>20 DEF CallbacksDone, Answer
  <1>21. CASE TimerFires(e)
    BY <1>21 DEF TimerFires
  <1>22. CASE HostStops(e)
    BY <1>22 DEF HostStops
  <1>23. CASE SkipField(e)
    BY <1>23 DEF SkipField, Answer
  <1> QED
    BY <1>1, <1>2, <1>3, <1>4, <1>5, <1>6, <1>7, <1>8, <1>9, <1>10, <1>11, <1>12, <1>13, <1>14, <1>15,
       <1>16, <1>17, <1>18, <1>19, <1>20, <1>21, <1>22, <1>23
    DEF Step, Starts, BodyEnds, Driver, Resumes, Callbacks

\* An execution that stands still keeps its part of the invariant.
LEMMA StillPromised ==
  ASSUME TypeInv, NEW f \in Execution, Promised(f), Still(f)
  PROVE  Promised(f)'
  <1>1. /\ Fields(f)' = Fields(f) /\ Coercible(f)' = Coercible(f)
        /\ Expected(f)' = Expected(f) /\ Shares(f)' = Shares(f)
    BY DocSame DEF Still
  <1>2. Kept(f)' = Kept(f) /\ Ahead(f)' = Ahead(f) /\ Together(f)' = Together(f)
    BY <1>1 DEF Still, Kept, Ahead, Together
  <1>3. \A i : Accepted(f, i)' = Accepted(f, i)
    BY DEF Still, Accepted
  <1>4. Queued(f)' /\ \A i \in Fields(f)' : i < pos'[f] => outcome'[f][i] # "none"
    BY <1>1 DEF Promised, Queued, Still
  <1>5. Running(f)'
    BY <1>2, <1>3 DEF Promised, Running, Still
  <1>6. Shares(f) => Counted(f)' /\ Dropped(f)' /\ Handed(f)' /\ RanShared(f)'
    BY <1>1, <1>2, <1>3 DEF Promised, Counted, Dropped, Handed, RanShared, Still
  <1>7. ~Shares(f) => RanOwn(f)'
    BY <1>1, <1>3, Ground DEF Promised, RanOwn, Still, Write
  <1> QED
    BY <1>1, <1>4, <1>5, <1>6, <1>7 DEF Promised

\* Opening the transaction starts an empty count and an empty queue.
LEMMA OpenSharedPromised ==
  ASSUME TypeInv, AtomicInv, NEW e \in Execution, Promised(e), OpenShared(e), TypeInv', AtomicInv'
  PROVE  Promised(e)'
  <1> HIDE DEF Callback
  <1>1. Atomic(e) /\ Atomic(e)'
    BY DEF AtomicInv
  <1>2. /\ doc' = doc
        /\ pos'[e] = pos[e] /\ outcome'[e] = outcome[e]
        /\ registered'[e] = registered[e] /\ published'[e] = published[e] /\ ran'[e] = ran[e]
        /\ (\A i \in Nat : <<e, i>> \in durable' <=> <<e, i>> \in durable)
        /\ Shares(e) /\ call[e].pc = "between" /\ call'[e].pc = "awaitReady" /\ states[e] = "none"
        /\ states'[e] = "shared" /\ pos[e] \in Coercible(e)
        /\ tx'[e].db = "begin" /\ tx'[e].commits = <<>> /\ ~tx'[e].timer /\ ~tx'[e].aborted
        /\ ~tx'[e].closed
    BY Ground DEF OpenShared, ExecutionKey, Calls, Kind, Coercible, Fields, SuspendTimer, BumpTimer,
       NewShared, SharedTxState, ResolverCall, TypeInv, TypeOK
  <1>3. Kept(e)' = Kept(e) /\ Fields(e)' = Fields(e) /\ Coercible(e)' = Coercible(e)
        /\ (Shares(e)' <=> Shares(e)) /\ Expected(e)' = Expected(e)
    BY <1>2, KeptStays, DocSame
  <1>4. \A i : Accepted(e, i)' = Accepted(e, i)
    BY <1>2 DEF Accepted
  <1>6. (\A i \in Fields(e) : i < pos[e] => outcome[e][i] # "none")'
    BY <1>1, <1>2, <1>3, <1>4, Ground DEF Promised
  <1>7. Queued(e)'
    BY <1>1, <1>2, <1>3, <1>4, Ground DEF Promised, Queued
  <1>8. Running(e)'
    BY <1>1, <1>2, <1>3, <1>4, Ground DEF Promised, Running, Together
  <1>9. Shares(e) => Counted(e)'
    BY <1>1, <1>2, <1>3, <1>4, Ground DEF Promised, Counted, Ahead, Dropped, Atomic, AtField,
       OneDiscipline, Undisturbed, Backed, Decided
  <1>10. Shares(e) => Dropped(e)'
    BY <1>1, <1>2, <1>3, <1>4, Ground DEF Promised, Counted, Dropped, Atomic, AtField, OneDiscipline,
       Undisturbed, Backed, Decided
  <1>11. Shares(e) => Handed(e)'
    <2>1. Shares(e) => Kept(e) = {}
      BY <1>1, <1>2, <1>3, <1>4 DEF Atomic, Undisturbed
    <2>2. Listed(tx'[e].commits) = {} /\ InOrder(tx'[e].commits)
      BY <1>2 DEF Listed, InOrder
    <2> QED
      BY <1>1, <1>2, <1>3, <1>4, <2>1, <2>2 DEF Handed
  <1>12. Shares(e) => RanShared(e)'
    BY <1>1, <1>2, <1>3, <1>4, Ground DEF Promised, RanShared, Dropped, Atomic, AtField,
       OneDiscipline, Undisturbed, Backed, Decided
  <1>13. ~Shares(e) => RanOwn(e)'
    BY <1>1, <1>2, <1>3, <1>4, Ground DEF Promised, RanOwn, Write, Atomic, AtField, OneDiscipline,
       Undisturbed, Backed, Decided
  <1> QED
    BY <1>3, <1>6, <1>7, <1>8, <1>9, <1>10, <1>11, <1>12, <1>13 DEF Promised

\* Joining the transaction waits for it, or for its end when it was aborted.
LEMMA JoinSharedPromised ==
  ASSUME TypeInv, AtomicInv, NEW e \in Execution, Promised(e), JoinShared(e), TypeInv', AtomicInv'
  PROVE  Promised(e)'
  <1> HIDE DEF Callback
  <1>1. Atomic(e) /\ Atomic(e)'
    BY DEF AtomicInv
  <1>2. /\ doc' = doc
        /\ pos'[e] = pos[e] /\ outcome'[e] = outcome[e]
        /\ registered'[e] = registered[e] /\ published'[e] = published[e] /\ ran'[e] = ran[e]
        /\ states'[e] = states[e]
        /\ (\A i \in Nat : <<e, i>> \in durable' <=> <<e, i>> \in durable)
        /\ call[e].pc = "between" /\ states[e] = "shared" /\ pos[e] \in Coercible(e)
        /\ call'[e].pc = IF tx[e].aborted THEN "failFast" ELSE "awaitReady"
        /\ tx'[e].expected = tx[e].expected /\ tx'[e].completed = tx[e].completed
        /\ tx'[e].aborted = tx[e].aborted /\ tx'[e].timedOut = tx[e].timedOut /\ tx'[e].latch = tx[e].latch
        /\ tx'[e].commits = tx[e].commits /\ tx'[e].closed = tx[e].closed /\ tx'[e].db = tx[e].db
        /\ tx'[e].pending = tx[e].pending /\ (tx'[e].timer => tx[e].timer)
    <2>1. /\ tx[e] \in SharedTxState /\ call[e] \in ResolverCall
          /\ tx \in [Execution -> SharedTxState] /\ call \in [Execution -> ResolverCall]
      BY DEF TypeInv, TypeOK
    <2>2. call'[e].pc = IF tx[e].aborted THEN "failFast" ELSE "awaitReady"
      BY <2>1 DEF JoinShared, ExecutionKey, ResolverCall
    <2>3. tx'[e] = tx[e] \/ tx'[e] = SuspendTimer(tx[e])
      BY <2>1 DEF JoinShared, ExecutionKey
    <2>4. pos[e] \in Coercible(e)
      BY DEF JoinShared, Calls, Kind, Coercible
    <2> QED
      BY <2>1, <2>2, <2>3, <2>4 DEF JoinShared, Calls, ExecutionKey, SuspendTimer, SharedTxState
  <1>3. Kept(e)' = Kept(e) /\ Fields(e)' = Fields(e) /\ Coercible(e)' = Coercible(e)
        /\ (Shares(e)' <=> Shares(e)) /\ Expected(e)' = Expected(e)
    BY <1>2, KeptStays, DocSame
  <1>4. \A i : Accepted(e, i)' = Accepted(e, i)
    BY <1>2 DEF Accepted
  <1>6. (\A i \in Fields(e) : i < pos[e] => outcome[e][i] # "none")'
    BY <1>1, <1>2, <1>3, <1>4, Ground DEF Promised
  <1>7. Queued(e)'
    BY <1>1, <1>2, <1>3, <1>4, Ground DEF Promised, Queued
  <1>8. Running(e)'
    BY <1>1, <1>2, <1>3, <1>4, Ground DEF Promised, Running, Together
  <1>9. Shares(e) => Counted(e)'
    BY <1>1, <1>2, <1>3, <1>4, Ground DEF Promised, Counted, Ahead, Dropped, Atomic, AtField,
       OneDiscipline, Undisturbed, Backed, Decided
  <1>10. Shares(e) => Dropped(e)'
    BY <1>1, <1>2, <1>3, <1>4, Ground DEF Promised, Counted, Dropped, Atomic, AtField, OneDiscipline,
       Undisturbed, Backed, Decided
  <1>11. Shares(e) => Handed(e)'
    BY <1>1, <1>2, <1>3, <1>4, Ground DEF Promised, Dropped, Handed, Atomic, AtField, OneDiscipline,
       Undisturbed, Backed, Decided
  <1>12. Shares(e) => RanShared(e)'
    BY <1>1, <1>2, <1>3, <1>4, Ground DEF Promised, RanShared, Dropped, Atomic, AtField,
       OneDiscipline, Undisturbed, Backed, Decided
  <1>13. ~Shares(e) => RanOwn(e)'
    BY <1>1, <1>2, <1>3, <1>4, Ground DEF Promised, RanOwn, Write, Atomic, AtField, OneDiscipline,
       Undisturbed, Backed, Decided
  <1> QED
    BY <1>3, <1>6, <1>7, <1>8, <1>9, <1>10, <1>11, <1>12, <1>13 DEF Promised

\* A field of its own unit starts with an empty queue.
LEMMA StartOwnPromised ==
  ASSUME TypeInv, AtomicInv, NEW e \in Execution, Promised(e), StartOwn(e), TypeInv', AtomicInv'
  PROVE  Promised(e)'
  <1> HIDE DEF Callback
  <1>1. Atomic(e) /\ Atomic(e)'
    BY DEF AtomicInv
  <1>2. /\ doc' = doc
        /\ pos'[e] = pos[e] /\ outcome'[e] = outcome[e]
        /\ registered'[e] = registered[e] /\ published'[e] = published[e] /\ ran'[e] = ran[e]
        /\ tx'[e] = tx[e]
        /\ (\A i \in Nat : <<e, i>> \in durable' <=> <<e, i>> \in durable)
        /\ call[e].pc = "between" /\ call'[e].pc \in {"ownBegin", "body"} /\ call'[e].queue = <<>>
        /\ ~call'[e].wrote /\ pos[e] \in Coercible(e)
    <2>1. pos[e] \in Coercible(e)
      BY DEF StartOwn, Calls, Kind, Coercible
    <2>2. \/ call'[e] = [Idle EXCEPT !.pc = "ownBegin", !.unit = "tx"]
          \/ call'[e] = [Idle EXCEPT !.pc = "body", !.unit = "db", !.open = TRUE]
      BY DEF StartOwn, TypeInv, TypeOK
    <2>3. call'[e].pc \in {"ownBegin", "body"} /\ call'[e].queue = <<>> /\ ~call'[e].wrote
      BY <2>2 DEF Idle
    <2> QED
      BY <2>1, <2>3 DEF StartOwn, Calls
  <1>3. Kept(e)' = Kept(e) /\ Fields(e)' = Fields(e) /\ Coercible(e)' = Coercible(e)
        /\ (Shares(e)' <=> Shares(e)) /\ Expected(e)' = Expected(e)
    BY <1>2, KeptStays, DocSame
  <1>4. \A i : Accepted(e, i)' = Accepted(e, i)
    BY <1>2 DEF Accepted
  <1>6. (\A i \in Fields(e) : i < pos[e] => outcome[e][i] # "none")'
    BY <1>1, <1>2, <1>3, <1>4, Ground DEF Promised
  <1>7. Queued(e)'
    BY <1>1, <1>2, <1>3, <1>4, Ground DEF Promised, Queued
  <1>8. Running(e)'
    BY <1>1, <1>2, <1>3, <1>4, Ground DEF Promised, Running, Together
  <1>9. Shares(e) => Counted(e)'
    BY <1>1, <1>2, <1>3, <1>4, Ground DEF Promised, Counted, Ahead, Dropped, Atomic, AtField,
       OneDiscipline, Undisturbed, Backed, Decided
  <1>10. Shares(e) => Dropped(e)'
    BY <1>1, <1>2, <1>3, <1>4, Ground DEF Promised, Counted, Dropped, Atomic, AtField, OneDiscipline,
       Undisturbed, Backed, Decided
  <1>11. Shares(e) => Handed(e)'
    BY <1>1, <1>2, <1>3, <1>4, Ground DEF Promised, Dropped, Handed, Atomic, AtField, OneDiscipline,
       Undisturbed, Backed, Decided
  <1>12. Shares(e) => RanShared(e)'
    BY <1>1, <1>2, <1>3, <1>4, Ground DEF Promised, RanShared, Dropped, Atomic, AtField,
       OneDiscipline, Undisturbed, Backed, Decided
  <1>13. ~Shares(e) => RanOwn(e)'
    BY <1>1, <1>2, <1>3, <1>4, Ground DEF Promised, RanOwn, Write, Atomic, AtField, OneDiscipline,
       Undisturbed, Backed, Decided
  <1> QED
    BY <1>3, <1>6, <1>7, <1>8, <1>9, <1>10, <1>11, <1>12, <1>13 DEF Promised

\* An accepted callback is the next of its field and the last of its queue.
LEMMA HookRegistersPromised ==
  ASSUME TypeInv, AtomicInv, NEW e \in Execution, Promised(e), HookRegisters(e), TypeInv', AtomicInv'
  PROVE  Promised(e)'
  <1> HIDE DEF Callback
  <1>1. Atomic(e) /\ Atomic(e)'
    BY DEF AtomicInv
  <1>2. /\ doc' = doc
        /\ pos'[e] = pos[e] /\ outcome'[e] = outcome[e]
        /\ published'[e] = published[e] /\ ran'[e] = ran[e] /\ states'[e] = states[e] /\ tx'[e] = tx[e]
        /\ (\A i \in Nat : <<e, i>> \in durable' <=> <<e, i>> \in durable)
        /\ call'[e].pc = call[e].pc /\ call'[e].unit = call[e].unit /\ call'[e].wrote = call[e].wrote
        /\ call'[e].todo = call[e].todo
        /\ call[e].pc \in {"body", "ownCommit", "ownRollback"} /\ pos[e] \in Fields(e)
        /\ registered'[e] = [registered[e] EXCEPT ![pos[e]] = registered[e][pos[e]] + 1]
        /\ call'[e].queue = Append(call[e].queue, <<pos[e], registered[e][pos[e]] + 1>>)
    <2>1. call[e] \in ResolverCall /\ call[e].queue \in Seq(Callback)
      BY Ground DEF ResolverCall
    <2>2. call'[e] = [call[e] EXCEPT !.queue = Append(call[e].queue, <<pos[e], registered[e][pos[e]] + 1>>)]
      BY DEF HookRegisters, TypeInv, TypeOK
    <2>3. /\ call'[e].pc = call[e].pc /\ call'[e].unit = call[e].unit /\ call'[e].wrote = call[e].wrote
          /\ call'[e].todo = call[e].todo
          /\ call'[e].queue = Append(call[e].queue, <<pos[e], registered[e][pos[e]] + 1>>)
      BY <2>1, <2>2 DEF ResolverCall
    <2>4. call[e].pc \in {"body", "ownCommit", "ownRollback"} /\ pos[e] \in Fields(e)
      BY DEF HookRegisters, TypeInv, RunsAField
    <2>5. registered'[e] = [registered[e] EXCEPT ![pos[e]] = registered[e][pos[e]] + 1]
      BY DEF HookRegisters, TypeInv, TypeOK
    <2> QED
      BY <2>3, <2>4, <2>5 DEF HookRegisters
  <1>3. Kept(e)' = Kept(e) /\ Fields(e)' = Fields(e) /\ Coercible(e)' = Coercible(e)
        /\ (Shares(e)' <=> Shares(e)) /\ Expected(e)' = Expected(e)
    BY <1>2, KeptStays, DocSame
  <1>4. \A i \in Fields(e) \ {pos[e]} : Accepted(e, i)' = Accepted(e, i)
    <2>1. DOMAIN registered[e] = Fields(e)
      BY DEF TypeInv, TypeOK, Fields
    <2>2. \A i \in Fields(e) \ {pos[e]} : registered'[e][i] = registered[e][i]
      BY <1>2, <2>1
    <2> QED
      BY <2>2 DEF Accepted
  <1>5. registered'[e][pos[e]] = registered[e][pos[e]] + 1 /\ registered[e][pos[e]] \in Nat
        /\ pos[e] \in Nat /\ outcome[e][pos[e]] = "none" /\ pos[e] \notin Kept(e)
        /\ (\A i \in Fields(e) \ {pos[e]} : registered'[e][i] = registered[e][i])
    <2>1. registered[e] \in Seq(Nat) /\ DOMAIN registered[e] = Fields(e)
      BY DEF TypeInv, TypeOK, Fields
    <2>2. outcome[e][pos[e]] = "none"
      BY <1>1, <1>2, Ground DEF Atomic, AtField
    <2>3. pos[e] \notin Kept(e)
      BY <1>2, <2>2 DEF Kept
    <2>4. pos[e] \in Nat /\ pos[e] \in Fields(e)
      BY <1>2, Ground
    <2>5. registered[e][pos[e]] \in Nat
      BY <2>1, <2>4
    <2> QED
      BY <1>2, <2>1, <2>2, <2>3, <2>4, <2>5
  <1>6. (\A i \in Fields(e) : i < pos[e] => outcome[e][i] # "none")'
    BY <1>1, <1>2, <1>3, <1>4, <1>5, Ground DEF Promised
  <1>7. Queued(e)'
    <2>1. call'[e].queue = [n \in 1..registered'[e][pos[e]] |-> <<pos[e], n>>]
      <3>1. call[e].queue = [n \in 1..registered[e][pos[e]] |-> <<pos[e], n>>]
        BY <1>2 DEF Promised, Queued
      <3>2. Append([n \in 1..registered[e][pos[e]] |-> <<pos[e], n>>], <<pos[e], registered[e][pos[e]] + 1>>)
              = [n \in 1..(registered[e][pos[e]] + 1) |-> <<pos[e], n>>]
        BY <1>5, OwnQueue
      <3> QED
        BY <1>2, <1>5, <3>1, <3>2
    <2> QED
      BY <1>1, <1>2, <1>3, <1>4, <1>5, <2>1, Ground DEF Promised, Queued
  <1>8. Running(e)'
    BY <1>1, <1>2, <1>3, <1>4, <1>5, Ground DEF Promised, Running, Together
  <1>9. Shares(e) => Counted(e)'
    BY <1>1, <1>2, <1>3, <1>4, <1>5, Ground DEF Promised, Counted, Ahead, Dropped, Atomic, AtField,
       OneDiscipline, Undisturbed, Backed, Decided
  <1>10. Shares(e) => Dropped(e)'
    BY <1>1, <1>2, <1>3, <1>4, <1>5, Ground DEF Promised, Counted, Dropped, Atomic, AtField,
       OneDiscipline, Undisturbed, Backed, Decided
  <1>11. Shares(e) => Handed(e)'
    BY <1>1, <1>2, <1>3, <1>4, <1>5, Ground DEF Promised, Dropped, Handed, Atomic, AtField,
       OneDiscipline, Undisturbed, Backed, Decided
  <1>12. Shares(e) => RanShared(e)'
    BY <1>1, <1>2, <1>3, <1>4, <1>5, Ground DEF Promised, RanShared, Dropped, Atomic, AtField,
       OneDiscipline, Undisturbed, Backed, Decided
  <1>13. ~Shares(e) => RanOwn(e)'
    BY <1>1, <1>2, <1>3, <1>4, <1>5, Ground DEF Promised, RanOwn, Write, Atomic, AtField,
       OneDiscipline, Undisturbed, Backed, Decided
  <1> QED
    BY <1>3, <1>6, <1>7, <1>8, <1>9, <1>10, <1>11, <1>12, <1>13 DEF Promised

\* The write changes no queue; straight on the database it is durable.
LEMMA StatementPromised ==
  ASSUME TypeInv, AtomicInv, NEW e \in Execution, Promised(e), Statement(e), TypeInv', AtomicInv'
  PROVE  Promised(e)'
  <1> HIDE DEF Callback
  <1>1. Atomic(e) /\ Atomic(e)'
    BY DEF AtomicInv
  <1>2. /\ doc' = doc
        /\ pos'[e] = pos[e] /\ outcome'[e] = outcome[e]
        /\ registered'[e] = registered[e] /\ published'[e] = published[e] /\ ran'[e] = ran[e]
        /\ states'[e] = states[e]
        /\ call[e].pc = "body" /\ call'[e].pc = call[e].pc /\ call'[e].unit = call[e].unit
        /\ call'[e].queue = call[e].queue /\ call'[e].todo = call[e].todo
        /\ \A i \in Nat : <<e, i>> \in durable => <<e, i>> \in durable'
        /\ call[e].unit = "db" => Write(e) \in durable'
        /\ tx'[e].expected = tx[e].expected /\ tx'[e].completed = tx[e].completed
        /\ tx'[e].aborted = tx[e].aborted /\ tx'[e].timedOut = tx[e].timedOut /\ tx'[e].latch = tx[e].latch
        /\ tx'[e].timer = tx[e].timer /\ tx'[e].commits = tx[e].commits /\ tx'[e].closed = tx[e].closed
        /\ tx'[e].db = tx[e].db
    BY Ground DEF Statement, ExecutionKey, SharedTxState, ResolverCall, TypeInv, TypeOK
  <1>3. Kept(e)' = Kept(e) /\ Fields(e)' = Fields(e) /\ Coercible(e)' = Coercible(e)
        /\ (Shares(e)' <=> Shares(e)) /\ Expected(e)' = Expected(e)
    BY <1>2, KeptStays, DocSame
  <1>4. \A i : Accepted(e, i)' = Accepted(e, i)
    BY <1>2 DEF Accepted
  <1>6. (\A i \in Fields(e) : i < pos[e] => outcome[e][i] # "none")'
    BY <1>1, <1>2, <1>3, <1>4, Ground DEF Promised
  <1>7. Queued(e)'
    BY <1>1, <1>2, <1>3, <1>4, Ground DEF Promised, Queued
  <1>8. Running(e)'
    BY <1>1, <1>2, <1>3, <1>4, Ground DEF Promised, Running, Together
  <1>9. Shares(e) => Counted(e)'
    BY <1>1, <1>2, <1>3, <1>4, Ground DEF Promised, Counted, Ahead, Dropped, Atomic, AtField,
       OneDiscipline, Undisturbed, Backed, Decided
  <1>10. Shares(e) => Dropped(e)'
    BY <1>1, <1>2, <1>3, <1>4, Ground DEF Promised, Counted, Dropped, Atomic, AtField, OneDiscipline,
       Undisturbed, Backed, Decided
  <1>11. Shares(e) => Handed(e)'
    BY <1>1, <1>2, <1>3, <1>4, Ground DEF Promised, Dropped, Handed, Atomic, AtField, OneDiscipline,
       Undisturbed, Backed, Decided
  <1>12. Shares(e) => RanShared(e)'
    BY <1>1, <1>2, <1>3, <1>4, Ground DEF Promised, RanShared, Dropped, Atomic, AtField,
       OneDiscipline, Undisturbed, Backed, Decided
  <1>13. ~Shares(e) => RanOwn(e)'
    BY <1>1, <1>2, <1>3, <1>4, Ground DEF Promised, RanOwn, Write, Atomic, AtField, OneDiscipline,
       Undisturbed, Backed, Decided
  <1> QED
    BY <1>3, <1>6, <1>7, <1>8, <1>9, <1>10, <1>11, <1>12, <1>13 DEF Promised

\* The first failure closes the queue and rejects the latch.
LEMMA SharedThrowsPromised ==
  ASSUME TypeInv, AtomicInv, NEW e \in Execution, Promised(e), SharedThrows(e), TypeInv', AtomicInv'
  PROVE  Promised(e)'
  <1> HIDE DEF Callback
  <1>1. Atomic(e) /\ Atomic(e)'
    BY DEF AtomicInv
  <1>2. /\ doc' = doc
        /\ pos'[e] = pos[e] /\ outcome'[e] = outcome[e]
        /\ registered'[e] = registered[e] /\ published'[e] = published[e] /\ ran'[e] = ran[e]
        /\ states'[e] = states[e]
        /\ (\A i \in Nat : <<e, i>> \in durable' <=> <<e, i>> \in durable)
        /\ call[e].pc = "body" /\ call[e].unit = "shared" /\ call'[e].pc = "unwind"
        /\ tx'[e].aborted /\ tx'[e].closed
        /\ tx'[e].expected = tx[e].expected /\ tx'[e].completed = tx[e].completed
        /\ tx'[e].timedOut = tx[e].timedOut /\ tx'[e].timer = tx[e].timer /\ tx'[e].db = tx[e].db
        /\ tx'[e].pending = tx[e].pending
    BY Ground DEF SharedThrows, ExecutionKey, Abort, Idle, SharedTxState, ResolverCall, TypeInv, TypeOK
  <1>3. Kept(e)' = Kept(e) /\ Fields(e)' = Fields(e) /\ Coercible(e)' = Coercible(e)
        /\ (Shares(e)' <=> Shares(e)) /\ Expected(e)' = Expected(e)
    BY <1>2, KeptStays, DocSame
  <1>4. \A i : Accepted(e, i)' = Accepted(e, i)
    BY <1>2 DEF Accepted
  <1>6. (\A i \in Fields(e) : i < pos[e] => outcome[e][i] # "none")'
    BY <1>1, <1>2, <1>3, <1>4, Ground DEF Promised
  <1>7. Queued(e)'
    BY <1>1, <1>2, <1>3, <1>4, Ground DEF Promised, Queued
  <1>8. Running(e)'
    BY <1>1, <1>2, <1>3, <1>4, Ground DEF Promised, Running, Together
  <1>9. Shares(e) => Counted(e)'
    BY <1>1, <1>2, <1>3, <1>4, Ground DEF Promised, Counted, Ahead, Dropped, Atomic, AtField,
       OneDiscipline, Undisturbed, Backed, Decided
  <1>10. Shares(e) => Dropped(e)'
    BY <1>1, <1>2, <1>3, <1>4, Ground DEF Promised, Counted, Dropped, Atomic, AtField, OneDiscipline,
       Undisturbed, Backed, Decided
  <1>11. Shares(e) => Handed(e)'
    BY <1>1, <1>2, <1>3, <1>4, Ground DEF Promised, Dropped, Handed, Atomic, AtField, OneDiscipline,
       Undisturbed, Backed, Decided
  <1>12. Shares(e) => RanShared(e)'
    BY <1>1, <1>2, <1>3, <1>4, Ground DEF Promised, RanShared, Dropped, Atomic, AtField,
       OneDiscipline, Undisturbed, Backed, Decided
  <1>13. ~Shares(e) => RanOwn(e)'
    BY <1>1, <1>2, <1>3, <1>4, Ground DEF Promised, RanOwn, Write, Atomic, AtField, OneDiscipline,
       Undisturbed, Backed, Decided
  <1> QED
    BY <1>3, <1>6, <1>7, <1>8, <1>9, <1>10, <1>11, <1>12, <1>13 DEF Promised

\* The body of a field of its own hands its queue on.
LEMMA OwnReturnsPromised ==
  ASSUME TypeInv, AtomicInv, NEW e \in Execution, Promised(e), OwnReturns(e), TypeInv', AtomicInv'
  PROVE  Promised(e)'
  <1> HIDE DEF Callback
  <1>1. Atomic(e) /\ Atomic(e)'
    BY DEF AtomicInv
  <1>2. /\ doc' = doc
        /\ pos'[e] = pos[e] /\ outcome'[e] = outcome[e]
        /\ registered'[e] = registered[e] /\ published'[e] = published[e] /\ ran'[e] = ran[e]
        /\ states'[e] = states[e] /\ tx'[e] = tx[e]
        /\ (\A i \in Nat : <<e, i>> \in durable' <=> <<e, i>> \in durable)
        /\ call[e].pc = "body" /\ call[e].unit \in {"db", "tx"} /\ call[e].wrote
        /\ \/ call'[e].pc = "ownCommit" /\ call'[e].queue = call[e].queue
           \/ call[e].unit = "db" /\ call'[e].pc = "callbacks" /\ call'[e].todo = call[e].queue
    BY Ground DEF OwnReturns, ExecutionKey, Idle, SharedTxState, ResolverCall, TypeInv, TypeOK
  <1>3. Fields(e)' = Fields(e) /\ Coercible(e)' = Coercible(e)
        /\ (Shares(e)' <=> Shares(e)) /\ ~Shares(e)
    BY <1>1, <1>2, DocSame DEF Atomic, OneDiscipline
  <1>4. \A i : Accepted(e, i)' = Accepted(e, i)
    BY <1>2 DEF Accepted
  <1>6. (\A i \in Fields(e) : i < pos[e] => outcome[e][i] # "none")'
    BY <1>1, <1>2, <1>3, <1>4, Ground DEF Promised
  <1>7. Queued(e)'
    BY <1>1, <1>2, <1>3, <1>4, Ground DEF Promised, Queued
  <1>8. Running(e)'
    <2> SUFFICES ASSUME call'[e].pc = "callbacks" PROVE Running(e)'
      BY DEF Running
    <2>1. call'[e].todo = [n \in 1..registered[e][pos[e]] |-> <<pos[e], n>>]
      BY <1>2 DEF Promised, Queued
    <2>2. registered[e][pos[e]] \in Nat /\ pos[e] \in Nat
      <3>1. /\ registered[e] \in Seq(Nat) /\ Len(registered[e]) = Len(doc[e])
            /\ pos[e] \in Nat \ {0} /\ pos[e] <= Len(doc[e])
        <4>1. /\ registered[e] \in Seq(Nat) /\ Len(registered[e]) = Len(doc[e]) /\ pos[e] \in Nat \ {0}
          BY DEF TypeInv, TypeOK
        <4>2. pos[e] \in Fields(e)
          BY <1>2 DEF TypeInv, RunsAField
        <4> QED
          BY <4>1, <4>2 DEF Fields
      <3> QED
        BY <3>1
    <2>3. InOrder(call'[e].todo) /\ Listed(call'[e].todo) = Accepted(e, pos[e])
      BY <2>1, <2>2, OwnQueue DEF Accepted
    <2>4. \A c \in Listed(ran[e]) : c[1] < pos[e] /\ c \in Callback
      BY <1>2, <1>3 DEF Promised, RanOwn, Listed, TypeInv, TypeOK
    <2>5. \A c \in Accepted(e, pos[e]) : c[1] = pos[e]
      BY DEF Accepted
    <2>6. \A b \in Listed(ran[e]), c \in Accepted(e, pos[e]) : Promise!Precedes(b, c)
      BY <2>4, <2>5 DEF Promise!Precedes
    <2>7. Together(e)' = {pos[e]}
      BY <1>2, <1>3 DEF Together
    <2> QED
      BY <1>2, <1>4, <2>3, <2>5, <2>6, <2>7 DEF Running
  <1>9. Shares(e) => Counted(e)'
    BY <1>3
  <1>10. Shares(e) => Dropped(e)'
    BY <1>3
  <1>11. Shares(e) => Handed(e)'
    BY <1>3
  <1>12. Shares(e) => RanShared(e)'
    BY <1>3
  <1>13. ~Shares(e) => RanOwn(e)'
    BY <1>1, <1>2, <1>3, <1>4, Ground DEF Promised, RanOwn, Write, Atomic, AtField, OneDiscipline,
       Undisturbed, Backed, Decided
  <1> QED
    BY <1>3, <1>6, <1>7, <1>8, <1>9, <1>10, <1>11, <1>12, <1>13 DEF Promised

\* The transaction is published when it opens.
LEMMA SharedBeginsPromised ==
  ASSUME TypeInv, AtomicInv, NEW e \in Execution, Promised(e), SharedBegins(e), TypeInv', AtomicInv'
  PROVE  Promised(e)'
  <1> HIDE DEF Callback
  <1>1. Atomic(e) /\ Atomic(e)'
    BY DEF AtomicInv
  <1>2. /\ doc' = doc
        /\ pos'[e] = pos[e] /\ outcome'[e] = outcome[e]
        /\ registered'[e] = registered[e] /\ ran'[e] = ran[e] /\ states'[e] = states[e]
        /\ (\A i \in Nat : <<e, i>> \in durable' <=> <<e, i>> \in durable)
        /\ call'[e].pc = call[e].pc /\ call'[e].unit = call[e].unit /\ call'[e].wrote = call[e].wrote
        /\ call'[e].queue = call[e].queue /\ call'[e].todo = call[e].todo
        /\ published'[e] = TRUE
        /\ tx[e].db = "begin" /\ tx'[e].db = "open"
        /\ tx'[e].expected = tx[e].expected /\ tx'[e].completed = tx[e].completed
        /\ tx'[e].aborted = tx[e].aborted /\ tx'[e].timedOut = tx[e].timedOut /\ tx'[e].latch = tx[e].latch
        /\ tx'[e].timer = tx[e].timer /\ tx'[e].commits = tx[e].commits /\ tx'[e].closed = tx[e].closed
        /\ tx'[e].pending = tx[e].pending
    BY Ground DEF SharedBegins, ExecutionKey, SharedTxState, ResolverCall, TypeInv, TypeOK
  <1>3. Kept(e)' = Kept(e) /\ Fields(e)' = Fields(e) /\ Coercible(e)' = Coercible(e)
        /\ (Shares(e)' <=> Shares(e)) /\ Expected(e)' = Expected(e)
    BY <1>2, KeptStays, DocSame
  <1>4. \A i : Accepted(e, i)' = Accepted(e, i)
    BY <1>2 DEF Accepted
  <1>6. (\A i \in Fields(e) : i < pos[e] => outcome[e][i] # "none")'
    BY <1>1, <1>2, <1>3, <1>4, Ground DEF Promised
  <1>7. Queued(e)'
    BY <1>1, <1>2, <1>3, <1>4, Ground DEF Promised, Queued
  <1>8. Running(e)'
    BY <1>1, <1>2, <1>3, <1>4, Ground DEF Promised, Running, Together
  <1>9. Shares(e) => Counted(e)'
    <2> SUFFICES ASSUME Shares(e) PROVE Counted(e)'
      OBVIOUS
    <2>1. Kept(e) = {} /\ tx[e].completed = 0 /\ Cardinality({}) = 0
      BY <1>1, <1>2, FS_EmptySet DEF Atomic, Undisturbed
    <2>2. Coercible(e) # {}
      BY <2>1 DEF Shares, Expected
    <2> QED
      BY <1>1, <1>2, <1>3, <1>4, <2>1, <2>2, Ground DEF Promised, Counted, Ahead, Atomic, Undisturbed
  <1>10. Shares(e) => Dropped(e)'
    BY <1>1, <1>2, <1>3, <1>4, Ground DEF Promised, Counted, Dropped, Atomic, AtField, OneDiscipline,
       Undisturbed, Backed, Decided
  <1>11. Shares(e) => Handed(e)'
    BY <1>1, <1>2, <1>3, <1>4, Ground DEF Promised, Dropped, Handed, Atomic, AtField, OneDiscipline,
       Undisturbed, Backed, Decided
  <1>12. Shares(e) => RanShared(e)'
    BY <1>1, <1>2, <1>3, <1>4, Ground DEF Promised, RanShared, Dropped, Atomic, AtField,
       OneDiscipline, Undisturbed, Backed, Decided
  <1>13. ~Shares(e) => RanOwn(e)'
    BY <1>1, <1>2, <1>3, <1>4, Ground DEF Promised, RanOwn, Write, Atomic, AtField, OneDiscipline,
       Undisturbed, Backed, Decided
  <1> QED
    BY <1>3, <1>6, <1>7, <1>8, <1>9, <1>10, <1>11, <1>12, <1>13 DEF Promised

\* A transaction that never began leaves nothing behind.
LEMMA SharedBeginFailsPromised ==
  ASSUME TypeInv, AtomicInv, NEW e \in Execution, Promised(e), SharedBeginFails(e), TypeInv', AtomicInv'
  PROVE  Promised(e)'
  <1> HIDE DEF Callback
  <1>1. Atomic(e) /\ Atomic(e)'
    BY DEF AtomicInv
  <1>2. /\ doc' = doc
        /\ pos'[e] = pos[e] /\ outcome'[e] = outcome[e]
        /\ registered'[e] = registered[e] /\ ran'[e] = ran[e]
        /\ (\A i \in Nat : <<e, i>> \in durable' <=> <<e, i>> \in durable)
        /\ call'[e].pc = call[e].pc /\ call'[e].unit = call[e].unit /\ call'[e].wrote = call[e].wrote
        /\ call'[e].queue = call[e].queue /\ call'[e].todo = call[e].todo
        /\ tx[e].db = "begin" /\ tx'[e].db = "beginFailed" /\ ~tx'[e].timer
        /\ tx'[e].expected = tx[e].expected /\ tx'[e].completed = tx[e].completed
        /\ tx'[e].aborted = tx[e].aborted /\ tx'[e].timedOut = tx[e].timedOut /\ tx'[e].latch = tx[e].latch
        /\ tx'[e].commits = tx[e].commits /\ tx'[e].closed = tx[e].closed
    BY Ground DEF SharedBeginFails, ExecutionKey, CleansUp, SharedTxState, ResolverCall, TypeInv, TypeOK
  <1>3. Kept(e)' = Kept(e) /\ Fields(e)' = Fields(e) /\ Coercible(e)' = Coercible(e)
        /\ (Shares(e)' <=> Shares(e)) /\ Expected(e)' = Expected(e)
    BY <1>2, KeptStays, DocSame
  <1>4. \A i : Accepted(e, i)' = Accepted(e, i)
    BY <1>2 DEF Accepted
  <1>6. (\A i \in Fields(e) : i < pos[e] => outcome[e][i] # "none")'
    BY <1>1, <1>2, <1>3, <1>4, Ground DEF Promised
  <1>7. Queued(e)'
    BY <1>1, <1>2, <1>3, <1>4, Ground DEF Promised, Queued
  <1>8. Running(e)'
    BY <1>1, <1>2, <1>3, <1>4, Ground DEF Promised, Running, Together
  <1>9. Shares(e) => Counted(e)'
    BY <1>1, <1>2, <1>3, <1>4, Ground DEF Promised, Counted, Ahead, Dropped, Atomic, AtField,
       OneDiscipline, Undisturbed, Backed, Decided
  <1>10. Shares(e) => Dropped(e)'
    BY <1>1, <1>2, <1>3, <1>4, Ground DEF Promised, Counted, Dropped, Atomic, AtField, OneDiscipline,
       Undisturbed, Backed, Decided
  <1>11. Shares(e) => Handed(e)'
    BY <1>1, <1>2, <1>3, <1>4, Ground DEF Promised, Dropped, Handed, Atomic, AtField, OneDiscipline,
       Undisturbed, Backed, Decided
  <1>12. Shares(e) => RanShared(e)'
    BY <1>1, <1>2, <1>3, <1>4, Ground DEF Promised, RanShared, Dropped, Atomic, AtField,
       OneDiscipline, Undisturbed, Backed, Decided
  <1>13. ~Shares(e) => RanOwn(e)'
    BY <1>1, <1>2, <1>3, <1>4, Ground DEF Promised, RanOwn, Write, Atomic, AtField, OneDiscipline,
       Undisturbed, Backed, Decided
  <1> QED
    BY <1>3, <1>6, <1>7, <1>8, <1>9, <1>10, <1>11, <1>12, <1>13 DEF Promised

\* The commit changes no queue and finds no field ahead.
LEMMA SharedCommitsPromised ==
  ASSUME TypeInv, AtomicInv, NEW e \in Execution, Promised(e), SharedCommits(e), TypeInv', AtomicInv'
  PROVE  Promised(e)'
  <1> HIDE DEF Callback
  <1>1. Atomic(e) /\ Atomic(e)'
    BY DEF AtomicInv
  <1>2. /\ doc' = doc
        /\ pos'[e] = pos[e] /\ outcome'[e] = outcome[e]
        /\ registered'[e] = registered[e] /\ ran'[e] = ran[e]
        /\ call'[e].pc = call[e].pc /\ call'[e].unit = call[e].unit /\ call'[e].wrote = call[e].wrote
        /\ call'[e].queue = call[e].queue /\ call'[e].todo = call[e].todo
        /\ tx[e].db = "open" /\ tx[e].latch = "released" /\ tx'[e].db = "committed" /\ ~tx'[e].timer
        /\ states'[e] = IF tx[e].aborted THEN states[e] ELSE "none"
        /\ tx'[e].expected = tx[e].expected /\ tx'[e].completed = tx[e].completed
        /\ tx'[e].aborted = tx[e].aborted /\ tx'[e].timedOut = tx[e].timedOut /\ tx'[e].latch = tx[e].latch
        /\ tx'[e].commits = tx[e].commits /\ tx'[e].closed = tx[e].closed
    BY Ground DEF SharedCommits, ExecutionKey, CleansUp, SharedTxState, ResolverCall, TypeInv, TypeOK
  <1>3. Kept(e)' = Kept(e) /\ Fields(e)' = Fields(e) /\ Coercible(e)' = Coercible(e)
        /\ (Shares(e)' <=> Shares(e)) /\ Expected(e)' = Expected(e)
    BY <1>2, KeptStays, DocSame
  <1>4. \A i : Accepted(e, i)' = Accepted(e, i)
    BY <1>2 DEF Accepted
  <1>6. (\A i \in Fields(e) : i < pos[e] => outcome[e][i] # "none")'
    BY <1>1, <1>2, <1>3, <1>4, Ground DEF Promised
  <1>7. Queued(e)'
    BY <1>1, <1>2, <1>3, <1>4, Ground DEF Promised, Queued
  <1>8. Running(e)'
    BY <1>1, <1>2, <1>3, <1>4, Ground DEF Promised, Running, Together
  <1>9. Shares(e) => Counted(e)'
    BY <1>1, <1>2, <1>3, <1>4, Ground DEF Promised, Counted, Ahead, Dropped, Atomic, AtField,
       OneDiscipline, Undisturbed, Backed, Decided
  <1>10. Shares(e) => Dropped(e)'
    BY <1>1, <1>2, <1>3, <1>4, Ground DEF Promised, Counted, Dropped, Atomic, AtField, OneDiscipline,
       Undisturbed, Backed, Decided
  <1>11. Shares(e) => Handed(e)'
    BY <1>1, <1>2, <1>3, <1>4, Ground DEF Promised, Dropped, Handed, Atomic, AtField, OneDiscipline,
       Undisturbed, Backed, Decided
  <1>12. Shares(e) => RanShared(e)'
    BY <1>1, <1>2, <1>3, <1>4, Ground DEF Promised, RanShared, Dropped, Atomic, AtField,
       OneDiscipline, Undisturbed, Backed, Decided
  <1>13. ~Shares(e) => RanOwn(e)'
    BY <1>1, <1>2, <1>3, <1>4, Ground DEF Promised, RanOwn, Write, Atomic, AtField, OneDiscipline,
       Undisturbed, Backed, Decided
  <1> QED
    BY <1>3, <1>6, <1>7, <1>8, <1>9, <1>10, <1>11, <1>12, <1>13 DEF Promised

\* A rollback keeps the state of an aborted transaction for later fields.
LEMMA SharedRollsBackPromised ==
  ASSUME TypeInv, AtomicInv, NEW e \in Execution, Promised(e), SharedRollsBack(e), TypeInv', AtomicInv'
  PROVE  Promised(e)'
  <1> HIDE DEF Callback
  <1>1. Atomic(e) /\ Atomic(e)'
    BY DEF AtomicInv
  <1>2. /\ doc' = doc
        /\ pos'[e] = pos[e] /\ outcome'[e] = outcome[e]
        /\ registered'[e] = registered[e] /\ ran'[e] = ran[e]
        /\ (\A i \in Nat : <<e, i>> \in durable' <=> <<e, i>> \in durable)
        /\ call'[e].pc = call[e].pc /\ call'[e].unit = call[e].unit /\ call'[e].wrote = call[e].wrote
        /\ call'[e].queue = call[e].queue /\ call'[e].todo = call[e].todo
        /\ tx[e].db = "open" /\ tx[e].latch \in {"released", "rejected"} /\ tx'[e].db = "rolledBack"
        /\ ~tx'[e].timer
        /\ states'[e] = IF tx[e].aborted THEN states[e] ELSE "none"
        /\ tx'[e].expected = tx[e].expected /\ tx'[e].completed = tx[e].completed
        /\ tx'[e].aborted = tx[e].aborted /\ tx'[e].timedOut = tx[e].timedOut /\ tx'[e].latch = tx[e].latch
        /\ tx'[e].commits = tx[e].commits /\ tx'[e].closed = tx[e].closed
    BY Ground DEF SharedRollsBack, ExecutionKey, CleansUp, SharedTxState, ResolverCall, TypeInv, TypeOK
  <1>3. Kept(e)' = Kept(e) /\ Fields(e)' = Fields(e) /\ Coercible(e)' = Coercible(e)
        /\ (Shares(e)' <=> Shares(e)) /\ Expected(e)' = Expected(e)
    BY <1>2, KeptStays, DocSame
  <1>4. \A i : Accepted(e, i)' = Accepted(e, i)
    BY <1>2 DEF Accepted
  <1>6. (\A i \in Fields(e) : i < pos[e] => outcome[e][i] # "none")'
    BY <1>1, <1>2, <1>3, <1>4, Ground DEF Promised
  <1>7. Queued(e)'
    BY <1>1, <1>2, <1>3, <1>4, Ground DEF Promised, Queued
  <1>8. Running(e)'
    BY <1>1, <1>2, <1>3, <1>4, Ground DEF Promised, Running, Together
  <1>9. Shares(e) => Counted(e)'
    BY <1>1, <1>2, <1>3, <1>4, Ground DEF Promised, Counted, Ahead, Dropped, Atomic, AtField,
       OneDiscipline, Undisturbed, Backed, Decided
  <1>10. Shares(e) => Dropped(e)'
    BY <1>1, <1>2, <1>3, <1>4, Ground DEF Promised, Counted, Dropped, Atomic, AtField, OneDiscipline,
       Undisturbed, Backed, Decided
  <1>11. Shares(e) => Handed(e)'
    BY <1>1, <1>2, <1>3, <1>4, Ground DEF Promised, Dropped, Handed, Atomic, AtField, OneDiscipline,
       Undisturbed, Backed, Decided
  <1>12. Shares(e) => RanShared(e)'
    BY <1>1, <1>2, <1>3, <1>4, Ground DEF Promised, RanShared, Dropped, Atomic, AtField,
       OneDiscipline, Undisturbed, Backed, Decided
  <1>13. ~Shares(e) => RanOwn(e)'
    BY <1>1, <1>2, <1>3, <1>4, Ground DEF Promised, RanOwn, Write, Atomic, AtField, OneDiscipline,
       Undisturbed, Backed, Decided
  <1> QED
    BY <1>3, <1>6, <1>7, <1>8, <1>9, <1>10, <1>11, <1>12, <1>13 DEF Promised

\* One callback moves from the queue to what was run.
LEMMA RunCallbackPromised ==
  ASSUME TypeInv, AtomicInv, NEW e \in Execution, Promised(e), RunCallback(e), TypeInv', AtomicInv'
  PROVE  Promised(e)'
  <1> HIDE DEF Callback
  <1>1. Atomic(e) /\ Atomic(e)'
    BY DEF AtomicInv
  <1>2. /\ doc' = doc
        /\ pos'[e] = pos[e] /\ outcome'[e] = outcome[e]
        /\ registered'[e] = registered[e] /\ published'[e] = published[e] /\ states'[e] = states[e]
        /\ tx'[e] = tx[e]
        /\ (\A i \in Nat : <<e, i>> \in durable' <=> <<e, i>> \in durable)
        /\ call'[e].pc = call[e].pc /\ call'[e].unit = call[e].unit /\ call'[e].wrote = call[e].wrote
        /\ call'[e].queue = call[e].queue
        /\ call[e].pc = "callbacks" /\ call[e].todo # <<>>
        /\ call'[e].todo = Tail(call[e].todo) /\ ran'[e] = Append(ran[e], Head(call[e].todo))
    BY Ground DEF RunCallback, ExecutionKey, SharedTxState, ResolverCall, TypeInv, TypeOK
  <1>3. Kept(e)' = Kept(e) /\ Fields(e)' = Fields(e) /\ Coercible(e)' = Coercible(e)
        /\ (Shares(e)' <=> Shares(e)) /\ Expected(e)' = Expected(e)
    BY <1>2, KeptStays, DocSame
  <1>4. \A i : Accepted(e, i)' = Accepted(e, i)
    BY <1>2 DEF Accepted
  <1>5. /\ Listed(call[e].todo) = {Head(call[e].todo)} \cup Listed(call'[e].todo)
        /\ Listed(ran'[e]) = Listed(ran[e]) \cup {Head(call[e].todo)}
        /\ InOrder(call[e].todo) => /\ InOrder(call'[e].todo)
                                    /\ \A c \in Listed(call'[e].todo) : Promise!Precedes(Head(call[e].todo), c)
    <2>1. call[e].todo \in Seq(Callback) /\ ran[e] \in Seq(Callback)
      BY DEF TypeInv, TypeOK, ResolverCall
    <2>2. Head(call[e].todo) \in Callback
      BY <1>2, <2>1
    <2> QED
      BY <1>2, <2>1, <2>2, ListedGrows, ListedHead
  <1>6. (\A i \in Fields(e) : i < pos[e] => outcome[e][i] # "none")'
    BY <1>1, <1>2, <1>3, <1>4, <1>5, Ground DEF Promised
  <1>7. Queued(e)'
    BY <1>1, <1>2, <1>3, <1>4, <1>5, Ground DEF Promised, Queued
  <1>8. Running(e)'
    <2>1. Together(e)' = Together(e)
      BY <1>2, <1>3 DEF Together
    <2> QED
      BY <1>1, <1>2, <1>3, <1>4, <1>5, <2>1 DEF Promised, Running
  <1>9. Shares(e) => Counted(e)'
    BY <1>1, <1>2, <1>3, <1>4, <1>5, Ground DEF Promised, Counted, Ahead, Dropped, Atomic, AtField,
       OneDiscipline, Undisturbed, Backed, Decided
  <1>10. Shares(e) => Dropped(e)'
    BY <1>1, <1>2, <1>3, <1>4, <1>5, Ground DEF Promised, Counted, Dropped, Atomic, AtField,
       OneDiscipline, Undisturbed, Backed, Decided
  <1>11. Shares(e) => Handed(e)'
    BY <1>1, <1>2, <1>3, <1>4, <1>5, Ground DEF Promised, Dropped, Handed, Atomic, AtField,
       OneDiscipline, Undisturbed, Backed, Decided
  <1>12. Shares(e) => RanShared(e)'
    BY <1>1, <1>2, <1>3, <1>4, <1>5, Ground DEF Promised, RanShared, Dropped, Atomic, AtField,
       OneDiscipline, Undisturbed, Backed, Decided
  <1>13. ~Shares(e) => RanOwn(e)'
    <2> SUFFICES ASSUME ~Shares(e) PROVE RanOwn(e)'
      OBVIOUS
    <2>1. Head(call[e].todo)[1] = pos[e]
      BY <1>2, <1>5 DEF Promised, Running, Together
    <2>2. Write(e)' = Write(e) /\ \A i \in Fields(e) : i \in Nat
      BY <1>2, Ground DEF Write
    <2>3. Write(e) \in durable'
      BY <1>2, Ground DEF Promised, RanOwn, Write
    <2> QED
      BY <1>2, <1>3, <1>4, <1>5, <2>1, <2>2, <2>3, Ground DEF Promised, RanOwn
  <1> QED
    BY <1>3, <1>6, <1>7, <1>8, <1>9, <1>10, <1>11, <1>12, <1>13 DEF Promised

\* The timer aborts a transaction that is open.
LEMMA TimerFiresPromised ==
  ASSUME TypeInv, AtomicInv, NEW e \in Execution, Promised(e), TimerFires(e), TypeInv', AtomicInv'
  PROVE  Promised(e)'
  <1> HIDE DEF Callback
  <1>1. Atomic(e) /\ Atomic(e)'
    BY DEF AtomicInv
  <1>2. /\ doc' = doc
        /\ pos'[e] = pos[e] /\ outcome'[e] = outcome[e]
        /\ registered'[e] = registered[e] /\ published'[e] = published[e] /\ ran'[e] = ran[e]
        /\ states'[e] = states[e]
        /\ (\A i \in Nat : <<e, i>> \in durable' <=> <<e, i>> \in durable)
        /\ call'[e].pc = call[e].pc /\ call'[e].unit = call[e].unit /\ call'[e].wrote = call[e].wrote
        /\ call'[e].queue = call[e].queue /\ call'[e].todo = call[e].todo
        /\ tx[e].timer /\ ~tx'[e].timer /\ tx'[e].aborted /\ tx'[e].closed
        /\ tx'[e].expected = tx[e].expected /\ tx'[e].completed = tx[e].completed /\ tx'[e].db = tx[e].db
        /\ tx'[e].pending = tx[e].pending
    BY Ground DEF TimerFires, ExecutionKey, Abort, TimeOut, SuspendTimer, SharedTxState, ResolverCall,
       TypeInv, TypeOK
  <1>3. Kept(e)' = Kept(e) /\ Fields(e)' = Fields(e) /\ Coercible(e)' = Coercible(e)
        /\ (Shares(e)' <=> Shares(e)) /\ Expected(e)' = Expected(e)
    BY <1>2, KeptStays, DocSame
  <1>4. \A i : Accepted(e, i)' = Accepted(e, i)
    BY <1>2 DEF Accepted
  <1>6. (\A i \in Fields(e) : i < pos[e] => outcome[e][i] # "none")'
    BY <1>1, <1>2, <1>3, <1>4, Ground DEF Promised
  <1>7. Queued(e)'
    BY <1>1, <1>2, <1>3, <1>4, Ground DEF Promised, Queued
  <1>8. Running(e)'
    BY <1>1, <1>2, <1>3, <1>4, Ground DEF Promised, Running, Together
  <1>9. Shares(e) => Counted(e)'
    BY <1>1, <1>2, <1>3, <1>4, Ground DEF Promised, Counted, Ahead, Dropped, Atomic, AtField,
       OneDiscipline, Undisturbed, Backed, Decided
  <1>10. Shares(e) => Dropped(e)'
    BY <1>1, <1>2, <1>3, <1>4, Ground DEF Promised, Counted, Dropped, Atomic, AtField, OneDiscipline,
       Undisturbed, Backed, Decided
  <1>11. Shares(e) => Handed(e)'
    BY <1>1, <1>2, <1>3, <1>4, Ground DEF Promised, Dropped, Handed, Atomic, AtField, OneDiscipline,
       Undisturbed, Backed, Decided
  <1>12. Shares(e) => RanShared(e)'
    BY <1>1, <1>2, <1>3, <1>4, Ground DEF Promised, RanShared, Dropped, Atomic, AtField,
       OneDiscipline, Undisturbed, Backed, Decided
  <1>13. ~Shares(e) => RanOwn(e)'
    BY <1>1, <1>2, <1>3, <1>4, Ground DEF Promised, RanOwn, Write, Atomic, AtField, OneDiscipline,
       Undisturbed, Backed, Decided
  <1> QED
    BY <1>3, <1>6, <1>7, <1>8, <1>9, <1>10, <1>11, <1>12, <1>13 DEF Promised

\* A host that stops changes nothing.
LEMMA HostStopsPromised ==
  ASSUME TypeInv, AtomicInv, NEW e \in Execution, Promised(e), HostStops(e), TypeInv', AtomicInv'
  PROVE  Promised(e)'
  <1> HIDE DEF Callback
  <1>1. Atomic(e) /\ Atomic(e)'
    BY DEF AtomicInv
  <1>2. /\ doc' = doc
        /\ pos'[e] = pos[e] /\ outcome'[e] = outcome[e]
        /\ registered'[e] = registered[e] /\ published'[e] = published[e] /\ ran'[e] = ran[e]
        /\ states'[e] = states[e] /\ tx'[e] = tx[e]
        /\ (\A i \in Nat : <<e, i>> \in durable' <=> <<e, i>> \in durable)
        /\ call[e].pc = "between" /\ call'[e].pc = "stopped"
    BY Ground DEF HostStops, ExecutionKey, SharedTxState, ResolverCall, TypeInv, TypeOK
  <1>3. Kept(e)' = Kept(e) /\ Fields(e)' = Fields(e) /\ Coercible(e)' = Coercible(e)
        /\ (Shares(e)' <=> Shares(e)) /\ Expected(e)' = Expected(e)
    BY <1>2, KeptStays, DocSame
  <1>4. \A i : Accepted(e, i)' = Accepted(e, i)
    BY <1>2 DEF Accepted
  <1>6. (\A i \in Fields(e) : i < pos[e] => outcome[e][i] # "none")'
    BY <1>1, <1>2, <1>3, <1>4, Ground DEF Promised
  <1>7. Queued(e)'
    BY <1>1, <1>2, <1>3, <1>4, Ground DEF Promised, Queued
  <1>8. Running(e)'
    BY <1>1, <1>2, <1>3, <1>4, Ground DEF Promised, Running, Together
  <1>9. Shares(e) => Counted(e)'
    BY <1>1, <1>2, <1>3, <1>4, Ground DEF Promised, Counted, Ahead, Dropped, Atomic, AtField,
       OneDiscipline, Undisturbed, Backed, Decided
  <1>10. Shares(e) => Dropped(e)'
    BY <1>1, <1>2, <1>3, <1>4, Ground DEF Promised, Counted, Dropped, Atomic, AtField, OneDiscipline,
       Undisturbed, Backed, Decided
  <1>11. Shares(e) => Handed(e)'
    BY <1>1, <1>2, <1>3, <1>4, Ground DEF Promised, Dropped, Handed, Atomic, AtField, OneDiscipline,
       Undisturbed, Backed, Decided
  <1>12. Shares(e) => RanShared(e)'
    BY <1>1, <1>2, <1>3, <1>4, Ground DEF Promised, RanShared, Dropped, Atomic, AtField,
       OneDiscipline, Undisturbed, Backed, Decided
  <1>13. ~Shares(e) => RanOwn(e)'
    BY <1>1, <1>2, <1>3, <1>4, Ground DEF Promised, RanOwn, Write, Atomic, AtField, OneDiscipline,
       Undisturbed, Backed, Decided
  <1> QED
    BY <1>3, <1>6, <1>7, <1>8, <1>9, <1>10, <1>11, <1>12, <1>13 DEF Promised

\* What every answer leaves behind: the field has an outcome, and no queue is open any more.
LEMMA AnswerMovesOn ==
  ASSUME TypeInv, AtomicInv, NEW e \in Execution, Promised(e), NEW how \in Outcome \ {"none"},
         Answer(e, how), pos[e] \in Fields(e), doc' = doc,
         registered'[e] = registered[e], ran'[e] = ran[e]
  PROVE  /\ pos'[e] = pos[e] + 1 /\ call'[e].pc = "between"
         /\ \A i \in Fields(e) : outcome'[e][i] = IF i = pos[e] THEN how ELSE outcome[e][i]
         /\ Fields(e)' = Fields(e) /\ Coercible(e)' = Coercible(e)
         /\ Expected(e)' = Expected(e) /\ (Shares(e)' <=> Shares(e))
         /\ \A i : Accepted(e, i)' = Accepted(e, i)
         /\ Ahead(e)' \subseteq Ahead(e)
         /\ (\A i \in Fields(e) : i < pos[e] => outcome[e][i] # "none")'
         /\ Queued(e)' /\ Running(e)'
  <1>1. /\ pos'[e] = pos[e] + 1 /\ call'[e].pc = "between"
        /\ \A i \in Fields(e) : outcome'[e][i] = IF i = pos[e] THEN how ELSE outcome[e][i]
    BY AnswerEffect
  <1>2. /\ Fields(e)' = Fields(e) /\ Coercible(e)' = Coercible(e)
        /\ Expected(e)' = Expected(e) /\ (Shares(e)' <=> Shares(e))
    BY DocSame
  <1>3. \A i : Accepted(e, i)' = Accepted(e, i)
    BY DEF Accepted
  <1>4. Ahead(e)' \subseteq Ahead(e)
    BY <1>1, <1>2, Ground DEF Ahead
  <1>5. (\A i \in Fields(e) : i < pos[e] => outcome[e][i] # "none")'
    BY <1>1, <1>2, Ground DEF Promised
  <1>6. Queued(e)'
    BY <1>1, <1>2, Ground DEF Promised, Queued
  <1>7. Running(e)'
    BY <1>1 DEF Running
  <1> QED
    BY <1>1, <1>2, <1>3, <1>4, <1>5, <1>6, <1>7

\* An answer that changes neither the transaction nor the database keeps the invariant, if it
\* is "ok" exactly when the callbacks are over and names a failure only of a lost transaction.
LEMMA AnswerPromised ==
  ASSUME TypeInv, AtomicInv, NEW e \in Execution, Promised(e), NEW how \in Outcome \ {"none"},
         Answer(e, how), pos[e] \in Fields(e),
         UNCHANGED <<doc, registered, states, tx, published, durable, ran>>,
         how = "ok" <=> call[e].pc = "callbacks", call[e].pc # "commit",
         call[e].pc = "callbacks" => call[e].todo = <<>>,
         pos[e] \in Coercible(e) <=> how \in Failures \cup {"ok"},
         Shares(e) /\ how \in Failures =>
           tx[e].db = "rolledBack" \/ (tx[e].db = "beginFailed" /\ how = "noBegin")
  PROVE  Promised(e)'
  <1>1. /\ pos'[e] = pos[e] + 1 /\ call'[e].pc = "between"
        /\ \A i \in Fields(e) : outcome'[e][i] = IF i = pos[e] THEN how ELSE outcome[e][i]
        /\ Fields(e)' = Fields(e) /\ Coercible(e)' = Coercible(e)
        /\ Expected(e)' = Expected(e) /\ (Shares(e)' <=> Shares(e))
        /\ \A i : Accepted(e, i)' = Accepted(e, i)
        /\ Ahead(e)' \subseteq Ahead(e)
        /\ (\A i \in Fields(e) : i < pos[e] => outcome[e][i] # "none")'
        /\ Queued(e)' /\ Running(e)'
    BY AnswerMovesOn
  <1>2. Atomic(e) /\ pos[e] \in Nat /\ \A i \in Fields(e) : i \in Nat
    BY Ground DEF AtomicInv
  <1>3. Kept(e)' = Kept(e)
    <2>1. /\ pos[e] \notin Coercible(e) => Kept(e)' = Kept(e)
          /\ how = "ok" /\ pos[e] \in Coercible(e) => Kept(e)' = Kept(e) \cup {pos[e]}
          /\ how # "ok" => Kept(e)' = Kept(e) \ {pos[e]}
      BY <1>2, KeptAnswers DEF Atomic
    <2>2. how = "ok" /\ pos[e] \in Coercible(e) => pos[e] \in Kept(e)
      BY DEF Kept
    <2>3. how # "ok" => pos[e] \notin Kept(e)
      BY <1>2 DEF Kept, Atomic, AtField
    <2> QED
      BY <2>1, <2>2, <2>3
  <1>5. Listed(<<>>) = {}
    BY DEF Listed
  <1>6. Shares(e) => Counted(e)'
    <2> SUFFICES ASSUME Shares(e) PROVE Counted(e)'
      OBVIOUS
    <2>1. ASSUME tx[e].db \in {"none", "begin", "open", "beginFailed"}, NEW i \in Coercible(e)
          PROVE  outcome'[e][i] \in {"none", "ok", "noBegin"}
      <3>1. outcome[e][i] \in {"none", "ok", "noBegin"} /\ i \in Fields(e)
        BY <2>1, Ground DEF Promised, Counted
      <3>2. how \in Failures => how = "noBegin"
        BY <2>1
      <3>3. i = pos[e] => how \in {"ok", "noBegin"}
        BY <3>2
      <3> QED
        BY <1>1, <3>1, <3>3
    <2> QED
      BY <1>1, <1>3, <2>1 DEF Promised, Counted
  <1>7. Shares(e) => Dropped(e)'
    BY <1>1 DEF Promised, Dropped
  <1>8. Shares(e) => Handed(e)'
    BY <1>1, <1>3 DEF Promised, Handed
  <1>9. Shares(e) => RanShared(e)'
    BY <1>1, <1>5 DEF Promised, RanShared, Running, Together
  <1>10. ~Shares(e) => RanOwn(e)'
    <2> SUFFICES ASSUME ~Shares(e) PROVE RanOwn(e)'
      OBVIOUS
    <2>1. \A c \in Listed(ran[e]) : c[1] \in Nat
      BY DEF Listed, TypeInv, TypeOK, Callback
    <2>2. \A c \in Listed(ran'[e]) : c[1] < pos'[e]
      BY <1>1, <1>2, <2>1 DEF Promised, RanOwn
    <2>3. ASSUME NEW i \in Coercible(e), outcome'[e][i] = "ok"
          PROVE  <<e, i>> \in durable /\ Accepted(e, i) \subseteq Listed(ran[e])
      <3>1. CASE i = pos[e]
        BY <1>1, <1>5, <2>3, <3>1, Ground DEF Promised, RanOwn, Running, Together, Write
      <3>2. CASE i # pos[e]
        BY <1>1, <2>3, <3>2, Ground DEF Promised, RanOwn
      <3> QED
        BY <3>1, <3>2
    <2> QED
      BY <1>1, <2>2, <2>3 DEF RanOwn
  <1> QED
    BY <1>1, <1>6, <1>7, <1>8, <1>9, <1>10 DEF Promised

\* The last callback is run before the field is answered.
LEMMA CallbacksDonePromised ==
  ASSUME TypeInv, AtomicInv, NEW e \in Execution, Promised(e), CallbacksDone(e), TypeInv', AtomicInv'
  PROVE  Promised(e)'
  <1>1. Atomic(e) /\ pos[e] \in Coercible(e) /\ pos[e] \in Fields(e)
    BY Ground DEF AtomicInv, Atomic, AtField, CallbacksDone
  <1> QED
    BY <1>1, AnswerPromised DEF CallbacksDone, Outcome, Failures

\* A field that is skipped was never going to be counted.
LEMMA SkipFieldPromised ==
  ASSUME TypeInv, AtomicInv, NEW e \in Execution, Promised(e), SkipField(e), TypeInv', AtomicInv'
  PROVE  Promised(e)'
  <1>1. doc[e] \in Seq(RootField) /\ pos[e] \in 1..Len(doc[e])
    BY DocumentsAssumption DEF SkipField, Fields, TypeInv, TypeOK
  <1>2. Kind(e) \in Outcome \ ({"none", "ok"} \cup Failures) /\ pos[e] \in Fields(e) \ Coercible(e)
    BY <1>1 DEF SkipField, Kind, Outcome, Failures, Fields, Coercible
  <1> QED
    BY <1>2, AnswerPromised DEF SkipField

\* A failed field is answered once its transaction is rolled back.
LEMMA UnwindResumesPromised ==
  ASSUME TypeInv, AtomicInv, NEW e \in Execution, Promised(e), UnwindResumes(e), TypeInv', AtomicInv'
  PROVE  Promised(e)'
  <1> DEFINE how == IF call[e].pc = "unwind" THEN "error"
                    ELSE IF tx[e].timedOut THEN "timedOut" ELSE "aborted"
  <1>1. how \in Failures \ {"noBegin"} /\ Answer(e, how)
    BY DEF UnwindResumes, ExecutionKey, Failures
  <1>2. Atomic(e) /\ pos[e] \in Coercible(e) /\ pos[e] \in Fields(e) /\ Shares(e)
    BY Ground DEF AtomicInv, Atomic, AtField, OneDiscipline, UnwindResumes
  <1>3. tx[e].db = "rolledBack"
    BY <1>2 DEF Promised, Dropped, UnwindResumes, Done, ExecutionKey
  <1> HIDE DEF how
  <1> QED
    BY <1>1, <1>2, <1>3, AnswerPromised DEF UnwindResumes, Outcome, Failures

\* A field of its own that throws is answered, or rolled back first.
LEMMA OwnThrowsPromised ==
  ASSUME TypeInv, AtomicInv, NEW e \in Execution, Promised(e), OwnThrows(e), TypeInv', AtomicInv'
  PROVE  Promised(e)'
  <1>1. Atomic(e) /\ pos[e] \in Coercible(e) /\ pos[e] \in Fields(e) /\ ~Shares(e)
    BY Ground DEF AtomicInv, Atomic, AtField, OneDiscipline, OwnThrows
  <1>2. CASE call[e].unit # "tx"
    BY <1>1, <1>2, AnswerPromised DEF OwnThrows, Outcome, Failures
  <1>3. CASE call[e].unit = "tx"
    <2>1. /\ doc' = doc /\ pos'[e] = pos[e] /\ outcome'[e] = outcome[e] /\ registered'[e] = registered[e]
          /\ ran'[e] = ran[e] /\ durable' = durable
          /\ call[e].pc = "body" /\ call'[e].pc = "ownRollback" /\ call'[e].queue = call[e].queue
      <3>1. call[e] \in ResolverCall /\ call'[e] = [call[e] EXCEPT !.pc = "ownRollback"]
        BY <1>3 DEF OwnThrows, TypeInv, TypeOK
      <3>2. call'[e].pc = "ownRollback" /\ call'[e].queue = call[e].queue
        BY <3>1 DEF ResolverCall
      <3> QED
        BY <1>3, <3>2 DEF OwnThrows
    <2>2. Fields(e)' = Fields(e) /\ Coercible(e)' = Coercible(e) /\ (Shares(e)' <=> Shares(e))
          /\ \A i : Accepted(e, i)' = Accepted(e, i)
      BY <2>1, DocSame DEF Accepted
    <2>3. Queued(e)' /\ (\A i \in Fields(e) : i < pos[e] => outcome[e][i] # "none")'
      BY <2>1, <2>2 DEF Promised, Queued
    <2>4. Running(e)'
      BY <2>1 DEF Running
    <2>5. RanOwn(e)'
      BY <1>1, <2>1, <2>2 DEF Promised, RanOwn, Write
    <2> QED
      BY <1>1, <2>2, <2>3, <2>4, <2>5 DEF Promised
  <1> QED
    BY <1>2, <1>3

\* A field whose own transaction opens still has an empty queue.
LEMMA OwnBeginsPromised ==
  ASSUME TypeInv, AtomicInv, NEW e \in Execution, Promised(e), OwnBegins(e), TypeInv', AtomicInv'
  PROVE  Promised(e)'
  <1>1. Atomic(e) /\ pos[e] \in Coercible(e) /\ pos[e] \in Fields(e) /\ ~Shares(e) /\ call[e].unit = "tx"
    BY Ground DEF AtomicInv, Atomic, AtField, OneDiscipline, OwnBegins
  <1>2. CASE Answer(e, "noBegin")
    BY <1>1, <1>2, AnswerPromised DEF OwnBegins, Outcome, Failures
  <1>3. CASE call' = [call EXCEPT ![e].pc = "body", ![e].open = TRUE] /\ UNCHANGED <<pos, outcome>>
    <2>1. /\ doc' = doc /\ pos'[e] = pos[e] /\ outcome'[e] = outcome[e] /\ registered'[e] = registered[e]
          /\ ran'[e] = ran[e] /\ durable' = durable /\ call[e].pc = "ownBegin" /\ call'[e].pc = "body"
          /\ call'[e].queue = call[e].queue /\ call'[e].unit = "tx"
      <3>1. call[e] \in ResolverCall /\ call'[e] = [call[e] EXCEPT !.pc = "body", !.open = TRUE]
        BY <1>3 DEF TypeInv, TypeOK
      <3>2. call'[e].pc = "body" /\ call'[e].queue = call[e].queue /\ call'[e].unit = call[e].unit
        BY <3>1 DEF ResolverCall
      <3> QED
        BY <1>1, <1>3, <3>2 DEF OwnBegins
    <2>2. Fields(e)' = Fields(e) /\ Coercible(e)' = Coercible(e) /\ (Shares(e)' <=> Shares(e))
          /\ \A i : Accepted(e, i)' = Accepted(e, i)
      BY <2>1, DocSame DEF Accepted
    <2>3. Queued(e)' /\ (\A i \in Fields(e) : i < pos[e] => outcome[e][i] # "none")'
      BY <2>1, <2>2 DEF Promised, Queued
    <2>4. Running(e)'
      BY <2>1 DEF Running
    <2>5. RanOwn(e)'
      BY <1>1, <2>1, <2>2 DEF Promised, RanOwn, Write
    <2> QED
      BY <1>1, <2>2, <2>3, <2>4, <2>5 DEF Promised
  <1> QED
    BY <1>2, <1>3 DEF OwnBegins

\* The body starts with an empty queue, unless the transaction never began.
LEMMA ReadyResumesPromised ==
  ASSUME TypeInv, AtomicInv, NEW e \in Execution, Promised(e), ReadyResumes(e), TypeInv', AtomicInv'
  PROVE  Promised(e)'
  <1>1. Atomic(e) /\ pos[e] \in Coercible(e) /\ pos[e] \in Fields(e) /\ Shares(e)
    BY Ground DEF AtomicInv, Atomic, AtField, OneDiscipline, ReadyResumes
  <1>2. CASE tx[e].db = "beginFailed"
    BY <1>1, <1>2, AnswerPromised DEF ReadyResumes, ExecutionKey, Outcome, Failures
  <1>3. CASE tx[e].db # "beginFailed"
    <2>1. tx[e].db = "open" /\ ~tx[e].aborted
      BY <1>1, <1>3 DEF ReadyResumes, ExecutionKey, Atomic, Undisturbed
    <2>2. /\ doc' = doc /\ pos'[e] = pos[e] /\ outcome'[e] = outcome[e] /\ registered'[e] = registered[e]
          /\ tx'[e] = tx[e] /\ states'[e] = states[e] /\ published'[e] = published[e]
          /\ ran'[e] = ran[e] /\ durable' = durable /\ call[e].pc = "awaitReady" /\ call'[e].pc = "body"
          /\ call'[e].queue = <<>>
      <3>1. call'[e] = [Idle EXCEPT !.pc = "body", !.unit = "shared", !.open = TRUE]
        BY <1>3, <2>1 DEF ReadyResumes, ExecutionKey, TypeInv, TypeOK
      <3>2. call'[e].pc = "body" /\ call'[e].queue = <<>>
        BY <3>1 DEF Idle
      <3> QED
        BY <1>3, <3>2 DEF ReadyResumes, ExecutionKey
    <2>3. Fields(e)' = Fields(e) /\ Coercible(e)' = Coercible(e) /\ (Shares(e)' <=> Shares(e))
          /\ Kept(e)' = Kept(e) /\ \A i : Accepted(e, i)' = Accepted(e, i)
      BY <2>2, DocSame, KeptStays DEF Accepted
    <2>4. Queued(e)' /\ (\A i \in Fields(e) : i < pos[e] => outcome[e][i] # "none")'
      <3>1. registered[e][pos[e]] = 0
        BY <1>1, <2>2 DEF Promised, Queued
      <3>2. call'[e].queue = [n \in 1..registered[e][pos[e]] |-> <<pos[e], n>>]
        BY <2>2, <3>1
      <3> QED
        BY <2>2, <2>3, <3>2 DEF Promised, Queued
    <2>5. Running(e)'
      BY <2>2 DEF Running
    <2>6. Counted(e)' /\ Dropped(e)' /\ Handed(e)'
      BY <1>1, <2>1, <2>2, <2>3, Ground DEF Promised, Counted, Ahead, Dropped, Handed
    <2>7. RanShared(e)'
      BY <1>1, <2>1, <2>2, <2>3 DEF Promised, RanShared
    <2> QED
      BY <1>1, <2>3, <2>4, <2>5, <2>6, <2>7 DEF Promised
  <1> QED
    BY <1>2, <1>3

\* The queue of a field that is its own unit, as it is handed on to be run.
LEMMA OwnQueueRuns ==
  ASSUME TypeInv, NEW e \in Execution, Promised(e), ~Shares(e), pos[e] \in Fields(e),
         call[e].pc \in {"body", "ownCommit"}, call'[e].pc = "callbacks", call'[e].todo = call[e].queue,
         doc' = doc, pos'[e] = pos[e], registered'[e] = registered[e], ran'[e] = ran[e]
  PROVE  Running(e)'
  <1>1. call'[e].todo = [n \in 1..registered[e][pos[e]] |-> <<pos[e], n>>]
    BY DEF Promised, Queued
  <1>2. registered[e][pos[e]] \in Nat /\ pos[e] \in Nat
    BY DEF TypeInv, TypeOK, Fields
  <1>3. InOrder(call'[e].todo) /\ Listed(call'[e].todo) = Accepted(e, pos[e])
    BY <1>1, <1>2, OwnQueue DEF Accepted
  <1>4. \A c \in Listed(ran[e]) : c[1] < pos[e] /\ c \in Callback
    BY DEF Promised, RanOwn, Listed, TypeInv, TypeOK
  <1>5. \A c \in Accepted(e, pos[e]) : c[1] = pos[e]
    BY DEF Accepted
  <1>6. \A b \in Listed(ran[e]), c \in Accepted(e, pos[e]) : Promise!Precedes(b, c)
    BY <1>4, <1>5 DEF Promise!Precedes
  <1>7. Together(e)' = {pos[e]} /\ Accepted(e, pos[e])' = Accepted(e, pos[e])
    BY DocSame DEF Together, Accepted
  <1> QED
    BY <1>3, <1>5, <1>6, <1>7 DEF Running

\* The commit of a field of its own makes its write durable before its callbacks run.
LEMMA OwnSettlesPromised ==
  ASSUME TypeInv, AtomicInv, NEW e \in Execution, Promised(e), OwnSettles(e), TypeInv', AtomicInv'
  PROVE  Promised(e)'
  <1> HIDE DEF Callback
  <1>1. Atomic(e) /\ pos[e] \in Coercible(e) /\ pos[e] \in Fields(e) /\ ~Shares(e)
        /\ call[e].pc \in {"ownCommit", "ownRollback"}
    BY Ground DEF AtomicInv, Atomic, AtField, OneDiscipline, OwnSettles
  <1>2. CASE Answer(e, "error") /\ UNCHANGED <<doc, registered, states, tx, published, durable, ran>>
    BY <1>1, <1>2, AnswerPromised DEF Outcome, Failures
  <1>3. CASE /\ call[e].pc = "ownCommit"
             /\ durable' = durable \cup {Write(e)}
             /\ call' = [call EXCEPT ![e] = [Idle EXCEPT !.pc = "callbacks", !.todo = call[e].queue]]
             /\ UNCHANGED <<doc, pos, outcome, registered, states, tx, published, ran>>
    <2>1. call'[e].pc = "callbacks" /\ call'[e].todo = call[e].queue
      BY <1>3 DEF Idle, TypeInv, TypeOK
    <2>2. Fields(e)' = Fields(e) /\ Coercible(e)' = Coercible(e) /\ (Shares(e)' <=> Shares(e))
          /\ \A i : Accepted(e, i)' = Accepted(e, i)
      BY <1>3, DocSame DEF Accepted
    <2>3. Queued(e)' /\ (\A i \in Fields(e) : i < pos[e] => outcome[e][i] # "none")'
      BY <1>1, <1>3, <2>1, <2>2 DEF Promised, Queued
    <2>4. Running(e)'
      BY <1>1, <1>3, <2>1, OwnQueueRuns
    <2>5. RanOwn(e)'
      BY <1>1, <1>3, <2>1, <2>2 DEF Promised, RanOwn, Write
    <2> QED
      BY <1>1, <2>2, <2>3, <2>4, <2>5 DEF Promised
  <1> QED
    BY <1>2, <1>3 DEF OwnSettles

\* After the commit every callback is handed over; after a failed one none is.
LEMMA CommitResumesPromised ==
  ASSUME TypeInv, AtomicInv, NEW e \in Execution, Promised(e), CommitResumes(e), TypeInv', AtomicInv'
  PROVE  Promised(e)'
  <1> HIDE DEF Callback
  <1>1. /\ Atomic(e) /\ pos[e] \in Coercible(e) /\ pos[e] \in Fields(e) /\ Shares(e)
        /\ tx[e].db \in {"committed", "rolledBack"} /\ ran[e] = <<>> /\ ~tx[e].timer /\ pos[e] \in Kept(e)
    BY Ground DEF AtomicInv, Atomic, AtField, OneDiscipline, Undisturbed, CommitResumes, Done, ExecutionKey,
                  Promised, RanShared, Kept
  <1>2. CASE tx[e].db = "committed"
    <2>1. /\ doc' = doc /\ pos'[e] = pos[e] /\ outcome'[e] = outcome[e] /\ registered'[e] = registered[e]
          /\ states'[e] = states[e] /\ published'[e] = published[e] /\ ran'[e] = ran[e]
          /\ durable' = durable
          /\ call[e].pc = "commit" /\ call'[e].pc = "callbacks" /\ call'[e].todo = tx[e].commits
          /\ tx'[e].db = tx[e].db /\ tx'[e].timer = tx[e].timer /\ tx'[e].aborted = tx[e].aborted
      <3>1. tx'[e] = [tx[e] EXCEPT !.commits = <<>>, !.closed = TRUE]
            /\ call'[e] = [Idle EXCEPT !.pc = "callbacks", !.todo = tx[e].commits]
        BY <1>2 DEF CommitResumes, ExecutionKey, TypeInv, TypeOK
      <3>2. call'[e].pc = "callbacks" /\ call'[e].todo = tx[e].commits
        BY <3>1 DEF Idle
      <3>3. tx'[e].db = tx[e].db /\ tx'[e].timer = tx[e].timer /\ tx'[e].aborted = tx[e].aborted
        BY <3>1, Ground DEF SharedTxState
      <3> QED
        BY <1>2, <3>2, <3>3 DEF CommitResumes, ExecutionKey
    <2>2. Fields(e)' = Fields(e) /\ Coercible(e)' = Coercible(e) /\ (Shares(e)' <=> Shares(e))
          /\ \A i : Accepted(e, i)' = Accepted(e, i)
      BY <2>1, DocSame DEF Accepted
    <2>3. Queued(e)' /\ (\A i \in Fields(e) : i < pos[e] => outcome[e][i] # "none")'
      BY <2>1, <2>2 DEF Promised, Queued
    <2>4. Running(e)'
      <3>1. Together(e)' = Coercible(e) /\ Kept(e) = Coercible(e)
        BY <1>1, <1>2, <2>2 DEF Together, Atomic, Decided
      <3>2. Listed(ran'[e]) = {}
        BY <1>1, <2>1 DEF Listed
      <3> QED
        BY <1>1, <2>1, <2>2, <3>1, <3>2 DEF Promised, Handed, Running
    <2>5. Counted(e)' /\ Dropped(e)' /\ Handed(e)' /\ RanShared(e)'
      BY <1>1, <1>2, <2>1, <2>2 DEF Promised, Counted, Ahead, Dropped, Handed, RanShared
    <2> QED
      BY <1>1, <2>2, <2>3, <2>4, <2>5 DEF Promised
  <1>3. CASE tx[e].db = "rolledBack"
    <2>1. /\ Answer(e, "error") /\ doc' = doc /\ registered'[e] = registered[e] /\ ran'[e] = ran[e]
          /\ tx'[e].db = tx[e].db /\ tx'[e].timer = tx[e].timer /\ tx'[e].aborted /\ states'[e] = states[e]
      <3>1. Answer(e, "error") /\ tx'[e] = Abort(tx[e])
        BY <1>3 DEF CommitResumes, ExecutionKey, TypeInv, TypeOK
      <3>2. Abort(tx[e]).db = tx[e].db /\ Abort(tx[e]).timer = tx[e].timer /\ Abort(tx[e]).aborted = TRUE
        BY Ground DEF Abort, SharedTxState
      <3> QED
        BY <3>1, <3>2 DEF CommitResumes
    <2>2. /\ call'[e].pc = "between" /\ Coercible(e)' = Coercible(e) /\ (Shares(e)' <=> Shares(e))
          /\ Ahead(e)' \subseteq Ahead(e)
          /\ (\A i \in Fields(e) : i < pos[e] => outcome[e][i] # "none")'
          /\ Queued(e)' /\ Running(e)'
      BY <1>1, <2>1, AnswerMovesOn DEF Outcome, Failures
    <2>3. Kept(e)' = Kept(e) \ {pos[e]}
      BY <1>1, <2>1, KeptAnswers DEF Outcome, Failures, Atomic
    <2>4. Counted(e)'
      BY <1>1, <1>3, <2>1, <2>2, <2>3 DEF Promised, Counted
    <2>5. Dropped(e)' /\ Handed(e)' /\ RanShared(e)'
      BY <1>1, <1>3, <2>1, <2>2 DEF Dropped, Handed, RanShared
    <2> QED
      BY <1>1, <2>2, <2>4, <2>5 DEF Promised
  <1> QED
    BY <1>1, <1>2, <1>3

\* A field that succeeded is counted, and its queue joins the others in order.
LEMMA SharedReturnsPromised ==
  ASSUME TypeInv, AtomicInv, NEW e \in Execution, Promised(e), SharedReturns(e), TypeInv', AtomicInv'
  PROVE  Promised(e)'
  <1> HIDE DEF Callback
  <1> DEFINE t == [tx[e] EXCEPT !.completed = tx[e].completed + 1]
             s == Keep(t, call[e].queue)
  <1>1. /\ Atomic(e) /\ pos[e] \in Coercible(e) /\ pos[e] \in Fields(e) /\ Shares(e) /\ pos[e] \in Nat
        /\ call[e].pc = "body" /\ tx[e].db = "open" /\ ~tx[e].aborted /\ ~tx[e].timer /\ ~tx[e].closed
        /\ tx[e].completed \in Nat /\ tx[e].commits \in Seq(Callback) /\ call[e].queue \in Seq(Callback)
        /\ tx[e] \in SharedTxState
    BY Ground DEF AtomicInv, Atomic, AtField, OneDiscipline, Undisturbed, SharedReturns, Promised, Dropped,
                  SharedTxState, ResolverCall
  <1>2. /\ s.db = "open" /\ s.completed = tx[e].completed + 1 /\ s.expected = tx[e].expected
        /\ s.commits = tx[e].commits \o call[e].queue
    <2>1. /\ t.db = "open" /\ t.completed = tx[e].completed + 1 /\ t.expected = tx[e].expected
          /\ t.commits = tx[e].commits /\ DOMAIN t = DOMAIN tx[e] /\ t.closed = tx[e].closed
      BY <1>1 DEF SharedTxState
    <2>2. DOMAIN tx[e] = DOMAIN NoShared
      BY <1>1 DEF SharedTxState, NoShared, NewShared
    <2> HIDE DEF t
    <2>3. s = [t EXCEPT !.commits = t.commits \o call[e].queue]
      BY <1>1, <2>1 DEF Keep
    <2> QED
      BY <2>1, <2>2, <2>3 DEF NoShared, NewShared
  <1>3. ~s.aborted /\ ~s.timer /\ ~s.closed
    BY <1>1 DEF Keep, SharedTxState
  <1>4. s.latch = "pending"
    BY <1>1 DEF Keep, SharedTxState, Atomic, Undisturbed
  <1>5. pos[e] \notin Kept(e) /\ Cardinality(Kept(e) \cup {pos[e]}) = Cardinality(Kept(e)) + 1
        /\ \A i \in Kept(e) : i < pos[e]
    <2>1. outcome[e][pos[e]] = "none" /\ \A i \in Kept(e) : i <= pos[e] /\ i \in Nat
      BY <1>1, Ground, KeptBehind DEF Atomic, AtField
    <2>2. pos[e] \notin Kept(e)
      BY <1>1, <2>1 DEF Kept
    <2>3. Cardinality(Kept(e) \cup {pos[e]}) = Cardinality(Kept(e)) + 1
      BY <2>2, Ground, FS_AddElement
    <2> QED
      BY <1>1, <2>1, <2>2, <2>3
  <1>6. /\ InOrder(s.commits)
        /\ \A c \in Listed(s.commits) : c[1] \in Kept(e) \cup {pos[e]}
        /\ \A i \in Kept(e) \cup {pos[e]} : Accepted(e, i) \subseteq Listed(s.commits)
    <2>1. /\ InOrder(tx[e].commits)
          /\ \A c \in Listed(tx[e].commits) : c[1] \in Kept(e)
          /\ \A i \in Kept(e) : Accepted(e, i) \subseteq Listed(tx[e].commits)
      BY <1>1 DEF Promised, Handed
    <2>2. InOrder(call[e].queue) /\ Listed(call[e].queue) = Accepted(e, pos[e])
      <3>1. registered[e][pos[e]] \in Nat
        BY <1>1 DEF TypeInv, TypeOK, Fields
      <3> QED
        BY <1>1, <3>1, OwnQueue DEF Promised, Queued, Accepted
    <2>3. \A c \in Listed(call[e].queue) : c[1] = pos[e]
      BY <2>2 DEF Accepted
    <2>4. \A b \in Listed(tx[e].commits), c \in Listed(call[e].queue) : Promise!Precedes(b, c)
      BY <1>5, <2>1, <2>3 DEF Promise!Precedes
    <2>5. InOrder(s.commits)
      BY <1>1, <1>2, <2>1, <2>2, <2>4, InOrderConcat
    <2>6. Listed(s.commits) = Listed(tx[e].commits) \cup Listed(call[e].queue)
      <3>1. <<0, 0>> \in Callback
        BY DEF Callback
      <3> QED
        BY <1>1, <1>2, <3>1, ListedGrows
    <2> QED
      BY <2>1, <2>2, <2>3, <2>5, <2>6
  <1> HIDE DEF t, s
  <1>7. /\ doc' = doc /\ registered'[e] = registered[e] /\ states'[e] = states[e]
        /\ published'[e] = published[e]
        /\ ran'[e] = ran[e] /\ durable' = durable
        /\ Fields(e)' = Fields(e) /\ Coercible(e)' = Coercible(e) /\ (Shares(e)' <=> Shares(e))
        /\ \A i : Accepted(e, i)' = Accepted(e, i)
    BY DocSame DEF SharedReturns, Accepted
  <1>8. /\ tx'[e].db = "open" /\ tx'[e].completed = tx[e].completed + 1 /\ tx'[e].commits = s.commits
        /\ ~tx'[e].aborted /\ ~tx'[e].closed
    <2>1. s \in SharedTxState
      <3>1. t \in SharedTxState
        BY <1>1 DEF t, SharedTxState
      <3> QED
        BY <1>1, <3>1, SharedMethods DEF s
    <2>2. tx'[e] = Release(s) \/ tx'[e] = BumpTimer(s)
      BY DEF SharedReturns, ExecutionKey, s, t, TypeInv, TypeOK
    <2> QED
      BY <1>2, <1>3, <2>1, <2>2 DEF Release, BumpTimer, SharedTxState
  <1>9. CASE IsLast(s)
    <2>1. pos'[e] = pos[e] /\ outcome'[e] = outcome[e] /\ call'[e].pc = "commit"
      BY <1>9 DEF SharedReturns, ExecutionKey, Idle, s, t, TypeInv, TypeOK
    <2>2. Kept(e)' = Kept(e) \cup {pos[e]}
      BY <1>1, <1>7, <2>1 DEF Kept
    <2>3. Queued(e)' /\ (\A i \in Fields(e) : i < pos[e] => outcome[e][i] # "none")' /\ Running(e)'
      BY <1>1, <1>7, <2>1 DEF Promised, Queued, Running
    <2>4. Counted(e)'
      BY <1>1, <1>5, <1>7, <1>8, <2>1, <2>2, Ground DEF Promised, Counted, Ahead
    <2>5. Dropped(e)' /\ Handed(e)'
      BY <1>6, <1>7, <1>8, <2>1, <2>2 DEF Dropped, Handed
    <2>6. RanShared(e)'
      BY <1>1, <1>7, <1>8, <2>1 DEF Promised, RanShared
    <2> QED
      BY <1>1, <1>7, <2>3, <2>4, <2>5, <2>6 DEF Promised
  <1>10. CASE ~IsLast(s)
    <2>1. Answer(e, "ok")
      BY <1>10 DEF SharedReturns, ExecutionKey, s, t
    <2>2. /\ call'[e].pc = "between" /\ Ahead(e)' \subseteq Ahead(e)
          /\ \A i \in Fields(e) : outcome'[e][i] = IF i = pos[e] THEN "ok" ELSE outcome[e][i]
          /\ (\A i \in Fields(e) : i < pos[e] => outcome[e][i] # "none")'
          /\ Queued(e)' /\ Running(e)'
      BY <1>1, <1>7, <2>1, AnswerMovesOn DEF Outcome
    <2>3. Kept(e)' = Kept(e) \cup {pos[e]}
      BY <1>1, <1>7, <2>1, KeptAnswers DEF Outcome, Failures, Atomic
    <2>4. Kept(e)' # Coercible(e)
      <3>1. tx[e].expected = Cardinality(Coercible(e)) /\ tx[e].completed = Cardinality(Kept(e))
        BY <1>1 DEF Promised, Counted, Atomic, Backed, Expected
      <3>2. tx[e].completed + 1 < Cardinality(Coercible(e))
        BY <1>1, <1>2, <1>10, <3>1, Ground DEF IsLast
      <3> QED
        <4>1. ASSUME Kept(e) \cup {pos[e]} = Coercible(e) PROVE FALSE
          <5>1. Cardinality(Coercible(e)) = Cardinality(Kept(e)) + 1
            BY <1>5, <4>1
          <5>2. Cardinality(Kept(e)) \in Nat
            BY Ground
          <5> QED
            BY <3>1, <3>2, <5>1, <5>2
        <4> QED
          BY <2>3, <4>1
    <2>5. Counted(e)'
      BY <1>1, <1>5, <1>7, <1>8, <2>2, <2>3, <2>4, Ground DEF Promised, Counted
    <2>6. Dropped(e)' /\ Handed(e)'
      BY <1>6, <1>7, <1>8, <2>2, <2>3 DEF Dropped, Handed
    <2>7. RanShared(e)'
      BY <1>1, <1>7, <1>8, <2>2 DEF Promised, RanShared
    <2> QED
      BY <1>1, <1>7, <2>2, <2>5, <2>6, <2>7 DEF Promised
  <1> QED
    BY <1>9, <1>10

-----------------------------------------------------------------------------
(* The invariant of every behaviour. *)

\* Every step keeps what the promise rests on.
LEMMA PromiseStep ==
  TypeInv /\ AtomicInv /\ PromiseInv /\ [Next]_vars => PromiseInv'
  <1> SUFFICES ASSUME TypeInv, AtomicInv, PromiseInv, [Next]_vars, NEW f \in Execution
               PROVE  Promised(f)'
    BY DEF PromiseInv
  <1>1. TypeInv' /\ AtomicInv'
    BY TypeStep, AtomicStep
  <1>2. Promised(f)
    BY DEF PromiseInv
  <1>3. CASE UNCHANGED vars
    <2>1. Still(f)
      BY <1>3 DEF Still, vars
    <2> QED
      BY <1>2, <2>1, StillPromised
  <1>4. ASSUME NEW e \in Execution, Step(e) PROVE Promised(f)'
    <2>1. CASE f # e
      BY <1>2, <1>4, <2>1, StepsAlone, StillPromised
    <2>2. CASE f = e
      BY <1>1, <1>2, <1>4, <2>2,
         OpenSharedPromised, JoinSharedPromised, StartOwnPromised, SkipFieldPromised,
         HookRegistersPromised, StatementPromised, SharedReturnsPromised, SharedThrowsPromised,
         OwnReturnsPromised, OwnThrowsPromised, OwnBeginsPromised, OwnSettlesPromised,
         SharedBeginsPromised, SharedBeginFailsPromised, SharedCommitsPromised,
         SharedRollsBackPromised, ReadyResumesPromised, CommitResumesPromised,
         UnwindResumesPromised, RunCallbackPromised, CallbacksDonePromised,
         TimerFiresPromised, HostStopsPromised
      DEF Step, Starts, BodyEnds, Driver, Resumes, Callbacks
    <2> QED
      BY <2>1, <2>2
  <1> QED
    BY <1>3, <1>4 DEF Next, Rest

\* The initial states satisfy it.
LEMMA PromiseStart == Init => PromiseInv
  <1> SUFFICES ASSUME Init, NEW e \in Execution PROVE Promised(e)
    BY DEF PromiseInv
  <1>1. TypeInv /\ AtomicInv
    BY AtomicStart
  <1>2. /\ pos[e] = 1 /\ call[e].pc = "between" /\ states[e] = "none" /\ durable = {}
        /\ \A i \in Fields(e) : outcome[e][i] = "none" /\ registered[e][i] = 0
        /\ tx[e].db = "none" /\ tx[e].timer = FALSE /\ tx[e].aborted = FALSE /\ ran[e] = <<>>
    BY DEF Init, Idle, NoShared, NewShared
  <1>3. Kept(e) = {} /\ Listed(ran[e]) = {}
    BY <1>2 DEF Kept, Coercible, Listed
  <1>4. Queued(e) /\ Running(e) /\ \A i \in Fields(e) : i < pos[e] => outcome[e][i] # "none"
    BY <1>1, <1>2, Ground DEF Queued, Running, Fields
  <1>5. Counted(e) /\ Dropped(e) /\ Handed(e) /\ RanShared(e)
    BY <1>1, <1>2, <1>3, Ground DEF Counted, Dropped, Handed, RanShared
  <1>6. RanOwn(e)
    BY <1>1, <1>2, <1>3, Ground DEF RanOwn
  <1> QED
    BY <1>4, <1>5, <1>6 DEF Promised

\* Both halves of the inductive invariant hold in every state of every behaviour.
LEMMA PromiseInvariant == Spec => [](TypeInv /\ AtomicInv /\ PromiseInv)
  <1>1. Init => TypeInv /\ AtomicInv /\ PromiseInv
    BY AtomicStart, PromiseStart
  <1>2. TypeInv /\ AtomicInv /\ PromiseInv /\ [Next]_vars => (TypeInv /\ AtomicInv /\ PromiseInv)'
    BY TypeStep, AtomicStep, PromiseStep
  <1> QED
    BY <1>1, <1>2, PTL DEF Spec

-----------------------------------------------------------------------------
(* What an answer means. *)

\* Once the last root field of a request is answered no shared transaction is open, unless
\* its BEGIN failed on the way (transactions.ts, completion count and fail-fast).
THEOREM AnsweredIsSettled == Spec => []SettledUnlessRefused
  <1>1. TypeInv /\ AtomicInv /\ PromiseInv => SettledUnlessRefused
    <2> SUFFICES ASSUME TypeInv, AtomicInv, PromiseInv, NEW e \in Execution, Answered(e),
                        \A i \in Fields(e) : outcome[e][i] # "noBegin", HoldsTx(tx[e])
                 PROVE  FALSE
      BY DEF SettledUnlessRefused, ExecutionKey
    <2>1. Atomic(e) /\ Promised(e) /\ Shares(e) /\ tx[e].db \in {"begin", "open"}
      BY DEF AtomicInv, PromiseInv, Atomic, OneDiscipline, HoldsTx
    <2>2. tx[e].db = "open" /\ call[e].pc = "between"
      BY <2>1 DEF Atomic, Undisturbed, Answered
    <2>3. PICK i \in Coercible(e) : outcome[e][i] # "ok"
      BY <2>1, <2>2, Ground DEF Promised, Counted, Kept
    <2>4. i \in Fields(e) /\ i < pos[e]
      BY <2>3, Ground DEF Answered, Fields, TypeInv, TypeOK
    <2>5. outcome[e][i] \in {"none", "ok", "noBegin"} /\ outcome[e][i] # "none"
      BY <2>1, <2>2, <2>4 DEF Promised, Counted
    <2> QED
      BY <2>3, <2>4, <2>5
  <1> QED
    BY <1>1, PromiseInvariant, PTL

\* A resolver nested under a field that succeeded sees that field's write, in the open
\* transaction or in the database, unless the request is being undone (resolveExecutor).
THEOREM OwnWritesAreSeen == Spec => []ReadsSeeOwnWrites
  <1>1. TypeInv /\ AtomicInv /\ PromiseInv => ReadsSeeOwnWrites
    <2> SUFFICES ASSUME TypeInv, AtomicInv, PromiseInv, NEW e \in Execution, NEW i \in Coercible(e),
                        call[e].pc = "between", outcome[e][i] = "ok",
                        ~(Shares(e) /\ tx[e].aborted)
                 PROVE  <<e, i>> \in Visible(e)
      BY DEF ReadsSeeOwnWrites, ExecutionKey
    <2>1. Atomic(e) /\ Promised(e) /\ i \in Kept(e) /\ i \in Fields(e)
      BY Ground DEF AtomicInv, PromiseInv, Kept
    <2>2. CASE ~Shares(e)
      BY <2>1, <2>2 DEF Promised, RanOwn, Visible
    <2>3. CASE Shares(e)
      <3>1. tx[e].db \in {"open", "committed"}
        BY <2>1, <2>3, Ground DEF Promised, Counted, Dropped, SharedTxState
      <3>2. CASE tx[e].db = "open"
        BY <2>1, <2>3, <3>2 DEF Promised, Counted, Atomic, Backed, Visible, ExecutionKey
      <3>3. CASE tx[e].db = "committed"
        BY <2>1, <2>3, <3>3 DEF Atomic, Decided, DurableOf, Visible
      <3> QED
        BY <3>1, <3>2, <3>3
    <2> QED
      BY <2>2, <2>3
  <1> QED
    BY <1>1, PromiseInvariant, PTL

\* A response without errors is the truth: the writes it reports are durable and every
\* callback that was accepted for them has run (runOnSharedTx, runAsOwnUnit, stage.keep).
THEOREM OkIsDurable == Spec => []OkMeansDurable
  <1>1. TypeInv /\ AtomicInv /\ PromiseInv => OkMeansDurable
    <2> SUFFICES ASSUME TypeInv, AtomicInv, PromiseInv, NEW e \in Execution, NEW i \in Coercible(e),
                        outcome[e][i] = "ok",
                        Shares(e) => Answered(e) /\ \A j \in Coercible(e) : outcome[e][j] = "ok"
                 PROVE  <<e, i>> \in durable /\ \A n \in 1..registered[e][i] : <<i, n>> \in Ran(e)
      BY DEF OkMeansDurable
    <2>1. Atomic(e) /\ Promised(e) /\ i \in Fields(e) /\ Listed(ran[e]) = Ran(e)
      BY Ground DEF AtomicInv, PromiseInv, Listed, Ran, TypeInv, TypeOK
    <2>2. <<e, i>> \in durable /\ Accepted(e, i) \subseteq Listed(ran[e])
      <3>1. CASE ~Shares(e)
        BY <2>1, <3>1 DEF Promised, RanOwn
      <3>2. CASE Shares(e)
        <4>1. Kept(e) = Coercible(e) /\ call[e].pc = "between" /\ i \in Kept(e)
          BY <3>2 DEF Kept, Answered
        <4>2. tx[e].db = "committed"
          BY <2>1, <3>2, <4>1, Ground DEF Promised, Counted, Atomic, Undisturbed, SharedTxState
        <4>3. <<e, i>> \in durable
          BY <2>1, <3>2, <4>2 DEF Atomic, Decided, DurableOf
        <4> QED
          BY <2>1, <3>2, <4>1, <4>2, <4>3 DEF Promised, RanShared
      <3> QED
        BY <3>1, <3>2
    <2> QED
      BY <2>1, <2>2 DEF Accepted
  <1> QED
    BY <1>1, PromiseInvariant, PTL

-----------------------------------------------------------------------------
(* The protocol implements AtomicCommit. *)

\* Every field of every document has a commit unit of its own.
LEMMA FieldsAreUnits ==
  ASSUME TypeInv, NEW e \in Execution, NEW i \in Fields(e)
  PROVE  i \in 0..MaxLen /\ MaxLen \in Nat
  <1>1. doc[e] \in Seq(RootField) /\ doc \in Documents
    BY DocumentsAssumption DEF TypeInv, TypeOK
  <1>2. Len(doc[e]) \in Lengths /\ Lengths \subseteq Nat
    BY <1>1, DocumentsAssumption DEF Lengths
  <1>3. MaxLen \in Lengths /\ Len(doc[e]) <= MaxLen
    BY <1>2, LengthAssumption DEF MaxLen
  <1> QED
    BY <1>1, <1>2, <1>3 DEF Fields

\* The fates of an execution that stands still do not change.
LEMMA StillFates ==
  ASSUME TypeInv, NEW f \in Execution, Still(f), NEW i \in Nat
  PROVE  FateOf(f, i)' = FateOf(f, i)
  BY DocSame DEF Still, FateOf

\* The abstract step that a step of execution e takes is told by the fates of its own units.
Alone(e) == doc' = doc /\ \A f \in Execution \ {e} : Still(f)

\* Reading one commit unit of the mapped state.
LEMMA FateOfUnit ==
  ASSUME NEW e \in Execution, NEW i \in 0..MaxLen
  PROVE  /\ <<e, i>> \in Execution \X (0..MaxLen)
         /\ [u \in Execution \X (0..MaxLen) |-> FateOf(u[1], u[2])][<<e, i>>] = FateOf(e, i)
         /\ [u \in Execution \X (0..MaxLen) |-> FateOf(u[1], u[2])]'[<<e, i>>] = FateOf(e, i)'
  OBVIOUS

\* When no fate, no write and no callback changes, the promise stutters.
LEMMA NothingPromised ==
  ASSUME TypeInv, NEW e \in Execution, Alone(e), UNCHANGED <<durable, ran>>,
         \A i \in 0..MaxLen : FateOf(e, i)' = FateOf(e, i)
  PROVE  UNCHANGED Promise!promise
  <1>1. \A f \in Execution, i \in 0..MaxLen : FateOf(f, i)' = FateOf(f, i)
    BY StillFates DEF Alone
  <1> QED
    BY <1>1 DEF Promise!promise

\* One unit whose fate changes, every other one's being kept.
LEMMA OneFateChanges ==
  ASSUME TypeInv, NEW e \in Execution, NEW k \in 0..MaxLen, NEW how, Alone(e), FateOf(e, k)' = how,
         \A i \in (0..MaxLen) \ {k} : FateOf(e, i)' = FateOf(e, i)
  PROVE  [u \in Execution \X (0..MaxLen) |-> FateOf(u[1], u[2])]'
           = [[u \in Execution \X (0..MaxLen) |-> FateOf(u[1], u[2])] EXCEPT ![<<e, k>>] = how]
  <1>1. \A f \in Execution \ {e}, i \in 0..MaxLen : FateOf(f, i)' = FateOf(f, i)
    BY StillFates DEF Alone
  <1>2. \A u \in Execution \X (0..MaxLen) :
          FateOf(u[1], u[2])' = IF u = <<e, k>> THEN how ELSE FateOf(u[1], u[2])
    BY <1>1
  <1> QED
    BY <1>2

\* A unit that was open commits what its fields wrote.
LEMMA UnitCommits ==
  ASSUME TypeInv, NEW e \in Execution, NEW k \in 0..MaxLen, Alone(e), ran' = ran,
         FateOf(e, k) = "open", FateOf(e, k)' = "committed",
         \A i \in (0..MaxLen) \ {k} : FateOf(e, i)' = FateOf(e, i),
         durable \subseteq durable',
         \A w \in durable' \ durable : w[1] = e /\ (k = 0 \/ w[2] = k)
  PROVE  Promise!Next
  <1>1. Promise!Commit(<<e, k>>)
    <2>1. /\ [u \in Execution \X (0..MaxLen) |-> FateOf(u[1], u[2])]'
             = [[u \in Execution \X (0..MaxLen) |-> FateOf(u[1], u[2])] EXCEPT ![<<e, k>>] = "committed"]
          /\ [u \in Execution \X (0..MaxLen) |-> FateOf(u[1], u[2])][<<e, k>>] = "open"
      <3>1. [u \in Execution \X (0..MaxLen) |-> FateOf(u[1], u[2])]'
              = [[u \in Execution \X (0..MaxLen) |-> FateOf(u[1], u[2])] EXCEPT ![<<e, k>>] = "committed"]
        BY OneFateChanges
      <3>2. [u \in Execution \X (0..MaxLen) |-> FateOf(u[1], u[2])][<<e, k>>] = "open"
        BY FateOfUnit
      <3> QED
        BY <3>1, <3>2
    <2> QED
      BY <2>1 DEF Promise!Commit, Promise!Belongs
  <1> QED
    BY <1>1, FateOfUnit DEF Promise!Next

\* A unit that was open is given up.
LEMMA UnitAborts ==
  ASSUME TypeInv, NEW e \in Execution, NEW k \in 0..MaxLen, Alone(e), UNCHANGED <<durable, ran>>,
         FateOf(e, k) = "open", FateOf(e, k)' = "aborted",
         \A i \in (0..MaxLen) \ {k} : FateOf(e, i)' = FateOf(e, i)
  PROVE  Promise!Next
  <1>1. Promise!Abort(<<e, k>>)
    <2>1. /\ [u \in Execution \X (0..MaxLen) |-> FateOf(u[1], u[2])]'
             = [[u \in Execution \X (0..MaxLen) |-> FateOf(u[1], u[2])] EXCEPT ![<<e, k>>] = "aborted"]
          /\ [u \in Execution \X (0..MaxLen) |-> FateOf(u[1], u[2])][<<e, k>>] = "open"
      <3>1. [u \in Execution \X (0..MaxLen) |-> FateOf(u[1], u[2])]'
              = [[u \in Execution \X (0..MaxLen) |-> FateOf(u[1], u[2])] EXCEPT ![<<e, k>>] = "aborted"]
        BY OneFateChanges
      <3>2. [u \in Execution \X (0..MaxLen) |-> FateOf(u[1], u[2])][<<e, k>>] = "open"
        BY FateOfUnit
      <3> QED
        BY <3>1, <3>2
    <2> QED
      BY <2>1 DEF Promise!Abort
  <1> QED
    BY <1>1, FateOfUnit DEF Promise!Next

\* A step that answers nothing and leaves the transaction's fate and the database as they were.
LEMMA QuietStep ==
  ASSUME TypeInv, AtomicInv, NEW e \in Execution, Alone(e), UNCHANGED <<durable, ran>>,
         FateOf(e, 0)' = FateOf(e, 0), Shares(e) \/ outcome'[e] = outcome[e]
  PROVE  UNCHANGED Promise!promise
  <1>1. \A i \in Nat \ {0} : FateOf(e, i)' = FateOf(e, i)
    BY DocSame DEF FateOf, Alone
  <1>2. MaxLen = MaxLen /\ \A i \in 0..MaxLen : i = 0 \/ i \in Nat \ {0}
    OBVIOUS
  <1> QED
    BY <1>1, <1>2, NothingPromised

\* The field an execution stands at is not answered, and its document is read as before.
LEMMA SameField ==
  ASSUME TypeInv, AtomicInv, NEW e \in Execution, Alone(e), pos[e] \in Fields(e)
  PROVE  /\ Fields(e)' = Fields(e) /\ (Shares(e)' <=> Shares(e)) /\ pos[e] \in Nat \ {0}
         /\ outcome[e][pos[e]] = "none" /\ pos[e] \in 0..MaxLen
  <1>1. doc' = doc
    BY DEF Alone
  <1>2. Fields(e)' = Fields(e) /\ (Shares(e)' <=> Shares(e))
    BY <1>1, DocSame
  <1>3. pos[e] \in Nat \ {0}
    BY DEF TypeInv, TypeOK
  <1>4. AtField(e)
    BY DEF AtomicInv, Atomic
  <1>5. outcome[e][pos[e]] = "none"
    BY <1>3, <1>4 DEF AtField
  <1>6. pos[e] \in 0..MaxLen
    BY FieldsAreUnits
  <1> QED
    BY <1>2, <1>3, <1>5, <1>6

\* An answer gives up the unit of a field whose write is not durable, and no other.
LEMMA AnswerStep ==
  ASSUME TypeInv, AtomicInv, NEW e \in Execution, Alone(e), UNCHANGED <<durable, ran>>,
         FateOf(e, 0)' = FateOf(e, 0), NEW how \in Outcome \ {"none"}, Answer(e, how), pos[e] \in Fields(e)
  PROVE  Promise!Next \/ UNCHANGED Promise!promise
  <1>0. how \in Outcome
    OBVIOUS
  <1>1. \A i \in Fields(e) : outcome'[e][i] = IF i = pos[e] THEN how ELSE outcome[e][i]
    BY <1>0, AnswerEffect, ZenonT(30)
  <1>2. /\ Fields(e)' = Fields(e) /\ (Shares(e)' <=> Shares(e)) /\ pos[e] \in Nat \ {0}
        /\ outcome[e][pos[e]] = "none" /\ pos[e] \in 0..MaxLen
    BY SameField
  <1>3. \A i \in (0..MaxLen) \ {pos[e]} : FateOf(e, i)' = FateOf(e, i)
    BY <1>1, <1>2 DEF FateOf
  <1>4. CASE ~Shares(e) /\ <<e, pos[e]>> \notin durable
    <2>1. PICK p \in Nat \ {0} : p = pos[e]
      BY <1>2
    <2>2. FateOf(e, p) = "open" /\ FateOf(e, p)' = "aborted"
      BY <1>1, <1>2, <1>4, <2>1 DEF FateOf
    <2> QED
      BY <1>2, <1>3, <2>1, <2>2, UnitAborts
  <1>5. CASE Shares(e) \/ <<e, pos[e]>> \in durable
    <2>1. PICK p \in Nat \ {0} : p = pos[e]
      BY <1>2
    <2>2. FateOf(e, p)' = FateOf(e, p)
      BY <1>2, <1>5, <2>1 DEF FateOf
    <2> QED
      BY <1>3, <2>1, <2>2, NothingPromised
  <1> QED
    BY <1>4, <1>5

\* The write of a field of its own unit becomes durable: that unit commits.
LEMMA WriteStep ==
  ASSUME TypeInv, AtomicInv, NEW e \in Execution, Alone(e), ~Shares(e), pos[e] \in Fields(e),
         durable' = durable \cup {Write(e)}, ran' = ran, outcome'[e] = outcome[e],
         FateOf(e, 0)' = FateOf(e, 0)
  PROVE  Promise!Next \/ UNCHANGED Promise!promise
  <1>1. /\ Fields(e)' = Fields(e) /\ (Shares(e)' <=> Shares(e)) /\ pos[e] \in Nat \ {0}
        /\ outcome[e][pos[e]] = "none" /\ pos[e] \in 0..MaxLen
    BY SameField
  <1>2. \A i \in (0..MaxLen) \ {pos[e]} : FateOf(e, i)' = FateOf(e, i)
    <2>1. \A i \in (0..MaxLen) \ {pos[e]} : <<e, i>> \in durable' <=> <<e, i>> \in durable
      BY DEF Write
    <2> QED
      BY <1>1, <2>1 DEF FateOf
  <1>3. CASE Write(e) \in durable
    <2>1. durable' = durable
      BY <1>3
    <2> QED
      BY <2>1, QuietStep
  <1>4. CASE Write(e) \notin durable
    <2>1. PICK p \in Nat \ {0} : p = pos[e]
      BY <1>1
    <2>2. FateOf(e, p) = "open" /\ FateOf(e, p)' = "committed"
      BY <1>1, <1>4, <2>1 DEF FateOf, Write
    <2>3. \A w \in durable' \ durable : w[1] = e /\ w[2] = p
      BY <2>1 DEF Write
    <2> QED
      BY <1>1, <1>2, <2>1, <2>2, <2>3, UnitCommits
  <1> QED
    BY <1>3, <1>4

\* Running the next callback delivers it for the unit it was queued under.
LEMMA DeliverStep ==
  ASSUME TypeInv, AtomicInv, PromiseInv, NEW e \in Execution, Alone(e), RunCallback(e)
  PROVE  Promise!Next
  <1> HIDE DEF Callback
  <1> DEFINE next == Head(call[e].todo)
             k == IF Shares(e) THEN 0 ELSE pos[e]
  <1>1. /\ call[e].todo \in Seq(Callback) /\ ran[e] \in Seq(Callback) /\ call[e].todo # <<>>
        /\ ran' = [ran EXCEPT ![e] = Append(@, next)] /\ UNCHANGED durable
        /\ Atomic(e) /\ Promised(e) /\ pos[e] \in Coercible(e) /\ pos[e] \in Fields(e)
        /\ call[e].pc = "callbacks" /\ ran \in [Execution -> Seq(Callback)]
    BY Ground DEF RunCallback, TypeInv, TypeOK, ResolverCall, AtomicInv, PromiseInv, Atomic, AtField
  <1>2. next \in Callback /\ next \in Listed(call[e].todo)
    BY <1>1, ListedHead
  <1>3. k \in 0..MaxLen /\ FateOf(e, k) = "committed"
    <2>1. CASE Shares(e)
      <3>1. MaxLen \in Nat
        BY <1>1, FieldsAreUnits
      <3> QED
        BY <1>1, <2>1, <3>1 DEF Atomic, Undisturbed, FateOf
    <2>2. CASE ~Shares(e)
      <3>1. PICK p \in Nat \ {0} : p = pos[e]
        BY DEF TypeInv, TypeOK
      <3>2. <<e, p>> \in durable
        BY <1>1, <2>2, <3>1 DEF Promised, RanOwn, Write
      <3> QED
        BY <1>1, <2>2, <3>1, <3>2, FieldsAreUnits DEF FateOf
    <2> QED
      BY <2>1, <2>2
  <1>4. /\ k = 0 \/ next[1] = k
        /\ <<e, next[1]>> \in durable
    <2>1. next[1] \in Together(e)
      BY <1>1, <1>2 DEF Promised, Running
    <2>2. CASE Shares(e)
      BY <1>1, <2>1, <2>2 DEF Together, Atomic, Undisturbed, Decided, DurableOf
    <2>3. CASE ~Shares(e)
      BY <1>1, <2>1, <2>3 DEF Together, Promised, RanOwn, Write
    <2> QED
      BY <2>2, <2>3
  <1>5. ran[e] # <<>> => Promise!Precedes(ran[e][Len(ran[e])], next)
    <2>1. ran[e] # <<>> => ran[e][Len(ran[e])] \in Listed(ran[e])
      BY <1>1 DEF Listed
    <2> QED
      BY <1>1, <1>2, <2>1 DEF Promised, Running
  <1>6. /\ Len(ran'[e]) = Len(ran[e]) + 1 /\ ran'[e][Len(ran[e]) + 1] = next
    BY <1>1, <1>2
  <1>7. [u \in Execution \X (0..MaxLen) |-> FateOf(u[1], u[2])]'
           = [u \in Execution \X (0..MaxLen) |-> FateOf(u[1], u[2])]
    <2>1. \A i \in Nat : FateOf(e, i)' = FateOf(e, i)
      BY DocSame DEF RunCallback, FateOf
    <2> QED
      BY <2>1, StillFates DEF Alone
  <1> HIDE DEF next, k
  <1>8. Promise!Deliver(<<e, k>>)
    BY <1>1, <1>3, <1>4, <1>5, <1>6, <1>7, FateOfUnit DEF Promise!Deliver, Promise!Belongs
  <1> QED
    BY <1>3, <1>8, FateOfUnit DEF Promise!Next

\* Every step of the protocol is a step of AtomicCommit or changes nothing it promises.
LEMMA PromiseRefined ==
  ASSUME TypeInv, AtomicInv, PromiseInv, NEW e \in Execution, Step(e), AtomicInv', TypeInv'
  PROVE  Promise!Next \/ UNCHANGED Promise!promise
  <1> HIDE DEF Callback
  <1>1. /\ Atomic(e) /\ Promised(e) /\ \A f \in Execution \ {e} : Still(f)
        /\ call[e].pc \notin {"between", "stopped"} => pos[e] \in Coercible(e)
        /\ Coercible(e) \subseteq Fields(e)
    BY StepsAlone, Ground DEF AtomicInv, PromiseInv, Atomic, AtField
  <1>2. /\ tx \in [Execution -> SharedTxState] /\ call \in [Execution -> ResolverCall]
        /\ tx[e] \in SharedTxState /\ call[e] \in ResolverCall
    BY DEF TypeInv, TypeOK
  <1>3. doc' = doc /\ (tx'[e].db = tx[e].db => FateOf(e, 0)' = FateOf(e, 0))
    BY DEF Step, Starts, BodyEnds, Driver, Resumes, Callbacks, OpenShared, JoinShared, StartOwn, SkipField,
       HookRegisters, Statement, SharedReturns, SharedThrows, OwnReturns, OwnThrows, OwnBegins, OwnSettles,
       SharedBegins, SharedBeginFails, SharedCommits, SharedRollsBack, CleansUp, ReadyResumes, CommitResumes,
       UnwindResumes, RunCallback, CallbacksDone, TimerFires, HostStops, FateOf
  <1>4. Alone(e)
    BY <1>1, <1>3 DEF Alone
  <1>5. CASE JoinShared(e) \/ SharedThrows(e) \/ TimerFires(e)
    <2>1. tx'[e] \in {tx[e], SuspendTimer(tx[e]), Abort(tx[e]), Abort(TimeOut(SuspendTimer(tx[e])))}
      BY <1>2, <1>5 DEF JoinShared, SharedThrows, TimerFires, ExecutionKey
    <2>2. DOMAIN tx[e] = DOMAIN NoShared
      BY <1>2 DEF SharedTxState, NoShared, NewShared
    <2> DEFINE s == SuspendTimer(tx[e])
    <2>3. s.db = tx[e].db /\ DOMAIN s = DOMAIN NoShared
      BY <2>2 DEF SuspendTimer, NoShared, NewShared
    <2> HIDE DEF s
    <2>4. TimeOut(s).db = s.db /\ DOMAIN TimeOut(s) = DOMAIN NoShared
      BY <2>3 DEF TimeOut, NoShared, NewShared
    <2>5. Abort(tx[e]).db = tx[e].db /\ Abort(TimeOut(s)).db = TimeOut(s).db
      BY <2>2, <2>4 DEF Abort, NoShared, NewShared
    <2>6. tx'[e].db = tx[e].db
      BY <2>1, <2>3, <2>4, <2>5 DEF s
    <2> QED
      BY <1>3, <1>4, <1>5, <2>6, QuietStep DEF JoinShared, SharedThrows, TimerFires
  <1>6. CASE StartOwn(e) \/ HookRegisters(e) \/ OwnReturns(e) \/ HostStops(e)
    BY <1>3, <1>4, <1>6, QuietStep DEF StartOwn, HookRegisters, OwnReturns, HostStops
  <1>7. CASE OpenShared(e)
    <2>1. tx'[e].db = "begin" /\ pos[e] \in Ahead(e) /\ states[e] = "none" /\ Shares(e)
      BY <1>2, <1>7 DEF OpenShared, Calls, Kind, Ahead, Coercible, ExecutionKey, SuspendTimer, BumpTimer,
                        NewShared
    <2>2. tx[e].db \in {"none", "beginFailed"}
      BY <1>1, <2>1 DEF Promised, Counted
    <2>3. FateOf(e, 0)' = FateOf(e, 0)
      BY <2>1, <2>2 DEF FateOf
    <2> QED
      BY <1>4, <1>7, <2>3, QuietStep DEF OpenShared
  <1>8. CASE Statement(e)
    <2>1. tx'[e].db = tx[e].db
      BY <1>2, <1>8 DEF Statement, ExecutionKey, SharedTxState
    <2>2. CASE call[e].unit = "db"
      <3>1. ~Shares(e) /\ pos[e] \in Fields(e)
        BY <1>1, <1>8, <2>2 DEF Statement, Atomic, OneDiscipline
      <3> QED
        BY <1>3, <1>4, <1>8, <2>1, <2>2, <3>1, WriteStep DEF Statement
    <2>3. CASE call[e].unit # "db"
      BY <1>3, <1>4, <1>8, <2>1, <2>3, QuietStep DEF Statement
    <2> QED
      BY <2>2, <2>3
  <1>9. CASE SharedReturns(e)
    <2>1. tx'[e].db = tx[e].db
      <3> DEFINE s == Keep([tx[e] EXCEPT !.completed = tx[e].completed + 1], call[e].queue)
      <3>1. tx'[e] = Release(s) \/ tx'[e] = BumpTimer(s)
        BY <1>2, <1>9 DEF SharedReturns, ExecutionKey
      <3>2. s.db = tx[e].db /\ DOMAIN s = DOMAIN tx[e]
        BY <1>2 DEF Keep, SharedTxState
      <3>3. DOMAIN tx[e] = DOMAIN NoShared
        BY <1>2 DEF SharedTxState, NoShared, NewShared
      <3> HIDE DEF s
      <3> QED
        BY <3>1, <3>2, <3>3 DEF Release, BumpTimer, NoShared, NewShared
    <2>2. Shares(e)
      BY <1>1, <1>9 DEF SharedReturns, Atomic, OneDiscipline
    <2> QED
      BY <1>3, <1>4, <1>9, <2>1, <2>2, QuietStep DEF SharedReturns
  <1>10. CASE OwnThrows(e) \/ OwnBegins(e) \/ ReadyResumes(e) \/ UnwindResumes(e) \/ CallbacksDone(e)
    <2>1. UNCHANGED <<tx, durable, ran>> /\ pos[e] \in Fields(e)
      BY <1>1, <1>10 DEF OwnThrows, OwnBegins, ReadyResumes, UnwindResumes, CallbacksDone
    <2>2. outcome' = outcome \/ \E how \in Outcome \ {"none"} : Answer(e, how)
      <3>1. {"error", "noBegin", "aborted", "timedOut", "ok"} \subseteq Outcome \ {"none"}
        BY DEF Outcome, Failures
      <3>2. CASE OwnThrows(e) \/ OwnBegins(e) \/ ReadyResumes(e)
        BY <3>1, <3>2 DEF OwnThrows, OwnBegins, ReadyResumes
      <3>3. CASE UnwindResumes(e) \/ CallbacksDone(e)
        BY <3>1, <3>3 DEF UnwindResumes, CallbacksDone
      <3> QED
        BY <1>10, <3>2, <3>3
    <2> QED
      BY <1>3, <1>4, <2>1, <2>2, QuietStep, AnswerStep
  <1>11. CASE SkipField(e)
    <2>1. doc[e] \in Seq(RootField) /\ pos[e] \in 1..Len(doc[e])
      BY <1>11, DocumentsAssumption DEF SkipField, Fields, TypeInv, TypeOK
    <2>2. Kind(e) \in Outcome \ {"none"} /\ pos[e] \in Fields(e)
      BY <1>11, <2>1 DEF SkipField, Kind, Outcome, Fields
    <2> QED
      BY <1>3, <1>4, <1>11, <2>2, AnswerStep DEF SkipField
  <1>12. CASE OwnSettles(e)
    <2>1. /\ tx' = tx /\ ran' = ran /\ ~Shares(e) /\ pos[e] \in Fields(e)
          /\ \/ durable' = durable \cup {Write(e)} /\ outcome' = outcome
             \/ durable' = durable /\ Answer(e, "error")
      BY <1>1, <1>12 DEF OwnSettles, Atomic, OneDiscipline
    <2> QED
      BY <1>3, <1>4, <2>1, WriteStep, AnswerStep DEF Outcome, Failures
  <1>13. CASE CommitResumes(e)
    <2>1. tx'[e].db = tx[e].db
      <3>1. DOMAIN tx[e] = DOMAIN NoShared
        BY <1>2 DEF SharedTxState, NoShared, NewShared
      <3>2. tx'[e] = [tx[e] EXCEPT !.commits = <<>>, !.closed = TRUE] \/ tx'[e] = Abort(tx[e])
        BY <1>2, <1>13 DEF CommitResumes, ExecutionKey
      <3> QED
        BY <3>1, <3>2 DEF Abort, NoShared, NewShared
    <2>2. Shares(e)
      BY <1>1, <1>13 DEF CommitResumes, Atomic, OneDiscipline
    <2> QED
      BY <1>3, <1>4, <1>13, <2>1, <2>2, QuietStep DEF CommitResumes
  <1>14. CASE SharedBegins(e) \/ SharedBeginFails(e)
    <2>1. tx[e].db = "begin" /\ tx'[e].db \in {"open", "beginFailed"}
      BY <1>2, <1>14 DEF SharedBegins, SharedBeginFails, CleansUp, SharedTxState
    <2>2. FateOf(e, 0)' = FateOf(e, 0)
      BY <2>1 DEF FateOf
    <2> QED
      BY <1>4, <1>14, <2>2, QuietStep DEF SharedBegins, SharedBeginFails, CleansUp
  <1>15. CASE SharedCommits(e) \/ SharedRollsBack(e)
    <2>1. tx[e].db = "open" /\ tx'[e].db = (IF SharedCommits(e) THEN "committed" ELSE "rolledBack") /\ ran' = ran
      BY <1>2, <1>15 DEF SharedCommits, SharedRollsBack, CleansUp, SharedTxState
    <2>2. Shares(e) /\ Shares(e)' /\ Coercible(e) # {}
      BY <1>1, <1>3, <2>1, FS_EmptySet, DocSame DEF Atomic, OneDiscipline, Shares, Expected
    <2>3. 0 \in 0..MaxLen /\ \A i \in (0..MaxLen) \ {0} : i \in Nat \ {0}
      BY <1>1, <2>2, FieldsAreUnits
    <2>4. \A i \in (0..MaxLen) \ {0} : FateOf(e, i)' = FateOf(e, i)
      BY <2>2, <2>3 DEF FateOf
    <2>5. FateOf(e, 0) = "open"
      BY <2>1 DEF FateOf
    <2>6. CASE SharedCommits(e)
      <3>1. \A w \in durable' \ durable : w[1] = e
        BY <1>1, <2>2, <2>6 DEF SharedCommits, Atomic, Backed
      <3>2. FateOf(e, 0)' = "committed"
        BY <2>1, <2>6 DEF FateOf
      <3>3. durable \subseteq durable'
        BY <2>6 DEF SharedCommits
      <3> QED
        BY <1>4, <2>1, <2>3, <2>4, <2>5, <3>1, <3>2, <3>3, UnitCommits
    <2>7. CASE ~SharedCommits(e)
      <3>1. FateOf(e, 0)' = "aborted" /\ durable' = durable
        BY <1>15, <2>1, <2>7 DEF FateOf, SharedRollsBack
      <3> QED
        BY <1>4, <2>1, <2>3, <2>4, <2>5, <3>1, UnitAborts
    <2> QED
      BY <2>6, <2>7
  <1>16. CASE RunCallback(e)
    BY <1>4, <1>16, DeliverStep
  <1> QED
    BY <1>5, <1>6, <1>7, <1>8, <1>9, <1>10, <1>11, <1>12, <1>13, <1>14, <1>15, <1>16
    DEF Step, Starts, BodyEnds, Driver, Resumes, Callbacks

\* The initial states map to the initial state of AtomicCommit.
LEMMA PromiseInitial == Init => Promise!Init
  <1> SUFFICES ASSUME Init PROVE Promise!Init
    OBVIOUS
  <1>1. \A e \in Execution, i \in 0..MaxLen : FateOf(e, i) = "open"
    BY DEF Init, FateOf, NoShared, NewShared
  <1> QED
    BY <1>1 DEF Init, Promise!Init

\* The protocol of latch, completion count and callback queues keeps the promise of
\* AtomicCommit: each commit unit is decided once, its writes become durable in that one step,
\* and its callbacks run after it, each once, in the order in which they were registered.
THEOREM ProtocolKeepsPromise == Spec => KeepsPromise
  <1>1. Init => Promise!Init
    BY PromiseInitial
  <1>2. /\ TypeInv /\ AtomicInv /\ PromiseInv /\ [Next]_vars
        => [Promise!Next]_(Promise!promise)
    <2> SUFFICES ASSUME TypeInv, AtomicInv, PromiseInv, [Next]_vars
                 PROVE  Promise!Next \/ UNCHANGED Promise!promise
      OBVIOUS
    <2>1. TypeInv' /\ AtomicInv'
      BY TypeStep, AtomicStep
    <2>2. CASE UNCHANGED vars
      BY <2>2 DEF vars, Promise!promise, FateOf, Shares, AllKnown, Expected, Coercible, Fields
    <2>3. ASSUME NEW e \in Execution, Step(e) PROVE Promise!Next \/ UNCHANGED Promise!promise
      BY <2>1, <2>3, PromiseRefined
    <2> QED
      BY <2>2, <2>3 DEF Next, Rest
  <1> QED
    BY <1>1, <1>2, PromiseInvariant, PTL DEF Spec, KeepsPromise, Promise!Spec

=============================================================================
