---------------------------- MODULE AtomicCommit ----------------------------
(***************************************************************************)
(* What the transaction layer promises of a mutation request, without the  *)
(* protocol that keeps it: the writes of one commit unit become durable in *)
(* one step or not at all, and the callbacks queued under a unit run after *)
(* that step, each once, in the order in which they were registered.       *)
(*                                                                         *)
(* A unit <<e, 0>> is all root fields of execution e together, a unit      *)
(* <<e, i>> its i-th root field alone.                                     *)
(***************************************************************************)
EXTENDS Integers, Sequences

CONSTANTS Owner,   \* the executions
          Units    \* the commit units, pairs of an owner and a field number

VARIABLES fate,      \* "open", "committed" or "aborted", for every unit
          durable,   \* the writes <<e, i>> the database keeps
          delivered  \* the callbacks <<i, n>> each owner has run

promise == <<fate, durable, delivered>>

Belongs(i, u) == u[2] = 0 \/ u[2] = i

Precedes(b, c) == \/ b[1] < c[1]
                  \/ b[1] = c[1] /\ b[2] < c[2]

Init ==
  /\ fate = [u \in Units |-> "open"]
  /\ durable = {}
  /\ delivered = [e \in Owner |-> <<>>]

Commit(u) ==
  /\ fate[u] = "open"
  /\ fate' = [fate EXCEPT ![u] = "committed"]
  /\ durable \subseteq durable'
  /\ \A w \in durable' \ durable : w[1] = u[1] /\ Belongs(w[2], u)
  /\ UNCHANGED delivered

Abort(u) ==
  /\ fate[u] = "open"
  /\ fate' = [fate EXCEPT ![u] = "aborted"]
  /\ UNCHANGED <<durable, delivered>>

\* The next callback of a committed unit runs: it was queued by a write that is durable.
Deliver(u) ==
  LET seen == delivered[u[1]]
      next == delivered'[u[1]][Len(seen) + 1]
  IN
  /\ fate[u] = "committed"
  /\ Len(delivered'[u[1]]) = Len(seen) + 1
  /\ delivered' = [delivered EXCEPT ![u[1]] = Append(@, next)]
  /\ Belongs(next[1], u)
  /\ <<u[1], next[1]>> \in durable
  /\ seen # <<>> => Precedes(seen[Len(seen)], next)
  /\ UNCHANGED <<fate, durable>>

Next == \E u \in Units : Commit(u) \/ Abort(u) \/ Deliver(u)

Spec == Init /\ [][Next]_promise

=============================================================================
