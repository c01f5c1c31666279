---------------------------- MODULE BatchLoader -----------------------------
(***************************************************************************)
(* How the relation fields of one level are read together: the loaders and *)
(* the field memo of util/batch-loader, and the batch function of          *)
(* common/relation-resolvers.ts that a loader runs.                        *)
(*                                                                         *)
(* graphql-js calls a relation field's resolver once per parent row.  The  *)
(* calls of one execution that ask for the same thing queue on one loader, *)
(* which a microtask empties; the keys are read in chunks, one query after *)
(* another, and every call gets the rows of its own parent.  MySQL text    *)
(* keys are matched under the column's collation, which is asked of the    *)
(* database once for all requests.                                         *)
(***************************************************************************)
EXTENDS Integers, FiniteSets, Sequences

CONSTANTS
  Execution,   \* executions; they may share a context object and a document
  Call,        \* resolver calls, one per parent row and relation field
  ExecutionOf, \* the execution a call belongs to
  NodesOf,     \* the AST nodes graphql-js merged into the call's field, in order
  Nodes,       \* all such sequences of nodes
  KeyOf,       \* the parent's join key, NoKey for NULL
  Key, NoKey,
  Args,        \* what a field asks for: arguments and selected columns
  NoArgs,      \* a field whose arguments have not been computed yet
  ArgsOf,      \* arguments by execution (its variables) and nodes (the merged selection)
  Row,         \* rows of the related table
  RowKey,      \* the key a row holds
  Fold,        \* the collation: keys the database compares equal fold alike
  Shown,       \* the rows an execution may see under the arguments
  ChunkSize    \* how many keys one query binds (MAX_PARENT_KEY_PARAMS)

ASSUME CallAssumption == /\ ExecutionOf \in [Call -> Execution]
                         /\ NodesOf \in [Call -> Nodes]
                         /\ KeyOf \in [Call -> Key \cup {NoKey}]
                         /\ NoKey \notin Key
ASSUME DataAssumption == /\ NoArgs \notin Args
                         /\ ArgsOf \in [Execution -> [Nodes -> Args]]
                         /\ RowKey \in [Row -> Key]
                         /\ DOMAIN Fold = Key
                         /\ Shown \in [Execution -> [Args -> SUBSET Row]]
ASSUME FiniteAssumption == IsFiniteSet(Key) /\ ChunkSize \in Nat \ {0}

VARIABLES
  call,      \* the answer of each resolver call
  memo,      \* memoByExecution: what each field of an execution asks for, once computed
  loader,    \* loadersByExecution: the queue and the scheduled flag of each loader
  flights,   \* the dispatches whose batch function is running
  collation  \* columnCollations: the entry of the related column

vars == <<call, memo, loader, flights, collation>>

-----------------------------------------------------------------------------
(* The field memo. *)

Field(c) == <<ExecutionOf[c], NodesOf[c]>>

\* getOrCreateRequestValue: what was computed for the same nodes in the same execution, if anything.
\* Mutated form: the value is looked up by the nodes alone, whichever execution computed it.
AcrossExecutions(c) ==
  IF \E f \in DOMAIN memo : f[2] = NodesOf[c] /\ memo[f] # NoArgs
    THEN memo[CHOOSE f \in DOMAIN memo : f[2] = NodesOf[c] /\ memo[f] # NoArgs]
    ELSE ArgsOf[ExecutionOf[c]][NodesOf[c]]
RequestValue(c) == IF memo[Field(c)] # NoArgs THEN memo[Field(c)] ELSE ArgsOf[ExecutionOf[c]][NodesOf[c]]

\* loaderKey, within the loaders of the execution: what the call's field asks for.
LoaderOf(c) == <<ExecutionOf[c], RequestValue(c)>>

\* The calls of a batch are settled together, each with its own rows.
Settle(calls, how, rowsOf) ==
  [c \in Call |-> IF c \in calls THEN [pc |-> how, rows |-> rowsOf[c]] ELSE call[c]]

Empty == [c \in Call |-> {}]

-----------------------------------------------------------------------------
(* Resolving a relation field of one parent row. *)

\* A NULL in the join key matches nothing: the field is empty without asking the database.
ResolveEmpty(c) ==
  /\ call[c].pc = "new"
  /\ KeyOf[c] = NoKey
  /\ call' = Settle({c}, "resolved", Empty)
  /\ UNCHANGED <<memo, loader, flights, collation>>

\* load: queue on the loader; the first call of a batch schedules its dispatch.
Resolve(c) ==
  /\ call[c].pc = "new"
  /\ KeyOf[c] # NoKey
  /\ call' = [call EXCEPT ![c].pc = "loading"]
  /\ memo' = [memo EXCEPT ![Field(c)] = RequestValue(c)]
  /\ loader' = [loader EXCEPT ![LoaderOf(c)] =
                  [batch |-> loader[LoaderOf(c)].batch \cup {c}, scheduled |-> TRUE]]
  /\ UNCHANGED <<flights, collation>>

-----------------------------------------------------------------------------
(* One dispatch: the whole batch is taken, its distinct keys are read chunk by *)
(* chunk, and every call is answered, or every call is rejected.               *)

Flight(l, calls) ==
  [l |-> l, calls |-> calls, pc |-> "reading", todo |-> {KeyOf[c] : c \in calls},
   chunk |-> {}, rows |-> {}, found |-> [k \in Key |-> {}]]

\* Mutated form: the batch is read where it lies and left there.
DispatchCopies(l) ==
  /\ loader[l].scheduled
  /\ flights' = flights \cup {Flight(l, loader[l].batch)}
  /\ loader' = [loader EXCEPT ![l] = [batch |-> loader[l].batch, scheduled |-> FALSE]]
  /\ UNCHANGED <<call, memo, collation>>

\* dispatch, which a microtask runs: loads that come from here on make a batch of their own.
Dispatch(l) ==
  /\ loader[l].scheduled
  /\ flights' = flights \cup {Flight(l, loader[l].batch)}
  /\ loader' = [loader EXCEPT ![l] = [batch |-> {}, scheduled |-> FALSE]]
  /\ UNCHANGED <<call, memo, collation>>

Becomes(d, next) == flights' = (flights \ {d}) \cup {next}

Visible(l) == Shown[l[1]][l[2]]

\* The rows the database matches to one of the keys, under the column's collation.
Matched(l, keys) == {r \in Visible(l) : \E k \in keys : Fold[RowKey[r]] = Fold[k]}

IsChunk(d, chunk) == /\ chunk # {}
                     /\ chunk \subseteq d.todo
                     /\ Cardinality(chunk) <= ChunkSize
                     /\ Cardinality(chunk) < ChunkSize => chunk = d.todo

\* loadChunk: one query over the next keys.
Query(d) ==
  /\ d.pc = "reading"
  /\ \E chunk \in SUBSET d.todo :
       /\ IsChunk(d, chunk)
       /\ Becomes(d, [d EXCEPT !.pc = "rows", !.chunk = chunk, !.rows = Matched(d.l, chunk)])
  /\ UNCHANGED <<call, memo, loader, collation>>

\* columnCollation: the entry of the column, a lookup when there is none.
AskCollation(d) ==
  /\ d.pc = "rows"
  /\ Becomes(d, [d EXCEPT !.pc = "waiting"])
  /\ collation' = IF collation = "unknown" THEN "asking" ELSE collation
  /\ UNCHANGED <<call, memo, loader>>

CollationArrives ==
  /\ collation = "asking"
  /\ collation' = "known"
  /\ UNCHANGED <<call, memo, loader, flights>>

\* Mutated form: the rejected lookup stays in the cache.
FailedLookupIsCached ==
  /\ collation = "asking"
  /\ collation' = "failed"
  /\ flights' = {d \in flights : d.pc # "waiting"}
  /\ call' = Settle(UNION {d.calls : d \in flights \ flights'}, "rejected", Empty)
  /\ UNCHANGED <<memo, loader>>

\* Mutated form: the batches waiting on the lookup start another one, without end.
FailedLookupIsRetried ==
  /\ collation = "asking"
  /\ collation' = "unknown"
  /\ flights' = {IF d.pc = "waiting" THEN [d EXCEPT !.pc = "rows"] ELSE d : d \in flights}
  /\ UNCHANGED <<call, memo, loader>>

\* The entry is dropped, so that the next request asks again; every batch waiting on it fails.
CollationFails ==
  /\ collation = "asking"
  /\ collation' = "unknown"
  /\ flights' = {d \in flights : d.pc # "waiting"}
  /\ call' = Settle(UNION {d.calls : d \in flights \ flights'}, "rejected", Empty)
  /\ UNCHANGED <<memo, loader>>

\* relatedRowParents: a row belongs to every parent of the chunk its key equals under the collation.
RowsOf(d, k) == {r \in d.rows : Fold[RowKey[r]] = Fold[k]}

Group(d) ==
  /\ d.pc = "waiting"
  /\ collation = "known"
  /\ Becomes(d, [d EXCEPT !.pc = "reading", !.todo = d.todo \ d.chunk, !.chunk = {}, !.rows = {},
                          !.found = [k \in Key |-> IF k \in d.chunk THEN RowsOf(d, k) ELSE d.found[k]]])
  /\ UNCHANGED <<call, memo, loader, collation>>

\* Every call gets the rows found under its own key.
Answer(d) ==
  /\ d.pc = "reading"
  /\ d.todo = {}
  /\ call' = Settle(d.calls, "resolved", [c \in Call |-> IF KeyOf[c] \in Key THEN d.found[KeyOf[c]] ELSE {}])
  /\ flights' = flights \ {d}
  /\ UNCHANGED <<memo, loader, collation>>

\* A query throws: the batch function rejects, whatever its earlier chunks read.
QueryFails(d) ==
  /\ d.pc = "reading"
  /\ d.todo # {}
  /\ call' = Settle(d.calls, "rejected", Empty)
  /\ flights' = flights \ {d}
  /\ UNCHANGED <<memo, loader, collation>>

-----------------------------------------------------------------------------
Loaders == Execution \X Args

\* A column that declares its collation, or needs none, is known from the start.
Init ==
  /\ call = [c \in Call |-> [pc |-> "new", rows |-> {}]]
  /\ memo = [f \in Execution \X Nodes |-> NoArgs]
  /\ loader = [l \in Loaders |-> [batch |-> {}, scheduled |-> FALSE]]
  /\ flights = {}
  /\ collation \in {"unknown", "known"}

Advance(d) == Query(d) \/ QueryFails(d) \/ AskCollation(d) \/ Group(d) \/ Answer(d)

Next ==
  \/ \E c \in Call : ResolveEmpty(c) \/ Resolve(c)
  \/ \E l \in Loaders : Dispatch(l)
  \/ \E d \in flights : Advance(d)
  \/ CollationArrives
  \/ CollationFails
  \/ (\A c \in Call : call[c].pc \in {"resolved", "rejected"}) /\ UNCHANGED vars

Spec == Init /\ [][Next]_vars

\* Microtasks run, queries and lookups return or throw.
Fairness ==
  /\ \A l \in Loaders : WF_vars(Dispatch(l))
  /\ WF_vars(\E d \in flights : Advance(d))
  /\ WF_vars(CollationArrives \/ CollationFails)

FairSpec == Spec /\ Fairness

-----------------------------------------------------------------------------
Flights ==
  [l : Loaders, calls : SUBSET Call, pc : {"reading", "rows", "waiting"}, todo : SUBSET Key,
   chunk : SUBSET Key, rows : SUBSET Row, found : [Key -> SUBSET Row]]

\* The values every variable keeps.
TypeOK ==
  /\ call \in [Call -> [pc : {"new", "loading", "resolved", "rejected"}, rows : SUBSET Row]]
  /\ memo \in [Execution \X Nodes -> Args \cup {NoArgs}]
  /\ loader \in [Loaders -> [batch : SUBSET Call, scheduled : BOOLEAN]]
  /\ flights \subseteq Flights
  /\ collation \in {"unknown", "asking", "known"}

\* What a parent row's own query would return: the related rows its execution may see, under its
\* arguments, whose key the database finds equal to the parent's.
OwnRows(c) ==
  IF KeyOf[c] = NoKey THEN {}
  ELSE {r \in Shown[ExecutionOf[c]][ArgsOf[ExecutionOf[c]][NodesOf[c]]] : Fold[RowKey[r]] = Fold[KeyOf[c]]}

\* Batching changes nothing a parent sees: the rows of a resolved field are those a query of its
\* own would have read, with the arguments, selection and visibility of its own execution
\* (batch-loader/index.ts, relation-resolvers.ts resolve).
OwnAnswer == \A c \in Call : call[c].pc = "resolved" => call[c].rows = OwnRows(c)

Queued(c) == \E l \in Loaders : c \in loader[l].batch
Flying(c) == \E d \in flights : c \in d.calls

\* A call that waits is in exactly one place: the batch of one loader, or one dispatch; a settled
\* call is in none, so that no promise is settled twice or left behind (BatchLoader.dispatch).
LoadsAccounted ==
  \A c \in Call :
    /\ call[c].pc = "loading" <=> Queued(c) \/ Flying(c)
    /\ ~(Queued(c) /\ Flying(c))
    /\ \A l1, l2 \in Loaders : c \in loader[l1].batch \cap loader[l2].batch => l1 = l2
    /\ \A d1, d2 \in flights : c \in d1.calls \cap d2.calls => d1 = d2

\* Every call that queued on a loader is answered or rejected, whatever fails and whoever else
\* waits on the shared collation lookup (BatchLoader.load, columnCollation).
EveryLoadSettles ==
  \A c \in Call : call[c].pc = "loading" ~> call[c].pc \in {"resolved", "rejected"}
=============================================================================
