---------------------------- MODULE NestedEntry -----------------------------
(***************************************************************************)
(* One batch of parent writes with a nested operation on a relation whose  *)
(* foreign key is on the parent: writeWithNestedOps, updateWithNestedOps   *)
(* and writeNestedEntry of nested-writes/entry.ts, with applyParentSide,   *)
(* checkParentSide and guardConflictSet of nested-writes/runtime.ts.       *)
(*                                                                         *)
(* The target is written first, its key goes into the parent's row, and    *)
(* what the write returned is checked against it.  The whole batch is one  *)
(* transaction; an entry that may leave an orphan runs in a savepoint.     *)
(***************************************************************************)
EXTENDS Integers, FiniteSets

CONSTANTS
  Batch,       \* entries in one batch
  Stored,      \* parent rows that exist when the request begins
  Target,      \* keys of the target rows that exist
  OwnHidden,   \* those the relation's own `where` hides
  ScopeHidden, \* those the request's scope, or their soft-delete marker, hides
  NoKey,       \* a NULL foreign key
  Absent,      \* the key of a parent row that has not been inserted
  Filters      \* the target rows a connect's filter may select

ASSUME BatchAssumption == Batch \in Nat \ {0}
ASSUME KeyAssumption == /\ OwnHidden \subseteq Target /\ ScopeHidden \subseteq Target
                        /\ NoKey \notin Target /\ Absent \notin Target /\ NoKey # Absent
                        /\ Filters \subseteq SUBSET Target

Entry == 1..Batch
\* The row a parent-side create of an entry inserts, and the parent row an entry inserts.
Created(e) == [createdBy |-> e]
Inserted(e) == [insertedBy |-> e]
CreatedKeys == {Created(e) : e \in Entry}
ParentRow == Stored \cup {Inserted(e) : e \in Entry}
Key == Target \cup CreatedKeys \cup {NoKey}

ASSUME FreshAssumption == /\ Stored \cap {Inserted(e) : e \in Entry} = {}
                          /\ {NoKey, Absent} \cap CreatedKeys = {} /\ Target \cap CreatedKeys = {}

VARIABLES
  mode,      \* insert, update or upsert
  hasWhere,  \* the relation has a `where` on its target
  keyListed, \* the conflict branch of the upsert writes the join column
  op,        \* the nested operation of every entry
  held,      \* the foreign key of every parent row, as the transaction sees it
  targets,   \* the target rows inserted so far
  i,         \* the entry being written
  patch,     \* the key the entry's operation produced
  rows,      \* the rows its parent write returned
  written,   \* the rows every entry returns
  pc,
  first      \* the foreign keys when the request began

request == <<mode, hasWhere, keyListed, op, first>>
vars == <<mode, hasWhere, keyListed, op, held, targets, i, patch, rows, written, pc, first>>

Hidden == IF hasWhere THEN OwnHidden ELSE {}

Ops == [do : {"none", "create", "disconnect"}, filter : {{}}] \cup [do : {"connect"}, filter : Filters]

\* What a connect's filter matches: narrowed by the scope and by the relation's own `where`.
Matched(filter) == (filter \ ScopeHidden) \ Hidden

-----------------------------------------------------------------------------
(* applyParentSide: the patch of the parent's row. *)

Create ==
  /\ pc = "parent" /\ op[i].do = "create"
  /\ targets' = targets \cup {Created(i)}
  /\ patch' = Created(i)
  /\ pc' = "write"
  /\ UNCHANGED <<held, i, rows, written, request>>

\* A connect must match exactly one row.
Connect ==
  /\ pc = "parent" /\ op[i].do = "connect"
  /\ \E k \in Target : Matched(op[i].filter) = {k} /\ patch' = k
  /\ pc' = "write"
  /\ UNCHANGED <<held, targets, i, rows, written, request>>

Disconnect ==
  /\ pc = "parent" /\ op[i].do \in {"disconnect", "none"}
  /\ patch' = NoKey
  /\ pc' = "write"
  /\ UNCHANGED <<held, targets, i, rows, written, request>>

-----------------------------------------------------------------------------
(* The parent write. *)

Returns(r) == /\ rows' = r
              /\ pc' = "check"
              /\ UNCHANGED <<targets, i, patch, written, request>>

Patches == op[i].do # "none"

\* Mutated form: the key is written whatever it points at.
Overwritten(r) == patch
\* keepingHidden, guardConflictSet: a key that points at a row the relation's `where` hides stays.
Replaced(r) == IF held[r] \in Hidden THEN held[r] ELSE patch

InsertRow ==
  /\ pc = "write" /\ mode \in {"insert", "upsert"}
  /\ held' = [held EXCEPT ![Inserted(i)] = IF Patches THEN patch ELSE NoKey]
  /\ Returns({Inserted(i)})

\* The rows its filter matches, none of them included.
UpdateRows ==
  /\ pc = "write" /\ mode = "update"
  /\ \E r \in SUBSET {x \in ParentRow : held[x] # Absent} :
       /\ held' = [x \in ParentRow |-> IF x \in r /\ Patches THEN Replaced(x) ELSE held[x]]
       /\ Returns(r)

\* The conflict branch writes the columns it lists; the key may not be one of them.
UpdateConflicting ==
  /\ pc = "write" /\ mode = "upsert"
  /\ \E x \in ParentRow :
       /\ held[x] # Absent
       /\ held' = IF Patches /\ keyListed THEN [held EXCEPT ![x] = Replaced(x)] ELSE held
       /\ Returns({x})

\* DO NOTHING, or a conflicting row the request may not update.
WriteNothing ==
  /\ pc = "write" /\ mode \in {"insert", "upsert"}
  /\ held' = held
  /\ Returns({})

-----------------------------------------------------------------------------
(* After the write. *)

\* Mutated form: the entry after the last one is begun.
OneTooMany == /\ IF i <= Batch THEN i' = i + 1 /\ pc' = "parent" ELSE i' = i /\ pc' = "done"
              /\ UNCHANGED <<held, patch, request>>
              /\ rows' = {}
NextEntry == /\ IF i < Batch THEN i' = i + 1 /\ pc' = "parent" ELSE i' = i /\ pc' = "done"
             /\ UNCHANGED <<held, patch, request>>
             /\ rows' = {}

\* Mutated form: no savepoint, so that the created row stays without a parent.
LeaveOrphan ==
  /\ pc = "check" /\ rows = {} /\ op[i].do = "create"
  /\ targets' = targets
  /\ written' = [written EXCEPT ![i] = {}]
  /\ NextEntry

\* NoParentRow: the entry's savepoint rolls back what its create inserted.
UndoEntry ==
  /\ pc = "check" /\ rows = {} /\ op[i].do = "create"
  /\ targets' = targets \ {Created(i)}
  /\ written' = [written EXCEPT ![i] = {}]
  /\ NextEntry

\* What the operation asked the rows to hold: a disconnect of an update asks for nothing.
Expects == \/ op[i].do \in {"create", "connect"}
           \/ op[i].do = "disconnect" /\ mode # "update"
Mismatched == {r \in rows : held[r] # patch}

\* Mutated form: what the rows of an upsert hold is not looked at.
PassesUpsert == Expects /\ mode = "update" => Mismatched = {}
\* checkParentSide: on an upsert, a disconnect may leave a key whose row the `where` hides.
Passes ==
  Expects /\ Mismatched # {} =>
    mode # "update" /\ op[i].do = "disconnect" /\ \A r \in Mismatched : held[r] \in Hidden

KeepEntry ==
  /\ pc = "check" /\ (rows # {} \/ op[i].do # "create")
  /\ Passes
  /\ written' = [written EXCEPT ![i] = rows]
  /\ targets' = targets
  /\ NextEntry

\* A refusal, a hook, a statement or the child side throws: the transaction takes it all back.
Fails ==
  /\ pc \in {"parent", "write", "check"}
  /\ pc' = "failed"
  /\ held' = first /\ targets' = {}
  /\ written' = [e \in Entry |-> {}]
  /\ UNCHANGED <<i, patch, rows, request>>

Ended == pc \in {"done", "failed"} /\ UNCHANGED vars

-----------------------------------------------------------------------------
\* A relation with a `where` has no create, and a create mutation no disconnect.
Allowed(e) == /\ hasWhere => op[e].do # "create"
              /\ mode = "insert" => op[e].do # "disconnect"

Init ==
  /\ mode \in {"insert", "update", "upsert"}
  /\ hasWhere \in BOOLEAN /\ keyListed \in BOOLEAN
  /\ op \in [Entry -> Ops]
  /\ \A e \in Entry : Allowed(e)
  /\ first \in [ParentRow -> Target \cup {NoKey, Absent}]
  /\ \A x \in ParentRow : first[x] = Absent <=> x \notin Stored
  /\ held = first /\ targets = {}
  /\ i = 1
  /\ patch = NoKey /\ rows = {} /\ written = [e \in Entry |-> {}]
  /\ pc = "parent"

Next == Create \/ Connect \/ Disconnect \/ InsertRow \/ UpdateRows \/ UpdateConflicting \/ WriteNothing
        \/ UndoEntry \/ KeepEntry \/ Fails \/ Ended

Spec == Init /\ [][Next]_vars

-----------------------------------------------------------------------------
\* The values every variable keeps.
TypeOK ==
  /\ mode \in {"insert", "update", "upsert"}
  /\ hasWhere \in BOOLEAN /\ keyListed \in BOOLEAN
  /\ op \in [Entry -> Ops]
  /\ first \in [ParentRow -> Target \cup {NoKey, Absent}]
  /\ held \in [ParentRow -> Key \cup {Absent}]
  /\ i \in Entry
  /\ targets \subseteq {Created(e) : e \in {x \in 1..i : op[x].do = "create"}}
  /\ patch \in Key
  /\ rows \subseteq ParentRow
  /\ written \in [Entry -> SUBSET ParentRow]
  /\ pc \in {"parent", "write", "check", "done", "failed"}

\* No later entry wrote the row again.
Last(e, r) == \A later \in Entry : later > e => r \notin written[later]

\* A created target row that stays is pointed at by a row its entry wrote, unless a later entry of
\* the batch wrote that row again: a write that matched or changed nothing leaves no orphan, and
\* undoing its entry undoes nothing else (writeNestedEntry).
NoOrphan ==
  pc = "done" => \A e \in Entry : Created(e) \in targets =>
    \E r \in written[e] : held[r] = Created(e) \/ ~Last(e, r)

\* Every row an entry returns holds the key its connect or create produced, on whichever branch
\* the statement wrote it; one a later entry wrote again holds that entry's (checkParentSide).
RowsHoldWhatWasAsked ==
  pc = "done" => \A e \in Entry : \A r \in written[e] : Last(e, r) =>
    /\ op[e].do = "create" => held[r] = Created(e)
    /\ op[e].do = "connect" => Matched(op[e].filter) = {held[r]}
    /\ op[e].do = "disconnect" => held[r] \in Hidden \cup {NoKey}

\* A parent row whose key points at a row the relation's `where` hides keeps it, whatever the
\* request asks and whether it succeeds (keepingHidden, guardConflictSet).
HiddenStays == \A r \in Stored : first[r] \in Hidden => held[r] = first[r]
=============================================================================
