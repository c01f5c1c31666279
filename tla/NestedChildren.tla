--------------------------- MODULE NestedChildren ---------------------------
(***************************************************************************)
(* The nested operations of one relation whose foreign key is on the       *)
(* target: applyChildSide and applyForeignKeyOps of nested-writes/         *)
(* runtime.ts, with the hook calls of nested-writes/hook-steps.ts.         *)
(*                                                                         *)
(* The statements run one after another in the transaction of the parent   *)
(* write.  Which statements run follows from the relation's plan and the   *)
(* input alone; which rows each of them reaches is decided when it runs.   *)
(***************************************************************************)
EXTENDS Integers, FiniteSets, Sequences, SequencesExt

CONSTANTS
  Parent,     \* keys a target row can point at
  NoHolder,   \* a NULL foreign key
  Nowhere,    \* a row that has not been inserted
  AnyHolder,  \* an operand that does not read the foreign key
  Row,        \* rows of the target table
  Hidden,     \* those the request's scope or the relation's own `where` hides
  Batches,    \* the keys of the parent rows one write may return, in order
  Lists,      \* the operands one input may be given
  NotGiven,   \* an input left out
  MaxCreate   \* rows one `create` may list

\* The row that the i-th entry of `create` inserts for a parent.
New == Parent \X (1..MaxCreate)
TargetRow == Row \cup New

ChildrenAssumption ==
  /\ {NoHolder, Nowhere, AnyHolder} \cap Parent = {} /\ Cardinality({NoHolder, Nowhere, AnyHolder}) = 3
  /\ IsFiniteSet(Row) /\ Row \cap New = {} /\ MaxCreate \in Nat
  /\ NotGiven \notin Lists
  /\ Hidden \subseteq Row
  /\ \A b \in Batches : b \in Seq(Parent) /\ IsInjective(b)
  /\ \A l \in Lists : l \in Seq([rows : SUBSET Row, holder : Parent \cup {NoHolder, AnyHolder}])

VARIABLES
  plan,    \* what the relation allows
  op,      \* the input of the relation field
  parents, \* the keys of the written parent rows
  key,     \* the foreign key of every target row, as the transaction sees it
  saved,   \* the same when the transaction began
  todo,    \* the statements still to run
  seen,    \* the rows each hook step has collected
  wrote,   \* the rows the statements have written
  matched, \* the rows a to-one connect's filter matched when it was checked
  pc

vars == <<plan, op, parents, key, saved, todo, seen, wrote, matched, pc>>

Given(list) == list # NotGiven

-----------------------------------------------------------------------------
(* The program: what applyForeignKeyOps runs for an input. *)

Detach(by) == <<[do |-> "detach", by |-> by]>>
Attach(by, list) ==
  FlattenSeq([i \in DOMAIN parents |->
    [j \in DOMAIN list |-> [do |-> "attach", by |-> by, filter |-> list[j], to |-> parents[i]]]])

\* attachingOp: the input that attaches a row to a to-one.
Attaching == IF Given(op.connect) THEN "connect" ELSE IF op.create > 0 THEN "create" ELSE "none"

SetStatements == IF Given(op.set) THEN Detach("set") \o Attach("set", op.set) ELSE <<>>

DisconnectStatements ==
  IF ~Given(op.disconnect) THEN <<>>
  ELSE IF plan.isOne THEN Detach("disconnect")
  ELSE [j \in DOMAIN op.disconnect |->
          [do |-> "detachMatching", by |-> "disconnect", filter |-> op.disconnect[j]]]

\* Mutated form: nothing is detached, so that a new row joins the old one.
NoRoom == IF plan.isOne /\ Given(op.connect) THEN <<[do |-> "matchOne", filter |-> op.connect[1]]>> ELSE <<>>

\* A to-one connect must match one row, and makes room for it.
MakeRoom ==
  IF ~plan.isOne \/ Attaching = "none" THEN <<>>
  ELSE (IF Given(op.connect) THEN <<[do |-> "matchOne", filter |-> op.connect[1]]>> ELSE <<>>)
    \o (IF plan.canDetach THEN Detach(Attaching)
        ELSE IF Attaching = "connect" /\ plan.writesKey THEN <<>>
        ELSE <<[do |-> "refuseHeld", list |-> IF Given(op.connect) THEN op.connect ELSE <<>>]>>)

ConnectStatements ==
  IF ~Given(op.connect) THEN <<>>
  ELSE IF plan.writesKey THEN [j \in DOMAIN op.connect |-> [do |-> "checkHeld", filter |-> op.connect[j]]]
  ELSE Attach("connect", op.connect)

CreateStatements == IF op.create > 0 THEN <<[do |-> "create", by |-> "create"]>> ELSE <<>>

\* Mutated form: connect runs before disconnect.
ConnectBeforeDisconnect ==
  SetStatements \o MakeRoom \o ConnectStatements \o DisconnectStatements \o CreateStatements
Statements == SetStatements \o DisconnectStatements \o MakeRoom \o ConnectStatements \o CreateStatements

-----------------------------------------------------------------------------
(* The hook calls registered ahead of the first statement. *)

\* Mutated form: the step of the rows a to-one create detaches is not registered.
RegistersNoDetach ==
  {<<i, "update">> : i \in {n \in {"set", "disconnect", "connect"} :
     Given(op[n]) /\ (n = "connect" => ~plan.writesKey)}}
  \cup (IF op.create > 0 THEN {<<"create", "insert">>} ELSE {})

\* registerChildSteps
Registered ==
  {<<i, "update">> : i \in {n \in {"set", "disconnect", "connect"} :
     Given(op[n]) /\ (n = "connect" => ~plan.writesKey)}}
  \cup (IF plan.isOne /\ Attaching # "none" /\ plan.canDetach THEN {<<Attaching, "update">>} ELSE {})
  \cup (IF op.create > 0 THEN {<<"create", "insert">>} ELSE {})

-----------------------------------------------------------------------------
(* What one statement reaches. *)

Exists(r) == key[r] # Nowhere
Parents == ToSet(parents)

\* extractFilters, on the row as it stands now.
Selects(filter, r) == /\ r \in filter.rows
                      /\ filter.holder \in {AnyHolder, key[r]}
\* conditionOf: narrowed by the scope and by the relation's own `where`.
Reached(filter) == {r \in TargetRow \ Hidden : Exists(r) /\ Selects(filter, r)}
HeldByBatch == {r \in TargetRow \ Hidden : key[r] \in Parents}

\* A statement that writes: the rows get their new keys, and the step it belongs to gets the rows.
Write(newKey, step) ==
  /\ key' = [r \in TargetRow |-> IF r \in DOMAIN newKey THEN newKey[r] ELSE key[r]]
  /\ seen' = IF step \in Registered THEN [seen EXCEPT ![step] = seen[step] \cup DOMAIN newKey] ELSE seen
  /\ wrote' = wrote \cup DOMAIN newKey

Step == todo # <<>> /\ pc = "running" /\ todo' = Tail(todo)
Keeps == UNCHANGED <<plan, op, parents, saved>>

RunDetach ==
  /\ Step /\ Head(todo).do \in {"detach", "detachMatching"}
  /\ LET rows == IF Head(todo).do = "detach" THEN HeldByBatch
                 ELSE HeldByBatch \cap Reached(Head(todo).filter)
     IN Write([r \in rows |-> NoHolder], <<Head(todo).by, "update">>)
  /\ UNCHANGED <<matched, pc>> /\ Keeps

RunAttach ==
  /\ Step /\ Head(todo).do = "attach"
  /\ Write([r \in Reached(Head(todo).filter) |-> Head(todo).to], <<Head(todo).by, "update">>)
  /\ UNCHANGED <<matched, pc>> /\ Keeps

RunCreate ==
  /\ Step /\ Head(todo).do = "create"
  /\ Write([r \in Parents \X (1..op.create) |-> r[1]], <<"create", "insert">>)
  /\ UNCHANGED <<matched, pc>> /\ Keeps

\* The reads that can refuse the whole write.
Refused(s) ==
  CASE s.do = "matchOne"   -> Cardinality(Reached(s.filter)) # 1
    [] s.do = "refuseHeld" -> \E r \in HeldByBatch : \A j \in DOMAIN s.list : ~Selects(s.list[j], r)
    [] s.do = "checkHeld"  -> \E r \in Reached(s.filter) : \E p \in Parents : key[r] # p
    [] OTHER -> FALSE

Passes ==
  /\ Step /\ Head(todo).do \in {"matchOne", "refuseHeld", "checkHeld"}
  /\ ~Refused(Head(todo))
  /\ matched' = IF Head(todo).do = "matchOne" THEN Reached(Head(todo).filter) ELSE matched
  /\ UNCHANGED <<key, seen, wrote, pc>> /\ Keeps

\* A refusal, a constraint of the database or a hook throws; the transaction takes everything back.
Fails ==
  /\ pc \in {"before", "running"}
  /\ pc' = "failed"
  /\ key' = saved
  /\ todo' = <<>>
  /\ UNCHANGED <<seen, wrote, matched>> /\ Keeps

\* createHookSteps, registerChildSteps, steps.before; without a parent row nothing runs.
Begin ==
  /\ pc = "before"
  /\ pc' = "running"
  /\ todo' = IF parents = <<>> THEN <<>> ELSE Statements
  /\ seen' = [s \in Registered |-> {}]
  /\ UNCHANGED <<key, wrote, matched>> /\ Keeps

\* steps.after, and the relation is written.
Finish ==
  /\ pc = "running" /\ todo = <<>>
  /\ pc' = "done"
  /\ UNCHANGED <<key, todo, seen, wrote, matched>> /\ Keeps

Ended == pc \in {"done", "failed"} /\ UNCHANGED vars

-----------------------------------------------------------------------------
\* createNestedWritePlans: a key that is part of the target's primary key cannot be NULL.
Plans == {p \in [isOne : BOOLEAN, canDetach : BOOLEAN, writesKey : BOOLEAN] : p.writesKey => ~p.canDetach}

\* The inputs a relation offers; a to-one takes one of them, with one operand.
Offered(p) ==
  {o \in [set : Lists \cup {NotGiven}, disconnect : Lists \cup {NotGiven},
          connect : Lists \cup {NotGiven}, create : 0..MaxCreate] :
     /\ ~p.canDetach => o.set = NotGiven /\ o.disconnect = NotGiven
     /\ p.isOne => /\ o.set = NotGiven
                   /\ Given(o.disconnect) => o.disconnect = <<>> /\ o.create = 0 /\ o.connect = NotGiven
                   /\ Given(o.connect) => Len(o.connect) = 1 /\ o.create = 0
                   /\ o.create <= 1}

Init ==
  /\ plan \in Plans
  /\ op \in Offered(plan)
  /\ parents \in Batches
  /\ \E held \in [Row -> Parent \cup {NoHolder}] :
       /\ ~plan.canDetach => \A r \in Row : held[r] # NoHolder
       /\ plan.isOne => \A r, s \in Row \ Hidden : held[r] = held[s] /\ held[r] # NoHolder => r = s
       /\ key = [r \in TargetRow |-> IF r \in Row THEN held[r] ELSE Nowhere]
  /\ saved = key
  /\ todo = <<>> /\ seen = << >> /\ wrote = {} /\ matched = {}
  /\ pc = "before"

Next == Begin \/ RunDetach \/ RunAttach \/ RunCreate \/ Passes \/ Fails \/ Finish \/ Ended

Spec == Init /\ [][Next]_vars

-----------------------------------------------------------------------------
Operands(list) == IF Given(list) THEN ToSet(list) ELSE {}
ReadsKey == \E f \in UNION {Operands(op[n]) : n \in {"set", "disconnect", "connect"}} : f.holder # AnyHolder

\* What a list of filters names when the write begins.
Named(list) == {r \in Row \ Hidden : \E f \in Operands(list) : r \in f.rows}

LastParent == Last(parents)
\* The documented result, row by row: replace the set, then disconnect, then connect, then create.
AfterSet(r) ==
  IF r \in Named(op.set) THEN LastParent
  ELSE IF Given(op.set) /\ r \notin Hidden /\ saved[r] \in Parents THEN NoHolder
  ELSE saved[r]
Released(r) ==
  /\ r \notin Hidden /\ AfterSet(r) \in Parents
  /\ \/ r \in Named(op.disconnect)
     \/ plan.isOne /\ Given(op.disconnect)
     \/ plan.isOne /\ plan.canDetach /\ Attaching # "none"
AsAsked(r) ==
  IF parents = <<>> THEN saved[r]
  ELSE IF r \in New THEN IF r[1] \in Parents /\ r[2] <= op.create THEN r[1] ELSE Nowhere
  ELSE IF r \in Named(op.connect) /\ ~plan.writesKey THEN LastParent
  ELSE IF Released(r) THEN NoHolder
  ELSE AfterSet(r)

\* A nested write that succeeds leaves every row of the target where the input says, rows out of
\* the request's reach included, whatever the order of its statements; the last parent of a batch
\* wins a row several select (applyForeignKeyOps).
OutcomeAsAsked == pc = "done" /\ ~ReadsKey => \A r \in TargetRow : key[r] = AsAsked(r)

\* A to-one relation whose input does not read the key shows at most one row for each written
\* parent, whether it can be detached or not (applyForeignKeyOps, assertNothingElseAttached).
ToOneHoldsOne ==
  pc = "done" /\ plan.isOne /\ ~ReadsKey =>
    \A p \in Parents : Cardinality({r \in TargetRow \ Hidden : key[r] = p}) <= 1

\* The hooks are told of every row the statements wrote, and no hook is called for an input that
\* runs no statement unless its list is empty (registerChildSteps mirrors applyForeignKeyOps).
HooksMirrorStatements ==
  pc = "done" =>
    /\ wrote = UNION {seen[s] : s \in DOMAIN seen}
    /\ parents # <<>> => \A s \in DOMAIN seen :
         \/ \E i \in DOMAIN Statements : "by" \in DOMAIN Statements[i] /\ Statements[i].by = s[1]
         \/ s[1] # "create" /\ op[s[1]] = <<>>

\* A to-one connect that succeeds attaches the row its filter matched (applyForeignKeyOps).
ConnectAttaches ==
  pc = "done" /\ plan.isOne /\ Given(op.connect) => \A r \in matched : key[r] = LastParent

-----------------------------------------------------------------------------
(* Why the hooks are told of every row, and why a to-one keeps one: invariants of the statements. *)

Stays == plan \in Plans /\ op \in Offered(plan) /\ parents \in Batches

\* The step a statement that writes belongs to.
Writes(s) == s.do \in {"detach", "detachMatching", "attach", "create"}
StepOf(s) == <<s.by, IF s.do = "create" THEN "insert" ELSE "update">>

Filter == [rows : SUBSET Row, holder : Parent \cup {NoHolder, AnyHolder}]
Statement ==
  [do : {"detach"}, by : {"set", "disconnect", "connect", "create"}]
  \cup [do : {"detachMatching"}, by : {"disconnect"}, filter : Filter]
  \cup [do : {"attach"}, by : {"set", "connect"}, filter : Filter, to : Parent]
  \cup [do : {"create"}, by : {"create"}]
  \cup [do : {"matchOne", "checkHeld"}, filter : Filter]
  \cup [do : {"refuseHeld"}, list : Seq(Filter)]
Told == {s \in Statement : Writes(s) => StepOf(s) \in Registered}

\* What was written was collected, and what is still to run has a step to collect it.
HooksInv ==
  /\ Stays
  /\ pc = "before" => wrote = {}
  /\ pc \in {"running", "done"} =>
       /\ DOMAIN seen = Registered /\ wrote = UNION {seen[s] : s \in DOMAIN seen}
       /\ todo \in Seq(Told)

\* Rows that were inserted before keep pointing at a parent or at none, and a to-one begins with a
\* row alone for each parent.
KeyInv ==
  /\ {key, saved} \subseteq [TargetRow -> Parent \cup {NoHolder, Nowhere}]
  /\ pc = "before" => key = saved
  /\ \A r \in Row : key[r] # Nowhere /\ saved[r] # Nowhere
  /\ \A r \in New : saved[r] = Nowhere
  /\ plan.isOne => \A r, s \in TargetRow \ Hidden : saved[r] = saved[s] /\ saved[r] \in Parent => r = s

\* What a to-one's statements leave: every parent with its own row, before they write;
Alone == \A r, s \in TargetRow \ Hidden : key[r] = key[s] /\ key[r] \in Parents => r = s
Untouched == key = saved /\ todo = Statements
OneFound ==
  /\ key = saved /\ todo = Tail(Statements)
  /\ Given(op.connect) /\ Cardinality(Reached(op.connect[1])) = 1
NoneComes == (Attaching = "none" \/ (Attaching = "connect" /\ plan.writesKey)) /\ Alone /\ todo = <<>>
\* then room for the row that comes, and that row in it.
RoomMade == Attaching = "create" /\ HeldByBatch = {} /\ todo = CreateStatements
RoomFilled == Attaching = "create" /\ (\A r \in HeldByBatch : r = <<key[r], 1>>) /\ todo = <<>>
Attached == [do : {"attach"}, by : {"connect"}, filter : ToSet(op.connect), to : Parents]
OneAttached ==
  /\ Attaching = "connect" /\ ~plan.writesKey /\ todo \in Seq(Attached)
  /\ Cardinality(Reached(op.connect[1])) = 1 /\ HeldByBatch \subseteq Reached(op.connect[1])

ToOneInv ==
  plan.isOne /\ parents # <<>> /\ ~ReadsKey /\ pc \in {"running", "done"} =>
    Untouched \/ OneFound \/ NoneComes \/ RoomMade \/ RoomFilled \/ OneAttached

\* Why every row ends where the input says: what a statement does to a row in the request's reach,
Puts(s, r) == s.do = "attach" /\ r \in s.filter.rows
Clears(s, r) == s.do = "detach" \/ (s.do = "detachMatching" /\ r \in s.filter.rows)

\* where the statements from the n-th on leave a row that only they can clear,
Kept(list, r, n, at) ==
  IF at \in Parents /\ (\E m \in n..Len(list) : Clears(list[m], r)) THEN NoHolder ELSE at

\* and where a list takes a row: the last statement that puts it somewhere decides.
Leads(list, r, from, to) ==
  \/ \E n \in 1..Len(list) : /\ Puts(list[n], r) /\ \A m \in (n + 1)..Len(list) : ~Puts(list[m], r)
                             /\ to = Kept(list, r, n + 1, list[n].to)
  \/ (\A n \in 1..Len(list) : ~Puts(list[n], r)) /\ to = Kept(list, r, 1, from)

\* Statements that decide by the row alone, and attach to a written parent.
Blind(s) == /\ s.do \in {"attach", "detachMatching"} => s.filter.holder = AnyHolder
            /\ s.do = "attach" => s.to \in Parents

\* From any point of the program, its rest leads every row to where the input says.
AskedInv ==
  ~ReadsKey /\ pc \in {"running", "done"} =>
    /\ \A r \in Row \ Hidden : Leads(todo, r, key[r], AsAsked(r))
    /\ \A r \in Hidden : key[r] = saved[r]
    /\ \A r \in New : key[r] = IF todo = <<>> THEN AsAsked(r) ELSE Nowhere
    /\ \A n \in DOMAIN todo : /\ Blind(todo[n])
                              /\ todo[n].do = "create" <=> op.create > 0 /\ n = Len(todo)
    /\ pc = "done" => todo = <<>>

ChildInv == HooksInv /\ KeyInv /\ ToOneInv /\ AskedInv
=============================================================================
