---------------------------- MODULE JunctionLinks ----------------------------
(***************************************************************************)
(* The links of a many-to-many relation: applyThroughOps of nested-writes/ *)
(* runtime.ts.  Several requests write one junction table, each in the     *)
(* transaction of its own parent write.                                    *)
(*                                                                         *)
(* The database is READ COMMITTED, the default of PostgreSQL: a statement  *)
(* sees what was committed before it and what its own transaction wrote; a *)
(* statement that would write a row, or a key, another open transaction    *)
(* has written waits for that one to end.                                  *)
(***************************************************************************)
EXTENDS Integers, FiniteSets, Sequences, SequencesExt

CONSTANTS
  Request,   \* concurrent writes through the relation
  Source,    \* keys of parent rows
  Target,    \* keys of target rows
  Hidden,    \* targets that the scope or the relation's own `where` hides
  Inputs,    \* the relation inputs a request may be given
  Splits,    \* the written parents, as parentKeyChunks splits them: sequences of sets of sources
  NotGiven,  \* an input left out
  Copy,      \* bound: rows the junction can hold for a pair, under one owner
  Tables     \* what the junction may hold at first

\* A junction row; `ours' when the junction's own scope shows it to these requests.
Link == [source : Source, target : Target, ours : BOOLEAN, copy : Copy]
\* What the table holds for it: a soft-deleted row is "marked".
RowState == {"absent", "live", "marked"}
Pair(l) == <<l.source, l.target>>

JunctionAssumption ==
  /\ Hidden \subseteq Target
  /\ Tables \subseteq [Link -> RowState]
  /\ Splits \subseteq Seq(SUBSET Source)
  /\ Copy \subseteq Nat /\ IsFiniteSet(Request)
  /\ \A o \in Inputs, n \in {"set", "disconnect", "connect"} :
       o[n] # NotGiven => o[n] \in Seq(SUBSET Target)

VARIABLES
  marks,   \* the junction soft-deletes
  keyed,   \* it has a unique key over its two columns
  origin,  \* the table before any request
  db,      \* the table as committed
  touched, \* the pairs that others have changed since each request began
  op,      \* the input of each request
  chunks,  \* the parents it has written
  todo,    \* the statements it has still to run
  own,     \* the rows its transaction has written
  missing, \* the pairs its `link' has found not linked
  seen,    \* the rows its hook steps have collected
  pc

vars == <<marks, keyed, origin, db, touched, op, chunks, todo, own, missing, seen, pc>>

Given(list) == list # NotGiven

-----------------------------------------------------------------------------
(* The statements an input runs. *)

\* selectedTargetKeysOf: each operand is read once, whatever the number of parents.
Selected(list) == (UNION ToSet(list)) \ Hidden

Unlinks(q, by, targets) ==
  [i \in DOMAIN chunks[q] |-> [do |-> "unlink", by |-> by, of |-> chunks[q][i], to |-> targets]]

\* A chunk reads its links, restores the marked ones it misses and inserts the others.
Links(q, by, targets) ==
  IF targets = {} THEN <<>>
  ELSE FlattenSeq([i \in DOMAIN chunks[q] |->
         <<[do |-> "read", by |-> by, of |-> chunks[q][i], to |-> targets]>>
         \o (IF marks THEN <<[do |-> "restore", by |-> by]>> ELSE <<>>)
         \o <<[do |-> "insert", by |-> by]>>])

SetStatements(q) ==
  IF Given(op[q].set)
    THEN Unlinks(q, "set", Target \ Hidden) \o Links(q, "set", Selected(op[q].set))
    ELSE <<>>

DisconnectStatements(q) ==
  IF Given(op[q].disconnect) /\ Selected(op[q].disconnect) # {}
    THEN Unlinks(q, "disconnect", Selected(op[q].disconnect))
    ELSE <<>>

ConnectStatements(q) ==
  IF Given(op[q].connect) THEN Links(q, "connect", Selected(op[q].connect)) ELSE <<>>

\* Mutated form: the set is replaced last, and takes away what was connected beside it.
SetRunsLast(q) == DisconnectStatements(q) \o ConnectStatements(q) \o SetStatements(q)
Statements(q)  == SetStatements(q) \o DisconnectStatements(q) \o ConnectStatements(q)

\* Mutated form: no step for the links a soft-deleting junction restores.
RegistersNoRestore(q) ==
  {<<by, "insert">> : by \in {n \in {"set", "connect"} : Given(op[q][n])}}
  \cup {<<by, "delete">> : by \in {n \in {"set", "disconnect"} : Given(op[q][n])}}

\* registerChildSteps.
Registered(q) ==
  {<<by, "insert">> : by \in {n \in {"set", "connect"} : Given(op[q][n])}}
  \cup {<<by, "restore">> : by \in {n \in {"set", "connect"} : marks /\ Given(op[q][n])}}
  \cup {<<by, "delete">> : by \in {n \in {"set", "disconnect"} : Given(op[q][n])}}

-----------------------------------------------------------------------------
(* What a statement of request q sees and writes. *)

View(q) == [l \in Link |-> IF l \in DOMAIN own[q] THEN own[q][l] ELSE db[l]]
Locked(q, l) == \E r \in Request \ {q} : l \in DOMAIN own[r]

\* junctionPolicy: the links that exist for this request.
LiveIn(table) == {l \in Link : l.ours /\ table[l] = "live"}

Write(q, rows, state, step) ==
  /\ \A l \in rows : ~Locked(q, l)
  /\ own' = [own EXCEPT ![q] =
       [l \in DOMAIN own[q] \cup rows |-> IF l \in rows THEN state ELSE own[q][l]]]
  /\ seen' = IF step \in Registered(q) THEN [seen EXCEPT ![q][step] = seen[q][step] \cup rows] ELSE seen

Runs(q, statement) ==
  /\ pc[q] = "running" /\ todo[q] # <<>>
  /\ Head(todo[q]).do = statement
  /\ todo' = [todo EXCEPT ![q] = Tail(todo[q])]
Keeps == UNCHANGED <<marks, keyed, origin, db, touched, op, chunks, pc>>

\* The links an `unlink' reaches: only ones this request can see.
Reachable(q, s) == {l \in LiveIn(View(q)) : l.source \in s.of /\ l.target \in s.to}

\* unlink: a soft-deleting junction marks its row.
Unlink(q) ==
  /\ Runs(q, "unlink")
  /\ LET s == Head(todo[q]) IN
     Write(q, Reachable(q, s), IF marks THEN "marked" ELSE "absent", <<s.by, "delete">>)
  /\ UNCHANGED missing /\ Keeps

\* Mutated form: a link of another owner counts as linked.
CountsTheirs(q) ==
  /\ Runs(q, "read")
  /\ LET s == Head(todo[q]) IN
     missing' = [missing EXCEPT ![q] =
       (s.of \X s.to) \ {Pair(l) : l \in {k \in Link : View(q)[k] = "live"}}]
  /\ UNCHANGED <<own, seen>> /\ Keeps
\* link: the targets each parent is missing.
Read(q) ==
  /\ Runs(q, "read")
  /\ LET s == Head(todo[q]) IN
     missing' = [missing EXCEPT ![q] = (s.of \X s.to) \ {Pair(l) : l \in LiveIn(View(q))}]
  /\ UNCHANGED <<own, seen>> /\ Keeps

Restorable(q) == {l \in Link : l.ours /\ View(q)[l] = "marked" /\ Pair(l) \in missing[q]}

\* A link that was removed earlier is restored rather than inserted again.
Restore(q) ==
  /\ Runs(q, "restore")
  /\ Write(q, Restorable(q), "live", <<Head(todo[q]).by, "restore">>)
  /\ missing' = [missing EXCEPT ![q] = missing[q] \ {Pair(l) : l \in Restorable(q)}]
  /\ Keeps

\* The key is over the two columns alone: any row of the pair takes it, shown or not.
Taken(q)   == keyed /\ \E l \in Link : Pair(l) \in missing[q] /\ View(q)[l] # "absent"
Awaited(q) == keyed /\ \E l \in Link : Pair(l) \in missing[q] /\ Locked(q, l)

\* One new row, under this request's own stamps, for every pair that is left.
NewLinks(q) ==
  LET free == {l \in Link : /\ l.ours /\ Pair(l) \in missing[q]
                            /\ View(q)[l] = "absent" /\ ~Locked(q, l)}
  IN {l \in free : \A k \in free : Pair(k) = Pair(l) => l.copy <= k.copy}

Insert(q) ==
  /\ Runs(q, "insert")
  /\ ~Awaited(q) /\ ~Taken(q)
  /\ {Pair(l) : l \in NewLinks(q)} = missing[q]
  /\ Write(q, NewLinks(q), "live", <<Head(todo[q]).by, "insert">>)
  /\ UNCHANGED missing /\ Keeps

-----------------------------------------------------------------------------
(* A request from its first statement to the end of its transaction. *)

\* applyChildSide: the steps are registered before the first statement.
Begin(q) ==
  /\ pc[q] = "before"
  /\ pc' = [pc EXCEPT ![q] = "running"]
  /\ todo' = [todo EXCEPT ![q] = Statements(q)]
  /\ seen' = [seen EXCEPT ![q] = [step \in Registered(q) |-> {}]]
  /\ UNCHANGED <<marks, keyed, origin, db, touched, op, chunks, own, missing>>

Ends(q, how) ==
  /\ pc' = [pc EXCEPT ![q] = how]
  /\ own' = [own EXCEPT ![q] = << >>]
  /\ todo' = [todo EXCEPT ![q] = <<>>]
  /\ UNCHANGED <<marks, keyed, origin, op, chunks, missing, seen>>

Commit(q) ==
  /\ pc[q] = "running" /\ todo[q] = <<>>
  /\ db' = View(q)
  /\ Ends(q, "done")
  /\ touched' = [r \in Request |->
       IF pc'[r] = "running" THEN touched[r] \cup {Pair(l) : l \in {k \in Link : db'[k] # db[k]}} ELSE {}]

\* The key refuses the insert, and the transaction with it.
Refused(q) ==
  /\ pc[q] = "running" /\ todo[q] # <<>> /\ Head(todo[q]).do = "insert"
  /\ ~Awaited(q) /\ Taken(q)
  /\ Ends(q, "refused") /\ UNCHANGED <<db, touched>>

\* A hook, another part of the write or the database (a deadlock) fails.
Fails(q) == pc[q] = "running" /\ Ends(q, "failed") /\ UNCHANGED <<db, touched>>

AllEnded == (\A q \in Request : pc[q] \in {"done", "refused", "failed"}) /\ UNCHANGED vars

Init ==
  /\ marks \in BOOLEAN
  /\ keyed \in BOOLEAN
  /\ origin \in {t \in Tables :
       /\ ~marks => \A l \in Link : t[l] # "marked"
       /\ \A l, k \in Link : /\ Pair(l) = Pair(k) /\ t[l] # "absent" /\ t[k] # "absent"
                             /\ keyed \/ l.ours = k.ours
                             => l = k}
  /\ db = origin
  /\ touched = [q \in Request |-> {}]
  /\ op \in [Request -> Inputs]
  /\ chunks \in [Request -> Splits]
  /\ todo = [q \in Request |-> <<>>]
  /\ own = [q \in Request |-> << >>]
  /\ missing = [q \in Request |-> {}]
  /\ seen = [q \in Request |-> << >>]
  /\ pc = [q \in Request |-> "before"]

Next ==
  \/ \E q \in Request :
       \/ Begin(q) \/ Unlink(q) \/ Read(q) \/ Restore(q) \/ Insert(q)
       \/ Commit(q) \/ Refused(q) \/ Fails(q)
  \/ AllEnded

Spec == Init /\ [][Next]_vars

-----------------------------------------------------------------------------
Written(q) == UNION ToSet(chunks[q])
Names(q, input, t) == Given(op[q][input]) /\ t \in Selected(op[q][input])

\* The documented result: replace the set, then disconnect, then connect.
Asked(q, s, t, was) ==
  IF s \notin Written(q) \/ t \in Hidden THEN was
  ELSE \/ Names(q, "connect", t)
       \/ /\ ~Names(q, "disconnect", t)
          /\ IF Given(op[q].set) THEN Names(q, "set", t) ELSE was

\* The rows a request can find for a pair.
Rows(p) == {l \in Link : l.ours /\ Pair(l) = p}
Linked(table, s, t) == \E l \in LiveIn(table) : Pair(l) = <<s, t>>
OutOfReach(q) == {l \in Link : ~l.ours \/ l.target \in Hidden \/ l.source \notin Written(q)}

\* A request leaves every pair that nobody else changed while it ran linked exactly if its input says
\* so, with no second row beside one it adds, and every link it cannot see as it was
\* (applyThroughOps).
OutcomeAsAsked ==
  [][\A q \in Request : pc[q] = "running" /\ pc'[q] = "done" =>
       /\ \A s \in Source, t \in Target : <<s, t>> \notin touched[q] =>
            /\ Linked(db', s, t) = Asked(q, s, t, Linked(db, s, t))
            /\ \A l, k \in Rows(<<s, t>>) :
                 db[l] = "absent" /\ db'[l] # "absent" /\ db'[k] # "absent" => l = k
       /\ \A l \in OutOfReach(q) : db'[l] = db[l]]_vars

\* However the statements of several requests fall between one another, each pair ends as some
\* order of the requests that committed would have left it (applyThroughOps: each pair is read
\* and written by statements of its own).
PairsSerializable ==
  (\A q \in Request : pc[q] \notin {"before", "running"})
  => \A s \in Source, t \in Target :
       \E order \in SetToSeqs({q \in Request : pc[q] = "done"}) :
         Linked(db, s, t) = FoldLeft(LAMBDA was, q : Asked(q, s, t, was), Linked(origin, s, t), order)

\* The hooks are told of every row the statements of their input wrote (registerChildSteps mirrors
\* applyThroughOps).
HooksToldOfLinks ==
  \A q \in Request :
    pc[q] = "running" => DOMAIN own[q] = UNION {seen[q][step] : step \in DOMAIN seen[q]}

-----------------------------------------------------------------------------
(* Why the hooks are told of every link: an invariant of the statements. *)

Writes(s) == s.do \in {"unlink", "restore", "insert"}
StepOf(s) == <<s.by, IF s.do = "unlink" THEN "delete" ELSE s.do>>

Statement ==
  [do : {"unlink", "read"}, by : {"set", "disconnect", "connect"}, of : SUBSET Source, to : SUBSET Target]
  \cup [do : {"restore", "insert"}, by : {"set", "connect"}]
Told(q) == {s \in Statement : Writes(s) => StepOf(s) \in Registered(q)}

\* What a request wrote was collected, and what it has still to run has a step to collect it.
Collected(q) ==
  /\ pc[q] = "before" => own[q] = << >>
  /\ pc[q] = "running" =>
       /\ DOMAIN seen[q] = Registered(q)
       /\ DOMAIN own[q] = UNION {seen[q][step] : step \in DOMAIN seen[q]}
       /\ todo[q] \in Seq(Told(q))

ToldInv ==
  /\ DOMAIN own = Request /\ DOMAIN seen = Request /\ DOMAIN todo = Request /\ DOMAIN pc = Request
  /\ op \in [Request -> Inputs] /\ chunks \in [Request -> Splits]
  /\ \A q \in Request : Collected(q)

-----------------------------------------------------------------------------
(* Why every pair ends where the input says: the last statement that       *)
(* covers it decides.                                                      *)

Covers(s, p) == s.do \in {"unlink", "read"} /\ p \in s.of \X s.to
Quiet(list, p) == \A n \in 1..Len(list) : ~Covers(list[n], p)
LinksLast(list, p) ==
  \E n \in 1..Len(list) : /\ list[n].do = "read" /\ Covers(list[n], p)
                          /\ \A m \in (n + 1)..Len(list) : ~Covers(list[m], p)

\* What a read has found missing, the next statements of its chunk add.
InOrder(list) ==
  \A n \in 1..Len(list) :
    /\ list[n].do = "read" => n < Len(list) /\ list[n + 1].do = IF marks THEN "restore" ELSE "insert"
    /\ list[n].do = "restore" => n < Len(list) /\ list[n + 1].do = "insert"
    /\ list[n].do \in {"unlink", "insert"} /\ n < Len(list) => list[n + 1].do \in {"unlink", "read"}
Adds(q, p) == todo[q] # <<>> /\ Head(todo[q]).do \in {"restore", "insert"} /\ p \in missing[q]

Will(q, p) == \/ LinksLast(todo[q], p)
              \/ Quiet(todo[q], p) /\ (Adds(q, p) \/ Linked(View(q), p[1], p[2]))

\* A pair nobody else has changed: from any statement on, the rest of the program takes it to where
\* the input says.
Leads(q, p) ==
  /\ Will(q, p) <=> Asked(q, p[1], p[2], Linked(db, p[1], p[2]))
  /\ Adds(q, p) => \A l \in Rows(p) : View(q)[l] \in IF Head(todo[q]).do = "insert" THEN {"absent"}
                                                      ELSE {"absent", "marked"}
  /\ \A l, k \in Rows(p) : db[l] = "absent" /\ View(q)[l] # "absent" /\ View(q)[k] # "absent" => l = k

State == IF marks THEN RowState ELSE RowState \ {"marked"}
Reach(q) == Written(q) \X (Target \ Hidden)

\* What a request has written, and has still to do, is within its reach and leads there.
PairsOf(q) ==
  /\ \A l \in DOMAIN own[q] : l \in Link /\ l.ours /\ Pair(l) \in Reach(q) /\ own[q][l] \in State
  /\ missing[q] \subseteq Reach(q)
  /\ pc[q] = "running" =>
       /\ \A n \in 1..Len(todo[q]) :
            todo[q][n].do \in {"unlink", "read"} => todo[q][n].of \X todo[q][n].to \subseteq Reach(q)
       /\ InOrder(todo[q])
       /\ \A p \in Reach(q) \ touched[q] : Leads(q, p)

PairInv ==
  /\ db \in [Link -> State]
  /\ DOMAIN touched = Request /\ DOMAIN missing = Request
  /\ \A q \in Request : PairsOf(q)

-----------------------------------------------------------------------------
(* Why each pair ends as some order of the requests would have left it:    *)
(* the request that last decided it did so for all the others.             *)

\* An input decides a pair when it does not matter whether it was linked, and else leaves it alone.
Decides(q, p, linked) == \A was \in BOOLEAN : Asked(q, p[1], p[2], was) = linked
Silent(q, p) == \A was \in BOOLEAN : Asked(q, p[1], p[2], was) = was

Mine(q, p) == Rows(p) \cap DOMAIN own[q]
Removing(q, p) == \E l \in Mine(q, p) : own[q][l] # "live" /\ db[l] = "live"

\* What the rest of a program will still do for its pairs, whatever the others do meanwhile.
Decided(q, p) ==
  /\ Silent(q, p) => Quiet(todo[q], p) /\ ~Adds(q, p) /\ Mine(q, p) = {}
  /\ Decides(q, p, TRUE) =>
       \/ LinksLast(todo[q], p)
       \/ Quiet(todo[q], p) /\ (Adds(q, p) \/ Linked(View(q), p[1], p[2]) \/ ~Removing(q, p))
  /\ Decides(q, p, FALSE) =>
       /\ ~LinksLast(todo[q], p)
       /\ Quiet(todo[q], p) => ~Adds(q, p) /\ \A l \in Mine(q, p) : own[q][l] # "live"

Deciders(p) == {q \in Request : pc[q] = "done" /\ ~Silent(q, p)}

\* No row is written by two open transactions, and no pair loses links to two of them.
Apart == \A q, r \in Request : q # r => DOMAIN own[q] \cap DOMAIN own[r] = {}
OneRemoves == \A q, r \in Request, p \in Source \X Target : Removing(q, p) /\ Removing(r, p) => q = r

\* A pair is as it was, or as one of the requests that committed decides it.
Settled(p) ==
  \/ /\ Deciders(p) = {} /\ \A l \in Rows(p) : db[l] = origin[l]
     /\ \A q \in Request : p \notin touched[q]
  \/ \E q \in Deciders(p) : Decides(q, p, Linked(db, p[1], p[2]))

OrderInv ==
  /\ Apart /\ OneRemoves
  /\ \A q \in Request : pc[q] = "running" => \A p \in Reach(q) : Decided(q, p)
  /\ \A p \in Source \X Target : Settled(p)

LinkInv == ToldInv /\ PairInv /\ OrderInv
=============================================================================
