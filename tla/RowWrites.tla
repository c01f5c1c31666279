------------------------------ MODULE RowWrites ------------------------------
(***************************************************************************)
(* The generated writes of one table: insert, upsert, update, updateMany,  *)
(* delete and restore of write-resolvers.ts, update-many.ts and mysql.ts,  *)
(* from their arguments to their last statement.                           *)
(*                                                                         *)
(* One request is followed; between its statements other clients write.   *)
(* What its own `before' hook wrote is in the table at first.              *)
(***************************************************************************)
EXTENDS Integers, FiniteSets, Sequences, SequencesExt, FiniteSetsExt

CONSTANTS
  Slot,       \* the places a table has for rows: numbers, so that a free one can be named
  Null,       \* SQL's NULL
  Absent,     \* a place that holds no row
  NotGiven,   \* an argument left out
  Layouts,    \* the keys a table may declare
  Requests,   \* what a request may ask for
  Tables,     \* the rows a table may hold at first
  Elsewhere,  \* what another client may put in a place: <<slot, row or Absent>>
  MaxEdits    \* bound: how often one does

ServerOwned == {"by"}  \* contextValues: stamped on insert, never overwritten
Stamp == "me"

\* A row; the scope selects the ones `by' the request's own stamp.
Row == [id : Nat, alt : Nat \cup {Null}, val : Nat, by : {Stamp, "other"}, marked : BOOLEAN]
Column == {"id", "alt", "val", "by", "marked"}

\* Values of columns a caller may write: the schema offers no marker to write (isWritableColumn).
ValuesOf == [id |-> Nat, alt |-> Nat \cup {Null}, val |-> Nat, by |-> {Stamp, "other"}]
Values(row) == DOMAIN row \subseteq Column \ {"marked"} /\ \A c \in DOMAIN row : row[c] \in ValuesOf[c]

ASSUME RowWritesAssumption ==
  /\ Slot \subseteq Nat /\ IsFiniteSet(Slot) /\ Null \notin Nat /\ Absent \notin Row
  /\ Tables \subseteq [Slot -> Row \cup {Absent}]
  /\ Elsewhere \subseteq Slot \X (Row \cup {Absent})
  /\ MaxEdits \in Nat

\* The columns of a primary key are NOT NULL, and every `id' holds a value; a key has columns.
ASSUME LayoutAssumption ==
  \A l \in Layouts :
    /\ l.primary \subseteq Column /\ l.notNull \subseteq Column /\ l.primary \subseteq {"id"} \cup l.notNull
    /\ l.unique \in Seq([columns : (SUBSET Column) \ {{}}, partial : BOOLEAN])

\* An insert skips the row that conflicts, or fails; a Single form takes one update.
ASSUME RequestAssumption ==
  \A r \in Requests :
    /\ r.kind \in {"insert", "upsert", "update", "delete", "restore", "purge"}
    /\ r.single \in BOOLEAN
    /\ r.kind \in {"insert", "upsert"} =>
         /\ r.values \in Seq(ToSet(r.values)) /\ \A row \in ToSet(r.values) : Values(row)
         /\ r.action \in (IF r.kind = "insert" THEN {"NOTHING"} ELSE {"NOTHING", "UPDATE"})
    /\ r.kind = "update" =>
         /\ r.updates \in Seq(ToSet(r.updates)) /\ \A u \in ToSet(r.updates) : Values(u.set)
         /\ r.single => Len(r.updates) <= 1

VARIABLES
  dialect,  \* "pg", "sqlite" or "mysql"
  layout,   \* the table's primary key and unique keys
  soft,     \* it soft-deletes
  request,  \* the field's arguments
  inTx,     \* the field runs in a transaction
  db,       \* the table
  without,  \* the table as it would be without this request
  found,    \* the row the single-match check has found
  target,   \* how a statement reaches its rows: "filter", "keys", or MySQL "refuses" it
  todo,     \* the statements it has still to run
  wrote,    \* the places it has written
  edits,    \* how often another client has changed the table
  pc

fixed == <<dialect, layout, soft, request, inTx>>
vars == <<fixed, db, without, found, target, todo, wrote, edits, pc>>

Given(argument) == argument # NotGiven
Present(table) == {s \in Slot : table[s] # Absent}

-----------------------------------------------------------------------------
(* Keys. *)

\* Every key of the table, the primary one first (getUniqueTargets).
UniqueTargets ==
  (IF layout.primary = {} THEN <<>> ELSE <<[columns |-> layout.primary, partial |-> FALSE]>>) \o layout.unique

\* getRowKeyCandidates, by their positions: the primary key, else the first key without NULLs,
\* else every key.
RowKeyPositions ==
  LET whole  == {i \in DOMAIN UniqueTargets : ~UniqueTargets[i].partial}
      strict == {i \in whole : UniqueTargets[i].columns \subseteq layout.notNull}
  IN IF layout.primary # {} THEN {1} ELSE IF strict # {} THEN {Min(strict)} ELSE whole
RowKeys == {UniqueTargets[i].columns : i \in RowKeyPositions}

\* SQL's equality of two rows on some columns: a NULL equals nothing.
Agree(r, q, columns) == \A c \in columns : r[c] = q[c] /\ r[c] # Null

\* A partial index, `WHERE the row is not marked', only covers those rows.
Rival(r, q, key) == Agree(r, q, key.columns) /\ (key.partial => ~r.marked /\ ~q.marked)

Fits(table) ==
  /\ \A s \in Present(table), c \in layout.notNull : table[s][c] # Null
  /\ \A s, t \in Present(table) : s # t => \A key \in ToSet(UniqueTargets) : ~Rival(table[s], table[t], key)

-----------------------------------------------------------------------------
(* The rows an update, a delete or a restore selects. *)

Mode ==
  CASE request.kind = "restore" -> "ONLY"
    [] request.kind = "purge"   -> "INCLUDE"
    [] OTHER                    -> "EXCLUDE"

\* Mutated form: reading marked rows leaves the scope out.
ScopeOnlyExcludes(r) == IF Mode = "EXCLUDE" THEN r.by = Stamp /\ ~r.marked ELSE Mode = "ONLY" => r.marked
\* withRowVisibility: the scope, and the soft-delete mode of the operation.
Visible(r) ==
  /\ r.by = Stamp
  /\ Mode = "EXCLUDE" => ~r.marked
  /\ Mode = "ONLY"    => r.marked

\* The caller's filter: none, one on `val', or one that compiles to every row.
Matches(r, where) == Given(where) /\ where.every = FALSE => r.val = where.val

\* keySet of narrowToSingleMatch: the first key the row holds a value in every column of.
RowKeyOf(r) ==
  LET held == {i \in RowKeyPositions : \A c \in UniqueTargets[i].columns : r[c] # Null}
  IN IF held = {} THEN {} ELSE UniqueTargets[Min(held)].columns

\* Mutated form: the check is not carried into the write.
ForgetsTheCheck(r) == TRUE
\* narrowToSingleMatch: the write is kept to the row the check found.
Narrowed(r) ==
  request.single => /\ found # Absent
                    /\ RowKeyOf(found) # {} => Agree(r, found, RowKeyOf(found))

Selected(where) == {s \in Present(db) : Visible(db[s]) /\ Matches(db[s], where) /\ Narrowed(db[s])}

-----------------------------------------------------------------------------
(* The conflict plan of an upsert: resolveConflictPlan. *)

WithTarget == dialect # "mysql"
TargetColumns == IF Given(request.target) THEN request.target ELSE layout.primary
TargetPositions == {i \in DOMAIN UniqueTargets : UniqueTargets[i].columns = TargetColumns}

Supplied == UNION {DOMAIN row : row \in ToSet(request.values)}
NeverWritten == IF WithTarget THEN TargetColumns ELSE layout.primary
Candidates ==
  IF Given(request.update) THEN request.update ELSE Supplied \ (NeverWritten \cup ServerOwned)

PlanRefused ==
  \/ WithTarget /\ TargetPositions = {}
  \/ /\ request.action = "UPDATE" /\ Given(request.update)
     /\ request.update \cap ServerOwned # {} \/ ~(request.update \subseteq Supplied)

UpdateNames(row) == IF request.action = "NOTHING" THEN {} ELSE Candidates \cap DOMAIN row

\* Mutated form: one statement for all rows, which sets every column any of them supplies.
OneBatch ==
  <<[do |-> "insert", rows |-> request.values,
     names |-> IF request.action = "NOTHING" THEN {} ELSE Candidates]>>
\* A row joins the statement before it if that writes the same columns on conflict; an insert
\* writes none.
Batched(batches, row) ==
  IF batches # <<>> /\ Last(batches).names = UpdateNames(row)
    THEN Append(Front(batches), [Last(batches) EXCEPT !.rows = Append(@, row)])
    ELSE Append(batches, [do |-> "insert", rows |-> <<row>>, names |-> UpdateNames(row)])
\* One statement for each run of consecutive rows that write the same columns on conflict.
Batches ==
  LET upTo[n \in 0..Len(request.values)] ==
        IF n = 0 THEN <<>> ELSE Batched(upTo[n - 1], request.values[n])
  IN upTo[Len(request.values)]

\* What a conflict is resolved on: MySQL's is any key, an insert that does not skip has none.
ConflictKeys ==
  IF request.kind = "upsert" /\ WithTarget THEN <<UniqueTargets[Min(TargetPositions)]>>
  ELSE IF request.kind = "upsert" \/ request.skip THEN UniqueTargets
  ELSE <<>>

\* The row an insert stores: DEFAULT for what it leaves out, and the server's stamps.
Stored(row, table) ==
  [id     |-> IF "id" \in DOMAIN row THEN row["id"]
              ELSE 1 + Max({0} \cup {table[s].id : s \in Present(table)}),
   alt    |-> IF "alt" \in DOMAIN row THEN row["alt"] ELSE Null,
   val    |-> IF "val" \in DOMAIN row THEN row["val"] ELSE 0,
   by     |-> Stamp,
   marked |-> FALSE]

Overwritten(old, new, names) == [c \in DOMAIN old |-> IF c \in names THEN new[c] ELSE old[c]]

\* setWhere: the conflict branch only updates a row the request can see; MySQL takes no predicate.
MayOverwrite(old) == dialect = "mysql" \/ (Visible(old) /\ Matches(old, request.where))

\* One row of an insert statement, after the ones before it.  PostgreSQL refuses a statement that
\* would update a row it has written.  Bound: Slot, a table without a free place refuses a row.
InsertRow(names, done, row) ==
  LET new    == Stored(row, done.table)
      Hit(key) == {s \in Present(done.table) : Rival(done.table[s], new, key)}
      keys   == {i \in DOMAIN ConflictKeys : Hit(ConflictKeys[i]) # {}}
      rival  == CHOOSE s \in Hit(ConflictKeys[Min(keys)]) : TRUE
      again  == dialect = "pg" /\ rival \in done.touched
      free   == Slot \ Present(done.table)
  IN IF keys = {} /\ free = {} THEN [done EXCEPT !.fails = TRUE]
     ELSE IF keys = {} THEN [done EXCEPT !.table[Min(free)] = new, !.touched = @ \cup {Min(free)}]
     ELSE IF names = {} THEN done
     ELSE IF again THEN [done EXCEPT !.fails = TRUE]
     ELSE IF MayOverwrite(done.table[rival])
       THEN [done EXCEPT !.table[rival] = Overwritten(@, new, names), !.touched = @ \cup {rival}]
     ELSE done

Untouched(table) == [table |-> table, touched |-> {}, fails |-> FALSE]

Inserted(statement) ==
  LET upTo[n \in 0..Len(statement.rows)] ==
        IF n = 0 THEN Untouched(db) ELSE InsertRow(statement.names, upTo[n - 1], statement.rows[n])
  IN upTo[Len(statement.rows)]

-----------------------------------------------------------------------------
(* A request, from its arguments to its last statement. *)

ReachesRows == request.kind \notin {"insert", "upsert"}
\* The Single form of an insert or an upsert is a list of one row.
Single == request.single /\ ReachesRows

\* The statements a request runs, in order.
Statements ==
  CASE ~ReachesRows -> Batches
    [] request.kind = "update" ->
         [i \in DOMAIN request.updates |->
            [do |-> "set", where |-> request.updates[i].where, values |-> request.updates[i].set]]
    [] request.kind = "restore" -> <<[do |-> "unmark", where |-> request.where]>>
    [] request.kind = "delete"  -> <<[do |-> IF soft THEN "mark" ELSE "remove", where |-> request.where]>>
    [] request.kind = "purge"   -> <<[do |-> "remove", where |-> request.where]>>

\* Mutated form: only a field that already runs in a transaction rolls back.
AtomicInTxOnly == inTx
\* A batch runs its statements in a transaction, or a savepoint, of its own.
Atomic == inTx \/ (Len(Statements) > 1 /\ todo # <<>>)

Required == Single \/ request.requireWhere
EveryRow(where) == Given(where) => where.every

\* What the arguments alone can fail.
BadArguments ==
  CASE ~ReachesRows -> request.values = <<>> \/ (request.kind = "upsert" /\ PlanRefused)
    [] request.kind = "update" ->
         \/ request.updates = <<>>
         \/ \E i \in DOMAIN request.updates :
              \/ DOMAIN request.updates[i].set \subseteq ServerOwned
              \/ Required /\ EveryRow(request.updates[i].where)
    [] OTHER -> Required /\ EveryRow(request.where)

Ends(how) ==
  /\ pc' = how
  /\ UNCHANGED <<fixed, without, found, target, todo, wrote, edits>>

\* What a failed request wrote is rolled back, where it has a transaction.
FailsWith(table) == Ends("failed") /\ db' = IF Atomic THEN without ELSE table

\* The part of a body before `await before()'.
Check ==
  /\ pc = "asked"
  /\ ~BadArguments
  /\ pc' = IF Single THEN "matching" ELSE "writing"
  /\ todo' = Statements
  /\ UNCHANGED <<fixed, db, without, found, target, wrote, edits>>

RefuseArguments == pc = "asked" /\ BadArguments /\ Ends("refused") /\ UNCHANGED db

\* narrowToSingleMatch's query; the narrowing itself is in `Selected'.
MatchesOf == {s \in Present(db) : Visible(db[s]) /\ Matches(db[s], Head(todo).where)}

FindSingle ==
  /\ pc = "matching"
  /\ Cardinality(MatchesOf) <= 1
  /\ found' = IF MatchesOf = {} THEN Absent ELSE db[CHOOSE s \in MatchesOf : TRUE]
  /\ pc' = "writing"
  /\ UNCHANGED <<fixed, db, without, target, todo, wrote, edits>>

RefuseMany ==
  /\ pc = "matching"
  /\ Cardinality(MatchesOf) > 1
  /\ Ends("refused") /\ UNCHANGED db

NextIs(kinds) == pc = "writing" /\ todo # <<>> /\ Head(todo).do \in kinds
RowWrite == {"set", "mark", "unmark", "remove"}

\* A check that found nothing leaves a filter that reads no table.
ReadsItself == dialect = "mysql" /\ request.readsItself /\ (Single => found # Absent)
HoldsKey(r) == \E key \in RowKeys : \A c \in key : r[c] # Null

\* mysqlWriteFilter: how MySQL can be made to accept a filter that reads the table it writes.
Resolve ==
  /\ NextIs(RowWrite)
  /\ ReadsItself /\ target = "filter"
  /\ target' = IF RowKeys # {} /\ \A s \in Selected(Head(todo).where) : HoldsKey(db[s])
                 THEN "keys" ELSE "refuses"
  /\ UNCHANGED <<fixed, db, without, found, todo, wrote, edits, pc>>

\* matchKeysOf: the rows whose key is one of the selected rows'.
ByKeys(selected) ==
  {s \in Present(db) : \E key \in RowKeys, q \in selected : Agree(db[s], db[q], key)}

Reached(where) == IF target = "keys" THEN ByKeys(Selected(where)) ELSE Selected(where)

Written(statement, r) ==
  CASE statement.do = "set" ->
         [c \in DOMAIN r |-> IF c \in DOMAIN statement.values \ ServerOwned THEN statement.values[c] ELSE r[c]]
    [] statement.do = "mark"   -> [r EXCEPT !.marked = TRUE]
    [] statement.do = "unmark" -> [r EXCEPT !.marked = FALSE]
    [] statement.do = "remove" -> Absent

\* The table a statement would leave, and whether the database refuses it.
After(statement) ==
  IF statement.do = "insert"
    THEN Inserted(statement)
    ELSE [table |-> [s \in Slot |-> IF s \in Reached(statement.where) THEN Written(statement, db[s]) ELSE db[s]],
          touched |-> Reached(statement.where),
          fails |-> target = "refuses"]

Runnable == pc = "writing" /\ todo # <<>> /\ (Head(todo).do \in RowWrite /\ ReadsItself => target # "filter")
Refuses(after) == after.fails \/ ~Fits(after.table)

\* One statement.
Run ==
  /\ Runnable
  /\ ~Refuses(After(Head(todo)))
  /\ db' = After(Head(todo)).table
  /\ wrote' = wrote \cup After(Head(todo)).touched
  /\ todo' = Tail(todo)
  /\ target' = "filter"
  /\ UNCHANGED <<fixed, without, found, edits, pc>>

StatementFails == Runnable /\ Refuses(After(Head(todo))) /\ FailsWith(db)

\* The rows it wrote came back; MySQL's statements return none, so it cannot count them.
TooMany == Single /\ dialect # "mysql" /\ Cardinality(wrote) > 1

Return == pc = "writing" /\ todo = <<>> /\ ~TooMany /\ Ends("done") /\ UNCHANGED db
ReturnsTooMany == pc = "writing" /\ todo = <<>> /\ TooMany /\ FailsWith(db)

\* A hook, the driver, or the read of the relations selected beside the written rows fails.
Fails == pc \in {"matching", "writing"} /\ FailsWith(db)

\* Another client writes a row.  One this request has written is locked; SQLite has one writer.
Edit ==
  /\ pc \in {"matching", "writing"} /\ edits < MaxEdits
  /\ dialect = "sqlite" => ~inTx /\ wrote = {}
  /\ \E e \in Elsewhere :
       /\ db[e[1]] # e[2] /\ e[1] \notin wrote
       /\ ~soft /\ e[2] # Absent => ~e[2].marked
       /\ db' = [db EXCEPT ![e[1]] = e[2]]
       /\ without' = [without EXCEPT ![e[1]] = e[2]]
       /\ Fits(db') /\ Fits(without')
  /\ edits' = edits + 1
  /\ UNCHANGED <<fixed, found, target, todo, wrote, pc>>

Answered == pc \in {"done", "failed", "refused"} /\ UNCHANGED vars

Init ==
  /\ dialect \in {"pg", "sqlite", "mysql"}
  /\ layout \in Layouts
  /\ dialect = "mysql" => \A i \in DOMAIN layout.unique : ~layout.unique[i].partial
  /\ soft \in BOOLEAN
  /\ request \in Requests
  /\ request.kind \in {"restore", "purge"} => soft
  /\ request.kind \in {"insert", "upsert"} => \A row \in ToSet(request.values) : layout.notNull \subseteq DOMAIN row
  /\ dialect = "mysql" => ~(request.kind = "insert" /\ request.skip)
  /\ dialect = "mysql" /\ request.kind = "upsert" => ~Given(request.target) /\ ~Given(request.where)
  /\ inTx \in BOOLEAN
  /\ db \in {t \in Tables : Fits(t) /\ (~soft => \A s \in Present(t) : ~t[s].marked)}
  /\ without = db
  /\ found = Absent /\ target = "filter" /\ todo = <<>> /\ wrote = {} /\ edits = 0 /\ pc = "asked"

Next ==
  \/ Check \/ RefuseArguments \/ FindSingle \/ RefuseMany \/ Resolve \/ Run \/ StatementFails
  \/ Return \/ ReturnsTooMany \/ Fails \/ Edit \/ Answered

Spec == Init /\ [][Next]_vars

-----------------------------------------------------------------------------
(* Properties. *)

\* The rows a request may write: its own, marked ones only to restore or purge them.
Reachable(r) ==
  r.by = Stamp /\ (IF r.marked THEN request.kind \in {"restore", "purge"} ELSE request.kind # "restore")

\* The rows as each statement of an update, a delete or a restore would leave them, if it reached
\* exactly the visible rows its filter matches.
Asked ==
  FoldLeft(LAMBDA table, statement :
             [s \in Slot |-> IF table[s] # Absent /\ Reachable(table[s]) /\ Matches(table[s], statement.where)
                               THEN Written(statement, table[s]) ELSE table[s]],
           without, Statements)

\* The rows as the values of an insert or an upsert would leave them one at a time.
OneByOne ==
  FoldLeft(LAMBDA table, row : InsertRow(UpdateNames(row), Untouched(table), row).table, without, request.values)

\* What a conflict may change in a row that was there: what some row supplied, and neither the
\* server's columns nor, unless asked for, what names the row.
OnlySupplied ==
  \A s \in Present(without) : \A c \in DOMAIN without[s] :
    db[s][c] # without[s][c] =>
      /\ \E row \in ToSet(request.values) : c \in DOMAIN row /\ db[s][c] = row[c]
      /\ c \notin ServerOwned
      /\ c \notin NeverWritten \/ Given(request.update)

\* All its statements have run, for good: it may still be answered with an error when it has no
\* transaction, and reading what it selects besides fails.
Settled == pc = "done" \/ (pc = "failed" /\ todo = <<>> /\ ~inTx)

\* A request nobody disturbed has done what its arguments say, on exactly the rows it can see:
\* the single-match check, MySQL's detour through keys and the split of an upsert into statements
\* change nothing (narrowToSingleMatch, mysqlWriteFilter, resolveConflictPlan).  One answered with
\* an error has changed nothing, unless it has no transaction and had run all its statements.
OutcomeAsAsked ==
  /\ Settled /\ edits = 0 =>
       IF ReachesRows THEN db = Asked
       ELSE /\ db = OneByOne
            /\ request.kind = "upsert" => OnlySupplied
  /\ pc = "refused" => db = without
  /\ pc = "failed" => db = without \/ Settled

\* Rows out of the request's scope, marked ones where it does not ask for them, are never written,
\* no row changes hands, and only a delete or a restore moves the marker (withRowVisibility,
\* insertStamps, stripContextValues).  MySQL's upsert takes no predicate: it still keeps both.
HiddenKept ==
  \A s \in Present(without) :
    /\ s \in wrote /\ ~(dialect = "mysql" /\ request.kind = "upsert") => Reachable(without[s])
    /\ db[s] # Absent => /\ db[s].by = without[s].by
                         /\ db[s].marked # without[s].marked => request.kind \in {"delete", "restore"}

\* A value in a key that holds for the whole table.
NamesOne(r) == \E key \in ToSet(UniqueTargets) : ~key.partial /\ \A c \in key.columns : r[c] # Null

\* However rows change between the check of a Single write and the write, it writes the row it
\* found or none; without a key it never reports success for two, where it can count them
\* (narrowToSingleMatch).
SingleWritesFound ==
  Single =>
    /\ found = Absent => wrote = {}
    /\ found # Absent /\ NamesOne(found) =>
         \A s \in wrote : /\ wrote = {s} /\ without[s] # Absent
                          /\ \E key \in ToSet(UniqueTargets) : Agree(without[s], found, key.columns)
    /\ pc = "done" /\ dialect # "mysql" => Cardinality(wrote) <= 1

-----------------------------------------------------------------------------
(* Why the writes stay where they may: an invariant every step keeps. *)

\* The statements a request may come to run.
InsertStatement ==
  [do : {"insert"}, rows : Seq(ToSet(request.values)),
   names : IF request.kind = "insert" THEN {{}} ELSE SUBSET (Column \ {"by", "marked"})]
PossibleStatements ==
  CASE ~ReachesRows -> InsertStatement
    [] request.kind = "update" ->
         {[do |-> "set", where |-> u.where, values |-> u.set] : u \in ToSet(request.updates)}
    [] request.kind = "restore" -> {[do |-> "unmark", where |-> request.where]}
    [] request.kind = "delete"  -> {[do |-> d, where |-> request.where] : d \in {"mark", "remove"}}
    [] request.kind = "purge"   -> {[do |-> "remove", where |-> request.where]}

Table == [Slot -> Row \cup {Absent}]
Busy == pc \in {"asked", "matching", "writing"}

TypeOK ==
  /\ dialect \in {"pg", "sqlite", "mysql"} /\ layout \in Layouts /\ request \in Requests
  /\ db \in Table /\ without \in Table
  /\ found \in Row \cup {Absent} /\ target \in {"filter", "keys", "refuses"}
  /\ todo \in Seq(PossibleStatements) /\ wrote \subseteq Slot
  /\ pc \in {"asked", "matching", "writing", "done", "failed", "refused"}

\* The statements of MySQL's upsert reach the rows their values run into, whoever they belong to.
RunsInto == dialect = "mysql" /\ request.kind = "upsert"
KeepsOwner(r, q) == q.by = r.by /\ (q.marked # r.marked => request.kind \in {"delete", "restore"})

\* A table this request has written some places of: the others hold what they would without it, it
\* only wrote over rows it may reach, and what it inserted or updated on conflict is still there.
Kept(table, places) ==
  \A s \in Slot :
    /\ s \notin places => table[s] = without[s]
    /\ s \in places /\ ~ReachesRows => table[s] # Absent
    /\ s \in places /\ without[s] # Absent /\ ~RunsInto => Reachable(without[s])
    /\ table[s] # Absent /\ without[s] # Absent => KeepsOwner(without[s], table[s])

\* The check comes before the only statement, and has found a row the table may hold.
Checked ==
  /\ pc \in {"asked", "matching", "refused"} => wrote = {}
  /\ Single => Len(todo) <= 1 /\ (todo # <<>> => wrote = {})
  /\ found # Absent => \A c \in layout.notNull : found[c] # Null

WriteInv == TypeOK /\ (Busy => Fits(db) /\ Kept(db, wrote)) /\ Checked /\ HiddenKept /\ SingleWritesFound
=============================================================================
