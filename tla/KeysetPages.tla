---------------------------- MODULE KeysetPages -----------------------------
(***************************************************************************)
(* A client reading a list page by page while rows are inserted, changed   *)
(* and deleted: select.ts and select-runtime.ts with the ordering          *)
(* (order-by.ts, keys.ts), the limits (limits.ts), distinct (distinct.ts)  *)
(* and the cursors (cursor.ts) they are built from.                        *)
(*                                                                         *)
(* A page is what ORDER BY and LIMIT leave open: any of the first rows in  *)
(* any order the keys of the ORDER BY do not decide.                       *)
(***************************************************************************)
EXTENDS Integers, Sequences, FiniteSets

CONSTANTS
  Row, Column,
  Values,       \* values of columns, as the database sorts them
  Null,         \* NULL
  PrimaryKey,   \* the columns of the primary key
  NotNull,      \* the columns that are NOT NULL
  Rounded,      \* those whose JS form rounds their value
  Enums,        \* those a MySQL ENUM sorts by position and compares by label
  Elsewhere,    \* what a row sorts by that is not its own: a related row, a filter's list
  Orderings,    \* the orderBy arguments of requests, Omitted among them
  Omitted,      \* no orderBy
  DefaultOrder, \* the table's default ordering
  Requests,     \* the limit asked for, and the limit policy of the table
  Unlimited,    \* no limit
  Distincts,    \* the columns of `distinct`, none among them
  NoCursor,     \* no row has been read
  Contents,     \* what the rows may hold
  MaxEdits      \* bound: writes while the client reads

VARIABLES
  dialect, keyed,         \* the database, and whether the table has its primary key
  walk,                   \* the client pages by "cursor" or by "offset"
  request,                \* [limit, defaultLimit, maxLimit, clamp]
  distinct,               \* the columns of `distinct`
  orderBy,                \* the ordering of the next page
  value,                  \* what every row the request's `where` and scope select holds
  cursor,                 \* the cursor of the last row read
  count,                  \* rows read so far
  seen, twice,            \* the rows read, and those read more than once
  touched,                \* the rows written since the first page
  edits, pc

table == DOMAIN value
query == <<dialect, keyed, walk, request, distinct>>
vars == <<dialect, keyed, walk, request, distinct, orderBy, value, cursor, count, seen, twice, touched, edits, pc>>

ASSUME ColumnAssumption == /\ PrimaryKey \in Seq(NotNull) /\ NotNull \subseteq Column
                           /\ Rounded \subseteq Column /\ Enums \subseteq Column
ASSUME ValueAssumption == Values \subseteq Int /\ Null \notin Int /\ MaxEdits \in Nat
ASSUME RequestAssumption ==
  \A q \in Requests : /\ {q.limit, q.defaultLimit, q.maxLimit} \subseteq (Nat \ {0}) \cup {Unlimited}
                      /\ q.clamp \in BOOLEAN
ASSUME BoundAssumption == Unlimited \notin Nat /\ IsFiniteSet(Row)
ASSUME ContentsAssumption ==
  \A h \in Contents : /\ h \in [Column -> Values \cup {Null}]
                      /\ \A c \in NotNull : h[c] # Null
\* An entry of an orderBy: a column of the table, or something else a row sorts by.
Entry == [col : Column, dir : {"asc", "desc"}, nulls : {"first", "last", "native"}, by : {"value", "elsewhere"}]
\* What a cursor carries: the ordering it is a position of, and the values of the row it stands at.
CursorType == [o : SUBSET [key : Entry, ahead : SUBSET Entry], v : [Column -> Values \cup {Null}]]
ASSUME CursorAssumption == NoCursor \notin CursorType
ASSUME ElsewhereAssumption == Elsewhere \in [Row -> Values \cup {Null}]
\* An orderBy has one entry for a column.
ASSUME OrderingAssumption ==
  \A o \in (Orderings \ {Omitted}) \cup {DefaultOrder} :
    /\ o \in Seq(Entry)
    /\ \A p, q \in DOMAIN o : p # q => o[p].col # o[q].col

-----------------------------------------------------------------------------
(* Limits. *)

Lesser(a, b) == IF a <= b THEN a ELSE b

\* applyLimitPolicy: the limit a page runs with.
Limit ==
  LET fallback == IF request.defaultLimit # Unlimited THEN request.defaultLimit ELSE request.maxLimit
      wanted == IF request.limit # Unlimited THEN request.limit ELSE fallback
  IN IF wanted # Unlimited /\ request.maxLimit # Unlimited THEN Lesser(wanted, request.maxLimit) ELSE wanted

\* Mutated form: no limit is refused.
NeverExceeds == FALSE
Exceeds == /\ request.limit # Unlimited /\ request.maxLimit # Unlimited
           /\ request.limit > request.maxLimit /\ ~request.clamp

-----------------------------------------------------------------------------
(* Orderings. *)

Order == IF orderBy = Omitted THEN DefaultOrder ELSE orderBy

\* orderByCursorObstacle: it sorts on something that is not a value of the row.
Obstacle == \E p \in DOMAIN Order : Order[p].by = "elsewhere"

OrderedColumns == {Order[p].col : p \in {q \in DOMAIN Order : Order[q].by = "value"}}
KeyColumns == {PrimaryKey[j] : j \in DOMAIN PrimaryKey}
\* Mutated form: a key column ordered by a list's position breaks no tie.
TiebreakSkipsAnyEntry == {j \in DOMAIN PrimaryKey : \A p \in DOMAIN Order : Order[p].col # PrimaryKey[j]}
\* primaryKeyTiebreak: the key columns the ordering does not sort by value.
Tiebreak == {j \in DOMAIN PrimaryKey : PrimaryKey[j] \notin OrderedColumns}

KeyAt(p) ==
  IF p <= Len(Order) THEN Order[p]
  ELSE [col |-> PrimaryKey[p - Len(Order)], dir |-> "asc", nulls |-> "native", by |-> "value"]

\* The keys of an ORDER BY, each with the keys ahead of it.
KeysAt(positions) ==
  {[key |-> KeyAt(p), ahead |-> {KeyAt(q) : q \in {x \in positions : x < p}}] : p \in positions}
TiedPositions == DOMAIN Order \cup {Len(Order) + j : j \in Tiebreak}
Tied == KeysAt(TiedPositions)
Untied == KeysAt(DOMAIN Order)

\* Mutated form: an ordering of its own is enough for a page.
PagesByOrderAlone == Order # <<>> /\ walk = "cursor"
\* needsDefaultOrder and primaryKeyTiebreakExprs: a slice, and any ordering, breaks its ties.
BreaksTies == walk = "cursor" \/ distinct # {} \/ Order # <<>> \/ Limit # Unlimited \/ count > 0

ReadOrder == IF keyed /\ BreaksTies THEN Tied ELSE Untied

\* What the database sorts a row by, and where its NULLs go: largest in PostgreSQL and smallest in
\* the others, unless orderExpressions places them.
SortValue(k, r) == IF k.by = "elsewhere" THEN Elsewhere[r] ELSE value[r][k.col]
NullsFirst(k) == k.nulls = "first" \/ (k.nulls = "native" /\ (k.dir = "asc" <=> dialect # "pg"))

\* Values x and y in the order of one key.
Sorts(k, x, y) ==
  \/ x # Null /\ y # Null /\ (IF k.dir = "asc" THEN x < y ELSE y < x)
  \/ x = Null /\ y # Null /\ NullsFirst(k)
  \/ x # Null /\ y = Null /\ ~NullsFirst(k)

Precedes(keys, r, s) ==
  \E e \in keys : /\ Sorts(e.key, SortValue(e.key, r), SortValue(e.key, s))
                  /\ \A k \in e.ahead : SortValue(k, r) = SortValue(k, s)

-----------------------------------------------------------------------------
(* Cursors. *)

\* What the driver reads a value as.
JsForm(c, v) == IF c \in Rounded /\ v # Null THEN v - (v % 2) ELSE v
\* Mutated form: the cursor carries what the driver read.
CarriesJsForm(c, v) == JsForm(c, v)
\* Mutated form: a NULL is read as a number.
NullAsZero(c, v) == IF v = Null THEN 0 ELSE v
\* cursorPreciseExtras, cursorEncoder: a value the JS form would round is carried as the database's
\* own text, and comes back as the value itself.
Carried(c, v) == IF c \in Rounded THEN v ELSE JsForm(c, v)

CursorOf(r) == [o |-> Tied, v |-> [c \in Column |-> Carried(c, value[r][c])]]

\* decodeCursor, cursorValueFits.
Decodes == /\ cursor.o = Tied
           /\ \A e \in Tied : cursor.v[e.key.col] = Null => e.key.col \notin NotNull

\* x < y as the database compares them: a MySQL ENUM by its labels, which sort the other way.
Below(c, x, y) ==
  x # Null /\ y # Null /\ (IF c \in Enums /\ dialect = "mysql" THEN y < x ELSE x < y)

\* Mutated form: an ENUM is compared by its labels.
ComparesLabels(k, x, v) == IF k.dir = "asc" THEN Below(k.col, v, x) ELSE Below(k.col, x, v)
\* strictComparison.
Strictly(k, x, v) ==
  IF k.col \in Enums /\ dialect = "mysql"
  THEN x # Null /\ (IF k.dir = "asc" THEN x > v ELSE x < v)
  ELSE IF k.dir = "asc" THEN Below(k.col, v, x) ELSE Below(k.col, x, v)

\* DIALECT_NULL_ORDERING.
NullsLargest == dialect = "pg"
\* Mutated form: the direction does not move the NULLs.
NullsSortLastEitherWay(k) == IF k.nulls # "native" THEN k.nulls = "last" ELSE NullsLargest
NullsSortLast(k) == IF k.nulls # "native" THEN k.nulls = "last" ELSE (k.dir = "asc" <=> NullsLargest)

StrictlyAfter(k, x, v) ==
  IF v = Null THEN ~NullsSortLast(k) /\ x # Null
  ELSE Strictly(k, x, v) \/ (NullsSortLast(k) /\ k.col \notin NotNull /\ x = Null)

\* rowValueCondition: every key NOT NULL and in one direction, and not on MySQL.
RowValue == /\ Cardinality(Tied) >= 2 /\ dialect # "mysql"
            /\ \A e, f \in Tied : e.key.dir = f.key.dir /\ e.key.col \in NotNull

\* buildCursorCondition: the row is after the cursor.
AfterCursor(r) ==
  \E e \in Tied :
    /\ \A k \in e.ahead : value[r][k.col] = cursor.v[k.col]
    /\ LET x == value[r][e.key.col]
           v == cursor.v[e.key.col]
       IN IF RowValue THEN (IF e.key.dir = "asc" THEN Below(e.key.col, v, x) ELSE Below(e.key.col, x, v))
          ELSE StrictlyAfter(e.key, x, v)

-----------------------------------------------------------------------------
(* Pages. *)

\* distinctRowsCondition: the first row of each combination of the columns.
SameGroup(r, s) == \A c \in distinct : value[r][c] = value[s][c]
Kept == {r \in table : ~\E s \in table : SameGroup(r, s) /\ Precedes(Tied, s, r)}

Selected == IF distinct # {} THEN Kept ELSE {r \in table : cursor # NoCursor => AfterCursor(r)}

\* P may be the first n rows of S.
First(P, S, n) == /\ Cardinality(P) = (IF n = Unlimited THEN Cardinality(S) ELSE Lesser(n, Cardinality(S)))
                  /\ \A r \in P, s \in S \ P : ~Precedes(ReadOrder, s, r)

Offset == IF walk = "offset" THEN count ELSE 0

\* Mutated form: a cursor is good for any ordering.
RefusedOtherwise == Exceeds \/ (distinct # {} /\ (cursor # NoCursor \/ ~keyed \/ Obstacle))
\* The requests runRelationalSelect throws on.
Refused ==
  \/ Exceeds
  \/ cursor # NoCursor /\ (distinct # {} \/ Obstacle \/ ~keyed \/ ~Decodes)
  \/ distinct # {} /\ (~keyed \/ Obstacle)

\* The page is cut to less than the client asked for.
Clamped == request.limit # Unlimited /\ Limit # request.limit

\* The client stops on a page shorter than it asked for, and otherwise on an empty one.
Ends(page) == IF request.limit # Unlimited THEN Cardinality(page) < request.limit
              ELSE Limit = Unlimited \/ page = {}

ReadPage ==
  /\ pc = "reading" /\ ~Refused
  /\ \E skipped \in SUBSET Selected : \E page \in SUBSET (Selected \ skipped) :
       /\ First(skipped, Selected, Offset)
       /\ First(page, Selected \ skipped, Limit)
       /\ seen' = seen \cup page
       /\ twice' = twice \cup (seen \cap page)
       /\ count' = count + Cardinality(page)
       /\ \/ walk = "offset" /\ cursor' = cursor
          \/ walk = "cursor" /\ page = {} /\ cursor' = cursor
          \/ walk = "cursor" /\ page # {} /\ (Obstacle \/ ~keyed) /\ cursor' = NoCursor
          \/ /\ walk = "cursor" /\ ~Obstacle /\ keyed
             /\ \E last \in page : /\ \A r \in page : ~Precedes(ReadOrder, last, r)
                                   /\ cursor' = CursorOf(last)
       \* Without a cursor to go on from, the client stops too.
       /\ pc' = IF Ends(page) THEN "ended"
                ELSE IF walk = "cursor" /\ (Obstacle \/ ~keyed) THEN "refused" ELSE "reading"
  /\ UNCHANGED <<query, orderBy, value, touched, edits>>

RefusePage ==
  /\ pc = "reading" /\ Refused
  /\ pc' = "refused"
  /\ UNCHANGED <<query, orderBy, value, cursor, count, seen, twice, touched, edits>>

\* The client sends its cursor with another ordering.
ChangeOrder ==
  /\ pc = "reading" /\ cursor # NoCursor
  /\ \E o \in Orderings \ {orderBy} : orderBy' = o
  /\ UNCHANGED <<query, value, cursor, count, seen, twice, touched, edits, pc>>

\* Rows are told apart by their primary key.
KeysDiffer(held) ==
  keyed => \A r, s \in DOMAIN held : r # s => \E c \in KeyColumns : held[r][c] # held[s][c]

Edit(r) == /\ pc = "reading" /\ edits < MaxEdits
           /\ edits' = edits + 1
           /\ touched' = touched \cup {r}
           /\ KeysDiffer(value')
           /\ UNCHANGED <<query, orderBy, cursor, count, seen, twice, pc>>

\* Another request inserts or changes a row, or moves it into what this one reads.
WriteRow ==
  \E r \in Row, held \in Contents :
    /\ value' = [x \in table \cup {r} |-> IF x = r THEN held ELSE value[x]]
    /\ Edit(r)

\* It deletes a row, or moves it out.
RemoveRow ==
  \E r \in table : /\ value' = [x \in table \ {r} |-> value[x]]
                   /\ Edit(r)

Ended == pc # "reading" /\ UNCHANGED vars

-----------------------------------------------------------------------------
Init ==
  /\ dialect \in {"pg", "mysql", "sqlite"} /\ keyed \in BOOLEAN
  /\ walk \in {"cursor", "offset"}
  /\ request \in Requests
  /\ distinct \in Distincts
  /\ orderBy \in Orderings
  /\ \E rows \in SUBSET Row : value \in [rows -> Contents]
  /\ KeysDiffer(value)
  /\ cursor = NoCursor /\ count = 0
  /\ seen = {} /\ twice = {} /\ touched = {}
  /\ edits = 0
  /\ pc = "reading"

Next == ReadPage \/ RefusePage \/ ChangeOrder \/ WriteRow \/ RemoveRow \/ Ended

Spec == Init /\ [][Next]_vars

-----------------------------------------------------------------------------
\* The values every variable keeps.
TypeOK ==
  /\ dialect \in {"pg", "mysql", "sqlite"} /\ keyed \in BOOLEAN
  /\ walk \in {"cursor", "offset"} /\ request \in Requests /\ distinct \in Distincts
  /\ orderBy \in Orderings
  /\ table \subseteq Row /\ value \in [table -> Contents]
  /\ cursor # NoCursor => walk = "cursor" /\ keyed /\ seen # {} /\ cursor \in CursorType
  /\ seen \subseteq Row /\ twice \subseteq seen /\ touched \subseteq Row
  /\ count \in Nat /\ count >= Cardinality(seen)
  /\ edits \in 0..MaxEdits
  /\ pc \in {"reading", "ended", "refused"}

\* Paging by cursor reads no row twice that nobody wrote in the meantime, whatever is inserted,
\* changed or deleted around it and whichever orderings the cursor is tried with (cursor.ts).
NoRepeat == walk = "cursor" => twice \subseteq touched

\* Paging by cursor to the end reads every row that was there all along and nobody wrote, unless
\* its pages were cut to less than it asked for, which it takes for the end (limits.ts).
NoSkip ==
  walk = "cursor" /\ pc = "ended" /\ distinct = {} /\ ~(request.clamp /\ Clamped) =>
    table \ touched \subseteq seen

\* Pages by offset of a table nobody writes tile what is listed: no row twice and, at the end, none
\* missing, though the database may order ties differently on every page (select-runtime.ts).
OffsetPagesTile ==
  walk = "offset" /\ keyed /\ touched = {} =>
    /\ twice = {}
    /\ pc = "ended" /\ ~(request.clamp /\ Clamped) =>
         seen = (IF distinct = {} THEN table ELSE Kept)

-----------------------------------------------------------------------------
(* Why pages by offset tile: what KeysetPagesProofs.tla adds to its invariant. *)

\* What is listed to a client that pages by offset.
Listed == IF distinct = {} THEN table ELSE Kept

\* What it has read of a table nobody wrote is the beginning of that list, in the order that ends
\* in the primary key, row by row; once a page ends the walk it is all of it.
TilePart ==
  walk = "offset" =>
    /\ cursor = NoCursor
    /\ keyed /\ touched = {} =>
         /\ twice = {} /\ seen \subseteq Listed /\ count = Cardinality(seen)
         /\ \A r \in seen, s \in Listed \ seen : ~Precedes(Tied, s, r)
         /\ pc = "ended" /\ ~(request.clamp /\ Clamped) => seen = Listed
=============================================================================
