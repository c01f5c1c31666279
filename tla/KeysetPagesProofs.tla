------------------------- MODULE KeysetPagesProofs --------------------------
(***************************************************************************)
(* Paging by cursor reads no untouched row twice and misses none, for      *)
(* every table, ordering, limit and database.                              *)
(*                                                                         *)
(* Before is the total order the cursor is a position of; the condition a  *)
(* cursor compiles to is exactly it (PredicateExact), and it is total on   *)
(* rows with different primary keys (BeforeTotal). The invariant is that   *)
(* the cursor stands between what was read and what was not (Positioned).  *)
(***************************************************************************)
EXTENDS KeysetPages, TLAPS, FiniteSetTheorems, WellFoundedInduction

Values0 == Values \cup {Null}
Held == [Column -> Values0]
Dialects == {"pg", "mysql", "sqlite"}

\* The order of what two rows hold, by keys that are all values of the row.
BeforeBy(keys, f, g) ==
  \E e \in keys : /\ Sorts(e.key, f[e.key.col], g[e.key.col])
                  /\ \A k \in e.ahead : f[k.col] = g[k.col]
Before(f, g) == BeforeBy(Tied, f, g)

-----------------------------------------------------------------------------
(* The keys of an ordering. *)

\* The effective ordering is a list of entries.
LEMMA OrderType ==
  ASSUME orderBy \in Orderings
  PROVE  Order \in Seq(Entry) /\ Len(Order) \in Nat /\ DOMAIN Order = 1..Len(Order)
<1>1. Order \in (Orderings \ {Omitted}) \cup {DefaultOrder}
  BY DEF Order
<1>2. Order \in Seq(Entry)
  BY <1>1, OrderingAssumption DEF Entry
<1> QED BY <1>2

\* Every position of the total order is a positive number and holds an entry.
LEMMA KeyType ==
  ASSUME orderBy \in Orderings, NEW p \in TiedPositions
  PROVE  p \in Nat /\ KeyAt(p) \in Entry
<1>1. Order \in Seq(Entry) /\ Len(Order) \in Nat /\ DOMAIN Order = 1..Len(Order)
  BY OrderType
<1>2. CASE p \in DOMAIN Order
  BY <1>1, <1>2 DEF KeyAt
<1>3. CASE p \notin DOMAIN Order
  <2>1. PICK j \in Tiebreak : p = Len(Order) + j
    BY <1>3 DEF TiedPositions
  <2>2. j \in Nat \ {0} /\ PrimaryKey[j] \in Column
    BY <2>1, ColumnAssumption DEF Tiebreak
  <2>3. KeyAt(p) = [col |-> PrimaryKey[j], dir |-> "asc", nulls |-> "native", by |-> "value"]
    BY <1>1, <2>1, <2>2 DEF KeyAt
  <2> QED BY <1>1, <2>1, <2>2, <2>3 DEF Entry
<1> QED BY <1>2, <1>3

\* What an entry of the total order is.
LEMMA EntryIs ==
  ASSUME NEW e \in Tied
  PROVE  \E p \in TiedPositions :
           e = [key |-> KeyAt(p), ahead |-> {KeyAt(q) : q \in {x \in TiedPositions : x < p}}]
BY DEF Tied, KeysAt

\* The keys of a row's own values, when nothing stands in the way of a cursor.
LEMMA TiedKeys ==
  ASSUME orderBy \in Orderings, ~Obstacle, NEW e \in Tied
  PROVE  /\ e.key \in Entry /\ e.key.by = "value"
         /\ \A k \in e.ahead : k \in Entry /\ k.by = "value"
<1>1. ASSUME NEW p \in TiedPositions PROVE KeyAt(p) \in Entry /\ KeyAt(p).by = "value"
  <2>1. Len(Order) \in Nat /\ DOMAIN Order = 1..Len(Order)
    BY OrderType
  <2>2. KeyAt(p) \in Entry /\ p \in Nat
    BY KeyType
  <2>3. CASE p \in DOMAIN Order
    BY <2>1, <2>2, <2>3 DEF KeyAt, Obstacle, Entry
  <2>4. CASE p \notin DOMAIN Order
    BY <2>1, <2>2, <2>4, ColumnAssumption DEF KeyAt, TiedPositions, Tiebreak
  <2> QED BY <2>3, <2>4
<1>2. PICK p \in TiedPositions :
        e = [key |-> KeyAt(p), ahead |-> {KeyAt(q) : q \in {x \in TiedPositions : x < p}}]
  BY EntryIs
<1> QED BY <1>1, <1>2

\* The entries are a chain: of two, one is ahead of the other, with all that is ahead of it.
LEMMA TiedChain ==
  ASSUME orderBy \in Orderings, NEW e \in Tied, NEW f \in Tied
  PROVE  \/ e.key = f.key /\ e.ahead = f.ahead
         \/ e.key \in f.ahead /\ e.ahead \subseteq f.ahead
         \/ f.key \in e.ahead /\ f.ahead \subseteq e.ahead
<1>1. PICK p \in TiedPositions :
        e = [key |-> KeyAt(p), ahead |-> {KeyAt(q) : q \in {x \in TiedPositions : x < p}}]
  BY EntryIs
<1>2. PICK s \in TiedPositions :
        f = [key |-> KeyAt(s), ahead |-> {KeyAt(q) : q \in {x \in TiedPositions : x < s}}]
  BY EntryIs
<1>3. \A q \in TiedPositions : q \in Nat
  BY KeyType
<1>4. CASE p = s
  BY <1>1, <1>2, <1>4
<1>5. CASE p < s
  BY <1>1, <1>2, <1>3, <1>5
<1>6. CASE s < p
  BY <1>1, <1>2, <1>3, <1>6
<1> QED BY <1>3, <1>4, <1>5, <1>6

-----------------------------------------------------------------------------
(* The order of one key, and of all of them. *)

\* The order of one key is transitive, and total on different values.
LEMMA SortsOrders ==
  ASSUME NEW k \in Entry, NEW x \in Values0, NEW y \in Values0, NEW z \in Values0
  PROVE  /\ Sorts(k, x, y) /\ Sorts(k, y, z) => Sorts(k, x, z)
         /\ ~Sorts(k, x, x)
         /\ x # y => Sorts(k, x, y) \/ Sorts(k, y, x)
<1>1. Null \notin Int /\ \A v \in Values0 : v \in Int \/ v = Null
  BY ValueAssumption DEF Values0
<1> QED BY <1>1 DEF Sorts

\* So is the order of what rows hold transitive.
LEMMA BeforeTransitive ==
  ASSUME orderBy \in Orderings, ~Obstacle, NEW f \in Held, NEW g \in Held, NEW h \in Held, Before(f, g), Before(g, h)
  PROVE  Before(f, h)
<1>1. PICK a \in Tied : Sorts(a.key, f[a.key.col], g[a.key.col]) /\ \A k \in a.ahead : f[k.col] = g[k.col]
  BY DEF Before, BeforeBy
<1>2. PICK b \in Tied : Sorts(b.key, g[b.key.col], h[b.key.col]) /\ \A k \in b.ahead : g[k.col] = h[k.col]
  BY DEF Before, BeforeBy
<1>3. a.key \in Entry /\ b.key \in Entry
  BY TiedKeys
<1>4. a.key.col \in Column /\ b.key.col \in Column
  BY <1>3 DEF Entry
<1>5. CASE a.key = b.key /\ a.ahead = b.ahead
  <2>1. Sorts(a.key, f[a.key.col], h[a.key.col])
    BY <1>1, <1>2, <1>3, <1>4, <1>5, SortsOrders DEF Held
  <2> QED BY <1>1, <1>2, <1>5, <2>1 DEF Before, BeforeBy
<1>6. CASE a.key \in b.ahead /\ a.ahead \subseteq b.ahead
  <2>1. Sorts(a.key, f[a.key.col], h[a.key.col]) /\ \A k \in a.ahead : f[k.col] = h[k.col]
    BY <1>1, <1>2, <1>6
  <2> QED BY <2>1 DEF Before, BeforeBy
<1>7. CASE b.key \in a.ahead /\ b.ahead \subseteq a.ahead
  <2>1. Sorts(b.key, f[b.key.col], h[b.key.col]) /\ \A k \in b.ahead : f[k.col] = h[k.col]
    BY <1>1, <1>2, <1>7
  <2> QED BY <2>1 DEF Before, BeforeBy
<1> QED BY <1>5, <1>6, <1>7, TiedChain

\* A nonempty set of positions has a least one.
LEMMA LeastPosition ==
  ASSUME NEW T \in SUBSET Nat, T # {}
  PROVE  \E p \in T : \A q \in T : p <= q
<1>1. PICK m \in T : TRUE
  OBVIOUS
<1> DEFINE Intervals == {1..q : q \in {x \in T : x <= m}}
<1>2. IsFiniteSet(1..m)
  BY FS_Interval
<1>3. Intervals \subseteq SUBSET (1..m) /\ 1..m \in Intervals
  BY <1>1
<1>4. IsWellFoundedOn(StrictSubsetOrdering(1..m), SUBSET (1..m))
  BY <1>2, FS_StrictSubsetOrderingWellFounded, FS_FiniteSubsetsOfFinite
<1>5. PICK I \in Intervals : \A J \in Intervals : ~(<<J, I>> \in StrictSubsetOrdering(1..m))
  BY <1>3, <1>4, WFMin
<1>6. PICK p \in T : p <= m /\ I = 1..p
  BY <1>5
<1>7. ASSUME NEW q \in T, q < p PROVE FALSE
  <2>1. 1..q \in Intervals /\ 1..q \subseteq 1..p /\ p \in 1..p /\ p \notin 1..q
    BY <1>1, <1>6, <1>7
  <2>2. <<1..q, I>> \in StrictSubsetOrdering(1..m)
    BY <1>3, <1>6, <2>1 DEF StrictSubsetOrdering
  <2> QED BY <1>5, <2>1, <2>2
<1> QED BY <1>6, <1>7

\* Every column of the primary key is sorted by.
LEMMA KeyColumnsSorted ==
  ASSUME orderBy \in Orderings, NEW c \in KeyColumns
  PROVE  \E p \in TiedPositions : KeyAt(p).col = c /\ KeyAt(p).by = "value"
<1>1. PICK j \in DOMAIN PrimaryKey : PrimaryKey[j] = c
  BY DEF KeyColumns
<1>2. Len(Order) \in Nat /\ DOMAIN Order = 1..Len(Order)
  BY OrderType
<1>3. CASE c \in OrderedColumns
  <2>1. PICK p \in DOMAIN Order : Order[p].col = c /\ Order[p].by = "value"
    BY <1>3 DEF OrderedColumns
  <2> QED BY <1>2, <2>1 DEF TiedPositions, KeyAt
<1>4. CASE c \notin OrderedColumns
  <2>1. j \in Tiebreak /\ j \in Nat \ {0}
    BY <1>1, <1>4, ColumnAssumption DEF Tiebreak
  <2>2. Len(Order) + j \in TiedPositions /\ ~(Len(Order) + j <= Len(Order))
    BY <1>2, <2>1 DEF TiedPositions
  <2> QED BY <1>1, <2>2, <1>2, <2>1 DEF KeyAt
<1> QED BY <1>3, <1>4

\* The order is total on what rows with different primary keys hold (primaryKeyTiebreak).
LEMMA BeforeTotal ==
  ASSUME orderBy \in Orderings, ~Obstacle, NEW f \in Held, NEW g \in Held,
         NEW c \in KeyColumns, f[c] # g[c]
  PROVE  Before(f, g) \/ Before(g, f)
<1> DEFINE T == {p \in TiedPositions : f[KeyAt(p).col] # g[KeyAt(p).col]}
<1>1. T # {} /\ T \in SUBSET Nat
  BY KeyColumnsSorted, KeyType
<1>2. PICK p \in T : \A q \in T : p <= q
  BY <1>1, LeastPosition
<1> DEFINE e == [key |-> KeyAt(p), ahead |-> {KeyAt(q) : q \in {x \in TiedPositions : x < p}}]
<1>3. e \in Tied /\ e.key = KeyAt(p) /\ e.ahead = {KeyAt(q) : q \in {x \in TiedPositions : x < p}}
  BY DEF Tied, KeysAt
<1>4. \A k \in e.ahead : f[k.col] = g[k.col]
  <2> SUFFICES ASSUME NEW q \in TiedPositions, q < p PROVE f[KeyAt(q).col] = g[KeyAt(q).col]
    BY <1>3
  <2>1. q \in Nat /\ p \in Nat
    BY KeyType
  <2> QED BY <1>2, <2>1
<1>5. e.key \in Entry
  BY <1>3, TiedKeys
<1>6. e.key.col \in Column
  BY <1>5 DEF Entry
<1>7. Sorts(e.key, f[e.key.col], g[e.key.col]) \/ Sorts(e.key, g[e.key.col], f[e.key.col])
  BY <1>2, <1>3, <1>5, <1>6, SortsOrders DEF Held
<1> HIDE DEF e
<1> QED BY <1>3, <1>4, <1>7 DEF Before, BeforeBy

-----------------------------------------------------------------------------
(* Cursors. *)

\* A cursor carries what the row holds: nothing is rounded away.
LEMMA CarriedExact == \A c, v : Carried(c, v) = v
BY DEF Carried, JsForm

\* After one key's position, as the condition says it and as the ORDER BY has it.
LEMMA KeyExact ==
  ASSUME dialect \in Dialects, NEW k \in Entry, NEW x \in Values0, NEW v \in Values0,
         k.col \in NotNull => x # Null
  PROVE  /\ StrictlyAfter(k, x, v) <=> Sorts(k, v, x)
         /\ dialect # "mysql" /\ k.col \in NotNull /\ v # Null =>
              ((IF k.dir = "asc" THEN Below(k.col, v, x) ELSE Below(k.col, x, v)) <=> Sorts(k, v, x))
<1>1. /\ Null \notin Int /\ (x \in Int \/ x = Null) /\ (v \in Int \/ v = Null)
      /\ k.dir \in {"asc", "desc"} /\ k.nulls \in {"first", "last", "native"}
  BY ValueAssumption DEF Values0, Entry
<1>2. NullsSortLast(k) <=> ~NullsFirst(k)
  BY <1>1 DEF NullsSortLast, NullsFirst, NullsLargest
<1>3. x # Null /\ v # Null => (Strictly(k, x, v) <=> IF k.dir = "asc" THEN v < x ELSE x < v)
  BY <1>1 DEF Strictly, Below
<1>4. StrictlyAfter(k, x, v) <=> Sorts(k, v, x)
  <2>1. CASE v = Null
    BY <1>2, <2>1 DEF StrictlyAfter, Sorts
  <2>2. CASE v # Null /\ x = Null
    <3>1. ~Strictly(k, x, v)
      BY <2>2 DEF Strictly, Below
    <3> QED BY <1>2, <2>2, <3>1 DEF StrictlyAfter, Sorts
  <2>3. CASE v # Null /\ x # Null
    BY <1>3, <2>3 DEF StrictlyAfter, Sorts
  <2> QED BY <2>1, <2>2, <2>3
<1>5. dialect # "mysql" /\ k.col \in NotNull /\ v # Null =>
        ((IF k.dir = "asc" THEN Below(k.col, v, x) ELSE Below(k.col, x, v)) <=> Sorts(k, v, x))
  BY <1>1 DEF Below, Sorts
<1> QED BY <1>4, <1>5

\* The condition a cursor compiles to selects exactly the rows after it, in either form
\* (buildCursorCondition, rowValueCondition).
THEOREM PredicateExact ==
  ASSUME orderBy \in Orderings, ~Obstacle, dialect \in Dialects, cursor.v \in Held, Decodes,
         NEW r \in table, value[r] \in Contents
  PROVE  AfterCursor(r) <=> Before(cursor.v, value[r])
<1>1. value[r] \in Held /\ \A c \in NotNull : value[r][c] # Null
  BY ContentsAssumption DEF Held, Values0
<1> DEFINE Then(e) == LET x == value[r][e.key.col]
                          v == cursor.v[e.key.col]
                      IN IF RowValue
                         THEN (IF e.key.dir = "asc" THEN Below(e.key.col, v, x) ELSE Below(e.key.col, x, v))
                         ELSE StrictlyAfter(e.key, x, v)
<1>2. ASSUME NEW e \in Tied
      PROVE  Then(e) <=> Sorts(e.key, cursor.v[e.key.col], value[r][e.key.col])
  <2>1. e.key \in Entry /\ e.key.col \in Column
    BY TiedKeys DEF Entry
  <2>2. value[r][e.key.col] \in Values0 /\ cursor.v[e.key.col] \in Values0
    BY <1>1, <2>1 DEF Held
  <2>3. e.key.col \in NotNull => value[r][e.key.col] # Null /\ cursor.v[e.key.col] # Null
    BY <1>1 DEF Decodes
  <2>4. RowValue => dialect # "mysql" /\ e.key.col \in NotNull
    BY DEF RowValue
  <2>5. /\ StrictlyAfter(e.key, value[r][e.key.col], cursor.v[e.key.col])
             <=> Sorts(e.key, cursor.v[e.key.col], value[r][e.key.col])
        /\ RowValue =>
             ((IF e.key.dir = "asc" THEN Below(e.key.col, cursor.v[e.key.col], value[r][e.key.col])
               ELSE Below(e.key.col, value[r][e.key.col], cursor.v[e.key.col]))
             <=> Sorts(e.key, cursor.v[e.key.col], value[r][e.key.col]))
    BY <2>1, <2>2, <2>3, <2>4, KeyExact
  <2> QED BY <2>5
<1>3. AfterCursor(r) <=> \E e \in Tied : Then(e) /\ \A k \in e.ahead : value[r][k.col] = cursor.v[k.col]
  BY DEF AfterCursor
<1> HIDE DEF Then
<1> QED BY <1>2, <1>3 DEF Before, BeforeBy

-----------------------------------------------------------------------------
(* The walk: the cursor stands between what was read and what was not. *)

\* No row that was read and left alone is after the cursor, and every row that was there all along
\* and is still unread is.
Positioned ==
  walk = "cursor" =>
    /\ seen \ touched \subseteq table
    /\ pc = "reading" /\ cursor = NoCursor => seen = {}
    /\ cursor # NoCursor => \A r \in seen \ touched : ~BeforeBy(cursor.o, cursor.v, value[r])
    /\ cursor # NoCursor /\ pc = "reading" /\ distinct = {} =>
         \A r \in table \ (touched \cup seen) : BeforeBy(cursor.o, cursor.v, value[r])

Inv == TypeOK /\ KeysDiffer(value) /\ Positioned /\ NoRepeat /\ NoSkip

\* A row of the table holds a value, or NULL where it may, in every column.
LEMMA RowHeld ==
  ASSUME TypeOK, NEW r \in table
  PROVE  value[r] \in Contents /\ value[r] \in Held
<1>1. value[r] \in Contents
  BY DEF TypeOK, table
<1> QED BY <1>1, ContentsAssumption DEF Held, Values0

\* The cursor of a row is a cursor, and holds what the row holds.
LEMMA CursorExact ==
  ASSUME TypeOK, NEW r \in table
  PROVE  /\ CursorOf(r) \in CursorType /\ CursorOf(r) # NoCursor
         /\ CursorOf(r).o = Tied /\ CursorOf(r).v = value[r]
<1>1. value[r] \in Held
  BY RowHeld
<1>2. [c \in Column |-> Carried(c, value[r][c])] = value[r]
  BY <1>1, CarriedExact DEF Held
<1>3. CursorOf(r) = [o |-> Tied, v |-> value[r]]
  BY <1>2 DEF CursorOf
<1>4. Tied \in SUBSET [key : Entry, ahead : SUBSET Entry]
  <2> SUFFICES ASSUME NEW e \in Tied PROVE e \in [key : Entry, ahead : SUBSET Entry]
    OBVIOUS
  <2>1. PICK p \in TiedPositions :
          e = [key |-> KeyAt(p), ahead |-> {KeyAt(q) : q \in {x \in TiedPositions : x < p}}]
    BY EntryIs
  <2>2. \A q \in TiedPositions : KeyAt(q) \in Entry
    BY KeyType DEF TypeOK
  <2> QED BY <2>1, <2>2
<1>5. CursorOf(r) \in CursorType
  BY <1>1, <1>3, <1>4 DEF CursorType, Held, Values0
<1> QED BY <1>3, <1>5, CursorAssumption

\* Without an obstacle, a page by cursor is sorted by what its rows hold.
LEMMA SortedByHeld ==
  ASSUME TypeOK, ~Obstacle, NEW r \in table, NEW s \in table
  PROVE  Precedes(Tied, r, s) <=> Before(value[r], value[s])
<1>1. \A e \in Tied : e.key.by = "value" /\ \A k \in e.ahead : k.by = "value"
  BY TiedKeys DEF TypeOK
<1> QED BY <1>1 DEF Precedes, Before, BeforeBy, SortValue

\* The cardinalities of a page.
LEMMA PageSizes ==
  ASSUME TypeOK, NEW S \in SUBSET table, NEW P \in SUBSET S
  PROVE  /\ IsFiniteSet(S) /\ IsFiniteSet(P) /\ Cardinality(S) \in Nat /\ Cardinality(P) \in Nat
         /\ Cardinality(P) = Cardinality(S) => P = S
         /\ Cardinality(S) = 0 <=> S = {}
<1>1. IsFiniteSet(S)
  BY BoundAssumption, FS_Subset DEF TypeOK
<1> QED BY <1>1, FS_Subset, FS_CardinalityType, FS_EmptySet

\* The limit of a page is positive, or there is none.
LEMMA LimitType ==
  ASSUME request \in Requests
  PROVE  Limit \in (Nat \ {0}) \cup {Unlimited}
<1>1. {request.limit, request.defaultLimit, request.maxLimit} \subseteq (Nat \ {0}) \cup {Unlimited}
  BY RequestAssumption
<1> QED BY <1>1 DEF Limit, Lesser

\* A page by cursor skips nothing.
LEMMA NoneSkipped ==
  ASSUME TypeOK, walk = "cursor", NEW skipped \in SUBSET Selected, First(skipped, Selected, Offset)
  PROVE  skipped = {}
<1>1. Selected \in SUBSET table
  BY DEF Selected, Kept
<1>2. Cardinality(skipped) \in Nat /\ Cardinality(Selected) \in Nat
  BY <1>1, PageSizes
<1>3. Cardinality(skipped) = 0
  BY <1>2, BoundAssumption DEF First, Offset, Lesser
<1> QED BY <1>1, <1>3, PageSizes

\* A page that ends the walk, of a client whose pages are not cut, is all there was.
LEMMA LastPageIsAll ==
  ASSUME TypeOK, ~Refused, ~(request.clamp /\ Clamped),
         NEW rest \in SUBSET table,
         NEW page \in SUBSET rest, First(page, rest, Limit), Ends(page)
  PROVE  page = rest
<1>1. rest \in SUBSET table
  OBVIOUS
<1>2. Cardinality(page) \in Nat /\ Cardinality(rest) \in Nat /\ (Cardinality(rest) = 0 <=> rest = {})
  BY <1>1, PageSizes
<1>3. /\ request \in Requests /\ request.clamp \in BOOLEAN
      /\ {request.limit, request.defaultLimit, request.maxLimit} \subseteq (Nat \ {0}) \cup {Unlimited}
  BY RequestAssumption DEF TypeOK
<1>4. Limit \in (Nat \ {0}) \cup {Unlimited}
  BY <1>3, LimitType
<1>5. Cardinality(page) = IF Limit = Unlimited THEN Cardinality(rest) ELSE Lesser(Limit, Cardinality(rest))
  BY DEF First
<1>6. CASE request.limit # Unlimited
  <2>1. Limit = request.limit
    <3>1. CASE request.maxLimit # Unlimited /\ request.limit > request.maxLimit
      <4>1. request.clamp
        BY <1>6, <3>1 DEF Refused, Exceeds
      <4> QED BY <1>6, <4>1 DEF Clamped
    <3>2. CASE request.maxLimit = Unlimited \/ ~(request.limit > request.maxLimit)
      BY <1>3, <1>6, <3>2, BoundAssumption DEF Limit, Lesser
    <3> QED BY <3>1, <3>2
  <2>2. Cardinality(page) < Limit /\ Limit \in Nat
    BY <1>4, <1>6, <2>1 DEF Ends
  <2>3. Cardinality(page) = Cardinality(rest)
    BY <1>2, <1>5, <2>2, BoundAssumption DEF Lesser
  <2> QED BY <1>1, <2>3, PageSizes
<1>7. CASE request.limit = Unlimited /\ Limit = Unlimited
  BY <1>1, <1>5, <1>7, PageSizes
<1>8. CASE request.limit = Unlimited /\ Limit # Unlimited
  <2>1. page = {}
    BY <1>8 DEF Ends
  <2>2. Cardinality(page) = 0
    BY <2>1, <1>1, PageSizes, FS_EmptySet
  <2>3. Cardinality(rest) = 0
    BY <1>2, <1>4, <1>5, <1>8, <2>2 DEF Lesser
  <2> QED BY <1>2, <2>1, <2>3
<1> QED BY <1>6, <1>7, <1>8

\* A page that does not end a walk has rows.
LEMMA EmptyPageEnds ==
  ASSUME TypeOK
  PROVE  Ends({})
<1>1. Cardinality({}) = 0
  BY FS_EmptySet
<1>2. request.limit \in (Nat \ {0}) \cup {Unlimited}
  BY RequestAssumption DEF TypeOK
<1> QED BY <1>1, <1>2 DEF Ends

-----------------------------------------------------------------------------
(* The steps. *)

\* What a page read by cursor selects.
LEMMA SelectedByCursor ==
  ASSUME TypeOK, walk = "cursor", ~Refused, cursor # NoCursor
  PROVE  /\ distinct = {} /\ ~Obstacle /\ keyed
         /\ cursor.o = Tied /\ cursor.v \in Held
         /\ \A r \in table : r \in Selected <=> Before(cursor.v, value[r])
<1>1. distinct = {} /\ ~Obstacle /\ keyed /\ Decodes
  BY DEF Refused
<1>2. cursor.o = Tied /\ cursor.v \in Held
  BY <1>1 DEF Decodes, TypeOK, CursorType, Held, Values0
<1>3. Selected = {r \in table : AfterCursor(r)}
  BY <1>1 DEF Selected
<1>4. \A r \in table : AfterCursor(r) <=> Before(cursor.v, value[r])
  <2> TAKE r \in table
  <2>1. value[r] \in Contents
    BY RowHeld
  <2> QED BY <1>1, <1>2, <2>1, PredicateExact DEF TypeOK, Dialects
<1> QED BY <1>1, <1>2, <1>3, <1>4

\* A page by cursor repeats no untouched row, and selects from all of them that are unread.
LEMMA PageByCursor ==
  ASSUME Inv, walk = "cursor", ~Refused, pc = "reading", NEW page \in SUBSET Selected
  PROVE  /\ page \subseteq table
         /\ seen \cap page \subseteq touched
         /\ distinct = {} => table \ (touched \cup seen) \subseteq Selected
<1> USE DEF Inv
<1>1. Selected \subseteq table
  BY DEF Selected, Kept
<1>2. CASE cursor = NoCursor
  BY <1>1, <1>2 DEF Positioned, Selected
<1>3. CASE cursor # NoCursor
  BY <1>1, <1>3, SelectedByCursor DEF Positioned, Before
<1> QED BY <1>2, <1>3

\* No row read so far is after the last row of the page, and every row left is.
LEMMA LastRow ==
  ASSUME Inv, walk = "cursor", ~Refused, pc = "reading", ~Obstacle, keyed,
         NEW page \in SUBSET Selected, First(page, Selected, Limit),
         NEW last \in page, \A r \in page : ~Precedes(ReadOrder, last, r)
  PROVE  /\ \A r \in (seen \cup page) \ touched : ~Before(value[last], value[r])
         /\ distinct = {} =>
              \A r \in table \ (touched \cup seen \cup page) : Before(value[last], value[r])
<1> USE DEF Inv
<1>1. page \subseteq table
  BY PageByCursor
<1>2. ReadOrder = Tied
  BY DEF ReadOrder, BreaksTies
<1>3. last \in table /\ value[last] \in Held
  BY <1>1, RowHeld
<1>4. ASSUME NEW r \in (seen \cup page) \ touched PROVE ~Before(value[last], value[r])
  <2>1. CASE r \in page
    BY <1>1, <1>2, <1>3, <2>1, SortedByHeld
  <2>2. CASE r \in seen
    <3>1. cursor # NoCursor
      BY <2>2 DEF Positioned
    <3>2. r \in table /\ ~Before(cursor.v, value[r])
      BY <1>4, <2>2, <3>1, SelectedByCursor DEF Positioned, Before
    <3>3. Before(cursor.v, value[last]) /\ cursor.v \in Held
      BY <1>3, <3>1, SelectedByCursor
    <3>4. value[r] \in Held
      BY <3>2, RowHeld
    <3> QED BY <1>3, <3>2, <3>3, <3>4, BeforeTransitive DEF TypeOK
  <2> QED BY <1>4, <2>1, <2>2
<1>5. ASSUME distinct = {}, NEW r \in table \ (touched \cup seen \cup page)
      PROVE  Before(value[last], value[r])
  <2>1. r \in Selected \ page
    BY <1>5, PageByCursor
  <2>2. ~Precedes(Tied, r, last)
    BY <1>2, <2>1 DEF First
  <2>3. ~Before(value[r], value[last]) /\ value[r] \in Held
    BY <1>3, <1>5, <2>2, SortedByHeld, RowHeld
  <2>4. PICK c \in KeyColumns : value[r][c] # value[last][c]
    BY <1>3, <1>5 DEF KeysDiffer, table
  <2> QED BY <1>3, <2>3, <2>4, BeforeTotal DEF TypeOK
<1> QED BY <1>4, <1>5

\* The invariant holds at the start.
LEMMA Start ==
  ASSUME Init
  PROVE  Inv
<1>1. TypeOK
  <2>1. Cardinality({}) = 0
    BY FS_EmptySet
  <2> QED BY <2>1, BoundAssumption, ValueAssumption DEF Init, TypeOK, table
<1>2. KeysDiffer(value) /\ Positioned /\ NoRepeat /\ NoSkip
  BY DEF Init, Positioned, NoRepeat, NoSkip
<1> QED BY <1>1, <1>2 DEF Inv

\* A page keeps it.
LEMMA PageKeeps ==
  ASSUME Inv, ReadPage
  PROVE  Inv'
<1> USE DEF Inv
<1>1. pc = "reading" /\ ~Refused
  BY DEF ReadPage
<1>2. /\ UNCHANGED <<dialect, keyed, walk, request, distinct, orderBy, value, touched, edits>>
      /\ UNCHANGED table
  BY DEF ReadPage, query, table
<1>3. PICK skipped \in SUBSET Selected, page \in SUBSET Selected :
       /\ page \subseteq Selected \ skipped
       /\ First(skipped, Selected, Offset)
       /\ First(page, Selected \ skipped, Limit)
       /\ seen' = seen \cup page
       /\ twice' = twice \cup (seen \cap page)
       /\ count' = count + Cardinality(page)
       /\ \/ walk = "offset" /\ cursor' = cursor
          \/ walk = "cursor" /\ page = {} /\ cursor' = cursor
          \/ walk = "cursor" /\ page # {} /\ (Obstacle \/ ~keyed) /\ cursor' = NoCursor
          \/ /\ walk = "cursor" /\ ~Obstacle /\ keyed
             /\ \E last \in page : /\ \A r \in page : ~Precedes(ReadOrder, last, r)
                                   /\ cursor' = CursorOf(last)
       /\ pc' = IF Ends(page) THEN "ended"
                ELSE IF walk = "cursor" /\ (Obstacle \/ ~keyed) THEN "refused" ELSE "reading"
  BY DEF ReadPage
<1>4. Selected \subseteq table /\ table \subseteq Row
  BY DEF Selected, Kept, TypeOK
<1>5. pc' \in {"reading", "ended", "refused"} /\ (pc' = "ended" <=> Ends(page)) /\ (pc' = "reading" => ~Ends(page))
  BY <1>3
<1>6. page # {} \/ pc' = "ended"
  BY <1>5, EmptyPageEnds
<1>7. cursor' # NoCursor =>
        /\ walk = "cursor" /\ keyed /\ seen' # {} /\ cursor' \in CursorType
  <2>1. ASSUME NEW last \in page, cursor' = CursorOf(last) PROVE cursor' \in CursorType
    BY <1>4, <2>1, CursorExact
  <2> QED BY <1>3, <2>1 DEF TypeOK
<1>8. TypeOK'
  <2>1. seen' \subseteq Row /\ twice' \subseteq seen'
    BY <1>3, <1>4 DEF TypeOK
  <2>2. IsFiniteSet(page) /\ IsFiniteSet(seen) /\ Cardinality(page) \in Nat /\ Cardinality(seen) \in Nat
    BY <1>3, <1>4, BoundAssumption, FS_Subset, FS_CardinalityType DEF TypeOK
  <2>3. IsFiniteSet(seen \cap page) /\ Cardinality(seen \cap page) \in Nat
    BY <2>2, FS_Intersection, FS_CardinalityType
  <2>4. Cardinality(seen \cup page) = Cardinality(seen) + Cardinality(page) - Cardinality(seen \cap page)
    BY <2>2, FS_Union
  <2>5. count' \in Nat /\ count' >= Cardinality(seen')
    BY <1>3, <2>2, <2>3, <2>4 DEF TypeOK
  <2> QED BY <1>2, <1>5, <1>7, <2>1, <2>5 DEF TypeOK
<1>9. KeysDiffer(value)'
  BY <1>2 DEF KeysDiffer
<1>10. CASE walk = "offset"
  BY <1>2, <1>8, <1>9, <1>10 DEF Positioned, NoRepeat, NoSkip
<1>11. CASE walk = "cursor"
  <2>1. skipped = {} /\ page \in SUBSET Selected /\ First(page, Selected, Limit)
    <3>1. skipped = {}
      BY <1>3, <1>11, NoneSkipped
    <3>2. Selected \ skipped = Selected
      BY <3>1
    <3> QED BY <1>3, <3>1, <3>2
  <2>2. page \subseteq table /\ seen \cap page \subseteq touched
    BY <1>1, <1>11, <2>1, PageByCursor
  <2>3. distinct = {} => table \ (touched \cup seen) \subseteq Selected
    BY <1>1, <1>11, <2>1, PageByCursor
  <2>4. NoRepeat'
    BY <1>2, <1>3, <2>2 DEF NoRepeat
  <2>5. NoSkip'
    <3> SUFFICES ASSUME pc' = "ended", distinct = {}, ~(request.clamp /\ Clamped')
                 PROVE  table \ touched \subseteq seen'
      BY <1>2 DEF NoSkip
    <3>1. ~(request.clamp /\ Clamped)
      BY <1>2 DEF Clamped, Limit
    <3>2. page = Selected
      BY <1>1, <1>4, <1>5, <2>1, <3>1, LastPageIsAll
    <3> QED BY <1>3, <2>3, <3>2
  <2>6. CASE cursor' = cursor /\ page = {}
    <3>1. pc' = "ended" /\ seen' = seen
      BY <1>3, <1>6, <2>6
    <3>2. cursor' # NoCursor => \A r \in seen' \ touched' : ~BeforeBy(cursor'.o, cursor'.v, value'[r])
      BY <1>2, <1>11, <2>6, <3>1 DEF Positioned
    <3>3. seen' \ touched' \subseteq table'
      BY <1>2, <1>11, <3>1 DEF Positioned
    <3>4. Positioned'
      BY <1>2, <3>1, <3>2, <3>3 DEF Positioned, BeforeBy, Sorts, NullsFirst
    <3> QED BY <1>8, <1>9, <2>4, <2>5, <3>4
  <2>7. CASE page # {} /\ (Obstacle \/ ~keyed) /\ cursor' = NoCursor
    <3>1. pc' # "reading"
      BY <1>3, <1>11, <2>7
    <3> QED BY <1>2, <1>3, <1>8, <1>9, <2>2, <2>4, <2>5, <2>7, <3>1 DEF Positioned
  <2>8. ASSUME ~Obstacle, keyed,
               NEW last \in page, \A r \in page : ~Precedes(ReadOrder, last, r), cursor' = CursorOf(last)
        PROVE  Inv'
    <3>1. cursor' # NoCursor /\ cursor'.o = Tied /\ cursor'.v = value[last]
      BY <2>2, <2>8, CursorExact
    <3>2. /\ \A r \in (seen \cup page) \ touched : ~Before(value[last], value[r])
          /\ distinct = {} =>
               \A r \in table \ (touched \cup seen \cup page) : Before(value[last], value[r])
      BY <1>1, <1>11, <2>1, <2>8, LastRow
    <3>3. \A f, g : Before(f, g) <=> BeforeBy(cursor'.o, f, g)
      BY <3>1 DEF Before
    <3>4. Positioned'
      <4>1. seen' \ touched' \subseteq table'
        BY <1>2, <1>3, <1>11, <2>2 DEF Positioned
      <4>2. \A r \in seen' \ touched' : ~BeforeBy(cursor'.o, cursor'.v, value'[r])
        BY <1>2, <1>3, <3>1, <3>2, <3>3
      <4>3. distinct' = {} => \A r \in table' \ (touched' \cup seen') : BeforeBy(cursor'.o, cursor'.v, value'[r])
        BY <1>2, <1>3, <3>1, <3>2, <3>3
      <4> QED BY <1>2, <3>1, <4>1, <4>2, <4>3 DEF Positioned, BeforeBy, Sorts, NullsFirst
    <3> QED BY <1>8, <1>9, <2>4, <2>5, <3>4
  <2> QED BY <1>3, <1>11, <2>6, <2>7, <2>8
<1> QED BY <1>10, <1>11 DEF TypeOK

\* A write keeps it: the rows it leaves alone hold what they held.
LEMMA EditKeeps ==
  ASSUME Inv, NEW r \in Row, Edit(r),
         value' \in [DOMAIN value' -> Contents], DOMAIN value' \subseteq Row,
         \A s \in Row \ {r} : (s \in DOMAIN value' <=> s \in table) /\ (s \in table => value'[s] = value[s])
  PROVE  Inv'
<1> USE DEF Inv
<1>1. /\ pc = "reading" /\ edits < MaxEdits /\ edits' = edits + 1 /\ touched' = touched \cup {r}
      /\ KeysDiffer(value')
      /\ UNCHANGED <<dialect, keyed, walk, request, distinct, orderBy, cursor, count, seen, twice, pc>>
  BY DEF Edit, query
<1>2. table' = DOMAIN value' /\ table \subseteq Row /\ seen \subseteq Row
  BY DEF table, TypeOK
<1>3. TypeOK'
  <2>1. edits' \in 0..MaxEdits /\ touched' \subseteq Row
    BY <1>1, ValueAssumption DEF TypeOK
  <2> QED BY <1>1, <1>2, <2>1 DEF TypeOK
<1>4. KeysDiffer(value)'
  BY <1>1 DEF KeysDiffer
<1>5. Positioned'
  <2> SUFFICES ASSUME walk = "cursor"
               PROVE  /\ seen \ touched' \subseteq table'
                      /\ cursor = NoCursor => seen = {}
                      /\ cursor # NoCursor => \A s \in seen \ touched' : ~BeforeBy(cursor.o, cursor.v, value'[s])
                      /\ cursor # NoCursor /\ distinct = {} =>
                           \A s \in table' \ (touched' \cup seen) : BeforeBy(cursor.o, cursor.v, value'[s])
    BY <1>1 DEF Positioned, BeforeBy, Sorts, NullsFirst
  <2>1. \A s \in seen \ touched' : s \in table' /\ s \in seen \ touched /\ value'[s] = value[s]
    BY <1>1, <1>2 DEF Positioned
  <2>2. \A s \in table' \ (touched' \cup seen) : s \in table \ (touched \cup seen) /\ value'[s] = value[s]
    BY <1>1, <1>2
  <2> QED BY <1>1, <2>1, <2>2 DEF Positioned
<1>6. NoRepeat' /\ NoSkip'
  BY <1>1 DEF NoRepeat, NoSkip
<1> QED BY <1>3, <1>4, <1>5, <1>6

LEMMA WriteRowKeeps ==
  ASSUME Inv, WriteRow
  PROVE  Inv'
<1>1. PICK r \in Row, held \in Contents :
        /\ value' = [x \in table \cup {r} |-> IF x = r THEN held ELSE value[x]]
        /\ Edit(r)
  BY DEF WriteRow
<1>2. table \subseteq Row /\ \A x \in table : value[x] \in Contents
  BY RowHeld DEF Inv, TypeOK
<1>3. DOMAIN value' = table \cup {r} /\ value' \in [DOMAIN value' -> Contents]
  BY <1>1, <1>2
<1>4. \A s \in Row \ {r} : (s \in DOMAIN value' <=> s \in table) /\ (s \in table => value'[s] = value[s])
  BY <1>1, <1>3
<1> QED BY <1>1, <1>2, <1>3, <1>4, EditKeeps

LEMMA RemoveRowKeeps ==
  ASSUME Inv, RemoveRow
  PROVE  Inv'
<1>1. PICK r \in table : /\ value' = [x \in table \ {r} |-> value[x]]
                         /\ Edit(r)
  BY DEF RemoveRow
<1>2. table \subseteq Row /\ \A x \in table : value[x] \in Contents
  BY RowHeld DEF Inv, TypeOK
<1>3. DOMAIN value' = table \ {r} /\ value' \in [DOMAIN value' -> Contents]
  BY <1>1, <1>2
<1>4. \A s \in Row \ {r} : (s \in DOMAIN value' <=> s \in table) /\ (s \in table => value'[s] = value[s])
  BY <1>1, <1>3
<1> QED BY <1>1, <1>2, <1>3, <1>4, EditKeeps

\* A refused page, another ordering and the end leave the rows and the cursor alone.
LEMMA OthersKeep ==
  ASSUME Inv, RefusePage \/ ChangeOrder \/ Ended \/ UNCHANGED vars
  PROVE  Inv'
<1>1. /\ UNCHANGED <<dialect, keyed, walk, request, distinct, value, cursor, count, seen, twice, touched, edits>>
      /\ orderBy' \in Orderings /\ pc' \in {pc, "refused"}
  BY DEF Inv, TypeOK, RefusePage, ChangeOrder, Ended, vars, query
<1>2. table' = table
  BY <1>1 DEF table
<1>3. TypeOK'
  BY <1>1, <1>2 DEF Inv, TypeOK
<1>4. KeysDiffer(value)' /\ NoRepeat'
  BY <1>1, <1>2 DEF Inv, KeysDiffer, NoRepeat
<1>5. NoSkip'
  BY <1>1, <1>2 DEF Inv, NoSkip, Clamped, Limit
<1>6. Positioned'
  BY <1>1, <1>2 DEF Inv, Positioned, BeforeBy, Sorts, NullsFirst
<1> QED BY <1>3, <1>4, <1>5, <1>6 DEF Inv

-----------------------------------------------------------------------------
(* Pages by offset. *)

\* The order that ends in the primary key is total on the rows of a table, also where it sorts by
\* something that is not theirs (primaryKeyTiebreak).
LEMMA PrecedesTotal ==
  ASSUME TypeOK, keyed, KeysDiffer(value), NEW r \in table, NEW s \in table, r # s
  PROVE  Precedes(Tied, r, s) \/ Precedes(Tied, s, r)
<1> DEFINE T == {p \in TiedPositions : SortValue(KeyAt(p), r) # SortValue(KeyAt(p), s)}
<1>1. orderBy \in Orderings /\ r \in Row /\ s \in Row
  BY DEF TypeOK
<1>2. PICK c \in KeyColumns : value[r][c] # value[s][c]
  BY DEF KeysDiffer, table
<1>3. PICK i \in TiedPositions : KeyAt(i).col = c /\ KeyAt(i).by = "value"
  BY <1>1, KeyColumnsSorted
<1>4. i \in T
  BY <1>2, <1>3 DEF SortValue
<1>5. T \in SUBSET Nat
  BY <1>1, KeyType
<1>6. PICK p \in T : \A q \in T : p <= q
  BY <1>4, <1>5, LeastPosition
<1> DEFINE e == [key |-> KeyAt(p), ahead |-> {KeyAt(q) : q \in {x \in TiedPositions : x < p}}]
<1>7. e \in Tied /\ e.key = KeyAt(p) /\ e.ahead = {KeyAt(q) : q \in {x \in TiedPositions : x < p}}
  BY DEF Tied, KeysAt
<1>8. \A k \in e.ahead : SortValue(k, r) = SortValue(k, s)
  <2> SUFFICES ASSUME NEW q \in TiedPositions, q < p PROVE SortValue(KeyAt(q), r) = SortValue(KeyAt(q), s)
    BY <1>7
  <2>1. q \in Nat /\ p \in Nat
    BY <1>1, KeyType
  <2> QED BY <1>6, <2>1
<1>9. e.key \in Entry /\ SortValue(e.key, r) # SortValue(e.key, s)
  BY <1>1, <1>6, <1>7, KeyType
<1>10. SortValue(e.key, r) \in Values0 /\ SortValue(e.key, s) \in Values0
  <2>1. value[r] \in Held /\ value[s] \in Held
    BY RowHeld
  <2>2. Elsewhere[r] \in Values0 /\ Elsewhere[s] \in Values0
    BY <1>1, ElsewhereAssumption DEF Values0
  <2>3. e.key.col \in Column
    BY <1>9 DEF Entry
  <2> HIDE DEF e
  <2> QED BY <2>1, <2>2, <2>3 DEF SortValue, Held
<1> HIDE DEF e
<1>11. \/ Sorts(e.key, SortValue(e.key, r), SortValue(e.key, s))
       \/ Sorts(e.key, SortValue(e.key, s), SortValue(e.key, r))
  BY <1>9, <1>10, SortsOrders
<1> QED BY <1>7, <1>8, <1>11 DEF Precedes

\* The beginnings of what is listed; it has one of each length.
Begins(P) == \A r \in P, s \in Listed \ P : ~Precedes(Tied, s, r)

LEMMA OneBeginning ==
  ASSUME TypeOK, keyed, KeysDiffer(value),
         NEW P \in SUBSET Listed, NEW Q \in SUBSET Listed, Cardinality(P) = Cardinality(Q),
         Begins(P), Begins(Q)
  PROVE  P = Q
<1> USE DEF Begins
<1>5. Listed \in SUBSET table
  BY DEF Listed, Kept
<1>1. ASSUME NEW r \in P \ Q, NEW s \in Q \ P PROVE FALSE
  <2>1. r \in table /\ s \in table /\ r # s
    BY <1>5
  <2>2. ~Precedes(Tied, s, r) /\ ~Precedes(Tied, r, s)
    OBVIOUS
  <2> QED BY <2>1, <2>2, PrecedesTotal
<1>2. P \subseteq Q \/ Q \subseteq P
  BY <1>1
<1>3. CASE P \subseteq Q
  BY <1>3, <1>5, PageSizes
<1>4. CASE Q \subseteq P
  BY <1>4, <1>5, PageSizes
<1> QED BY <1>2, <1>3, <1>4

\* So what a page skips is what has been read.
LEMMA SkipsRead ==
  ASSUME Inv, TilePart, walk = "offset", keyed, touched = {},
         NEW skipped \in SUBSET Selected, First(skipped, Selected, Offset)
  PROVE  Selected = Listed /\ skipped = seen
<1> USE DEF Inv
<1>1. Selected = Listed
  BY DEF TilePart, Selected, Listed
<1>2. Listed \in SUBSET table /\ seen \in SUBSET Listed
  BY DEF Listed, Kept, TilePart
<1>3. /\ Cardinality(seen) \in Nat /\ Cardinality(skipped) \in Nat /\ Cardinality(Listed) \in Nat
      /\ Cardinality(seen) <= Cardinality(Listed)
  <2>1. IsFiniteSet(Listed)
    BY <1>2, PageSizes
  <2> QED BY <1>1, <1>2, <2>1, FS_Subset, PageSizes
<1>4. count = Cardinality(seen) /\ Offset = count
  BY DEF TilePart, Offset
<1>5. Cardinality(skipped) = Cardinality(seen)
  BY <1>1, <1>3, <1>4, BoundAssumption DEF First, Lesser
<1>8. TypeOK /\ KeysDiffer(value)
  OBVIOUS
<1>6. CASE count = 0
  <2>1. seen = {}
    BY <1>2, <1>4, <1>6, PageSizes
  <2>2. skipped = {}
    BY <1>1, <1>2, <1>4, <1>5, <1>6, PageSizes
  <2> QED BY <1>1, <2>1, <2>2
<1>7. CASE count # 0
  <2>1. ReadOrder = Tied
    BY <1>3, <1>4, <1>7 DEF ReadOrder, BreaksTies
  <2>2. \A r \in skipped, s \in Listed \ skipped : ~Precedes(Tied, s, r)
    BY <1>1, <2>1 DEF First
  <2>3. \A r \in seen, s \in Listed \ seen : ~Precedes(Tied, s, r)
    BY DEF TilePart
  <2>4. skipped = seen
    <3>1. skipped \in SUBSET Listed /\ Cardinality(skipped) = Cardinality(seen)
      BY <1>1, <1>5
    <3>2. Begins(skipped) /\ Begins(seen)
      BY <2>2, <2>3 DEF Begins
    <3> QED BY <1>2, <1>8, <3>1, <3>2, OneBeginning
  <2> QED BY <1>1, <2>4
<1> QED BY <1>6, <1>7

\* A page lengthens the beginning that has been read.
LEMMA PageTiles ==
  ASSUME Inv, TilePart, ReadPage
  PROVE  TilePart'
<1> USE DEF Inv
<1>1. pc = "reading" /\ ~Refused
  BY DEF ReadPage
<1>2. /\ UNCHANGED <<dialect, keyed, walk, request, distinct, orderBy, value, touched, edits>>
      /\ UNCHANGED table
  BY DEF ReadPage, query, table
<1>3. PICK skipped \in SUBSET Selected, page \in SUBSET Selected :
       /\ page \subseteq Selected \ skipped
       /\ First(skipped, Selected, Offset)
       /\ First(page, Selected \ skipped, Limit)
       /\ seen' = seen \cup page
       /\ twice' = twice \cup (seen \cap page)
       /\ count' = count + Cardinality(page)
       /\ walk = "offset" => cursor' = cursor
       /\ pc' = "ended" => Ends(page)
  BY DEF ReadPage
<1>4. CASE walk # "offset"
  BY <1>2, <1>4 DEF TilePart
<1>5. CASE walk = "offset" /\ ~(keyed /\ touched = {})
  BY <1>2, <1>3, <1>5 DEF TilePart
<1>6. CASE walk = "offset" /\ keyed /\ touched = {}
  <2>1. Selected = Listed /\ skipped = seen
    BY <1>3, <1>6, SkipsRead
  <2>2. Listed \in SUBSET table /\ seen \in SUBSET Listed /\ page \in SUBSET (Listed \ seen)
    BY <1>3, <1>6, <2>1 DEF Listed, Kept, TilePart
  <2>3. First(page, Listed \ seen, Limit)
    BY <1>3, <2>1
  <2>4. twice' = {} /\ seen' \in SUBSET Listed /\ cursor' = NoCursor
    BY <1>3, <1>6, <2>2 DEF TilePart
  <2>5. count' = Cardinality(seen')
    <3>1. IsFiniteSet(seen) /\ IsFiniteSet(page) /\ Cardinality(seen) \in Nat /\ Cardinality(page) \in Nat
      BY <2>2, PageSizes
    <3>2. seen \cap page = {}
      BY <2>2
    <3>3. Cardinality(seen \cup page) = Cardinality(seen) + Cardinality(page)
      BY <3>1, <3>2, FS_Union, FS_EmptySet
    <3> QED BY <1>3, <1>6, <3>3 DEF TilePart
  <2>6. \A r \in seen', s \in Listed \ seen' : ~Precedes(Tied, s, r)
    <3>1. \A r \in seen, s \in Listed \ seen : ~Precedes(Tied, s, r)
      BY <1>6 DEF TilePart
    <3>2. CASE BreaksTies
      <4>1. ReadOrder = Tied
        BY <1>6, <3>2 DEF ReadOrder
      <4>2. \A r \in page, s \in (Listed \ seen) \ page : ~Precedes(Tied, s, r)
        BY <2>3, <4>1 DEF First
      <4> QED BY <1>3, <3>1, <4>2
    <3>3. CASE ~BreaksTies
      <4>1. Limit = Unlimited
        BY <3>3 DEF BreaksTies
      <4>2. Cardinality(page) = Cardinality(Listed \ seen)
        BY <2>3, <4>1 DEF First
      <4>3. page = Listed \ seen
        BY <2>2, <4>2, PageSizes
      <4> QED BY <1>3, <4>3
    <3> QED BY <3>2, <3>3
  <2>7. pc' = "ended" /\ ~(request.clamp /\ Clamped) => seen' = Listed
    <3> SUFFICES ASSUME pc' = "ended", ~(request.clamp /\ Clamped) PROVE seen' = Listed
      OBVIOUS
    <3>1. page = Listed \ seen
      BY <1>1, <1>3, <2>2, <2>3, LastPageIsAll
    <3> QED BY <1>3, <2>2, <3>1
  <2>8. Tied' = Tied /\ Clamped' = Clamped
    <3>1. Order' = Order
      BY <1>2 DEF Order
    <3>2. TiedPositions' = TiedPositions
      BY <3>1 DEF TiedPositions, Tiebreak, OrderedColumns
    <3>3. \A p : KeyAt(p)' = KeyAt(p)
      BY <3>1 DEF KeyAt
    <3>4. Tied' = Tied
      BY <3>2, <3>3 DEF Tied, KeysAt
    <3> QED BY <1>2, <3>4 DEF Clamped, Limit
  <2>9. \A r, s : Precedes(Tied, s, r)' <=> Precedes(Tied, s, r)
    BY <1>2, <2>8 DEF Precedes, Sorts, SortValue, NullsFirst
  <2>10. Listed' = Listed
    BY <1>2, <2>9 DEF Listed, Kept, SameGroup
  <2> QED BY <1>2, <1>6, <2>4, <2>5, <2>6, <2>7, <2>8, <2>9, <2>10 DEF TilePart
<1> QED BY <1>4, <1>5, <1>6

\* A client that pages by offset holds no cursor to change the ordering of, and a write ends what
\* is promised to it.
LEMMA OthersTile ==
  ASSUME Inv, TilePart, RefusePage \/ ChangeOrder \/ WriteRow \/ RemoveRow \/ UNCHANGED vars
  PROVE  TilePart'
<1>1. CASE ChangeOrder
  <2>1. walk' = walk /\ cursor # NoCursor
    BY <1>1 DEF ChangeOrder, query
  <2> QED BY <2>1 DEF TilePart
<1>2. CASE WriteRow \/ RemoveRow
  <2>1. walk' = walk /\ cursor' = cursor /\ touched' # {}
    BY <1>2 DEF WriteRow, RemoveRow, Edit, query
  <2> QED BY <2>1 DEF TilePart
<1>3. CASE RefusePage \/ UNCHANGED vars
  <2>1. /\ UNCHANGED <<dialect, keyed, walk, request, distinct, orderBy, value, cursor, count, seen, twice, touched>>
        /\ pc' \in {pc, "refused"}
    BY <1>3 DEF RefusePage, vars, query
  <2>2. table' = table
    BY <2>1 DEF table
  <2>3. Tied' = Tied /\ Clamped' = Clamped
    <3>1. Order' = Order
      BY <2>1 DEF Order
    <3>2. TiedPositions' = TiedPositions
      BY <3>1 DEF TiedPositions, Tiebreak, OrderedColumns
    <3>3. \A p : KeyAt(p)' = KeyAt(p)
      BY <3>1 DEF KeyAt
    <3>4. Tied' = Tied
      BY <3>2, <3>3 DEF Tied, KeysAt
    <3> QED BY <2>1, <3>4 DEF Clamped, Limit
  <2>4. \A r, s : Precedes(Tied, s, r)' <=> Precedes(Tied, s, r)
    BY <2>1, <2>3 DEF Precedes, Sorts, SortValue, NullsFirst
  <2>5. Listed' = Listed
    BY <2>1, <2>2, <2>4 DEF Listed, Kept, SameGroup
  <2> QED BY <2>1, <2>3, <2>4, <2>5 DEF TilePart
<1> QED BY <1>1, <1>2, <1>3

\* Nothing has been read at the start.
LEMMA TileStart ==
  ASSUME Init
  PROVE  TilePart
<1>1. Cardinality({}) = 0
  BY FS_EmptySet
<1> QED BY <1>1 DEF Init, TilePart

-----------------------------------------------------------------------------
(* What paging by cursor promises. *)

\* The cursor stands between the rows read and the rows to be read, after every step.
THEOREM Invariance == Spec => []Inv
<1>1. Inv /\ [Next]_vars => Inv'
  BY PageKeeps, WriteRowKeeps, RemoveRowKeeps, OthersKeep DEF Next
<1> QED BY Start, <1>1, PTL DEF Spec

\* Every variable keeps its values.
THEOREM TypeCorrect == Spec => []TypeOK
BY Invariance, PTL DEF Inv

\* Paging by cursor reads no row twice that nobody wrote in the meantime (cursor.ts).
THEOREM ReadsNoRowTwice == Spec => []NoRepeat
BY Invariance, PTL DEF Inv

\* Paging by cursor to the end reads every row that was there all along and nobody wrote.
THEOREM ReadsEveryRow == Spec => []NoSkip
BY Invariance, PTL DEF Inv

\* Pages by offset of a table nobody writes tile what is listed: no row twice and, at the end, none
\* missing, whatever order the database gives ties on every page (select-runtime.ts).
THEOREM OffsetPagesTileList == Spec => []OffsetPagesTile
<1>1. Inv /\ TilePart /\ [Next]_vars => TilePart'
  BY PageTiles, OthersTile DEF Next, Ended
<1>2. TilePart => OffsetPagesTile
  BY DEF TilePart, OffsetPagesTile, Listed
<1> QED BY <1>1, <1>2, TileStart, Invariance, PTL DEF Spec
=============================================================================
