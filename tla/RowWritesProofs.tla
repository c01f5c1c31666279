-------------------------- MODULE RowWritesProofs ---------------------------
(***************************************************************************)
(* What the generated writes never touch, for every table, layout, request *)
(* and other client.                                                       *)
(*                                                                         *)
(* The two recursive functions, the statements of an upsert and the rows   *)
(* of a statement, are met by the least position at which what they build  *)
(* could go wrong.                                                         *)
(***************************************************************************)
EXTENDS RowWrites, TLAPS, FiniteSetTheorems, WellFoundedInduction

\* A nonempty set of positions has a least one.
LEMMA LeastPosition ==
  ASSUME NEW T \in SUBSET Nat, T # {}
  PROVE  /\ Min(T) \in T
         /\ \A q \in T : Min(T) <= q
<1>1. PICK m \in T : TRUE
  OBVIOUS
<1> DEFINE Intervals == {1..q : q \in {x \in T : x <= m}}
<1>2. IsFiniteSet(1..m)
  BY FS_Interval
<1>3. Intervals \subseteq SUBSET (1..m) /\ 1..m \in Intervals
  BY <1>1
<1>4. IsWellFoundedOn(StrictSubsetOrdering(1..m), SUBSET (1..m))
  BY <1>2, FS_StrictSubsetOrderingWellFounded, FS_FiniteSubsetsOfFinite
<1>5. PICK I \in Intervals : \A J \in Intervals : ~(<<J, I>> \in StrictSubsetOrdering(1..m))
  BY <1>3, <1>4, WFMin
<1>6. PICK p \in T : p <= m /\ I = 1..p
  BY <1>5
<1>7. ASSUME NEW q \in T, q < p PROVE FALSE
  <2>1. 1..q \in Intervals /\ 1..q \subseteq 1..p /\ p \in 1..p /\ p \notin 1..q
    BY <1>1, <1>6, <1>7
  <2>2. <<1..q, I>> \in StrictSubsetOrdering(1..m)
    BY <1>3, <1>6, <2>1 DEF StrictSubsetOrdering
  <2> QED BY <1>5, <2>1, <2>2
<1>8. p \in T /\ \A q \in T : p <= q
  BY <1>6, <1>7
<1> QED BY <1>8 DEF Min

\* A finite nonempty set of numbers has a greatest one.
LEMMA GreatestNumber ==
  ASSUME NEW T \in SUBSET Nat, T # {}, IsFiniteSet(T)
  PROVE  Max(T) \in T
<1> DEFINE Greatest(R) == \E x \in R : \A y \in R : x >= y
           Wrong == {n \in Nat : \E R \in SUBSET T : R # {} /\ Cardinality(R) = n /\ ~Greatest(R)}
<1>1. SUFFICES Greatest(T)
  BY DEF Max
<1>2. \A R \in SUBSET T : IsFiniteSet(R) /\ Cardinality(R) \in Nat
  BY FS_Subset, FS_CardinalityType
<1>3. SUFFICES ASSUME Wrong # {} PROVE FALSE
  <2>1. T \in SUBSET T /\ Cardinality(T) \in Nat
    BY <1>2
  <2> QED BY <1>3, <2>1
<1>4. Wrong \in SUBSET Nat
  OBVIOUS
<1> DEFINE n == Min(Wrong)
<1>5. n \in Wrong /\ \A q \in Wrong : n <= q
  BY <1>3, <1>4, LeastPosition
<1>6. PICK R \in SUBSET T : R # {} /\ Cardinality(R) = n /\ ~Greatest(R)
  BY <1>5
<1>7. PICK x \in R : TRUE
  BY <1>6
<1>8. Cardinality(R \ {x}) = n - 1
  BY <1>2, <1>6, FS_RemoveElement
<1>9. R \ {x} # {}
  <2> SUFFICES ASSUME R = {x} PROVE FALSE
    BY <1>7
  <2>1. x \in Nat
    BY <1>7
  <2> QED BY <1>6, <2>1
<1>10. Greatest(R \ {x})
  <2>1. R \ {x} \in SUBSET T /\ n - 1 \in Nat
    BY <1>2, <1>8
  <2>2. n - 1 \notin Wrong
    BY <1>5, <2>1
  <2> QED BY <1>8, <1>9, <2>1, <2>2
<1>11. PICK y \in R \ {x} : \A z \in R \ {x} : y >= z
  BY <1>10
<1>12. x \in Nat /\ y \in Nat
  BY <1>7
<1>13. \A z \in R : z \in Nat
  OBVIOUS
<1>14. CASE y >= x
  BY <1>6, <1>11, <1>14
<1>15. CASE ~(y >= x)
  <2>1. \A z \in R : x >= z
    BY <1>11, <1>12, <1>13, <1>15
  <2> QED BY <1>6, <1>7, <2>1
<1> QED BY <1>14, <1>15

-----------------------------------------------------------------------------
(* Keys. *)

Target == [columns : (SUBSET Column) \ {{}}, partial : BOOLEAN]

\* The keys of a table are a list.
LEMMA TargetsType ==
  ASSUME layout \in Layouts
  PROVE  UniqueTargets \in Seq(Target)
<1>1. layout.unique \in Seq(Target) /\ layout.primary \in SUBSET Column
  BY LayoutAssumption DEF Target
<1>2. CASE layout.primary = {}
  BY <1>1, <1>2 DEF UniqueTargets
<1>3. CASE layout.primary # {}
  <2>1. [columns |-> layout.primary, partial |-> FALSE] \in Target
    BY <1>1, <1>3 DEF Target
  <2>2. <<[columns |-> layout.primary, partial |-> FALSE]>> \in Seq(Target)
    BY <2>1
  <2> QED BY <1>1, <1>3, <2>2 DEF UniqueTargets
<1> QED BY <1>2, <1>3

\* The primary key comes first.
LEMMA PrimaryFirst ==
  ASSUME layout \in Layouts, layout.primary # {}
  PROVE  1 \in DOMAIN UniqueTargets /\ UniqueTargets[1] = [columns |-> layout.primary, partial |-> FALSE]
<1> DEFINE first == [columns |-> layout.primary, partial |-> FALSE]
<1>1. layout.unique \in Seq(Target)
  BY LayoutAssumption DEF Target
<1>2. UniqueTargets = <<first>> \o layout.unique
  BY DEF UniqueTargets
<1> HIDE DEF first
<1>3. 1 \in DOMAIN UniqueTargets /\ UniqueTargets[1] = first
  BY <1>1, <1>2
<1> QED BY <1>3 DEF first

\* The keys that name rows hold for the whole table.
LEMMA RowKeysWhole ==
  ASSUME layout \in Layouts
  PROVE  /\ RowKeyPositions \in SUBSET Nat
         /\ \A i \in RowKeyPositions : i \in DOMAIN UniqueTargets /\ ~UniqueTargets[i].partial
<1> DEFINE whole  == {i \in DOMAIN UniqueTargets : ~UniqueTargets[i].partial}
           strict == {i \in whole : UniqueTargets[i].columns \subseteq layout.notNull}
<1>1. UniqueTargets \in Seq(Target)
  BY TargetsType
<1>2. whole \in SUBSET Nat /\ strict \in SUBSET Nat
  BY <1>1
<1>3. CASE layout.primary # {}
  <2>1. 1 \in DOMAIN UniqueTargets /\ UniqueTargets[1] = [columns |-> layout.primary, partial |-> FALSE]
    BY <1>3, PrimaryFirst
  <2>2. RowKeyPositions = {1}
    BY <1>3 DEF RowKeyPositions
  <2> QED BY <2>1, <2>2
<1>4. CASE layout.primary = {} /\ strict # {}
  <2>1. RowKeyPositions = {Min(strict)} /\ Min(strict) \in strict
    BY <1>2, <1>4, LeastPosition DEF RowKeyPositions
  <2> QED BY <1>2, <2>1
<1>5. CASE layout.primary = {} /\ strict = {}
  <2>1. RowKeyPositions = whole
    BY <1>5 DEF RowKeyPositions
  <2> QED BY <1>2, <2>1
<1> QED BY <1>3, <1>4, <1>5

\* The key a row is named by is one of those, and the row holds a value in all of it.
LEMMA RowKeyNames ==
  ASSUME layout \in Layouts, NEW q, RowKeyOf(q) # {}
  PROVE  \E i \in DOMAIN UniqueTargets :
           /\ ~UniqueTargets[i].partial /\ UniqueTargets[i].columns = RowKeyOf(q)
           /\ \A c \in RowKeyOf(q) : q[c] # Null
<1> DEFINE held == {i \in RowKeyPositions : \A c \in UniqueTargets[i].columns : q[c] # Null}
<1>1. held # {} /\ RowKeyOf(q) = UniqueTargets[Min(held)].columns
  BY DEF RowKeyOf
<1>2. held \in SUBSET Nat
  BY RowKeysWhole
<1>3. Min(held) \in held
  BY <1>1, <1>2, LeastPosition
<1> QED BY <1>1, <1>3, RowKeysWhole

\* A row that holds a value in all of some key is named by one.
LEMMA NamedHasKey ==
  ASSUME layout \in Layouts, NEW q \in Row, NamesOne(q), \A c \in layout.notNull : q[c] # Null
  PROVE  RowKeyOf(q) # {}
<1> DEFINE whole  == {i \in DOMAIN UniqueTargets : ~UniqueTargets[i].partial}
           strict == {i \in whole : UniqueTargets[i].columns \subseteq layout.notNull}
           held == {i \in RowKeyPositions : \A c \in UniqueTargets[i].columns : q[c] # Null}
<1>1. UniqueTargets \in Seq(Target)
  BY TargetsType
<1>2. held # {}
  <2>1. CASE layout.primary # {}
    <3>1. UniqueTargets[1] = [columns |-> layout.primary, partial |-> FALSE]
      BY <2>1, PrimaryFirst
    <3>2. RowKeyPositions = {1}
      BY <2>1 DEF RowKeyPositions
    <3>3. q["id"] # Null
      BY RowWritesAssumption DEF Row
    <3>4. \A c \in layout.primary : q[c] # Null
      BY <3>3, LayoutAssumption
    <3> QED BY <3>1, <3>2, <3>4
  <2>2. CASE layout.primary = {} /\ strict # {}
    <3>1. RowKeyPositions = {Min(strict)} /\ Min(strict) \in strict
      <4>1. strict \in SUBSET Nat
        BY <1>1
      <4> QED BY <4>1, <2>2, LeastPosition DEF RowKeyPositions
    <3> QED BY <3>1
  <2>3. CASE layout.primary = {} /\ strict = {}
    <3>1. RowKeyPositions = whole
      BY <2>3 DEF RowKeyPositions
    <3> QED BY <3>1 DEF NamesOne, ToSet
  <2> QED BY <2>1, <2>2, <2>3
<1>3. held \in SUBSET Nat
  BY RowKeysWhole
<1>4. Min(held) \in held
  BY <1>2, <1>3, LeastPosition
<1>5. UniqueTargets[Min(held)].columns # {}
  <2>1. Min(held) \in DOMAIN UniqueTargets
    BY <1>4, RowKeysWhole
  <2>2. UniqueTargets[Min(held)] \in Target
    BY <1>1, <2>1
  <2> QED BY <2>2 DEF Target
<1> QED BY <1>2, <1>5 DEF RowKeyOf

\* Rows of a table its constraints hold of that agree on such a key are one row.
LEMMA AgreeIsSame ==
  ASSUME NEW table, Fits(table), NEW s \in Present(table), NEW t \in Present(table),
         NEW i \in DOMAIN UniqueTargets, ~UniqueTargets[i].partial,
         Agree(table[s], table[t], UniqueTargets[i].columns)
  PROVE  s = t
BY DEF Fits, Rival, ToSet

-----------------------------------------------------------------------------
(* Rows. *)

\* A row is what its columns hold.
LEMMA RowFields ==
  ASSUME NEW q \in Row
  PROVE  /\ DOMAIN q = Column
         /\ q["id"] \in Nat /\ q["alt"] \in Nat \cup {Null} /\ q["val"] \in Nat
         /\ q["by"] \in {Stamp, "other"} /\ q["marked"] \in BOOLEAN
BY DEF Row, Column

LEMMA RowOfFields ==
  ASSUME NEW f, f = [c \in Column |-> f[c]],
         f["id"] \in Nat, f["alt"] \in Nat \cup {Null}, f["val"] \in Nat,
         f["by"] \in {Stamp, "other"}, f["marked"] \in BOOLEAN
  PROVE  f \in Row
BY DEF Row, Column

\* What a caller may write keeps a row a row, and leaves its marker alone.
LEMMA OverwrittenRow ==
  ASSUME NEW q \in Row, NEW n \in Row, NEW names \in SUBSET (Column \ {"by", "marked"})
  PROVE  /\ Overwritten(q, n, names) \in Row
         /\ Overwritten(q, n, names).by = q.by /\ Overwritten(q, n, names).marked = q.marked
<1> DEFINE f == Overwritten(q, n, names)
<1>1. DOMAIN q = Column
  BY RowFields
<1>2. f = [c \in Column |-> IF c \in names THEN n[c] ELSE q[c]]
  BY <1>1 DEF Overwritten
<1>3. \A c \in Column : f[c] = IF c \in names THEN n[c] ELSE q[c]
  BY <1>2
<1>4. f = [c \in Column |-> f[c]]
  BY <1>2
<1>5. f["by"] = q["by"] /\ f["marked"] = q["marked"]
  BY <1>3 DEF Column
<1>6. f["id"] \in Nat /\ f["alt"] \in Nat \cup {Null} /\ f["val"] \in Nat
  BY <1>3, RowFields DEF Column
<1>7. f["by"] \in {Stamp, "other"} /\ f["marked"] \in BOOLEAN
  BY <1>5, RowFields
<1>8. f \in Row
  BY <1>4, <1>6, <1>7, RowOfFields
<1> QED BY <1>5, <1>8

\* The row an insert stores.
LEMMA StoredRow ==
  ASSUME NEW row, Values(row), NEW table \in Table
  PROVE  /\ Stored(row, table) \in Row
         /\ Stored(row, table).by = Stamp /\ Stored(row, table).marked = FALSE
<1> DEFINE ids == {table[s].id : s \in Present(table)}
           idOf == [s \in Present(table) |-> table[s].id]
<1>1. \A s \in Present(table) : table[s] \in Row /\ table[s].id \in Nat
  BY RowFields DEF Table, Present
<1>2. IsFiniteSet(Present(table))
  BY RowWritesAssumption, FS_Subset DEF Present
<1>3. idOf \in Surjection(Present(table), ids)
  BY DEF Surjection
<1>4. IsFiniteSet(ids)
  BY <1>2, <1>3, FS_Surjection
<1>5. IsFiniteSet({0} \cup ids)
  BY <1>4, FS_AddElement
<1>6. {0} \cup ids \in SUBSET Nat
  BY <1>1
<1>7. Max({0} \cup ids) \in Nat
  BY <1>5, <1>6, GreatestNumber
<1> DEFINE m == Max({0} \cup ids)
           n == [id     |-> IF "id" \in DOMAIN row THEN row["id"] ELSE 1 + m,
                 alt    |-> IF "alt" \in DOMAIN row THEN row["alt"] ELSE Null,
                 val    |-> IF "val" \in DOMAIN row THEN row["val"] ELSE 0,
                 by     |-> Stamp,
                 marked |-> FALSE]
<1>8. Stored(row, table) = n
  BY DEF Stored
<1>9. m \in Nat
  BY <1>7
<1> HIDE DEF m
<1>10. n.id \in Nat /\ n.alt \in Nat \cup {Null} /\ n.val \in Nat
  BY <1>9 DEF Values, ValuesOf
<1>11. n \in Row
  BY <1>10 DEF Row
<1> QED BY <1>8, <1>11

-----------------------------------------------------------------------------
(* An insert or an upsert. *)

Names == IF request.kind = "insert" THEN {{}} ELSE SUBSET (Column \ {"by", "marked"})
Done == [table : Table, touched : SUBSET Slot, fails : BOOLEAN]
KeptBy(done) == done \in Done /\ Kept(done.table, wrote \cup done.touched)

\* A row put in a free place: this request has not written the place, and no row would be there
\* without it.
LEMMA PutKeeps ==
  ASSUME ~ReachesRows, NEW done, KeptBy(done), NEW n \in Row,
         NEW f \in Slot \ Present(done.table)
  PROVE  KeptBy([done EXCEPT !.table[f] = n, !.touched = @ \cup {f}])
<1> DEFINE next == [done EXCEPT !.table[f] = n, !.touched = @ \cup {f}]
           T == [done.table EXCEPT ![f] = n]
           W == wrote \cup (done.touched \cup {f})
<1>1. done.table \in Table /\ done.touched \in SUBSET Slot /\ done.fails \in BOOLEAN
  BY DEF KeptBy, Done
<1>2. next.table = T /\ next.touched = done.touched \cup {f} /\ next.fails = done.fails
  BY DEF KeptBy, Done
<1>3. T \in Table
  BY <1>1 DEF Table
<1>4. next \in Done
  BY <1>1, <1>3 DEF KeptBy, Done
<1>5. done.table[f] = Absent /\ f \in Slot
  BY DEF Present
<1>6. f \notin wrote \cup done.touched /\ without[f] = Absent
  BY <1>5 DEF KeptBy, Kept
<1>7. n # Absent
  BY RowWritesAssumption
<1>8. Kept(T, W)
  <2> SUFFICES ASSUME NEW s \in Slot
               PROVE  /\ s \notin W => T[s] = without[s]
                      /\ s \in W /\ ~ReachesRows => T[s] # Absent
                      /\ s \in W /\ without[s] # Absent /\ ~RunsInto => Reachable(without[s])
                      /\ T[s] # Absent /\ without[s] # Absent => KeepsOwner(without[s], T[s])
    BY DEF Kept
  <2>1. CASE s = f
    BY <1>1, <1>6, <1>7, <2>1 DEF Table
  <2>2. CASE s # f
    <3>1. T[s] = done.table[s] /\ (s \in W <=> s \in wrote \cup done.touched)
      BY <1>1, <2>2 DEF Table
    <3> QED BY <3>1 DEF KeptBy, Kept
  <2> QED BY <2>1, <2>2
<1> QED BY <1>2, <1>4, <1>8 DEF KeptBy

\* A row written over on conflict: the request may reach it, unless MySQL runs into it.
LEMMA OverwriteKeeps ==
  ASSUME ~ReachesRows, request \in Requests, NEW done, KeptBy(done), NEW n \in Row,
         NEW names \in Names, names # {}, NEW f \in Present(done.table), MayOverwrite(done.table[f])
  PROVE  KeptBy([done EXCEPT !.table[f] = Overwritten(@, n, names), !.touched = @ \cup {f}])
<1> DEFINE q == done.table[f]
           o == Overwritten(q, n, names)
           next == [done EXCEPT !.table[f] = Overwritten(@, n, names), !.touched = @ \cup {f}]
           T == [done.table EXCEPT ![f] = o]
           W == wrote \cup (done.touched \cup {f})
<1>1. done.table \in Table /\ done.touched \in SUBSET Slot /\ done.fails \in BOOLEAN
  BY DEF KeptBy, Done
<1>2. next.table = T /\ next.touched = done.touched \cup {f} /\ next.fails = done.fails
  BY DEF KeptBy, Done
<1>3. f \in Slot /\ q \in Row
  BY <1>1 DEF Present, Table
<1>4. request.kind = "upsert" /\ names \in SUBSET (Column \ {"by", "marked"})
  BY DEF Names, ReachesRows
<1>5. o \in Row /\ o.by = q.by /\ o.marked = q.marked
  BY <1>3, <1>4, OverwrittenRow
<1>6. T \in Table
  BY <1>1, <1>3, <1>5 DEF Table
<1>7. next \in Done
  BY <1>1, <1>3, <1>6 DEF KeptBy, Done
<1>8. o # Absent /\ q # Absent
  BY <1>3, <1>5, RowWritesAssumption
<1>9. RunsInto \/ Reachable(q)
  BY <1>4 DEF MayOverwrite, Visible, Mode, Reachable, RunsInto
<1>10. /\ f \notin wrote \cup done.touched => q = without[f]
       /\ f \in wrote \cup done.touched /\ without[f] # Absent /\ ~RunsInto => Reachable(without[f])
       /\ without[f] # Absent => KeepsOwner(without[f], q)
  BY <1>3, <1>8 DEF KeptBy, Kept
<1> HIDE DEF q, o
<1>11. Kept(T, W)
  <2> SUFFICES ASSUME NEW s \in Slot
               PROVE  /\ s \notin W => T[s] = without[s]
                      /\ s \in W /\ ~ReachesRows => T[s] # Absent
                      /\ s \in W /\ without[s] # Absent /\ ~RunsInto => Reachable(without[s])
                      /\ T[s] # Absent /\ without[s] # Absent => KeepsOwner(without[s], T[s])
    BY DEF Kept
  <2>1. CASE s = f
    <3>1. T[s] = o /\ s \in W
      BY <1>1, <1>3, <2>1 DEF Table
    <3>2. without[f] # Absent => KeepsOwner(without[f], o)
      BY <1>5, <1>10 DEF KeepsOwner
    <3>3. without[f] # Absent /\ ~RunsInto => Reachable(without[f])
      BY <1>9, <1>10
    <3> QED BY <1>8, <2>1, <3>1, <3>2, <3>3
  <2>2. CASE s # f
    <3>1. T[s] = done.table[s] /\ (s \in W <=> s \in wrote \cup done.touched)
      BY <1>1, <2>2 DEF Table
    <3> QED BY <3>1 DEF KeptBy, Kept
  <2> QED BY <2>1, <2>2
<1> QED BY <1>2, <1>7, <1>11 DEF KeptBy, q, o

\* One row of an insert statement.
LEMMA InsertRowKeeps ==
  ASSUME ~ReachesRows, request \in Requests, layout \in Layouts,
         NEW done, KeptBy(done), NEW names \in Names, NEW row \in ToSet(request.values)
  PROVE  KeptBy(InsertRow(names, done, row))
<1> DEFINE n == Stored(row, done.table)
           Hit(key) == {s \in Present(done.table) : Rival(done.table[s], n, key)}
           keys == {i \in DOMAIN ConflictKeys : Hit(ConflictKeys[i]) # {}}
           rival == CHOOSE s \in Hit(ConflictKeys[Min(keys)]) : TRUE
           again == dialect = "pg" /\ rival \in done.touched
           free == Slot \ Present(done.table)
           failed == [done EXCEPT !.fails = TRUE]
           put == [done EXCEPT !.table[Min(free)] = n, !.touched = @ \cup {Min(free)}]
           over == [done EXCEPT !.table[rival] = Overwritten(@, n, names), !.touched = @ \cup {rival}]
<1>1. InsertRow(names, done, row) =
        IF keys = {} /\ free = {} THEN failed
        ELSE IF keys = {} THEN put
        ELSE IF names = {} THEN done
        ELSE IF again THEN failed
        ELSE IF MayOverwrite(done.table[rival]) THEN over
        ELSE done
  BY DEF InsertRow
<1>2. done.table \in Table /\ Values(row)
  BY RequestAssumption DEF KeptBy, Done, ReachesRows
<1>3. n \in Row
  BY <1>2, StoredRow
<1>4. KeptBy(failed)
  BY DEF KeptBy, Done
<1>5. free # {} => KeptBy(put)
  <2> SUFFICES ASSUME free # {} PROVE KeptBy(put)
    OBVIOUS
  <2>1. free \in SUBSET Nat
    BY RowWritesAssumption
  <2>2. Min(free) \in free
    BY <2>1, LeastPosition
  <2> QED BY <1>3, <2>2, PutKeeps
<1>6. keys # {} => rival \in Present(done.table)
  <2> SUFFICES ASSUME keys # {} PROVE rival \in Present(done.table)
    OBVIOUS
  <2>1. DOMAIN ConflictKeys \in SUBSET Nat
    BY TargetsType DEF ConflictKeys
  <2>2. keys \in SUBSET Nat
    BY <2>1
  <2>3. Min(keys) \in keys
    BY <2>2, LeastPosition
  <2>4. Hit(ConflictKeys[Min(keys)]) # {}
    BY <2>3
  <2> QED BY <2>4
<1>7. keys # {} /\ names # {} /\ MayOverwrite(done.table[rival]) => KeptBy(over)
  BY <1>3, <1>6, OverwriteKeeps
<1> HIDE DEF failed, put, over, keys, free, again, rival, n
<1> QED BY <1>1, <1>4, <1>5, <1>7

\* The rows of a statement are inserted one after the other.
LEMMA InsertedIs ==
  ASSUME NEW st, Len(st.rows) \in Nat
  PROVE  \E f : /\ f = [n \in 0..Len(st.rows) |->
                          IF n = 0 THEN Untouched(db) ELSE InsertRow(st.names, f[n - 1], st.rows[n])]
                /\ Inserted(st) = f[Len(st.rows)]
<1> DEFINE L == Len(st.rows)
           Is(f, k) == f = [n \in 0..k |-> IF n = 0 THEN Untouched(db)
                                           ELSE InsertRow(st.names, f[n - 1], st.rows[n])]
           Missing == {k \in Nat : ~\E f : Is(f, k)}
<1>1. \E f : Is(f, L)
  <2> SUFFICES ASSUME Missing # {} PROVE FALSE
    OBVIOUS
  <2> DEFINE k == Min(Missing)
  <2>1. Missing \in SUBSET Nat
    OBVIOUS
  <2>2. k \in Missing /\ \A q \in Missing : k <= q
    BY <2>1, LeastPosition
  <2>3. k \in Nat /\ ~\E f : Is(f, k)
    BY <2>2
  <2> HIDE DEF k
  <2>4. CASE k = 0
    <3> DEFINE g == [n \in 0..0 |-> Untouched(db)]
    <3>1. Is(g, 0)
      OBVIOUS
    <3> QED BY <2>3, <2>4, <3>1
  <2>5. CASE k # 0
    <3>1. k - 1 \in Nat /\ k - 1 \notin Missing
      BY <2>2, <2>3, <2>5
    <3>2. PICK f : Is(f, k - 1)
      BY <3>1
    <3> DEFINE g == [n \in 0..k |-> IF n = k THEN InsertRow(st.names, f[k - 1], st.rows[k]) ELSE f[n]]
    <3>3. \A n \in 0..k : g[n] = IF n = 0 THEN Untouched(db) ELSE InsertRow(st.names, g[n - 1], st.rows[n])
      BY <2>3, <2>5, <3>2
    <3>4. g = [n \in 0..k |-> g[n]]
      OBVIOUS
    <3> HIDE DEF g
    <3>5. Is(g, k)
      BY <3>3, <3>4
    <3> QED BY <2>3, <3>5
  <2> QED BY <2>4, <2>5
<1> DEFINE upTo == CHOOSE f : Is(f, L)
<1>2. Is(upTo, L)
  BY <1>1
<1>3. Inserted(st) = upTo[L]
  BY DEF Inserted
<1> HIDE DEF upTo
<1> QED BY <1>2, <1>3

\* A statement keeps what its rows keep.
LEMMA InsertedKeeps ==
  ASSUME ~ReachesRows, request \in Requests, layout \in Layouts, db \in Table, Kept(db, wrote),
         NEW st \in InsertStatement
  PROVE  KeptBy(Inserted(st))
<1>1. st.rows \in Seq(ToSet(request.values)) /\ st.names \in Names
  BY DEF InsertStatement, Names
<1> DEFINE L == Len(st.rows)
<1>2. L \in Nat /\ \A n \in 1..L : st.rows[n] \in ToSet(request.values)
  BY <1>1
<1>3. PICK f : /\ f = [n \in 0..L |-> IF n = 0 THEN Untouched(db)
                                      ELSE InsertRow(st.names, f[n - 1], st.rows[n])]
               /\ Inserted(st) = f[L]
  BY <1>2, InsertedIs
<1> DEFINE Wrong == {n \in 0..L : ~KeptBy(f[n])}
<1>4. SUFFICES ASSUME Wrong # {} PROVE FALSE
  <2>1. L \in 0..L
    BY <1>2
  <2>2. Wrong = {} => KeptBy(f[L])
    BY <2>1
  <2> QED BY <1>3, <2>2
<1> DEFINE n == Min(Wrong)
<1>5. Wrong \in SUBSET Nat
  BY <1>2
<1>6. n \in Wrong /\ \A q \in Wrong : n <= q
  BY <1>4, <1>5, LeastPosition
<1> HIDE DEF n
<1>7. CASE n = 0
  <2>1. f[n] = Untouched(db)
    BY <1>2, <1>3, <1>7
  <2>2. KeptBy(Untouched(db))
    BY DEF KeptBy, Untouched, Done
  <2> QED BY <1>6, <2>1, <2>2
<1>8. CASE n # 0
  <2>1. n \in 1..L /\ n - 1 \in 0..L /\ n - 1 \notin Wrong
    BY <1>2, <1>6, <1>8
  <2>2. f[n] = InsertRow(st.names, f[n - 1], st.rows[n])
    BY <1>3, <1>6, <1>8
  <2>3. KeptBy(f[n - 1])
    BY <2>1
  <2>4. KeptBy(f[n])
    BY <1>1, <1>2, <2>1, <2>2, <2>3, InsertRowKeeps
  <2> QED BY <1>6, <2>4
<1> QED BY <1>7, <1>8

-----------------------------------------------------------------------------
(* The statements of a request. *)

\* An accepted upsert updates neither the server's columns nor the marker; an insert updates none.
LEMMA NamesAllowed ==
  ASSUME ~ReachesRows, request \in Requests, request.kind = "upsert" => ~PlanRefused,
         NEW row \in ToSet(request.values)
  PROVE  UpdateNames(row) \in Names
<1>1. Values(row) /\ DOMAIN row \subseteq Column \ {"marked"}
  BY RequestAssumption DEF ReachesRows, Values
<1>2. CASE request.kind = "insert"
  BY <1>2, RequestAssumption DEF UpdateNames, Names
<1>3. CASE request.kind = "upsert" /\ request.action = "NOTHING"
  BY <1>3 DEF UpdateNames, Names
<1>4. CASE request.kind = "upsert" /\ request.action = "UPDATE"
  <2>1. "by" \notin Candidates
    BY <1>4 DEF PlanRefused, Candidates, ServerOwned
  <2> QED BY <1>1, <1>4, <2>1 DEF UpdateNames, Names
<1>5. request.kind \in {"insert", "upsert"} /\ request.action \in {"NOTHING", "UPDATE"}
  BY RequestAssumption DEF ReachesRows
<1> QED BY <1>2, <1>3, <1>4, <1>5

\* A row joins the last statement or makes one of its own.
LEMMA BatchedType ==
  ASSUME NEW batches \in Seq(InsertStatement), NEW row \in ToSet(request.values), UpdateNames(row) \in Names
  PROVE  Batched(batches, row) \in Seq(InsertStatement)
<1> DEFINE own == [do |-> "insert", rows |-> <<row>>, names |-> UpdateNames(row)]
           joined == [Last(batches) EXCEPT !.rows = Append(@, row)]
<1>1. own \in InsertStatement
  <2>1. <<row>> \in Seq(ToSet(request.values))
    OBVIOUS
  <2> QED BY <2>1 DEF InsertStatement, Names
<1>2. batches # <<>> => joined \in InsertStatement /\ Front(batches) \in Seq(InsertStatement)
  <2> SUFFICES ASSUME batches # <<>>
               PROVE  joined \in InsertStatement /\ Front(batches) \in Seq(InsertStatement)
    OBVIOUS
  <2>1. Last(batches) \in InsertStatement
    BY DEF Last
  <2>2. Last(batches).rows \in Seq(ToSet(request.values))
    BY <2>1 DEF InsertStatement
  <2>3. Append(Last(batches).rows, row) \in Seq(ToSet(request.values))
    BY <2>2
  <2>4. joined \in InsertStatement
    BY <2>1, <2>3 DEF InsertStatement
  <2>5. Front(batches) \in Seq(InsertStatement)
    BY DEF Front
  <2> QED BY <2>4, <2>5
<1> HIDE DEF own, joined
<1>3. Batched(batches, row) = IF batches # <<>> /\ Last(batches).names = UpdateNames(row)
                                THEN Append(Front(batches), joined) ELSE Append(batches, own)
  BY DEF Batched, own, joined
<1> QED BY <1>1, <1>2, <1>3

\* The rows are split into statements one after the other.
LEMMA BatchesAre ==
  ASSUME Len(request.values) \in Nat
  PROVE  \E f : /\ f = [n \in 0..Len(request.values) |->
                          IF n = 0 THEN <<>> ELSE Batched(f[n - 1], request.values[n])]
                /\ Batches = f[Len(request.values)]
<1> DEFINE L == Len(request.values)
           Is(f, k) == f = [n \in 0..k |-> IF n = 0 THEN <<>> ELSE Batched(f[n - 1], request.values[n])]
           Missing == {k \in Nat : ~\E f : Is(f, k)}
<1>1. \E f : Is(f, L)
  <2> SUFFICES ASSUME Missing # {} PROVE FALSE
    OBVIOUS
  <2> DEFINE k == Min(Missing)
  <2>1. Missing \in SUBSET Nat
    OBVIOUS
  <2>2. k \in Missing /\ \A q \in Missing : k <= q
    BY <2>1, LeastPosition
  <2>3. k \in Nat /\ ~\E f : Is(f, k)
    BY <2>2
  <2> HIDE DEF k
  <2>4. CASE k = 0
    <3> DEFINE g == [n \in 0..0 |-> <<>>]
    <3>1. Is(g, 0)
      OBVIOUS
    <3> QED BY <2>3, <2>4, <3>1
  <2>5. CASE k # 0
    <3>1. k - 1 \in Nat /\ ~(k <= k - 1)
      BY <2>3, <2>5
    <3>6. k - 1 \notin Missing
      BY <2>2, <3>1
    <3>2. PICK f : Is(f, k - 1)
      BY <3>1, <3>6
    <3> DEFINE g == [n \in 0..k |-> IF n = k THEN Batched(f[k - 1], request.values[k]) ELSE f[n]]
    <3>3. \A n \in 0..k : g[n] = IF n = 0 THEN <<>> ELSE Batched(g[n - 1], request.values[n])
      BY <2>3, <2>5, <3>2
    <3>4. g = [n \in 0..k |-> g[n]]
      OBVIOUS
    <3> HIDE DEF g
    <3>5. Is(g, k)
      BY <3>3, <3>4
    <3> QED BY <2>3, <3>5
  <2> QED BY <2>4, <2>5
<1> DEFINE upTo == CHOOSE f : Is(f, L)
<1>2. Is(upTo, L)
  BY <1>1
<1>3. Batches = upTo[L]
  BY DEF Batches
<1> HIDE DEF upTo
<1> QED BY <1>2, <1>3

LEMMA BatchesType ==
  ASSUME ~ReachesRows, request \in Requests, request.kind = "upsert" => ~PlanRefused
  PROVE  Batches \in Seq(InsertStatement)
<1> DEFINE L == Len(request.values)
<1>1. L \in Nat /\ \A n \in 1..L : request.values[n] \in ToSet(request.values)
  BY RequestAssumption DEF ReachesRows, ToSet
<1>2. PICK f : /\ f = [n \in 0..L |-> IF n = 0 THEN <<>> ELSE Batched(f[n - 1], request.values[n])]
               /\ Batches = f[L]
  BY <1>1, BatchesAre
<1> DEFINE Wrong == {n \in 0..L : f[n] \notin Seq(InsertStatement)}
<1>3. SUFFICES ASSUME Wrong # {} PROVE FALSE
  <2>1. L \in 0..L
    BY <1>1
  <2> QED BY <1>2, <1>3, <2>1
<1> DEFINE n == Min(Wrong)
<1>4. Wrong \in SUBSET Nat
  BY <1>1
<1>5. n \in Wrong /\ \A q \in Wrong : n <= q
  BY <1>3, <1>4, LeastPosition
<1> HIDE DEF n
<1>6. CASE n = 0
  <2>1. f[n] = <<>>
    BY <1>1, <1>2, <1>6
  <2>2. <<>> \in Seq(InsertStatement)
    OBVIOUS
  <2> QED BY <1>5, <2>1, <2>2
<1>7. CASE n # 0
  <2>1. n \in 1..L /\ n - 1 \in 0..L /\ n - 1 \notin Wrong
    BY <1>1, <1>5, <1>7
  <2>2. f[n] = Batched(f[n - 1], request.values[n])
    BY <1>2, <1>5, <1>7
  <2>3. f[n - 1] \in Seq(InsertStatement) /\ request.values[n] \in ToSet(request.values)
    BY <1>1, <2>1
  <2>4. f[n] \in Seq(InsertStatement)
    BY <2>2, <2>3, NamesAllowed, BatchedType
  <2> QED BY <1>5, <2>4
<1> QED BY <1>6, <1>7

\* The statements of accepted arguments; a Single form has one at most.
LEMMA StatementsType ==
  ASSUME request \in Requests, ~BadArguments
  PROVE  Statements \in Seq(PossibleStatements) /\ (Single => Len(Statements) <= 1)
<1>1. request.kind \in {"insert", "upsert", "update", "delete", "restore", "purge"}
  BY RequestAssumption
<1>2. CASE ~ReachesRows
  <2>1. request.kind = "upsert" => ~PlanRefused
    BY <1>2 DEF BadArguments
  <2>2. Batches \in Seq(InsertStatement)
    BY <1>2, <2>1, BatchesType
  <2>3. Statements = Batches /\ PossibleStatements = InsertStatement
    BY <1>2 DEF Statements, PossibleStatements, ReachesRows
  <2> QED BY <1>2, <2>2, <2>3 DEF Single
<1>3. CASE request.kind = "update"
  <2> DEFINE u == request.updates
  <2>1. u \in Seq(ToSet(u)) /\ (request.single => Len(u) <= 1)
    BY <1>3, RequestAssumption
  <2>2. Statements = [i \in DOMAIN u |-> [do |-> "set", where |-> u[i].where, values |-> u[i].set]]
    BY <1>3 DEF Statements, ReachesRows
  <2>3. PossibleStatements = {[do |-> "set", where |-> v.where, values |-> v.set] : v \in ToSet(u)}
    BY <1>3 DEF PossibleStatements, ReachesRows
  <2>4. \A i \in DOMAIN u : u[i] \in ToSet(u)
    BY DEF ToSet
  <2>5. DOMAIN u = 1..Len(u) /\ Len(u) \in Nat
    BY <2>1
  <2>6. Statements \in [1..Len(u) -> PossibleStatements]
    BY <2>2, <2>3, <2>4, <2>5
  <2>7. Statements \in Seq(PossibleStatements) /\ Len(Statements) = Len(u)
    BY <2>5, <2>6
  <2> QED BY <2>1, <2>7 DEF Single
<1>4. CASE request.kind \in {"delete", "restore", "purge"}
  <2>1. \E st \in PossibleStatements : Statements = <<st>>
    BY <1>4 DEF Statements, PossibleStatements, ReachesRows
  <2> QED BY <2>1
<1> QED BY <1>1, <1>2, <1>3, <1>4 DEF ReachesRows

-----------------------------------------------------------------------------
(* An update, a delete or a restore. *)

\* By keys or by filter, a statement reaches no row its filter does not select.
LEMMA ReachedSelected ==
  ASSUME layout \in Layouts, Fits(db), NEW where
  PROVE  Reached(where) \subseteq Selected(where)
<1> SUFFICES ASSUME NEW s \in ByKeys(Selected(where)) PROVE s \in Selected(where)
  BY DEF Reached
<1>1. s \in Present(db)
  BY DEF ByKeys
<1>2. PICK i \in RowKeyPositions, t \in Selected(where) : Agree(db[s], db[t], UniqueTargets[i].columns)
  BY DEF ByKeys, RowKeys
<1>3. t \in Present(db)
  BY DEF Selected
<1>4. i \in DOMAIN UniqueTargets /\ ~UniqueTargets[i].partial
  BY RowKeysWhole
<1>5. s = t
  BY <1>1, <1>2, <1>3, <1>4, AgreeIsSame
<1> QED BY <1>2, <1>5

\* A row the filter selects is one the request may reach.
LEMMA SelectedReachable ==
  ASSUME NEW where, NEW s \in Selected(where), db \in Table, request \in Requests, ReachesRows
  PROVE  Reachable(db[s]) /\ db[s] \in Row
<1>1. db[s] \in Row /\ Visible(db[s])
  BY DEF Selected, Present, Table
<1>2. request.kind \in {"update", "delete", "restore", "purge"}
  BY RequestAssumption DEF ReachesRows
<1> QED BY <1>1, <1>2 DEF Visible, Mode, Reachable

\* What a statement makes of a row keeps its owner, and only a delete or a restore moves its marker.
LEMMA WrittenKeeps ==
  ASSUME request \in Requests, ReachesRows, NEW st \in PossibleStatements, NEW q \in Row
  PROVE  /\ Written(st, q) \in Row \cup {Absent}
         /\ Written(st, q) # Absent => KeepsOwner(q, Written(st, q))
<1>1. CASE request.kind = "update"
  <2>1. PICK u \in ToSet(request.updates) : st = [do |-> "set", where |-> u.where, values |-> u.set]
    BY <1>1 DEF PossibleStatements, ReachesRows
  <2>2. st.do = "set" /\ st.values = u.set /\ Values(u.set)
    BY <1>1, <2>1, RequestAssumption
  <2> DEFINE f == Written(st, q)
             D == DOMAIN st.values \ ServerOwned
  <2>3. f = [c \in Column |-> IF c \in D THEN st.values[c] ELSE q[c]]
    BY <2>2, RowFields DEF Written
  <2>4. \A c \in Column : f[c] = IF c \in D THEN st.values[c] ELSE q[c]
    BY <2>3
  <2>5. f = [c \in Column |-> f[c]]
    BY <2>3
  <2>6. "by" \notin D /\ "marked" \notin D
    BY <2>2 DEF ServerOwned, Values
  <2>7. f["by"] = q["by"] /\ f["marked"] = q["marked"]
    BY <2>4, <2>6 DEF Column
  <2>8. \A c \in D : st.values[c] \in ValuesOf[c]
    BY <2>2 DEF Values
  <2> HIDE DEF f, D
  <2>9. f["id"] \in Nat /\ f["alt"] \in Nat \cup {Null} /\ f["val"] \in Nat
    BY <2>4, <2>8, RowFields DEF Column, ValuesOf
  <2>10. f \in Row
    BY <2>5, <2>7, <2>9, RowFields, RowOfFields
  <2> QED BY <2>7, <2>10 DEF f, KeepsOwner
<1>2. CASE request.kind \in {"delete", "restore", "purge"}
  <2>1. /\ st.do \in {"mark", "unmark", "remove"}
        /\ st.do = "mark" => request.kind = "delete"
        /\ st.do = "unmark" => request.kind = "restore"
    BY <1>2 DEF PossibleStatements, ReachesRows
  <2>2. [q EXCEPT !.marked = TRUE] \in Row /\ [q EXCEPT !.marked = FALSE] \in Row
    BY DEF Row
  <2>3. [q EXCEPT !.marked = TRUE].by = q.by /\ [q EXCEPT !.marked = FALSE].by = q.by
    BY DEF Row
  <2> QED BY <2>1, <2>2, <2>3 DEF Written, KeepsOwner
<1>3. request.kind \in {"update", "delete", "restore", "purge"}
  BY RequestAssumption DEF ReachesRows
<1> QED BY <1>1, <1>2, <1>3

\* A statement leaves a table that keeps what it must.
LEMMA AfterKeeps ==
  ASSUME TypeOK, Fits(db), Kept(db, wrote), NEW st \in PossibleStatements
  PROVE  /\ After(st).table \in Table /\ After(st).touched \in SUBSET Slot
         /\ Kept(After(st).table, wrote \cup After(st).touched)
         /\ ReachesRows => After(st).touched \subseteq Selected(st.where)
<1>1. db \in Table /\ request \in Requests /\ layout \in Layouts
  BY DEF TypeOK
<1>2. CASE ~ReachesRows
  <2>1. st \in InsertStatement /\ st.do = "insert"
    BY <1>2 DEF PossibleStatements, InsertStatement, ReachesRows
  <2>2. After(st) = Inserted(st)
    BY <2>1 DEF After
  <2>3. KeptBy(Inserted(st))
    BY <1>1, <1>2, <2>1, InsertedKeeps
  <2> QED BY <1>2, <2>2, <2>3 DEF KeptBy, Done
<1>3. CASE ReachesRows
  <2> DEFINE R == Reached(st.where)
             T == [s \in Slot |-> IF s \in R THEN Written(st, db[s]) ELSE db[s]]
             W == wrote \cup R
  <2>1. st.do # "insert"
    BY <1>1, <1>3, RequestAssumption DEF PossibleStatements, ReachesRows
  <2>2. After(st).table = T /\ After(st).touched = R
    BY <2>1 DEF After
  <2>3. R \subseteq Selected(st.where)
    BY <1>1, ReachedSelected
  <2>4. \A s \in R : s \in Slot /\ Reachable(db[s]) /\ db[s] \in Row
    BY <1>1, <1>3, <2>3, SelectedReachable DEF Selected, Present
  <2> HIDE DEF R
  <2>5. \A s \in R : T[s] = Written(st, db[s]) /\ T[s] \in Row \cup {Absent}
    BY <1>1, <1>3, <2>4, WrittenKeeps
  <2>6. \A s \in Slot \ R : T[s] = db[s]
    OBVIOUS
  <2>7. T \in Table
    BY <1>1, <2>4, <2>5, <2>6 DEF Table
  <2>8. Kept(T, W)
    <3> SUFFICES ASSUME NEW s \in Slot
                 PROVE  /\ s \notin W => T[s] = without[s]
                        /\ s \in W /\ ~ReachesRows => T[s] # Absent
                        /\ s \in W /\ without[s] # Absent /\ ~RunsInto => Reachable(without[s])
                        /\ T[s] # Absent /\ without[s] # Absent => KeepsOwner(without[s], T[s])
      BY DEF Kept
    <3>1. CASE s \notin R
      <4>1. T[s] = db[s] /\ (s \in W <=> s \in wrote)
        BY <2>6, <3>1
      <4> QED BY <4>1 DEF Kept
    <3>2. CASE s \in R
      <4>1. T[s] = Written(st, db[s]) /\ s \in W /\ db[s] \in Row /\ Reachable(db[s]) /\ db[s] # Absent
        BY <2>4, <2>5, <3>2, RowWritesAssumption
      <4>2. T[s] # Absent => KeepsOwner(db[s], T[s])
        BY <1>1, <1>3, <4>1, WrittenKeeps
      <4>3. /\ s \notin wrote => db[s] = without[s]
            /\ s \in wrote /\ without[s] # Absent /\ ~RunsInto => Reachable(without[s])
            /\ without[s] # Absent => KeepsOwner(without[s], db[s])
        BY <4>1 DEF Kept
      <4>4. without[s] # Absent /\ ~RunsInto => Reachable(without[s])
        BY <4>1, <4>3
      <4>5. T[s] # Absent /\ without[s] # Absent => KeepsOwner(without[s], T[s])
        BY <4>2, <4>3 DEF KeepsOwner
      <4> HIDE DEF T, W
      <4> QED BY <1>3, <4>1, <4>4, <4>5
    <3> QED BY <3>1, <3>2
  <2> QED BY <2>2, <2>3, <2>4, <2>7, <2>8 DEF R
<1> QED BY <1>2, <1>3

-----------------------------------------------------------------------------
(* A Single write. *)

\* Its statement selects the row the check found, or none.
LEMMA SelectedFound ==
  ASSUME TypeOK, Fits(db), Single, \A c \in layout.notNull : found # Absent => found[c] # Null, NEW where
  PROVE  /\ found = Absent => Selected(where) = {}
         /\ found # Absent /\ NamesOne(found) =>
              \A s \in Selected(where) :
                /\ Selected(where) = {s}
                /\ \E key \in ToSet(UniqueTargets) : Agree(db[s], found, key.columns)
<1>1. found = Absent => Selected(where) = {}
  BY DEF Selected, Narrowed, Single
<1>2. ASSUME found # Absent, NamesOne(found), NEW s \in Selected(where)
      PROVE  /\ Selected(where) = {s}
             /\ \E key \in ToSet(UniqueTargets) : Agree(db[s], found, key.columns)
  <2>1. found \in Row /\ layout \in Layouts
    BY <1>2 DEF TypeOK
  <2>2. RowKeyOf(found) # {}
    BY <1>2, <2>1, NamedHasKey
  <2>3. PICK i \in DOMAIN UniqueTargets :
          /\ ~UniqueTargets[i].partial /\ UniqueTargets[i].columns = RowKeyOf(found)
          /\ \A c \in RowKeyOf(found) : found[c] # Null
    BY <2>1, <2>2, RowKeyNames
  <2>4. \A t \in Selected(where) : t \in Present(db) /\ Agree(db[t], found, RowKeyOf(found))
    BY <2>2 DEF Selected, Narrowed, Single
  <2>5. ASSUME NEW t \in Selected(where) PROVE t = s
    <3>1. Agree(db[t], db[s], UniqueTargets[i].columns)
      BY <1>2, <2>3, <2>4 DEF Agree
    <3> QED BY <1>2, <2>3, <2>4, <3>1, AgreeIsSame
  <2>6. Selected(where) = {s}
    BY <1>2, <2>5
  <2> QED BY <1>2, <2>3, <2>4, <2>6 DEF ToSet
<1> QED BY <1>1, <1>2

-----------------------------------------------------------------------------
(* The invariant. *)

LEMMA WriteInit == Init => WriteInv
<1> SUFFICES ASSUME Init PROVE WriteInv
  OBVIOUS
<1>1. db \in Table /\ without \in Table /\ without = db /\ Fits(db)
  BY RowWritesAssumption DEF Init, Table
<1>2. wrote = {} /\ todo = <<>> /\ found = Absent /\ pc = "asked"
  BY DEF Init
<1>3. TypeOK
  BY <1>1, <1>2 DEF Init, TypeOK
<1>4. Kept(db, wrote)
  BY <1>1, <1>2 DEF Kept, KeepsOwner
<1>5. HiddenKept
  BY <1>1, <1>2 DEF HiddenKept
<1>6. Checked
  BY <1>2 DEF Checked
<1>7. SingleWritesFound
  BY <1>2 DEF SingleWritesFound
<1> QED BY <1>1, <1>3, <1>4, <1>5, <1>6, <1>7 DEF WriteInv

\* What is kept while a request is under way is what may be seen of it.
LEMMA KeptIsHidden ==
  ASSUME Kept(db, wrote)
  PROVE  HiddenKept
BY DEF Kept, HiddenKept, Present, KeepsOwner, RunsInto

\* A request that ends leaves the table as it is, or as it would be without it.
LEMMA EndKeeps ==
  ASSUME WriteInv, NEW how \in {"done", "failed", "refused"}, Ends(how), db' \in {db, without},
         how = "refused" => wrote = {},
         how = "done" /\ Single /\ dialect # "mysql" => Cardinality(wrote) <= 1
  PROVE  WriteInv'
<1>1. /\ pc' = how
      /\ UNCHANGED <<dialect, layout, soft, request, inTx, without, found, target, todo, wrote, edits>>
  BY DEF Ends, fixed
<1>2. TypeOK'
  BY <1>1 DEF WriteInv, TypeOK, PossibleStatements, InsertStatement, ReachesRows
<1>3. ~Busy'
  BY <1>1 DEF Busy
<1>4. Checked'
  BY <1>1 DEF WriteInv, Checked, Single, ReachesRows
<1>5. HiddenKept'
  BY <1>1 DEF WriteInv, HiddenKept, Present, Reachable
<1>6. SingleWritesFound'
  <2>1. UniqueTargets' = UniqueTargets
    BY <1>1 DEF UniqueTargets
  <2>2. NamesOne(found)' = NamesOne(found) /\ Single' = Single
    BY <1>1, <2>1 DEF NamesOne, Single, ReachesRows
  <2> QED BY <1>1, <2>1, <2>2 DEF WriteInv, SingleWritesFound, Agree
<1> QED BY <1>2, <1>3, <1>4, <1>5, <1>6 DEF WriteInv

\* Before the writes: nothing has been written.
LEMMA BeforeWrites ==
  ASSUME WriteInv, Busy, Busy', wrote = {}, TypeOK', Checked',
         UNCHANGED <<dialect, layout, request, db, without, wrote>>
  PROVE  WriteInv'
<1>1. Fits(db)'
  <2>1. UniqueTargets' = UniqueTargets
    BY DEF UniqueTargets
  <2> QED BY <2>1 DEF WriteInv, Fits, Rival, Agree, Present
<1>2. Kept(db, wrote)'
  BY DEF WriteInv, Kept, Reachable, ReachesRows, RunsInto, KeepsOwner
<1>3. HiddenKept'
  BY DEF WriteInv, HiddenKept, Present, Reachable
<1>4. SingleWritesFound'
  <2>1. wrote' = {} /\ pc' # "done"
    BY DEF Busy
  <2> QED BY <2>1 DEF SingleWritesFound
<1> QED BY <1>1, <1>2, <1>3, <1>4 DEF WriteInv

LEMMA CheckKeeps ==
  ASSUME WriteInv, Check
  PROVE  WriteInv'
<1>1. /\ pc = "asked" /\ pc' \in {"matching", "writing"} /\ todo' = Statements
      /\ UNCHANGED <<dialect, layout, soft, request, inTx, db, without, found, target, wrote, edits>>
  BY DEF Check, fixed
<1>2. wrote = {} /\ Busy /\ Busy'
  BY <1>1 DEF WriteInv, Checked, Busy
<1>3. Statements \in Seq(PossibleStatements) /\ (Single => Len(Statements) <= 1)
  BY StatementsType DEF WriteInv, TypeOK, Check
<1>4. PossibleStatements' = PossibleStatements /\ Single' = Single
  BY <1>1 DEF PossibleStatements, InsertStatement, ReachesRows, Single
<1>5. TypeOK'
  BY <1>1, <1>3, <1>4 DEF WriteInv, TypeOK
<1>6. Checked'
  BY <1>1, <1>2, <1>3, <1>4 DEF WriteInv, Checked
<1> QED BY <1>1, <1>2, <1>5, <1>6, BeforeWrites

LEMMA FindSingleKeeps ==
  ASSUME WriteInv, FindSingle
  PROVE  WriteInv'
<1>1. /\ pc = "matching" /\ pc' = "writing"
      /\ found' = IF MatchesOf = {} THEN Absent ELSE db[CHOOSE s \in MatchesOf : TRUE]
      /\ UNCHANGED <<dialect, layout, soft, request, inTx, db, without, todo, target, wrote, edits>>
  BY DEF FindSingle, fixed
<1>2. wrote = {} /\ Busy /\ Busy' /\ Fits(db)
  BY <1>1 DEF WriteInv, Checked, Busy
<1>3. found' = Absent \/ \E s \in Present(db) : found' = db[s]
  BY <1>1 DEF MatchesOf
<1>4. found' \in Row \cup {Absent} /\ (found' # Absent => \A c \in layout.notNull : found'[c] # Null)
  BY <1>2, <1>3 DEF WriteInv, TypeOK, Table, Present, Fits
<1>5. PossibleStatements' = PossibleStatements /\ Single' = Single
  BY <1>1 DEF PossibleStatements, InsertStatement, ReachesRows, Single
<1>6. TypeOK'
  BY <1>1, <1>4, <1>5 DEF WriteInv, TypeOK
<1>7. Checked'
  BY <1>1, <1>2, <1>4, <1>5 DEF WriteInv, Checked
<1> QED BY <1>1, <1>2, <1>6, <1>7, BeforeWrites

LEMMA ResolveKeeps ==
  ASSUME WriteInv, Resolve
  PROVE  WriteInv'
<1>1. /\ target' \in {"keys", "refuses"}
      /\ UNCHANGED <<dialect, layout, soft, request, inTx, db, without, found, todo, wrote, edits, pc>>
  BY DEF Resolve, fixed
<1>2. TypeOK'
  BY <1>1 DEF WriteInv, TypeOK, PossibleStatements, InsertStatement, ReachesRows
<1>3. Busy' = Busy /\ Fits(db)' = Fits(db) /\ Kept(db, wrote)' = Kept(db, wrote)
  BY <1>1 DEF Busy, Fits, UniqueTargets, Rival, Agree, Kept, Present, Reachable, ReachesRows,
     RunsInto, KeepsOwner
<1>4. Checked' /\ HiddenKept'
  BY <1>1 DEF WriteInv, Checked, Single, ReachesRows, HiddenKept, Present, Reachable
<1>5. SingleWritesFound'
  <2>1. UniqueTargets' = UniqueTargets
    BY <1>1 DEF UniqueTargets
  <2>2. NamesOne(found)' = NamesOne(found) /\ Single' = Single
    BY <1>1, <2>1 DEF NamesOne, Single, ReachesRows
  <2> QED BY <1>1, <2>1, <2>2 DEF WriteInv, SingleWritesFound, Agree
<1> QED BY <1>2, <1>3, <1>4, <1>5 DEF WriteInv

\* One statement: a Single request has written nothing before it.
LEMMA RunKeeps ==
  ASSUME WriteInv, Run
  PROVE  WriteInv'
<1> DEFINE st == Head(todo)
           R == After(st).touched
<1>1. /\ pc = "writing" /\ todo # <<>> /\ ~Refuses(After(st))
      /\ db' = After(st).table /\ wrote' = wrote \cup R /\ todo' = Tail(todo) /\ target' = "filter"
      /\ UNCHANGED <<dialect, layout, soft, request, inTx, without, found, edits, pc>>
  BY DEF Run, Runnable, fixed
<1>2. Busy /\ Fits(db) /\ Kept(db, wrote) /\ TypeOK /\ Checked /\ SingleWritesFound
  BY <1>1 DEF WriteInv, Busy
<1>3. todo \in Seq(PossibleStatements) /\ st \in PossibleStatements
  BY <1>1, <1>2 DEF TypeOK
<1>4. /\ db' \in Table /\ R \in SUBSET Slot /\ Kept(db', wrote \cup R)
      /\ ReachesRows => R \subseteq Selected(st.where)
  BY <1>1, <1>2, <1>3, AfterKeeps
<1> HIDE DEF R
<1>5. UniqueTargets' = UniqueTargets /\ NamesOne(found)' = NamesOne(found) /\ Single' = Single
  <2>1. UniqueTargets' = UniqueTargets
    BY <1>1 DEF UniqueTargets
  <2> QED BY <1>1, <2>1 DEF NamesOne, Single, ReachesRows
<1>6. TypeOK'
  <2>1. PossibleStatements' = PossibleStatements
    BY <1>1 DEF PossibleStatements, InsertStatement, ReachesRows
  <2>2. Tail(todo) \in Seq(PossibleStatements)
    BY <1>1, <1>3
  <2> QED BY <1>1, <1>2, <1>4, <2>1, <2>2 DEF TypeOK
<1>7. Fits(db)'
  <2>1. Fits(db')
    BY <1>1 DEF Refuses
  <2> QED BY <1>1, <1>5, <2>1 DEF Fits, Rival, Agree, Present
<1>8. Kept(db, wrote)'
  BY <1>1, <1>4 DEF Kept, Reachable, ReachesRows, RunsInto, KeepsOwner
<1>9. HiddenKept'
  BY <1>8, KeptIsHidden, PTL
<1>10. Single => wrote = {} /\ todo' = <<>>
  <2> SUFFICES ASSUME Single PROVE wrote = {} /\ todo' = <<>>
    OBVIOUS
  <2>1. Len(todo) <= 1 /\ wrote = {}
    BY <1>1, <1>2 DEF Checked
  <2>2. Tail(todo) = <<>>
    BY <1>1, <1>3, <2>1
  <2> QED BY <1>1, <2>1, <2>2
<1>11. Checked'
  <2>1. Single' => Len(todo') <= 1 /\ todo' = <<>>
    BY <1>5, <1>10
  <2> QED BY <1>1, <1>2, <2>1 DEF Checked
<1>12. SingleWritesFound'
  <2> SUFFICES ASSUME Single
               PROVE  /\ found = Absent => wrote' = {}
                      /\ found # Absent /\ NamesOne(found) =>
                           \A s \in wrote' :
                             /\ wrote' = {s} /\ without[s] # Absent
                             /\ \E key \in ToSet(UniqueTargets) : Agree(without[s], found, key.columns)
    BY <1>1, <1>5 DEF SingleWritesFound, Agree
  <2>1. wrote = {} /\ wrote' = R /\ R \subseteq Selected(st.where)
    BY <1>1, <1>4, <1>10 DEF Single
  <2>2. \A s \in R : s \in Present(db) /\ without[s] = db[s] /\ without[s] # Absent
    BY <1>2, <2>1 DEF Kept, Selected, Present
  <2>3. found # Absent => \A c \in layout.notNull : found[c] # Null
    BY <1>2 DEF Checked
  <2>4. found = Absent => R = {}
    BY <1>2, <2>1, <2>3, SelectedFound
  <2>5. found # Absent /\ NamesOne(found) =>
          \A s \in Selected(st.where) :
            /\ Selected(st.where) = {s}
            /\ \E key \in ToSet(UniqueTargets) : Agree(db[s], found, key.columns)
    BY <1>2, <2>3, SelectedFound
  <2>6. ASSUME found # Absent, NamesOne(found), NEW s \in R
        PROVE  /\ R = {s} /\ without[s] # Absent
               /\ \E key \in ToSet(UniqueTargets) : Agree(without[s], found, key.columns)
    <3>1. s \in Selected(st.where) /\ without[s] = db[s] /\ without[s] # Absent
      BY <2>1, <2>2, <2>6
    <3>2. R = {s}
      BY <2>1, <2>5, <2>6, <3>1
    <3> QED BY <2>5, <2>6, <3>1, <3>2
  <2> QED BY <2>1, <2>4, <2>6
<1> QED BY <1>6, <1>7, <1>8, <1>9, <1>11, <1>12 DEF WriteInv

\* Another client's write goes to a place this request has not written.
LEMMA EditKeeps ==
  ASSUME WriteInv, Edit
  PROVE  WriteInv'
<1>1. PICK e \in Elsewhere :
        /\ e[1] \notin wrote /\ Fits(db')
        /\ db' = [db EXCEPT ![e[1]] = e[2]] /\ without' = [without EXCEPT ![e[1]] = e[2]]
  BY DEF Edit
<1>2. /\ pc \in {"matching", "writing"}
      /\ UNCHANGED <<dialect, layout, soft, request, inTx, found, target, todo, wrote, pc>>
  BY DEF Edit, fixed
<1>3. Busy /\ Busy' /\ Kept(db, wrote) /\ TypeOK /\ Checked /\ SingleWritesFound
  BY <1>2 DEF WriteInv, Busy
<1>4. e[1] \in Slot /\ e[2] \in Row \cup {Absent}
  BY RowWritesAssumption
<1>5. db' \in Table /\ without' \in Table
  BY <1>1, <1>3, <1>4 DEF TypeOK, Table
<1>6. /\ db'[e[1]] = e[2] /\ without'[e[1]] = e[2]
      /\ \A s \in Slot : s # e[1] => db'[s] = db[s] /\ without'[s] = without[s]
  BY <1>1, <1>3, <1>4 DEF TypeOK, Table
<1>7. UniqueTargets' = UniqueTargets /\ NamesOne(found)' = NamesOne(found) /\ Single' = Single
  <2>1. UniqueTargets' = UniqueTargets
    BY <1>2 DEF UniqueTargets
  <2> QED BY <1>2, <2>1 DEF NamesOne, Single, ReachesRows
<1>8. TypeOK'
  BY <1>2, <1>3, <1>5 DEF TypeOK, PossibleStatements, InsertStatement, ReachesRows
<1>9. Fits(db)'
  BY <1>1, <1>2, <1>7 DEF Fits, Rival, Agree, Present
<1>10. Kept(db, wrote)'
  <2> SUFFICES ASSUME NEW s \in Slot
               PROVE  /\ s \notin wrote => db'[s] = without'[s]
                      /\ s \in wrote /\ ~ReachesRows => db'[s] # Absent
                      /\ s \in wrote /\ without'[s] # Absent /\ ~RunsInto => Reachable(without'[s])
                      /\ db'[s] # Absent /\ without'[s] # Absent => KeepsOwner(without'[s], db'[s])
    BY <1>2 DEF Kept, Reachable, ReachesRows, RunsInto, KeepsOwner
  <2>1. CASE s = e[1]
    BY <1>1, <1>6, <2>1 DEF KeepsOwner
  <2>2. CASE s # e[1]
    BY <1>3, <1>6, <2>2 DEF Kept
  <2> QED BY <2>1, <2>2
<1>11. HiddenKept'
  BY <1>10, KeptIsHidden, PTL
<1>12. Checked'
  BY <1>2, <1>3, <1>7 DEF Checked
<1>13. SingleWritesFound'
  <2>1. wrote \subseteq Slot
    BY <1>3 DEF TypeOK
  <2>2. \A s \in wrote : without'[s] = without[s]
    BY <1>1, <1>6, <2>1
  <2>3. pc' # "done"
    BY <1>2
  <2> QED BY <1>2, <1>3, <1>7, <2>2, <2>3 DEF SingleWritesFound, Agree
<1> QED BY <1>8, <1>9, <1>10, <1>11, <1>12, <1>13 DEF WriteInv

LEMMA WriteStep == WriteInv /\ [Next]_vars => WriteInv'
<1> SUFFICES ASSUME WriteInv, [Next]_vars PROVE WriteInv'
  OBVIOUS
<1>1. CASE Check
  BY <1>1, CheckKeeps
<1>2. CASE RefuseArguments
  <2>1. Ends("refused") /\ db' = db /\ wrote = {}
    BY <1>2 DEF RefuseArguments, WriteInv, Checked
  <2> QED BY <2>1, EndKeeps
<1>3. CASE FindSingle
  BY <1>3, FindSingleKeeps
<1>4. CASE RefuseMany
  <2>1. Ends("refused") /\ db' = db /\ wrote = {}
    BY <1>4 DEF RefuseMany, WriteInv, Checked
  <2> QED BY <2>1, EndKeeps
<1>5. CASE Resolve
  BY <1>5, ResolveKeeps
<1>6. CASE Run
  BY <1>6, RunKeeps
<1>7. CASE StatementFails \/ ReturnsTooMany \/ Fails
  <2>1. Ends("failed") /\ db' \in {db, without}
    BY <1>7 DEF StatementFails, ReturnsTooMany, Fails, FailsWith
  <2> QED BY <2>1, EndKeeps
<1>8. CASE Return
  <2>1. Ends("done") /\ db' = db /\ ~TooMany
    BY <1>8 DEF Return
  <2>2. Cardinality(wrote) \in Nat
    BY RowWritesAssumption, FS_Subset, FS_CardinalityType DEF WriteInv, TypeOK
  <2>3. Single /\ dialect # "mysql" => Cardinality(wrote) <= 1
    BY <2>1, <2>2 DEF TooMany
  <2> QED BY <2>1, <2>3, EndKeeps
<1>9. CASE Edit
  BY <1>9, EditKeeps
<1>10. CASE UNCHANGED vars
  <2>1. /\ UNCHANGED <<dialect, layout, soft, request, inTx, db, without, found>>
        /\ UNCHANGED <<target, todo, wrote, edits, pc>>
    BY <1>10 DEF vars, fixed
  <2>2. UniqueTargets' = UniqueTargets
    BY <2>1 DEF UniqueTargets
  <2>3. NamesOne(found)' = NamesOne(found) /\ Single' = Single
    BY <2>1, <2>2 DEF NamesOne, Single, ReachesRows
  <2>4. TypeOK'
    BY <2>1 DEF WriteInv, TypeOK, PossibleStatements, InsertStatement, ReachesRows
  <2>5. Busy' = Busy /\ (Busy => Fits(db)' /\ Kept(db, wrote)')
    BY <2>1, <2>2 DEF WriteInv, Busy, Fits, Rival, Agree, Kept, Present, Reachable, ReachesRows,
       RunsInto, KeepsOwner
  <2>6. Checked' /\ HiddenKept'
    BY <2>1, <2>3 DEF WriteInv, Checked, HiddenKept, Present, Reachable
  <2>7. SingleWritesFound'
    BY <2>1, <2>2, <2>3 DEF WriteInv, SingleWritesFound, Agree
  <2> QED BY <2>4, <2>5, <2>6, <2>7 DEF WriteInv
<1> QED BY <1>1, <1>2, <1>3, <1>4, <1>5, <1>6, <1>7, <1>8, <1>9, <1>10 DEF Next, Answered

\* Rows out of the request's scope, and marked ones it does not ask for, are never written, no row
\* changes hands, and only a delete or a restore moves the marker (withRowVisibility, insertStamps,
\* stripContextValues): for every table, layout, request and other client.
THEOREM HiddenRowsStay == Spec => []HiddenKept
<1>1. WriteInv => HiddenKept
  BY DEF WriteInv
<1> QED BY <1>1, WriteInit, WriteStep, PTL DEF Spec

\* However rows change between the check of a Single write and the write, it writes the row it
\* found or none; without a key it never reports success for two, where it can count them
\* (narrowToSingleMatch).
THEOREM SingleWritesItsRow == Spec => []SingleWritesFound
<1>1. WriteInv => SingleWritesFound
  BY DEF WriteInv
<1> QED BY <1>1, WriteInit, WriteStep, PTL DEF Spec
=============================================================================
