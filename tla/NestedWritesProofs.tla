------------------------- MODULE NestedWritesProofs -------------------------
(***************************************************************************)
(* What the nested operations of a relation leave, wherever its key is:    *)
(* no orphan, the keys of the returned rows and the keys a relation hides  *)
(* where the parent holds the key; every row where the input says, and one *)
(* row per parent of a to-one, where the target does; every pair linked as *)
(* asked in a junction, and as if its requests had run in some order; and  *)
(* hooks that are told of every row written.                               *)
(***************************************************************************)
EXTENDS NestedWrites, FiniteSetTheorems, WellFoundedInduction, TLAPS

-----------------------------------------------------------------------------
(* A key on the parent. *)

\* What a row that an entry returned holds.
Holds(e, r) ==
  /\ op[e].do = "create" => held[r] = Created(e)
  /\ op[e].do = "connect" => Matched(op[e].filter) = {held[r]}
  /\ op[e].do = "disconnect" => held[r] \in Hidden \cup {NoKey}

Past(e) == e < i \/ pc = "done"

\* Entries that have not been written return nothing, and no row is in hand outside the check.
Unwritten ==
  /\ \A e \in Entry : ~Past(e) => written[e] = {}
  /\ pc \notin {"check", "failed"} => rows = {}

\* The patch is what the entry's operation produced.
PatchRight ==
  pc \in {"write", "check"} =>
    /\ op[i].do = "create" => patch = Created(i)
    /\ op[i].do = "connect" => Matched(op[i].filter) = {patch}
    /\ op[i].do = "disconnect" => patch = NoKey

\* An update's statement leaves the patch, or a key it may not replace.
UpdateRight == pc = "check" /\ mode = "update" /\ Patches => \A r \in rows : held[r] \in Hidden \cup {patch}

\* Rows of earlier entries hold their keys, unless written again since.
PastHolds ==
  pc # "failed" => \A e \in Entry : \A r \in written[e] : Last(e, r) /\ r \notin rows => Holds(e, r)

\* A created row that stays belongs to an entry that returned a row, or to the one being written.
CreatedKept ==
  \A e \in Entry : Created(e) \in targets =>
    /\ op[e].do = "create"
    /\ Past(e) => written[e] # {}
    /\ e <= i

IInv == TypeOK /\ HiddenStays /\ Unwritten /\ PatchRight /\ UpdateRight /\ PastHolds /\ CreatedKept

\* The created keys of different entries differ.
LEMMA CreatedInjective == ASSUME NEW d, NEW e, Created(d) = Created(e) PROVE d = e
<1>1. Created(d).createdBy = d /\ Created(e).createdBy = e
  BY DEF Created
<1> QED BY <1>1

\* A created key is a key, and the rows inserted are parent rows but not stored ones.
LEMMA EntryFacts ==
  ASSUME NEW e \in Entry
  PROVE  Created(e) \in Key /\ Inserted(e) \in ParentRow /\ Inserted(e) \notin Stored
BY FreshAssumption DEF Key, CreatedKeys, ParentRow

\* Keys a relation hides are keys of target rows.
LEMMA HiddenType == Hidden \subseteq Target /\ NoKey \in Key /\ Target \subseteq Key /\ Absent \notin Hidden
BY KeyAssumption DEF Hidden, Key

\* The initial states satisfy the invariant.
LEMMA InitInv == Init => IInv
<1> SUFFICES ASSUME Init PROVE IInv
  OBVIOUS
<1>1. 1 \in Entry /\ NoKey \in Key
  BY BatchAssumption DEF Entry, Key
<1>2. held \in [ParentRow -> Key \cup {Absent}] /\ first \in [ParentRow -> Target \cup {NoKey, Absent}]
  BY DEF Init, Key
<1>3. TypeOK
  BY <1>1, <1>2 DEF Init, TypeOK
<1>4. HiddenStays /\ Unwritten /\ PatchRight /\ UpdateRight /\ PastHolds /\ CreatedKept
  BY DEF Init, HiddenStays, Unwritten, PatchRight, UpdateRight, PastHolds, CreatedKept
<1> QED BY <1>3, <1>4 DEF IInv

\* The operation is run and the patch produced: the first step of an entry.
LEMMA ParentSideInv == ASSUME IInv, Create \/ Connect \/ Disconnect PROVE IInv'
<1> USE DEF IInv
<1>1. /\ UNCHANGED <<held, i, rows, written, mode, hasWhere, keyListed, op, first>>
      /\ pc = "parent" /\ pc' = "write" /\ i \in Entry
      /\ (targets' = targets \/ (op[i].do = "create" /\ targets' = targets \cup {Created(i)}))
  <2>1. i \in Entry
    BY DEF TypeOK
  <2>2. CASE Create
    BY <2>1, <2>2 DEF Create, request
  <2>3. CASE Connect
    BY <2>1, <2>3 DEF Connect, request
  <2>4. CASE Disconnect
    BY <2>1, <2>4 DEF Disconnect, request
  <2> QED BY <2>2, <2>3, <2>4
<1>2. /\ patch' \in Key
      /\ op[i].do = "create" => patch' = Created(i)
      /\ op[i].do = "connect" => Matched(op[i].filter) = {patch'}
      /\ op[i].do = "disconnect" => patch' = NoKey
  BY <1>1, EntryFacts, HiddenType DEF Create, Connect, Disconnect
<1>3. TypeOK'
  <2>1. i \in 1..i
    BY <1>1, BatchAssumption DEF Entry
  <2> QED BY <1>1, <1>2, <2>1 DEF TypeOK
<1>4. HiddenStays' /\ Unwritten' /\ PatchRight' /\ UpdateRight'
  BY <1>1, <1>2 DEF HiddenStays, Hidden, Unwritten, Past, PatchRight, Matched, UpdateRight
<1>5. PastHolds'
  BY <1>1 DEF PastHolds, Last, Holds, Matched, Hidden
<1>6. CreatedKept'
  BY <1>1, CreatedInjective, BatchAssumption DEF CreatedKept, Past, Entry
<1> QED BY <1>3, <1>4, <1>5, <1>6

\* A parent write that changes the keys of the rows it returns only.
LEMMA WriteInv ==
  ASSUME IInv, pc = "write", NEW r \in SUBSET ParentRow, Returns(r),
         held' \in [ParentRow -> Key \cup {Absent}],
         \A x \in ParentRow \ r : held'[x] = held[x],
         \A x \in Stored : held[x] \in Hidden => held'[x] = held[x],
         mode = "update" /\ Patches => \A x \in r : held'[x] \in Hidden \cup {patch}
  PROVE  IInv'
<1> USE DEF IInv
<1>1. /\ UNCHANGED <<targets, i, patch, written, mode, hasWhere, keyListed, op, first>>
      /\ pc' = "check" /\ rows' = r
  BY DEF Returns, request
<1>2. TypeOK'
  BY <1>1 DEF TypeOK
<1>3. HiddenStays'
  BY <1>1 DEF HiddenStays, Hidden
<1>4. Unwritten' /\ PatchRight' /\ UpdateRight' /\ CreatedKept'
  BY <1>1 DEF Unwritten, Past, PatchRight, Matched, Hidden, UpdateRight, Patches, CreatedKept
<1>5. PastHolds'
  BY <1>1 DEF PastHolds, Last, Holds, Matched, Hidden, Unwritten, TypeOK
<1> QED BY <1>2, <1>3, <1>4, <1>5

\* Each of the parent writes is one.
LEMMA WritesInv == ASSUME IInv, InsertRow \/ UpdateRows \/ UpdateConflicting \/ WriteNothing PROVE IInv'
<1>1. TypeOK /\ held \in [ParentRow -> Key \cup {Absent}] /\ patch \in Key /\ i \in Entry /\ NoKey \in Key
  BY HiddenType DEF IInv, TypeOK
<1>2. CASE InsertRow
  <2>1. Inserted(i) \in ParentRow /\ Inserted(i) \notin Stored
    BY <1>1, EntryFacts
  <2>2. held' \in [ParentRow -> Key \cup {Absent}] /\ \A x \in ParentRow \ {Inserted(i)} : held'[x] = held[x]
    BY <1>1, <1>2, <2>1 DEF InsertRow
  <2>3. Stored \subseteq ParentRow
    BY DEF ParentRow
  <2> QED BY <1>2, <2>1, <2>2, <2>3, WriteInv DEF InsertRow
<1>3. CASE UpdateRows
  <2>1. PICK r \in SUBSET {x \in ParentRow : held[x] # Absent} :
          /\ held' = [x \in ParentRow |-> IF x \in r /\ Patches THEN Replaced(x) ELSE held[x]]
          /\ Returns(r)
    BY <1>3 DEF UpdateRows
  <2>2. \A x \in ParentRow : Replaced(x) \in Key \cup {Absent} /\ Replaced(x) \in Hidden \cup {patch}
    BY <1>1 DEF Replaced
  <2>3. held' \in [ParentRow -> Key \cup {Absent}] /\ \A x \in ParentRow \ r : held'[x] = held[x]
    BY <1>1, <2>1, <2>2
  <2>4. \A x \in Stored : held[x] \in Hidden => held'[x] = held[x]
    BY <2>1 DEF Replaced, ParentRow
  <2>5. Patches => \A x \in r : held'[x] \in Hidden \cup {patch}
    BY <2>1, <2>2
  <2> QED BY <1>3, <2>1, <2>3, <2>4, <2>5, WriteInv DEF UpdateRows
<1>4. CASE UpdateConflicting
  <2>1. PICK x \in ParentRow :
          /\ held' = IF Patches /\ keyListed THEN [held EXCEPT ![x] = Replaced(x)] ELSE held
          /\ Returns({x})
    BY <1>4 DEF UpdateConflicting
  <2>2. Replaced(x) \in Key \cup {Absent} /\ (held[x] \in Hidden => Replaced(x) = held[x])
    BY <1>1 DEF Replaced
  <2>3. held' \in [ParentRow -> Key \cup {Absent}] /\ \A z \in ParentRow \ {x} : held'[z] = held[z]
    BY <1>1, <2>1, <2>2
  <2>4. \A z \in Stored : held[z] \in Hidden => held'[z] = held[z]
    BY <1>1, <2>1, <2>2 DEF ParentRow
  <2> QED BY <1>4, <2>1, <2>3, <2>4, WriteInv DEF UpdateConflicting
<1>5. CASE WriteNothing
  BY <1>1, <1>5, WriteInv DEF WriteNothing
<1> QED BY <1>2, <1>3, <1>4, <1>5

\* An entry that ends: its rows are recorded, and each of them holds what was asked.
LEMMA EndInv ==
  ASSUME IInv, pc = "check", NextEntry, written' = [written EXCEPT ![i] = rows],
         targets' \subseteq targets, op[i].do = "create" /\ rows = {} => Created(i) \notin targets',
         \A r \in rows : Holds(i, r)
  PROVE  IInv'
<1> USE DEF IInv
<1>1. /\ UNCHANGED <<held, patch, mode, hasWhere, keyListed, op, first>> /\ rows' = {}
      /\ \/ i < Batch /\ i' = i + 1 /\ pc' = "parent"
         \/ i = Batch /\ i' = i /\ pc' = "done"
  BY BatchAssumption DEF NextEntry, request, TypeOK, Entry
<1>2. i \in Entry /\ i' \in Entry /\ i \in Int /\ i' \in Int /\ i <= i' /\ rows \subseteq ParentRow
      /\ written \in [Entry -> SUBSET ParentRow]
  BY <1>1, BatchAssumption DEF TypeOK, Entry
<1>3. written' \in [Entry -> SUBSET ParentRow] /\ written'[i] = rows
      /\ \A e \in Entry \ {i} : written'[e] = written[e]
  BY <1>2
<1>4. \A e \in Entry : e \in Int /\ (Past(e)' <=> Past(e) \/ e = i) /\ (e > i => ~Past(e)')
  BY <1>1, <1>2, BatchAssumption DEF Past, Entry
<1>5. TypeOK'
  <2>1. \A e \in 1..i : e \in 1..i'
    BY <1>2
  <2> QED BY <1>1, <1>2, <1>3, <2>1 DEF TypeOK
<1>6. HiddenStays' /\ PatchRight' /\ UpdateRight'
  BY <1>1 DEF HiddenStays, Hidden, PatchRight, UpdateRight
<1>7. Unwritten'
  BY <1>1, <1>3, <1>4 DEF Unwritten
<1>8. PastHolds'
  <2> SUFFICES ASSUME NEW e \in Entry, NEW r \in written'[e], Last(e, r)' PROVE Holds(e, r)'
    BY <1>1 DEF PastHolds
  <2>1. Holds(e, r)' <=> Holds(e, r)
    BY <1>1 DEF Holds, Matched, Hidden
  <2>2. CASE e = i
    BY <2>1, <2>2, <1>3
  <2>3. CASE e # i
    <3>1. r \in written[e] /\ e < i
      BY <2>3, <1>2, <1>3, <1>4 DEF Unwritten, Past
    <3>2. r \notin rows
      BY <3>1, <1>2, <1>3 DEF Last
    <3>3. Last(e, r)
      <4> SUFFICES ASSUME NEW later \in Entry, later > e PROVE r \notin written[later]
        BY DEF Last
      <4>1. CASE later = i
        <5>1. ~Past(i) /\ i \in Entry
          BY <1>2 DEF Past
        <5> QED BY <4>1, <5>1 DEF Unwritten
      <4>2. CASE later # i
        BY <4>2, <1>3 DEF Last
      <4> QED BY <4>1, <4>2
    <3> QED BY <2>1, <3>1, <3>2, <3>3 DEF PastHolds
  <2> QED BY <2>2, <2>3
<1>9. CreatedKept'
  <2> SUFFICES ASSUME NEW e \in Entry, Created(e) \in targets'
               PROVE  op[e].do = "create" /\ (Past(e)' => written'[e] # {}) /\ e <= i'
    BY <1>1 DEF CreatedKept
  <2>1. op[e].do = "create" /\ e <= i /\ (Past(e) => written[e] # {})
    BY DEF CreatedKept
  <2>2. CASE e = i
    BY <2>1, <2>2, <1>2, <1>3
  <2>3. CASE e # i
    BY <2>1, <2>3, <1>2, <1>3, <1>4
  <2> QED BY <2>2, <2>3
<1> QED BY <1>5, <1>6, <1>7, <1>8, <1>9

\* An undone entry returns no rows, and takes its created row with it.
LEMMA UndoInv == ASSUME IInv, UndoEntry PROVE IInv'
<1>1. pc = "check" /\ NextEntry /\ rows = {} /\ written' = [written EXCEPT ![i] = rows]
      /\ targets' = targets \ {Created(i)}
  BY DEF UndoEntry
<1>2. targets' \subseteq targets /\ Created(i) \notin targets' /\ \A r \in rows : Holds(i, r)
  BY <1>1
<1> QED BY <1>1, <1>2, EndInv

\* A kept entry's rows hold what was asked: the check has passed.
LEMMA KeepInv == ASSUME IInv, KeepEntry PROVE IInv'
<1>1. /\ pc = "check" /\ NextEntry /\ Passes /\ written' = [written EXCEPT ![i] = rows]
      /\ targets' = targets
      /\ rows # {} \/ op[i].do # "create"
  BY DEF KeepEntry
<1>2. PatchRight /\ UpdateRight /\ mode \in {"insert", "update", "upsert"}
  BY DEF IInv, TypeOK
<1>3. ASSUME NEW r \in rows PROVE Holds(i, r)
  <2>1. CASE op[i].do \in {"create", "connect"}
    <3>1. held[r] = patch
      BY <1>1, <1>3, <2>1 DEF Passes, Expects, Mismatched
    <3> QED BY <1>1, <1>2, <2>1, <3>1 DEF Holds, PatchRight
  <2>2. CASE op[i].do = "disconnect" /\ mode = "update"
    BY <1>1, <1>2, <1>3, <2>2 DEF Holds, PatchRight, UpdateRight, Patches
  <2>3. CASE op[i].do = "disconnect" /\ mode # "update"
    <3>1. held[r] = patch \/ held[r] \in Hidden
      BY <1>1, <1>3, <2>3 DEF Passes, Expects, Mismatched
    <3> QED BY <1>1, <1>2, <2>3, <3>1 DEF Holds, PatchRight
  <2>4. CASE op[i].do \notin {"create", "connect", "disconnect"}
    BY <2>4 DEF Holds
  <2> QED BY <2>1, <2>2, <2>3, <2>4
<1> QED BY <1>1, <1>3, EndInv

\* A rolled back transaction leaves what it found.
LEMMA FailsInv == ASSUME IInv, Fails PROVE IInv'
<1> USE DEF IInv
<1>1. /\ pc' = "failed" /\ held' = first /\ targets' = {} /\ written' = [e \in Entry |-> {}]
      /\ UNCHANGED <<i, patch, rows, mode, hasWhere, keyListed, op, first>>
  BY DEF Fails, request
<1>2. TypeOK'
  BY <1>1 DEF TypeOK, Key
<1>3. HiddenStays' /\ PatchRight' /\ UpdateRight' /\ PastHolds' /\ CreatedKept'
  BY <1>1 DEF HiddenStays, PatchRight, UpdateRight, PastHolds, CreatedKept
<1>4. Unwritten'
  BY <1>1 DEF Unwritten
<1> QED BY <1>2, <1>3, <1>4

\* Every step keeps the invariant.
LEMMA NextInv == IInv /\ [Next]_vars => IInv'
<1> SUFFICES ASSUME IInv, [Next]_vars PROVE IInv'
  OBVIOUS
<1>1. CASE Create \/ Connect \/ Disconnect
  BY <1>1, ParentSideInv
<1>2. CASE InsertRow \/ UpdateRows \/ UpdateConflicting \/ WriteNothing
  BY <1>2, WritesInv
<1>3. CASE UndoEntry
  BY <1>3, UndoInv
<1>4. CASE KeepEntry
  BY <1>4, KeepInv
<1>5. CASE Fails
  BY <1>5, FailsInv
<1>6. CASE UNCHANGED vars
  <2>1. TypeOK' /\ HiddenStays' /\ Unwritten'
    BY <1>6 DEF IInv, vars, TypeOK, HiddenStays, Hidden, Unwritten, Past
  <2>2. PatchRight' /\ UpdateRight' /\ PastHolds' /\ CreatedKept'
    BY <1>6 DEF IInv, vars, PatchRight, Matched, Hidden, UpdateRight, Patches, PastHolds, Last, Holds,
                CreatedKept, Past
  <2> QED BY <2>1, <2>2 DEF IInv
<1> QED BY <1>1, <1>2, <1>3, <1>4, <1>5, <1>6 DEF Next, Ended

-----------------------------------------------------------------------------
(* Sequences of statements. *)

\* A nonempty set of positions has a least one.
LEMMA LeastPosition ==
  ASSUME NEW T \in SUBSET Nat, T # {}
  PROVE  \E p \in T : \A q \in T : p <= q
<1>1. PICK m \in T : TRUE
  OBVIOUS
<1> DEFINE Intervals == {1..q : q \in {x \in T : x <= m}}
<1>2. IsFiniteSet(1..m)
  BY FS_Interval
<1>3. Intervals \subseteq SUBSET (1..m) /\ 1..m \in Intervals
  BY <1>1
<1>4. IsWellFoundedOn(StrictSubsetOrdering(1..m), SUBSET (1..m))
  BY <1>2, FS_StrictSubsetOrderingWellFounded, FS_FiniteSubsetsOfFinite
<1>5. PICK I \in Intervals : \A K \in Intervals : ~(<<K, I>> \in StrictSubsetOrdering(1..m))
  BY <1>3, <1>4, WFMin
<1>6. PICK p \in T : p <= m /\ I = 1..p
  BY <1>5
<1>7. ASSUME NEW q \in T, q < p PROVE FALSE
  <2>1. 1..q \in Intervals /\ 1..q \subseteq 1..p /\ p \in 1..p /\ p \notin 1..q
    BY <1>1, <1>6, <1>7
  <2>2. <<1..q, I>> \in StrictSubsetOrdering(1..m)
    BY <1>3, <1>6, <2>1 DEF StrictSubsetOrdering
  <2> QED BY <1>5, <2>1, <2>2
<1> QED BY <1>6, <1>7

\* What concatenation keeps: the empty list adds nothing, and grouping does not matter.
LEMMA EmptyEnds == ASSUME NEW S, NEW s \in Seq(S) PROVE s \o <<>> = s /\ <<>> \o s = s
OBVIOUS

LEMMA Regroup ==
  ASSUME NEW S, NEW a \in Seq(S), NEW b \in Seq(S), NEW c \in Seq(S)
  PROVE  (a \o b) \o c = a \o (b \o c)
OBVIOUS

Within(m, s, S) == \E x, y \in Seq(S) : s = x \o m \o y

\* A list within another is still there when more is put at its end.
LEMMA WithinMore ==
  ASSUME NEW S, NEW s \in Seq(S), NEW m \in Seq(S), NEW e \in Seq(S), Within(m, s, S)
  PROVE  Within(m, s \o e, S)
<1>1. PICK x, y \in Seq(S) : s = x \o m \o y
  BY DEF Within
<1> DEFINE h == x \o m
<1>2. h \in Seq(S) /\ s = h \o y
  BY <1>1
<1> HIDE DEF h
<1>3. (h \o y) \o e = h \o (y \o e) /\ y \o e \in Seq(S)
  BY <1>2, Regroup
<1>4. s \o e = h \o (y \o e)
  BY <1>2, <1>3
<1> QED BY <1>3, <1>4 DEF h, Within

\* A junction's statements are put in a row as a foreign key's are.
LEMMA SameFlat == ASSUME NEW s PROVE J!FlattenSeq(s) = C!FlattenSeq(s)
BY DEF C!FlattenSeq, J!FlattenSeq

Closed(G) == \A u, w \in G : u \o w \in G

\* Lists of a set that is closed under concatenation, put end to end, are a list of that set, which
\* holds each of them; the last of them comes last.
LEMMA FlatGood ==
  ASSUME NEW S, NEW G \in SUBSET Seq(S), Closed(G), NEW lists \in Seq(G), lists # <<>>
  PROVE  /\ C!FlattenSeq(lists) \in G
         /\ \A n \in DOMAIN lists : Within(lists[n], C!FlattenSeq(lists), S)
         /\ \E x \in Seq(S) : C!FlattenSeq(lists) = x \o lists[Len(lists)]
<1> DEFINE L == Len(lists)
           Is(f, k) == f = [n \in 1..k |-> IF n = 1 THEN lists[n] ELSE f[n - 1] \o lists[n]]
           Good(s, k) == /\ s \in G /\ \A n \in 1..k : Within(lists[n], s, S)
                         /\ \E x \in Seq(S) : s = x \o lists[k]
           Made(k) == \E f : Is(f, k) /\ Good(f[k], k)
           Bad == {k \in 1..L : ~Made(k)}
<1>0. L \in Nat \ {0} /\ L = Len(lists) /\ DOMAIN lists = 1..L /\ \A n \in 1..L : lists[n] \in G
  OBVIOUS
<1> HIDE DEF L
<1>1. ASSUME NEW f, NEW k \in 1..L, Is(f, k)
      PROVE  f[1] = lists[1] /\ \A n \in 2..k : f[n] = f[n - 1] \o lists[n]
  <2>1. k \in Nat /\ 1 \in 1..k
    BY <1>0
  <2>2. \A n \in 1..k : f[n] = IF n = 1 THEN lists[n] ELSE f[n - 1] \o lists[n]
    BY <1>1, Zenon
  <2>3. f[1] = lists[1]
    BY <2>1, <2>2
  <2>4. ASSUME NEW n \in 2..k PROVE f[n] = f[n - 1] \o lists[n]
    <3>1. n \in 1..k /\ n # 1
      BY <2>1
    <3> QED BY <2>2, <3>1
  <2> QED BY <2>3, <2>4
<1>2. ASSUME NEW s, NEW k \in 2..L, Good(s, k - 1) PROVE Good(s \o lists[k], k)
  <2>1. s \in G /\ lists[k] \in G /\ s \in Seq(S) /\ lists[k] \in Seq(S) /\ s \o lists[k] \in G
    BY <1>0, <1>2 DEF Closed
  <2>2. <<>> \in Seq(S) /\ (s \o lists[k]) \o <<>> = s \o lists[k]
    BY <2>1, EmptyEnds
  <2>3. ASSUME NEW n \in 1..k PROVE Within(lists[n], s \o lists[k], S)
    <3>1. CASE n = k
      BY <2>1, <2>2, <3>1 DEF Within
    <3>2. CASE n # k
      <4>1. n \in 1..(k - 1) /\ n \in 1..L
        BY <1>0, <3>2
      <4>2. Within(lists[n], s, S)
        BY <1>2, <4>1
      <4>3. lists[n] \in Seq(S)
        BY <1>0, <4>1
      <4> QED BY <2>1, <4>2, <4>3, WithinMore
    <3> QED BY <3>1, <3>2
  <2> QED BY <2>1, <2>3
<1>3. Good(lists[1], 1)
  <2>1. lists[1] \in G /\ lists[1] \in Seq(S) /\ <<>> \in Seq(S)
    BY <1>0
  <2>2. lists[1] = <<>> \o lists[1] /\ lists[1] = <<>> \o lists[1] \o <<>>
    BY <2>1, EmptyEnds
  <2>3. \A n \in 1..1 : n = 1
    OBVIOUS
  <2> QED BY <2>1, <2>2, <2>3 DEF Within
<1>4. Made(L)
  <2> HIDE DEF Made
  <2> SUFFICES ASSUME Bad # {} PROVE FALSE
    <3>1. L \in 1..L
      BY <1>0
    <3> QED BY <3>1
  <2>1. Bad \in SUBSET Nat
    BY <1>0
  <2>2. PICK k \in Bad : \A q \in Bad : k <= q
    BY <2>1, LeastPosition
  <2>3. k \in 1..L /\ ~Made(k) /\ \A q \in 1..L : q < k => Made(q)
    BY <1>0, <2>2
  <2>4. CASE k = 1
    <3> DEFINE g == [n \in 1..1 |-> lists[n]]
    <3>1. Is(g, 1) /\ g[1] = lists[1]
      OBVIOUS
    <3> HIDE DEF g, Is, Good
    <3>2. Made(1)
      BY <1>3, <3>1 DEF Made
    <3> QED BY <2>3, <2>4, <3>2
  <2>5. CASE k # 1
    <3>1. k - 1 \in 1..L /\ Made(k - 1) /\ k \in Nat /\ k \in 2..L
      BY <1>0, <2>3, <2>5
    <3>2. PICK f : Is(f, k - 1) /\ Good(f[k - 1], k - 1)
      <4> HIDE DEF Is, Good
      <4> QED BY <3>1 DEF Made
    <3>3. f[1] = lists[1] /\ \A n \in 2..(k - 1) : f[n] = f[n - 1] \o lists[n]
      <4> HIDE DEF Is
      <4> QED BY <1>1, <3>1, <3>2
    <3> DEFINE g == [n \in 1..k |-> IF n = k THEN f[k - 1] \o lists[k] ELSE f[n]]
    <3>4. g[k] = f[k - 1] \o lists[k] /\ \A n \in 1..(k - 1) : g[n] = f[n]
      <4>1. k \in 1..k /\ \A n \in 1..(k - 1) : n \in 1..k /\ n # k
        BY <3>1
      <4>2. \A n \in 1..k : g[n] = IF n = k THEN f[k - 1] \o lists[k] ELSE f[n]
        BY Zenon
      <4> QED BY <4>1, <4>2
    <3>5. g = [n \in 1..k |-> g[n]]
      OBVIOUS
    <3> HIDE DEF g, Good
    <3>6. g[1] = lists[1] /\ \A n \in 2..k : g[n] = g[n - 1] \o lists[n]
      <4>1. g[1] = lists[1]
        BY <3>1, <3>3, <3>4
      <4>2. ASSUME NEW n \in 2..k PROVE g[n] = g[n - 1] \o lists[n]
        <5>1. CASE n = k
          <6>1. k - 1 \in 1..(k - 1)
            BY <3>1
          <6>2. g[k - 1] = f[k - 1]
            BY <3>4, <6>1
          <6> QED BY <3>4, <5>1, <6>2
        <5>2. CASE n # k
          <6>1. n \in 2..(k - 1) /\ n \in 1..(k - 1) /\ n - 1 \in 1..(k - 1)
            BY <3>1, <5>2
          <6> QED BY <3>3, <3>4, <6>1
        <5> QED BY <5>1, <5>2
      <4> QED BY <4>1, <4>2
    <3>7. \A n \in 1..k : g[n] = IF n = 1 THEN lists[n] ELSE g[n - 1] \o lists[n]
      <4>1. \A n \in 1..k : n = 1 \/ n \in 2..k
        BY <3>1
      <4>2. \A n \in 2..k : n # 1
        BY <3>1
      <4> QED BY <3>6, <4>1, <4>2
    <3>8. Is(g, k)
      BY <3>5, <3>7
    <3>9. Good(g[k], k)
      BY <1>2, <3>1, <3>2, <3>4
    <3> HIDE DEF Is
    <3> QED BY <2>3, <3>8, <3>9 DEF Made
  <2> QED BY <2>4, <2>5
<1>5. PICK f : Is(f, L) /\ Good(f[L], L)
  <2> HIDE DEF Is, Good
  <2> QED BY <1>4 DEF Made
<1> DEFINE upTo == CHOOSE h : Is(h, L)
<1>6. Is(upTo, L)
  <2> HIDE DEF Is
  <2> QED BY <1>5
<1>7. C!FlattenSeq(lists) = upTo[L]
  BY <1>0 DEF C!FlattenSeq, L
<1> HIDE DEF upTo
<1>8. upTo[L] = f[L]
  <2> DEFINE Apart == {k \in 1..L : upTo[k] # f[k]}
  <2>0. L \in 1..L
    BY <1>0
  <2>1. /\ f[1] = lists[1] /\ \A n \in 2..L : f[n] = f[n - 1] \o lists[n]
        /\ upTo[1] = lists[1] /\ \A n \in 2..L : upTo[n] = upTo[n - 1] \o lists[n]
    <3> HIDE DEF Is
    <3> QED BY <1>1, <1>5, <1>6, <2>0
  <2> SUFFICES ASSUME Apart # {} PROVE FALSE
    BY <2>0
  <2>2. Apart \in SUBSET Nat
    BY <1>0
  <2>3. PICK k \in Apart : \A q \in Apart : k <= q
    BY <2>2, LeastPosition
  <2>4. k \in 1..L /\ upTo[k] # f[k] /\ (k # 1 => k \in 2..L /\ k - 1 \in 1..L /\ upTo[k - 1] = f[k - 1])
    <3>0. k \in 1..L /\ upTo[k] # f[k] /\ L \in Nat
      BY <1>0, <2>3
    <3>1. ASSUME NEW q \in 1..L, q < k PROVE upTo[q] = f[q]
      <4>1. q \notin Apart
        BY <2>3, <3>0, <3>1
      <4> QED BY <3>1, <4>1
    <3>2. k # 1 => k \in 2..L /\ k - 1 \in 1..L /\ k - 1 < k
      BY <3>0
    <3> QED BY <3>0, <3>1, <3>2
  <2> QED BY <2>1, <2>4
<1>9. C!FlattenSeq(lists) = f[L]
  BY <1>7, <1>8
<1> QED BY <1>0, <1>5, <1>9 DEF L

\* In particular they hold what the lists hold, and something if each of them does.
LEMMA FlatType ==
  ASSUME NEW S, NEW lists \in Seq(Seq(S)), lists # <<>>
  PROVE  /\ C!FlattenSeq(lists) \in Seq(S)
         /\ (\A n \in DOMAIN lists : lists[n] # <<>>) => C!FlattenSeq(lists) # <<>>
         /\ \E before \in Seq(S) : C!FlattenSeq(lists) = before \o lists[Len(lists)]
<1> DEFINE G == {u \in Seq(S) : u # <<>>}
<1>1. Closed(Seq(S))
  BY DEF Closed
<1>2. C!FlattenSeq(lists) \in Seq(S) /\ \E x \in Seq(S) : C!FlattenSeq(lists) = x \o lists[Len(lists)]
  BY <1>1, FlatGood
<1>3. ASSUME \A n \in DOMAIN lists : lists[n] # <<>> PROVE C!FlattenSeq(lists) # <<>>
  <2>1. Closed(G)
    BY DEF Closed
  <2>2. Len(lists) \in Nat /\ DOMAIN lists = 1..Len(lists) /\ \A n \in 1..Len(lists) : lists[n] \in G
    BY <1>3
  <2>3. G \in SUBSET Seq(S)
    OBVIOUS
  <2> HIDE DEF G
  <2>4. lists \in Seq(G)
    BY <2>2
  <2>5. C!FlattenSeq(lists) \in G
    BY <2>1, <2>3, <2>4, FlatGood
  <2> QED BY <2>5 DEF G
<1> QED BY <1>2, <1>3

-----------------------------------------------------------------------------
(* A key on the target: the program of an input. *)

\* An operand that is given is a list of filters.
LEMMA OperandType ==
  ASSUME C!Stays
  PROVE  /\ parents \in Seq(Parent) /\ input.create \in Nat
         /\ \A n \in {"set", "disconnect", "connect"} : C!Given(input[n]) => input[n] \in Seq(C!Filter)
<1>1. parents \in Seq(Parent) /\ \A l \in Lists : l \in Seq(C!Filter)
  BY PlansAssumption DEF C!Stays, C!ChildrenAssumption, C!Filter
<1>2. input \in [set : Lists \cup {NotGiven}, disconnect : Lists \cup {NotGiven},
                connect : Lists \cup {NotGiven}, create : 0..MaxCreate]
  BY DEF C!Stays, C!Offered
<1>3. MaxCreate \in Nat
  BY PlansAssumption DEF C!ChildrenAssumption
<1> QED BY <1>1, <1>2, <1>3 DEF C!Given

\* An attach runs for each parent and filter.
LEMMA AttachType ==
  ASSUME NEW by, parents \in Seq(Parent), NEW list \in Seq(C!Filter)
  PROVE  /\ C!Attach(by, list)
              \in Seq([do : {"attach"}, by : {by}, filter : C!ToSet(list), to : C!Parents])
         /\ parents # <<>> /\ list # <<>> => C!Attach(by, list) # <<>>
<1> DEFINE S == [do : {"attach"}, by : {by}, filter : C!ToSet(list), to : C!Parents]
           One(n) == [m \in DOMAIN list |->
                        [do |-> "attach", by |-> by, filter |-> list[m], to |-> parents[n]]]
           Each == [n \in DOMAIN parents |-> One(n)]
<1>1. /\ \A m \in DOMAIN list : list[m] \in C!ToSet(list)
      /\ \A n \in DOMAIN parents : parents[n] \in C!Parents
  BY DEF C!Parents, C!ToSet
<1>2. ASSUME NEW n \in DOMAIN parents PROVE One(n) \in Seq(S) /\ (list # <<>> => One(n) # <<>>)
  <2>1. \A m \in DOMAIN list : One(n)[m] \in S
    BY <1>1
  <2>2. Len(list) \in Nat /\ DOMAIN list = 1..Len(list) /\ (list # <<>> => 1 \in DOMAIN list)
    OBVIOUS
  <2>3. One(n) = [m \in 1..Len(list) |-> One(n)[m]]
    BY <2>2
  <2> HIDE DEF One, S
  <2>4. One(n) \in [1..Len(list) -> S]
    BY <2>1, <2>2, <2>3
  <2> QED BY <2>2, <2>4
<1>3. Each \in Seq(Seq(S)) /\ (parents # <<>> => Each # <<>>) /\ DOMAIN Each = DOMAIN parents
  <2> HIDE DEF One, S
  <2>1. Len(parents) \in Nat /\ DOMAIN parents = 1..Len(parents)
    OBVIOUS
  <2> QED BY <1>2, <2>1
<1>4. C!Attach(by, list) = C!FlattenSeq(Each)
  BY DEF C!Attach
<1>5. \A n \in DOMAIN Each : Each[n] = One(n)
  OBVIOUS
<1> HIDE DEF S, One, Each
<1>6. CASE parents # <<>>
  <2>1. /\ C!FlattenSeq(Each) \in Seq(S)
        /\ (\A n \in DOMAIN Each : Each[n] # <<>>) => C!FlattenSeq(Each) # <<>>
    BY <1>3, <1>6, FlatType
  <2>2. list # <<>> => \A n \in DOMAIN Each : Each[n] # <<>>
    BY <1>2, <1>3, <1>5
  <2> QED BY <1>4, <2>1, <2>2 DEF S
<1>7. CASE parents = <<>>
  <2>1. Each = <<>>
    BY <1>3, <1>7
  <2>2. C!FlattenSeq(Each) = <<>>
    BY <2>1 DEF C!FlattenSeq
  <2> QED BY <1>4, <1>7, <2>2 DEF S
<1> QED BY <1>6, <1>7

\* Some statement of a list belongs to an input.
Has(list, by) == \E n \in DOMAIN list : "by" \in DOMAIN list[n] /\ list[n].by = by

LEMMA HasEither ==
  ASSUME NEW S, NEW s \in Seq(S), NEW t \in Seq(S), NEW by, Has(s, by) \/ Has(t, by)
  PROVE  Has(s \o t, by)
<1>1. CASE Has(s, by)
  <2>1. PICK n \in DOMAIN s : "by" \in DOMAIN s[n] /\ s[n].by = by
    BY <1>1 DEF Has
  <2>2. n \in DOMAIN (s \o t) /\ (s \o t)[n] = s[n]
    OBVIOUS
  <2> QED BY <2>1, <2>2 DEF Has
<1>2. CASE Has(t, by)
  <2>1. PICK n \in DOMAIN t : "by" \in DOMAIN t[n] /\ t[n].by = by
    BY <1>2 DEF Has
  <2>2. Len(s) + n \in DOMAIN (s \o t) /\ (s \o t)[Len(s) + n] = t[n]
    OBVIOUS
  <2> QED BY <2>1, <2>2 DEF Has
<1> QED BY <1>1, <1>2

LEMMA SeqOfMore ==
  ASSUME NEW A, NEW B, A \subseteq B, NEW s \in Seq(A)
  PROVE  s \in Seq(B)
<1>1. Len(s) \in Nat /\ s = [n \in 1..Len(s) |-> s[n]] /\ \A n \in 1..Len(s) : s[n] \in A
  OBVIOUS
<1> QED BY <1>1

\* Every statement that writes belongs to a step that is registered.
LEMMA SetTold ==
  ASSUME C!Stays
  PROVE  /\ C!SetStatements \in Seq(C!Told)
         /\ C!Given(input.set) => Has(C!SetStatements, "set")
<1>1. CASE ~C!Given(input.set)
  BY <1>1 DEF C!SetStatements
<1>2. CASE C!Given(input.set)
  <2>1. <<"set", "update">> \in C!Registered
    BY <1>2 DEF C!Registered
  <2>2. parents \in Seq(Parent) /\ input.set \in Seq(C!Filter)
    BY <1>2, OperandType
  <2> DEFINE S == [do : {"attach"}, by : {"set"}, filter : C!ToSet(input.set), to : C!Parents]
  <2>3. C!Attach("set", input.set) \in Seq(S)
    BY <2>2, AttachType
  <2>4. C!ToSet(input.set) \subseteq C!Filter /\ C!Parents \subseteq Parent
    BY <2>2 DEF C!ToSet, C!Parents
  <2>5. S \subseteq C!Told
    BY <2>1, <2>4 DEF C!Told, C!Statement, C!StepOf
  <2>6. C!Attach("set", input.set) \in Seq(C!Told)
    <3> HIDE DEF S
    <3> QED BY <2>3, <2>5, SeqOfMore
  <2>7. [do |-> "detach", by |-> "set"] \in C!Told
    BY <2>1 DEF C!Told, C!Statement, C!StepOf
  <2>8. C!Detach("set") \in Seq(C!Told)
    BY <2>7 DEF C!Detach
  <2>9. Has(C!Detach("set"), "set")
    BY DEF Has, C!Detach
  <2>10. C!SetStatements = C!Detach("set") \o C!Attach("set", input.set)
    BY <1>2 DEF C!SetStatements
  <2> QED BY <2>6, <2>8, <2>9, <2>10, HasEither
<1> QED BY <1>1, <1>2

LEMMA DisconnectTold ==
  ASSUME C!Stays
  PROVE  /\ C!DisconnectStatements \in Seq(C!Told)
         /\ C!Given(input.disconnect) /\ input.disconnect # <<>> => Has(C!DisconnectStatements, "disconnect")
<1>1. CASE ~C!Given(input.disconnect)
  BY <1>1 DEF C!DisconnectStatements
<1>2. CASE C!Given(input.disconnect)
  <2>1. <<"disconnect", "update">> \in C!Registered
    BY <1>2 DEF C!Registered
  <2>2. input.disconnect \in Seq(C!Filter)
    BY <1>2, OperandType
  <2>3. CASE plan.isOne
    <3>1. [do |-> "detach", by |-> "disconnect"] \in C!Told
      BY <2>1 DEF C!Told, C!Statement, C!StepOf
    <3>2. C!Detach("disconnect") \in Seq(C!Told)
      BY <3>1 DEF C!Detach
    <3>3. Has(C!Detach("disconnect"), "disconnect")
      BY DEF Has, C!Detach
    <3>4. C!DisconnectStatements = C!Detach("disconnect")
      BY <1>2, <2>3 DEF C!DisconnectStatements
    <3> QED BY <3>2, <3>3, <3>4
  <2>4. CASE ~plan.isOne
    <3> DEFINE d == input.disconnect
               One(n) == [do |-> "detachMatching", by |-> "disconnect", filter |-> d[n]]
    <3>1. C!DisconnectStatements = [n \in 1..Len(d) |-> One(n)]
      BY <1>2, <2>2, <2>4 DEF C!DisconnectStatements
    <3>2. \A n \in 1..Len(d) : d[n] \in C!Filter
      BY <2>2
    <3>3. \A n \in 1..Len(d) : One(n) \in C!Told
      BY <2>1, <3>2 DEF C!Told, C!Statement, C!StepOf
    <3>4. Len(d) \in Nat /\ (d # <<>> => 1 \in 1..Len(d))
      BY <2>2
    <3>5. \A n \in 1..Len(d) : "by" \in DOMAIN One(n) /\ One(n).by = "disconnect"
      OBVIOUS
    <3> HIDE DEF d, One
    <3>6. C!DisconnectStatements \in Seq(C!Told)
      BY <3>1, <3>3, <3>4
    <3>7. d # <<>> => Has(C!DisconnectStatements, "disconnect")
      BY <3>1, <3>4, <3>5 DEF Has
    <3> QED BY <3>6, <3>7 DEF d
  <2> QED BY <2>3, <2>4
<1> QED BY <1>1, <1>2

\* The input that attaches to a to-one, and its one operand.
LEMMA AttachingIs ==
  ASSUME C!Stays
  PROVE  /\ C!Attaching \in {"connect", "create", "none"}
         /\ C!Attaching = "connect" <=> C!Given(input.connect)
         /\ C!Attaching = "create" <=> ~C!Given(input.connect) /\ input.create > 0
         /\ plan.isOne /\ C!Given(input.connect) => Len(input.connect) = 1 /\ input.connect[1] \in C!Filter
<1>1. C!Given(input.connect) => input.connect \in Seq(C!Filter)
  BY OperandType
<1>2. plan.isOne /\ C!Given(input.connect) => Len(input.connect) = 1
  BY DEF C!Stays, C!Offered
<1> QED BY <1>1, <1>2 DEF C!Attaching

LEMMA RoomTold ==
  ASSUME C!Stays
  PROVE  /\ C!MakeRoom \in Seq(C!Told)
         /\ plan.isOne /\ C!Attaching # "none" /\ plan.canDetach => Has(C!MakeRoom, C!Attaching)
<1>1. CASE ~plan.isOne \/ C!Attaching = "none"
  BY <1>1 DEF C!MakeRoom
<1>2. CASE plan.isOne /\ C!Attaching # "none"
  <2> DEFINE one == IF C!Given(input.connect)
                      THEN <<[do |-> "matchOne", filter |-> input.connect[1]]>> ELSE <<>>
             room == IF plan.canDetach THEN C!Detach(C!Attaching)
                     ELSE IF C!Attaching = "connect" /\ plan.writesKey THEN <<>>
                     ELSE <<[do |-> "refuseHeld",
                             list |-> IF C!Given(input.connect) THEN input.connect ELSE <<>>]>>
  <2>1. C!MakeRoom = one \o room
    BY <1>2 DEF C!MakeRoom
  <2>2. one \in Seq(C!Told)
    <3>1. C!Given(input.connect) => [do |-> "matchOne", filter |-> input.connect[1]] \in C!Told
      BY <1>2, AttachingIs DEF C!Told, C!Statement, C!Writes
    <3> QED BY <3>1
  <2>3. plan.canDetach => C!Detach(C!Attaching) \in Seq(C!Told) /\ Has(C!Detach(C!Attaching), C!Attaching)
    <3>1. plan.canDetach => <<C!Attaching, "update">> \in C!Registered
      BY <1>2 DEF C!Registered
    <3>2. plan.canDetach => [do |-> "detach", by |-> C!Attaching] \in C!Told
      BY <1>2, <3>1, AttachingIs DEF C!Told, C!Statement, C!StepOf
    <3>3. Has(C!Detach(C!Attaching), C!Attaching)
      BY DEF Has, C!Detach
    <3> QED BY <3>2, <3>3 DEF C!Detach
  <2>4. ~plan.canDetach => room \in Seq(C!Told)
    <3> DEFINE list == IF C!Given(input.connect) THEN input.connect ELSE <<>>
    <3>1. list \in Seq(C!Filter)
      BY OperandType
    <3>2. [do |-> "refuseHeld", list |-> list] \in C!Told
      BY <3>1 DEF C!Told, C!Statement, C!Writes
    <3> QED BY <3>2
  <2>5. room \in Seq(C!Told) /\ (plan.canDetach => Has(room, C!Attaching))
    BY <2>3, <2>4
  <2> HIDE DEF one, room
  <2> QED BY <1>2, <2>1, <2>2, <2>5, HasEither
<1> QED BY <1>1, <1>2

LEMMA ConnectTold ==
  ASSUME C!Stays
  PROVE  /\ C!ConnectStatements \in Seq(C!Told)
         /\ C!Given(input.connect) /\ ~plan.writesKey /\ input.connect # <<>> /\ parents # <<>>
              => Has(C!ConnectStatements, "connect")
<1> DEFINE list == input.connect
<1>1. CASE ~C!Given(input.connect)
  BY <1>1 DEF C!ConnectStatements
<1>2. CASE C!Given(input.connect) /\ plan.writesKey
  <2>1. list \in Seq(C!Filter)
    BY <1>2, OperandType
  <2>2. C!ConnectStatements = [n \in 1..Len(list) |-> [do |-> "checkHeld", filter |-> list[n]]]
    BY <1>2, <2>1 DEF C!ConnectStatements
  <2>3. \A n \in 1..Len(list) : [do |-> "checkHeld", filter |-> list[n]] \in C!Told
    BY <2>1 DEF C!Told, C!Statement, C!Writes
  <2> HIDE DEF list
  <2>4. Len(list) \in Nat
    BY <2>1
  <2> QED BY <1>2, <2>2, <2>3, <2>4
<1>3. CASE C!Given(input.connect) /\ ~plan.writesKey
  <2>1. <<"connect", "update">> \in C!Registered
    BY <1>3 DEF C!Registered
  <2>2. parents \in Seq(Parent) /\ list \in Seq(C!Filter)
    BY <1>3, OperandType
  <2> DEFINE S == [do : {"attach"}, by : {"connect"}, filter : C!ToSet(list), to : C!Parents]
  <2>3. /\ C!Attach("connect", list) \in Seq(S)
        /\ parents # <<>> /\ list # <<>> => C!Attach("connect", list) # <<>>
    BY <2>2, AttachType
  <2>4. C!ToSet(list) \subseteq C!Filter /\ C!Parents \subseteq Parent
    BY <2>2 DEF C!ToSet, C!Parents
  <2>5. S \subseteq C!Told
    BY <2>1, <2>4 DEF C!Told, C!Statement, C!StepOf
  <2>6. \A s \in S : "by" \in DOMAIN s /\ s.by = "connect"
    OBVIOUS
  <2>7. C!ConnectStatements = C!Attach("connect", list)
    BY <1>3 DEF C!ConnectStatements
  <2> HIDE DEF S, list
  <2>8. C!ConnectStatements \in Seq(C!Told)
    BY <2>3, <2>5, <2>7, SeqOfMore
  <2>9. parents # <<>> /\ list # <<>> => Has(C!ConnectStatements, "connect")
    <3>1. \A s \in Seq(S) : s # <<>> => 1 \in DOMAIN s /\ s[1] \in S
      OBVIOUS
    <3> QED BY <2>3, <2>6, <2>7, <3>1 DEF Has
  <2> QED BY <2>8, <2>9 DEF list
<1> QED BY <1>1, <1>2, <1>3

LEMMA CreateTold ==
  ASSUME C!Stays
  PROVE  /\ C!CreateStatements \in Seq(C!Told)
         /\ input.create > 0 => Has(C!CreateStatements, "create")
<1>1. input.create > 0 => <<"create", "insert">> \in C!Registered
  BY DEF C!Registered
<1>2. input.create > 0 => [do |-> "create", by |-> "create"] \in C!Told
  BY <1>1 DEF C!Told, C!Statement, C!StepOf
<1>3. Has(<<[do |-> "create", by |-> "create"]>>, "create")
  BY DEF Has
<1> QED BY <1>2, <1>3 DEF C!CreateStatements

LEMMA StatementsTold ==
  ASSUME C!Stays
  PROVE  /\ C!Statements \in Seq(C!Told)
         /\ \A by \in {"set", "disconnect", "connect", "create"} :
              \/ Has(C!SetStatements, by) \/ Has(C!DisconnectStatements, by) \/ Has(C!MakeRoom, by)
              \/ Has(C!ConnectStatements, by) \/ Has(C!CreateStatements, by)
              => Has(C!Statements, by)
<1> DEFINE a == C!SetStatements  b == C!DisconnectStatements  c == C!MakeRoom
           d == C!ConnectStatements  e == C!CreateStatements
<1>1. a \in Seq(C!Told) /\ b \in Seq(C!Told) /\ c \in Seq(C!Told) /\ d \in Seq(C!Told) /\ e \in Seq(C!Told)
  BY SetTold, DisconnectTold, RoomTold, ConnectTold, CreateTold
<1>2. C!Statements = a \o b \o c \o d \o e
  BY DEF C!Statements
<1> HIDE DEF a, b, c, d, e
<1>3. /\ a \o b \in Seq(C!Told) /\ a \o b \o c \in Seq(C!Told)
      /\ a \o b \o c \o d \in Seq(C!Told) /\ a \o b \o c \o d \o e \in Seq(C!Told)
  BY <1>1
<1>4. ASSUME NEW by, Has(a, by) \/ Has(b, by) \/ Has(c, by) \/ Has(d, by) \/ Has(e, by)
      PROVE  Has(a \o b \o c \o d \o e, by)
  <2>1. Has(a, by) \/ Has(b, by) => Has(a \o b, by)
    BY <1>1, HasEither
  <2>2. Has(a \o b, by) \/ Has(c, by) => Has(a \o b \o c, by)
    BY <1>1, <1>3, HasEither
  <2>3. Has(a \o b \o c, by) \/ Has(d, by) => Has(a \o b \o c \o d, by)
    BY <1>1, <1>3, HasEither
  <2>4. Has(a \o b \o c \o d, by) \/ Has(e, by) => Has(a \o b \o c \o d \o e, by)
    BY <1>1, <1>3, HasEither
  <2> QED BY <1>4, <2>1, <2>2, <2>3, <2>4
<1> QED BY <1>2, <1>3, <1>4 DEF a, b, c, d, e

\* A step is only registered for an input that runs a statement, unless its list is empty.
LEMMA StatementsCalled ==
  ASSUME C!Stays, parents # <<>>, NEW s \in C!Registered
  PROVE  Has(C!Statements, s[1]) \/ (s[1] # "create" /\ input[s[1]] = <<>>)
<1>1. CASE s = <<"set", "update">> /\ C!Given(input.set)
  BY <1>1, SetTold, StatementsTold
<1>2. CASE s = <<"disconnect", "update">> /\ C!Given(input.disconnect)
  BY <1>2, DisconnectTold, StatementsTold
<1>3. CASE s = <<"connect", "update">> /\ C!Given(input.connect) /\ ~plan.writesKey
  BY <1>3, ConnectTold, StatementsTold
<1>4. CASE s = <<C!Attaching, "update">> /\ plan.isOne /\ C!Attaching # "none" /\ plan.canDetach
  BY <1>4, RoomTold, StatementsTold, AttachingIs
<1>5. CASE s = <<"create", "insert">> /\ input.create > 0
  BY <1>5, CreateTold, StatementsTold
<1> QED BY <1>1, <1>2, <1>3, <1>4, <1>5 DEF C!Registered

-----------------------------------------------------------------------------
(* A key on the target: the hooks. *)

\* What follows from the relation and its input alone does not change.
LEMMA ProgramSame ==
  ASSUME C!Stays, UNCHANGED <<plan, input, parents>>
  PROVE  /\ C!Stays' /\ C!Registered' = C!Registered /\ C!Told' = C!Told
         /\ C!Attaching' = C!Attaching /\ C!CreateStatements' = C!CreateStatements
<1>1. C!Stays' /\ C!Attaching' = C!Attaching /\ C!CreateStatements' = C!CreateStatements
  BY DEF C!Stays, C!Attaching, C!CreateStatements
<1>2. C!Registered' = C!Registered
  BY <1>1 DEF C!Registered
<1>3. C!Told' = C!Told
  BY <1>2 DEF C!Told
<1> QED BY <1>1, <1>2, <1>3

\* The statement that runs next, and those that stay.
LEMMA HeadTold ==
  ASSUME NEW S, todo \in Seq(S), todo # <<>>
  PROVE  Head(todo) \in S /\ Tail(todo) \in Seq(S)
OBVIOUS

\* A statement that writes hands its rows to its step.
LEMMA WriteTold ==
  ASSUME C!HooksInv, step = "running", step' = step, UNCHANGED <<plan, input, parents>>,
         todo' \in Seq(C!Told), NEW n, NEW s \in C!Registered, C!Write(n, s)
  PROVE  C!HooksInv'
<1>1. C!Stays /\ DOMAIN seen = C!Registered /\ wrote = UNION {seen[k] : k \in DOMAIN seen}
  BY DEF C!HooksInv
<1>2. C!Stays' /\ C!Registered' = C!Registered /\ C!Told' = C!Told
  BY <1>1, ProgramSame
<1>3. seen' = [seen EXCEPT ![s] = seen[s] \cup DOMAIN n] /\ wrote' = wrote \cup DOMAIN n
  BY DEF C!Write
<1>4. DOMAIN seen' = DOMAIN seen
      /\ \A k \in DOMAIN seen : seen'[k] = IF k = s THEN seen[k] \cup DOMAIN n ELSE seen[k]
  BY <1>3
<1>5. wrote' = UNION {seen'[k] : k \in DOMAIN seen'}
  <2>1. ASSUME NEW r \in wrote' PROVE \E k \in DOMAIN seen' : r \in seen'[k]
    BY <1>1, <1>3, <1>4, <2>1
  <2>2. ASSUME NEW k \in DOMAIN seen', NEW r \in seen'[k] PROVE r \in wrote'
    BY <1>1, <1>3, <1>4
  <2> QED BY <2>1, <2>2
<1> QED BY <1>1, <1>2, <1>4, <1>5 DEF C!HooksInv

LEMMA HooksKeep == ASSUME C!HooksInv, C!Next PROVE C!HooksInv'
<1>0. C!Stays
  BY DEF C!HooksInv
<1>1. CASE C!Begin
  <2>1. UNCHANGED <<plan, input, parents, wrote>> /\ step = "before" /\ step' = "running"
        /\ todo' = (IF parents = <<>> THEN <<>> ELSE C!Statements)
        /\ seen' = [s \in C!Registered |-> {}]
    BY <1>1 DEF C!Begin, C!Keeps
  <2>2. C!Stays' /\ C!Registered' = C!Registered /\ C!Told' = C!Told
    BY <1>0, <2>1, ProgramSame
  <2>3. todo' \in Seq(C!Told)
    BY <1>0, <2>1, StatementsTold
  <2>4. wrote' = {} /\ UNION {seen'[s] : s \in DOMAIN seen'} = {} /\ DOMAIN seen' = C!Registered
    BY <2>1 DEF C!HooksInv
  <2> QED BY <2>1, <2>2, <2>3, <2>4 DEF C!HooksInv
<1>2. CASE C!RunDetach \/ C!RunAttach \/ C!RunCreate
  <2>1. /\ step = "running" /\ step' = step /\ todo # <<>> /\ todo' = Tail(todo)
        /\ UNCHANGED <<plan, input, parents>> /\ todo \in Seq(C!Told)
    BY <1>2 DEF C!RunDetach, C!RunAttach, C!RunCreate, C!Step, C!Keeps, C!HooksInv
  <2>2. Head(todo) \in C!Told /\ todo' \in Seq(C!Told)
    BY <2>1, HeadTold
  <2>3. C!Writes(Head(todo)) => C!StepOf(Head(todo)) \in C!Registered
    BY <2>2 DEF C!Told
  <2>4. \E n : C!Write(n, C!StepOf(Head(todo))) /\ C!Writes(Head(todo))
    <3>1. CASE C!RunDetach
      BY <3>1 DEF C!RunDetach, C!StepOf, C!Writes
    <3>2. CASE C!RunAttach
      BY <3>2 DEF C!RunAttach, C!StepOf, C!Writes
    <3>3. CASE C!RunCreate
      <4>1. Head(todo).do = "create"
        BY <3>3 DEF C!RunCreate
      <4>2. Head(todo).by = "create"
        BY <2>2, <4>1 DEF C!Told, C!Statement
      <4>3. C!StepOf(Head(todo)) = <<"create", "insert">> /\ C!Writes(Head(todo))
        BY <4>1, <4>2 DEF C!StepOf, C!Writes
      <4> QED BY <3>3, <4>3 DEF C!RunCreate
    <3> QED BY <1>2, <3>1, <3>2, <3>3
  <2>5. PICK n : C!Write(n, C!StepOf(Head(todo))) /\ C!Writes(Head(todo))
    BY <2>4
  <2>6. PICK s \in C!Registered : C!Write(n, s)
    BY <2>3, <2>5
  <2> QED BY <2>1, <2>2, <2>6, WriteTold
<1>3. CASE C!Passes
  <2>1. /\ step = "running" /\ step' = step /\ todo # <<>> /\ todo' = Tail(todo)
        /\ UNCHANGED <<plan, input, parents, seen, wrote>> /\ todo \in Seq(C!Told)
    BY <1>3 DEF C!Passes, C!Step, C!Keeps, C!HooksInv
  <2>2. C!Stays' /\ C!Registered' = C!Registered /\ C!Told' = C!Told
    BY <1>0, <2>1, ProgramSame
  <2>3. todo' \in Seq(C!Told)
    BY <2>1, HeadTold
  <2> QED BY <2>1, <2>2, <2>3 DEF C!HooksInv
<1>4. CASE C!Fails
  <2>1. UNCHANGED <<plan, input, parents>> /\ step' = "failed"
    BY <1>4 DEF C!Fails, C!Keeps
  <2>2. C!Stays'
    BY <1>0, <2>1, ProgramSame
  <2> QED BY <2>1, <2>2 DEF C!HooksInv
<1>5. CASE C!Finish \/ C!Ended
  <2>1. UNCHANGED <<plan, input, parents, seen, wrote, todo>> /\ step' \in {"done", "failed"}
        /\ (step' = "done" => step \in {"running", "done"})
    BY <1>5 DEF C!Finish, C!Ended, C!Keeps, C!vars
  <2>2. C!Stays' /\ C!Registered' = C!Registered /\ C!Told' = C!Told
    BY <1>0, <2>1, ProgramSame
  <2> QED BY <2>1, <2>2 DEF C!HooksInv
<1> QED BY <1>1, <1>2, <1>3, <1>4, <1>5 DEF C!Next

LEMMA ChildHooks == C!HooksInv => C!HooksMirrorStatements
<1> SUFFICES ASSUME C!HooksInv, step = "done" PROVE C!HooksMirrorStatements
  BY DEF C!HooksMirrorStatements
<1>1. C!Stays /\ DOMAIN seen = C!Registered /\ wrote = UNION {seen[s] : s \in DOMAIN seen}
  BY DEF C!HooksInv
<1>2. parents # <<>> =>
        \A s \in C!Registered : Has(C!Statements, s[1]) \/ (s[1] # "create" /\ input[s[1]] = <<>>)
  BY <1>1, StatementsCalled
<1> QED BY <1>1, <1>2 DEF C!HooksMirrorStatements, Has

-----------------------------------------------------------------------------
(* A key on the target: a to-one keeps one row. *)

\* The relation's rows are counted as any are.
LEMMA SameCount == \A S : (C!IsFiniteSet(S) <=> IsFiniteSet(S)) /\ C!Cardinality(S) = Cardinality(S)
BY DEF IsFiniteSet, C!IsFiniteSet, Cardinality, C!Cardinality

\* The rows and keys are what the assumptions make of them.
LEMMA ChildGround ==
  /\ NoHolder \notin Parent /\ Nowhere \notin Parent /\ NoHolder # Nowhere
  /\ Row \cap C!New = {} /\ C!TargetRow = Row \cup C!New /\ IsFiniteSet(Row) /\ HiddenRow \subseteq Row
<1>1. NoHolder # Nowhere
  <2>1. ASSUME NoHolder = Nowhere PROVE FALSE
    <3>1. Cardinality({NoHolder, Nowhere, AnyHolder}) = 3
      BY PlansAssumption, SameCount DEF C!ChildrenAssumption
    <3>2. {NoHolder, Nowhere, AnyHolder} = {Nowhere} \cup {AnyHolder}
      BY <2>1
    <3>3. IsFiniteSet({Nowhere}) /\ Cardinality({Nowhere}) = 1
      BY FS_Singleton
    <3>4. Cardinality({Nowhere} \cup {AnyHolder}) = IF AnyHolder \in {Nowhere} THEN 1 ELSE 2
      BY <3>3, FS_AddElement
    <3> QED BY <3>1, <3>2, <3>4
  <2> QED BY <2>1
<1>2. IsFiniteSet(Row)
  BY PlansAssumption, SameCount DEF C!ChildrenAssumption
<1> QED BY <1>1, <1>2, PlansAssumption DEF C!ChildrenAssumption, C!TargetRow

\* A statement's new keys are the keys after it; every other row keeps its own.
LEMMA KeysAfter ==
  ASSUME NEW n, NEW s, C!Write(n, s)
  PROVE  \A r \in C!TargetRow : key'[r] = IF r \in DOMAIN n THEN n[r] ELSE key[r]
BY DEF C!Write

LEMMA KeyKeep == ASSUME C!HooksInv, C!KeyInv, C!Next PROVE C!KeyInv'
<1>0. /\ key \in [C!TargetRow -> Parent \cup {NoHolder, Nowhere}]
      /\ saved \in [C!TargetRow -> Parent \cup {NoHolder, Nowhere}]
      /\ saved' = saved /\ plan' = plan /\ parents \in Seq(Parent)
  BY OperandType DEF C!KeyInv, C!HooksInv, C!Next, C!Begin, C!RunDetach, C!RunAttach, C!RunCreate, C!Passes,
                     C!Fails, C!Finish, C!Ended, C!Keeps, C!vars
<1>1. CASE UNCHANGED key /\ step' # "before"
  BY <1>0, <1>1 DEF C!KeyInv
<1>2. CASE C!Fails
  <2>1. key' = saved /\ step' = "failed"
    BY <1>2 DEF C!Fails
  <2> QED BY <1>0, <2>1 DEF C!KeyInv
<1>3. ASSUME NEW n, NEW s, C!Write(n, s), step' = "running",
             \A r \in DOMAIN n : n[r] \in Parent \cup {NoHolder}
      PROVE  C!KeyInv'
  <2>1. key' = [r \in C!TargetRow |-> IF r \in DOMAIN n THEN n[r] ELSE key[r]]
    BY <1>3 DEF C!Write
  <2>2. key' \in [C!TargetRow -> Parent \cup {NoHolder, Nowhere}]
    BY <1>0, <1>3, <2>1
  <2>3. \A r \in Row : key'[r] # Nowhere
    BY <1>3, <2>1, ChildGround DEF C!KeyInv
  <2> QED BY <1>0, <1>3, <2>2, <2>3 DEF C!KeyInv
<1>4. CASE C!RunDetach
  <2>1. PICK rows_ : C!Write([r \in rows_ |-> NoHolder], <<Head(todo).by, "update">>)
    BY <1>4 DEF C!RunDetach
  <2>2. step' = "running"
    BY <1>4 DEF C!RunDetach, C!Step
  <2> QED BY <1>3, <2>1, <2>2
<1>5. CASE C!RunAttach
  <2>1. todo \in Seq(C!Told) /\ todo # <<>> /\ Head(todo).do = "attach" /\ step' = "running"
    BY <1>5 DEF C!RunAttach, C!Step, C!HooksInv
  <2>2. Head(todo).to \in Parent
    BY <2>1, HeadTold DEF C!Told, C!Statement
  <2>3. C!Write([r \in C!Reached(Head(todo).filter) |-> Head(todo).to], <<Head(todo).by, "update">>)
    BY <1>5 DEF C!RunAttach
  <2> QED BY <1>3, <2>1, <2>2, <2>3
<1>6. CASE C!RunCreate
  <2>1. C!Write([r \in C!Parents \X (1..input.create) |-> r[1]], <<"create", "insert">>)
        /\ step' = "running"
    BY <1>6 DEF C!RunCreate, C!Step
  <2>2. C!Parents \subseteq Parent
    BY <1>0 DEF C!Parents, C!ToSet
  <2> QED BY <1>3, <2>1, <2>2
<1>7. CASE C!Begin \/ C!Passes \/ C!Finish \/ C!Ended
  BY <1>1, <1>7 DEF C!Begin, C!Passes, C!Finish, C!Ended, C!vars, C!Step
<1> QED BY <1>2, <1>4, <1>5, <1>6, <1>7 DEF C!Next

\* A list that begins with one statement.
LEMMA FirstAndRest ==
  ASSUME NEW S, NEW a \in S, NEW rest_ \in Seq(S)
  PROVE  /\ <<a>> \o rest_ \in Seq(S) /\ <<a>> \o rest_ # <<>>
         /\ Head(<<a>> \o rest_) = a /\ Tail(<<a>> \o rest_) = rest_
OBVIOUS

LEMMA OneAndOne ==
  ASSUME NEW a, NEW b
  PROVE  /\ <<a>> \o <<b>> # <<>> /\ Head(<<a>> \o <<b>>) = a /\ Tail(<<a>> \o <<b>>) = <<b>>
         /\ <<b>> # <<>> /\ Head(<<b>>) = b /\ Tail(<<b>>) = <<>>
<1>1. a \in {a, b} /\ <<b>> \in Seq({a, b})
  OBVIOUS
<1>2. <<b>> # <<>> /\ Head(<<b>>) = b /\ Tail(<<b>>) = <<>>
  OBVIOUS
<1>3. <<a>> \o <<b>> # <<>> /\ Head(<<a>> \o <<b>>) = a
  BY <1>1, FirstAndRest
<1>4. Tail(<<a>> \o <<b>>) = <<b>>
  BY <1>1, FirstAndRest
<1> QED BY <1>2, <1>3, <1>4

\* The statements of a to-one: one that finds its row, one that makes room, one that attaches.
MatchOne == [do |-> "matchOne", filter |-> input.connect[1]]
CheckHeld == [do |-> "checkHeld", filter |-> input.connect[1]]
Room(by) == IF plan.canDetach THEN [do |-> "detach", by |-> by]
            ELSE [do |-> "refuseHeld", list |-> IF C!Given(input.connect) THEN input.connect ELSE <<>>]
CreateOne == [do |-> "create", by |-> "create"]

LEMMA ToOneProgram ==
  ASSUME C!Stays, plan.isOne
  PROVE  /\ C!Attaching = "none" =>
              C!Statements = <<>> \/ C!Statements = <<[do |-> "detach", by |-> "disconnect"]>>
         /\ C!Attaching = "create" =>
              /\ input.create = 1 /\ C!CreateStatements = <<CreateOne>>
              /\ C!Statements = <<Room("create")>> \o <<CreateOne>>
         /\ C!Attaching = "connect" /\ plan.writesKey => C!Statements = <<MatchOne>> \o <<CheckHeld>>
         /\ C!Attaching = "connect" /\ ~plan.writesKey =>
              /\ C!Attach("connect", input.connect) \in Seq(C!Attached)
              /\ C!Statements = <<MatchOne>> \o (<<Room("connect")>> \o C!Attach("connect", input.connect))
<1>1. /\ input.set = NotGiven /\ input.create \in {0, 1}
      /\ C!Given(input.disconnect) => input.create = 0 /\ input.connect = NotGiven
      /\ C!Given(input.connect) => Len(input.connect) = 1 /\ input.create = 0
  BY OperandType DEF C!Stays, C!Offered
<1>2. C!SetStatements = <<>>
  BY <1>1 DEF C!SetStatements, C!Given
<1>3. C!DisconnectStatements = IF C!Given(input.disconnect)
                                 THEN <<[do |-> "detach", by |-> "disconnect"]>> ELSE <<>>
  BY DEF C!DisconnectStatements, C!Detach
<1>4. C!CreateStatements = IF input.create > 0 THEN <<CreateOne>> ELSE <<>>
  BY DEF C!CreateStatements, CreateOne
<1>5. /\ C!DisconnectStatements \in Seq(C!Told) /\ C!MakeRoom \in Seq(C!Told)
      /\ C!ConnectStatements \in Seq(C!Told) /\ C!CreateStatements \in Seq(C!Told) /\ <<>> \in Seq(C!Told)
  BY DisconnectTold, RoomTold, ConnectTold, CreateTold
<1>6. CASE C!Attaching = "none"
  <2>1. C!MakeRoom = <<>> /\ C!ConnectStatements = <<>> /\ C!CreateStatements = <<>>
    BY <1>1, <1>4, <1>6, AttachingIs DEF C!MakeRoom, C!ConnectStatements
  <2>2. C!Statements = (((<<>> \o C!DisconnectStatements) \o <<>>) \o <<>>) \o <<>>
    BY <1>2, <2>1 DEF C!Statements
  <2>3. C!Statements = C!DisconnectStatements
    BY <1>5, <2>2, EmptyEnds
  <2> QED BY <1>3, <1>6, <2>3
<1>7. CASE C!Attaching = "create"
  <2>1. ~C!Given(input.connect) /\ input.create = 1
    BY <1>1, <1>7, AttachingIs
  <2>2. C!MakeRoom = <<>> \o <<Room("create")>>
    BY <1>7, <2>1 DEF C!MakeRoom, C!Detach, Room
  <2>3. C!MakeRoom = <<Room("create")>>
    BY <2>2
  <2>4. C!ConnectStatements = <<>> /\ C!DisconnectStatements = <<>> /\ C!CreateStatements = <<CreateOne>>
    BY <1>1, <1>3, <1>4, <2>1 DEF C!ConnectStatements
  <2>5. C!Statements = (((<<>> \o <<>>) \o C!MakeRoom) \o <<>>) \o C!CreateStatements
    BY <1>2, <2>4 DEF C!Statements
  <2>6. C!Statements = C!MakeRoom \o C!CreateStatements
    BY <1>5, <2>5, EmptyEnds
  <2> QED BY <1>7, <2>1, <2>3, <2>4, <2>6
<1>8. CASE C!Attaching = "connect" /\ plan.writesKey
  <2>1. C!Given(input.connect) /\ ~plan.canDetach /\ Len(input.connect) = 1
    BY <1>1, <1>8, AttachingIs DEF C!Stays, C!Plans
  <2>2. C!MakeRoom = <<MatchOne>> \o <<>>
    BY <1>8, <2>1 DEF C!MakeRoom, MatchOne
  <2>3. C!MakeRoom = <<MatchOne>>
    BY <2>2
  <2>4. C!ConnectStatements = <<CheckHeld>>
    <3>1. DOMAIN input.connect = {1}
      BY <2>1, OperandType
    <3> QED BY <1>8, <2>1, <3>1 DEF C!ConnectStatements, CheckHeld
  <2>5. C!DisconnectStatements = <<>> /\ C!CreateStatements = <<>>
    BY <1>1, <1>3, <1>4, <2>1 DEF C!Given
  <2>6. C!Statements = (((<<>> \o <<>>) \o C!MakeRoom) \o C!ConnectStatements) \o <<>>
    BY <1>2, <2>5 DEF C!Statements
  <2>7. C!Statements = C!MakeRoom \o C!ConnectStatements
    BY <1>5, <2>6, EmptyEnds
  <2> QED BY <1>8, <2>3, <2>4, <2>7
<1>9. CASE C!Attaching = "connect" /\ ~plan.writesKey
  <2> DEFINE attach == C!Attach("connect", input.connect)
  <2>1. C!Given(input.connect) /\ Len(input.connect) = 1
    BY <1>1, <1>9, AttachingIs
  <2>2. C!MakeRoom = <<MatchOne>> \o <<Room("connect")>>
    BY <1>9, <2>1 DEF C!MakeRoom, C!Detach, MatchOne, Room
  <2>3. C!ConnectStatements = attach
    BY <1>9, <2>1 DEF C!ConnectStatements
  <2>4. attach \in Seq(C!Attached)
    BY <2>1, OperandType, AttachType DEF C!Attached
  <2>5. C!DisconnectStatements = <<>> /\ C!CreateStatements = <<>>
    BY <1>1, <1>3, <1>4, <2>1 DEF C!Given
  <2> HIDE DEF attach
  <2>6. C!Statements = (((<<>> \o <<>>) \o C!MakeRoom) \o attach) \o <<>>
    BY <1>2, <2>3, <2>5 DEF C!Statements
  <2>7. C!Statements = C!MakeRoom \o attach
    BY <1>5, <2>3, <2>6, EmptyEnds
  <2>8. (<<MatchOne>> \o <<Room("connect")>>) \o attach = <<MatchOne>> \o (<<Room("connect")>> \o attach)
    <3> DEFINE S == C!Told \cup {MatchOne, Room("connect")}
    <3>1. <<MatchOne>> \in Seq(S) /\ <<Room("connect")>> \in Seq(S)
      OBVIOUS
    <3>2. attach \in Seq(S)
      BY <1>5, <2>3, SeqOfMore
    <3> HIDE DEF S
    <3> QED BY <3>1, <3>2, Regroup
  <2> QED BY <1>9, <2>2, <2>4, <2>7, <2>8 DEF attach
<1> QED BY <1>6, <1>7, <1>8, <1>9, AttachingIs

\* What a to-one's statements are decided by does not change.
LEMMA OneSame ==
  ASSUME UNCHANGED <<plan, input, parents>>
  PROVE  /\ C!Statements' = C!Statements /\ C!Attaching' = C!Attaching
         /\ C!CreateStatements' = C!CreateStatements /\ C!Attached' = C!Attached
         /\ C!Parents' = C!Parents /\ C!ReadsKey' = C!ReadsKey
<1>1. C!Attaching' = C!Attaching /\ C!CreateStatements' = C!CreateStatements
  BY DEF C!Attaching, C!CreateStatements
<1>2. C!Statements' = C!Statements
  BY <1>1 DEF C!Statements, C!SetStatements, C!DisconnectStatements, C!MakeRoom, C!ConnectStatements,
     C!Attach
<1>3. C!Parents' = C!Parents /\ C!Attached' = C!Attached
  BY DEF C!Parents, C!Attached
<1>4. C!ReadsKey' = C!ReadsKey
  BY DEF C!ReadsKey
<1> QED BY <1>1, <1>2, <1>3, <1>4

\* Which action runs the next statement.
LEMMA ActionOf ==
  ASSUME C!Next, step = "running", todo # <<>>, step' # "failed"
  PROVE  /\ Head(todo).do \in {"detach", "detachMatching"} => C!RunDetach
         /\ Head(todo).do = "attach" => C!RunAttach
         /\ Head(todo).do = "create" => C!RunCreate
         /\ Head(todo).do \in {"matchOne", "refuseHeld", "checkHeld"} => C!Passes
         /\ todo' = Tail(todo)
BY DEF C!Next, C!Begin, C!RunDetach, C!RunAttach, C!RunCreate, C!Passes, C!Fails, C!Finish, C!Ended, C!Step

\* A detach leaves no row with a written parent.
LEMMA DetachClears ==
  ASSUME C!Stays, C!RunDetach, Head(todo).do = "detach"
  PROVE  C!HeldByBatch' = {}
<1>1. C!Write([r \in C!HeldByBatch |-> NoHolder], <<Head(todo).by, "update">>)
  BY DEF C!RunDetach
<1>2. C!Parents' = C!Parents /\ NoHolder \notin C!Parents
  BY OperandType, ChildGround DEF C!RunDetach, C!Keeps, C!Parents, C!ToSet
<1>3. \A r \in C!TargetRow \ HiddenRow : key'[r] \notin C!Parents
  BY <1>1, <1>2, KeysAfter DEF C!HeldByBatch
<1> QED BY <1>2, <1>3 DEF C!HeldByBatch, C!TargetRow, C!New

\* What a refuseHeld that passes says of the rows the written parents hold.
LEMMA RefusalPassed ==
  ASSUME C!Passes, Head(todo).do = "refuseHeld"
  PROVE  /\ \A r \in C!HeldByBatch : \E j \in DOMAIN Head(todo).list : C!Selects(Head(todo).list[j], r)
         /\ UNCHANGED <<key, parents>>
<1>1. ~C!Refused(Head(todo)) /\ UNCHANGED <<key, parents>>
  BY DEF C!Passes, C!Keeps
<1> QED BY <1>1 DEF C!Refused

\* The first statement of a to-one, while its parents hold what they held.
LEMMA UntouchedStep ==
  ASSUME C!Stays, C!KeyInv, plan.isOne, ~C!ReadsKey, C!Untouched, C!Next,
         step = "running", todo # <<>>, step' # "failed", UNCHANGED <<plan, input, parents, saved>>
  PROVE  C!OneFound' \/ C!NoneComes' \/ C!RoomMade'
<1>0. /\ C!Statements' = C!Statements /\ C!Attaching' = C!Attaching
      /\ C!CreateStatements' = C!CreateStatements /\ C!Parents' = C!Parents
  BY OneSame
<1>1. C!Parents \subseteq Parent /\ NoHolder \notin Parent
  BY OperandType, ChildGround DEF C!Parents, C!ToSet
<1>2. \A r, s \in C!TargetRow \ HiddenRow : key[r] = key[s] /\ key[r] \in Parent => r = s
  BY DEF C!KeyInv, C!Untouched
<1>3. CASE C!Attaching = "none"
  <2>1. todo = <<[do |-> "detach", by |-> "disconnect"]>>
    BY <1>3, ToOneProgram DEF C!Untouched
  <2>2. Head(todo).do = "detach" /\ Tail(todo) = <<>>
    BY <2>1
  <2>3. C!RunDetach /\ todo' = <<>>
    BY <2>2, ActionOf
  <2>4. C!HeldByBatch' = {}
    BY <2>2, <2>3, DetachClears
  <2>5. \A r \in C!TargetRow \ HiddenRow : key'[r] \notin C!Parents
    BY <1>0, <2>4 DEF C!HeldByBatch, C!TargetRow, C!New
  <2>6. C!Alone'
    BY <1>0, <2>5 DEF C!Alone, C!TargetRow, C!New
  <2>7. C!NoneComes'
    BY <1>0, <1>3, <2>3, <2>6 DEF C!NoneComes
  <2> QED BY <2>7
<1>4. CASE C!Attaching = "create"
  <2>1. Head(todo) = Room("create") /\ Tail(todo) = <<CreateOne>> /\ C!CreateStatements = <<CreateOne>>
    <3>1. C!CreateStatements = <<CreateOne>> /\ todo = <<Room("create")>> \o <<CreateOne>>
      BY <1>4, ToOneProgram DEF C!Untouched
    <3> QED BY <3>1, OneAndOne
  <2>2. C!HeldByBatch' = {}
    <3>1. CASE plan.canDetach
      <4>1. Head(todo).do = "detach"
        BY <2>1, <3>1 DEF Room
      <4> QED BY <4>1, ActionOf, DetachClears
    <3>2. CASE ~plan.canDetach
      <4>1. ~C!Given(input.connect)
        BY <1>4, AttachingIs
      <4>2. Head(todo).do = "refuseHeld" /\ Head(todo).list = <<>>
        BY <2>1, <3>2, <4>1 DEF Room
      <4>3. C!Passes
        BY <4>2, ActionOf
      <4>4. C!HeldByBatch = {} /\ UNCHANGED <<key, parents>>
        BY <4>2, <4>3, RefusalPassed
      <4> QED BY <4>4 DEF C!HeldByBatch, C!Parents, C!TargetRow, C!New
    <3> QED BY <3>1, <3>2
  <2>3. todo' = Tail(todo)
    BY ActionOf
  <2> QED BY <1>0, <1>4, <2>1, <2>2, <2>3 DEF C!RoomMade
<1>5. CASE C!Attaching = "connect"
  <2>1. C!Given(input.connect)
    BY <1>5, AttachingIs
  <2>2. Head(todo) = MatchOne
    <3>1. CASE plan.writesKey
      <4>1. todo = <<MatchOne>> \o <<CheckHeld>>
        BY <1>5, <3>1, ToOneProgram DEF C!Untouched
      <4> QED BY <4>1, OneAndOne
    <3>2. CASE ~plan.writesKey
      <4> DEFINE rest_ == <<Room("connect")>> \o C!Attach("connect", input.connect)
      <4>1. todo = <<MatchOne>> \o rest_ /\ C!Attach("connect", input.connect) \in Seq(C!Attached)
        BY <1>5, <3>2, ToOneProgram DEF C!Untouched
      <4> DEFINE S == C!Attached \cup {MatchOne, Room("connect")}
      <4>2. C!Attach("connect", input.connect) \in Seq(S)
        BY <4>1, SeqOfMore
      <4>3. MatchOne \in S /\ Room("connect") \in S
        OBVIOUS
      <4> HIDE DEF S
      <4>4. rest_ \in Seq(S)
        BY <4>2, <4>3, FirstAndRest
      <4> HIDE DEF rest_
      <4> QED BY <4>1, <4>3, <4>4, FirstAndRest
    <3> QED BY <3>1, <3>2
  <2>3. C!Passes /\ Head(todo).do = "matchOne" /\ todo' = Tail(todo)
    BY <2>2, ActionOf DEF MatchOne
  <2>4. UNCHANGED key /\ C!Cardinality(C!Reached(input.connect[1])) = 1
    BY <2>2, <2>3 DEF C!Passes, C!Refused, MatchOne
  <2>5. C!Reached(input.connect[1])' = C!Reached(input.connect[1])
    BY <2>4 DEF C!Reached, C!Exists, C!Selects, C!TargetRow, C!New
  <2> QED BY <1>0, <2>1, <2>3, <2>4, <2>5 DEF C!OneFound, C!Untouched
<1> QED BY <1>3, <1>4, <1>5, AttachingIs

\* What one statement of a to-one connect has found stays found.
LEMMA FoundStays ==
  ASSUME C!Stays, plan.isOne, ~C!ReadsKey, C!Given(input.connect), UNCHANGED <<plan, input, parents>>,
         \A r \in Row : key[r] # Nowhere /\ key'[r] # Nowhere
  PROVE  C!Reached(input.connect[1])' = C!Reached(input.connect[1])
<1> DEFINE f == input.connect[1]
<1>1. f \in C!Filter /\ input.connect \in Seq(C!Filter) /\ Len(input.connect) = 1
  BY AttachingIs, OperandType
<1>2. f.holder = AnyHolder
  <2>1. f \in C!ToSet(input.connect)
    BY <1>1 DEF C!ToSet
  <2> QED BY <2>1 DEF C!ReadsKey, C!Operands
<1>3. f.rows \subseteq Row
  BY <1>1 DEF C!Filter
<1> QED BY <1>2, <1>3, ChildGround DEF C!Reached, C!Exists, C!Selects, C!TargetRow, C!New

\* The statement after a to-one connect has found its row.
LEMMA OneFoundStep ==
  ASSUME C!Stays, C!KeyInv, plan.isOne, ~C!ReadsKey, C!OneFound, C!Next, \A r \in Row : key'[r] # Nowhere,
         step = "running", todo # <<>>, step' # "failed", UNCHANGED <<plan, input, parents, saved>>
  PROVE  C!NoneComes' \/ C!OneAttached'
<1>0. C!Attaching' = C!Attaching /\ C!Parents' = C!Parents /\ C!Attached' = C!Attached
  BY OneSame
<1>1. C!Parents \subseteq Parent
  BY OperandType DEF C!Parents, C!ToSet
<1>2. C!Given(input.connect) /\ C!Attaching = "connect" /\ todo = Tail(C!Statements)
  BY AttachingIs DEF C!OneFound
<1>3. C!Reached(input.connect[1])' = C!Reached(input.connect[1])
      /\ C!Cardinality(C!Reached(input.connect[1])) = 1
  BY <1>2, FoundStays DEF C!KeyInv, C!OneFound
<1>4. CASE plan.writesKey
  <2>1. C!Statements = <<MatchOne>> \o <<CheckHeld>>
    BY <1>2, <1>4, ToOneProgram
  <2>2. Head(todo) = CheckHeld /\ Tail(todo) = <<>>
    BY <1>2, <2>1, OneAndOne
  <2>3. C!Passes /\ todo' = <<>> /\ Head(todo).do = "checkHeld"
    BY <2>2, ActionOf DEF CheckHeld
  <2>4. key' = saved
    BY <2>3 DEF C!Passes, C!OneFound
  <2>5. C!Alone'
    BY <1>0, <1>1, <2>4 DEF C!Alone, C!KeyInv, C!TargetRow, C!New
  <2>6. C!NoneComes'
    BY <1>0, <1>2, <1>4, <2>3, <2>5 DEF C!NoneComes
  <2> QED BY <2>6
<1>5. CASE ~plan.writesKey
  <2> DEFINE attach == C!Attach("connect", input.connect)
             S == C!Attached \cup {MatchOne, Room("connect")}
  <2>1. attach \in Seq(C!Attached) /\ C!Statements = <<MatchOne>> \o (<<Room("connect")>> \o attach)
    BY <1>2, <1>5, ToOneProgram
  <2>2. MatchOne \in S /\ Room("connect") \in S /\ C!Attached \subseteq S
    OBVIOUS
  <2> HIDE DEF S, attach
  <2>3. attach \in Seq(S)
    BY <2>1, <2>2, SeqOfMore
  <2>4. <<Room("connect")>> \o attach \in Seq(S)
    BY <2>2, <2>3, FirstAndRest
  <2>5. todo = <<Room("connect")>> \o attach
    BY <1>2, <2>1, <2>2, <2>4, FirstAndRest
  <2>6. Head(todo) = Room("connect") /\ Tail(todo) = attach
    BY <2>2, <2>3, <2>5, FirstAndRest
  <2>7. todo' = Tail(todo)
    BY ActionOf
  <2>8. C!HeldByBatch' \subseteq C!Reached(input.connect[1])
    <3>1. CASE plan.canDetach
      <4>1. Head(todo).do = "detach"
        BY <2>6, <3>1 DEF Room
      <4>2. C!RunDetach
        BY <4>1, ActionOf
      <4>3. C!HeldByBatch' = {}
        BY <4>1, <4>2, DetachClears
      <4> QED BY <4>3
    <3>2. CASE ~plan.canDetach
      <4>1. Head(todo).do = "refuseHeld" /\ Head(todo).list = input.connect
        BY <1>2, <2>6, <3>2 DEF Room
      <4>2. C!Passes
        BY <4>1, ActionOf
      <4>3. UNCHANGED <<key, parents>>
            /\ \A r \in C!HeldByBatch : \E j \in DOMAIN input.connect : C!Selects(input.connect[j], r)
        BY <4>1, <4>2, RefusalPassed
      <4>4. DOMAIN input.connect = {1}
        BY <1>2, AttachingIs, OperandType
      <4>5. \A r \in C!HeldByBatch : C!Selects(input.connect[1], r)
        BY <4>3, <4>4
      <4>6. \A r \in C!HeldByBatch : r \in C!TargetRow \ HiddenRow /\ key[r] # Nowhere
        BY <1>1, ChildGround DEF C!HeldByBatch
      <4>7. C!HeldByBatch \subseteq C!Reached(input.connect[1])
        BY <4>5, <4>6 DEF C!Reached, C!Exists
      <4>8. C!HeldByBatch' = C!HeldByBatch
        BY <4>3 DEF C!HeldByBatch, C!Parents, C!TargetRow, C!New
      <4> QED BY <4>7, <4>8
    <3> QED BY <3>1, <3>2
  <2>9. C!OneAttached'
    BY <1>0, <1>2, <1>3, <1>5, <2>1, <2>6, <2>7, <2>8 DEF C!OneAttached
  <2> QED BY <2>9
<1> QED BY <1>4, <1>5

\* A created row fills the room that was made.
LEMMA RoomMadeStep ==
  ASSUME C!Stays, plan.isOne, C!RoomMade, C!Next,
         step = "running", todo # <<>>, step' # "failed", UNCHANGED <<plan, input, parents, saved>>
  PROVE  C!RoomFilled'
<1>0. C!Attaching' = C!Attaching /\ C!Parents' = C!Parents
  BY OneSame
<1>1. input.create = 1 /\ C!CreateStatements = <<CreateOne>>
  BY ToOneProgram DEF C!RoomMade
<1>2. Head(todo).do = "create" /\ Tail(todo) = <<>>
  BY <1>1 DEF C!RoomMade, CreateOne
<1>3. C!RunCreate /\ todo' = <<>>
  BY <1>2, ActionOf
<1>4. C!Write([r \in C!Parents \X (1..1) |-> r[1]], <<"create", "insert">>)
  BY <1>1, <1>3 DEF C!RunCreate
<1>5. ASSUME NEW r \in C!TargetRow \ HiddenRow, key'[r] \in C!Parents PROVE r = <<key'[r], 1>>
  <2>1. r \in C!Parents \X (1..1)
    <3>1. CASE r \notin C!Parents \X (1..1)
      <4>1. key'[r] = key[r]
        BY <1>4, <1>5, <3>1, KeysAfter
      <4> QED BY <1>5, <4>1 DEF C!RoomMade, C!HeldByBatch
    <3> QED BY <3>1
  <2>2. key'[r] = r[1]
    BY <1>4, <1>5, <2>1, KeysAfter
  <2> QED BY <2>1, <2>2
<1>6. \A r \in C!HeldByBatch' : r = <<key'[r], 1>>
  BY <1>0, <1>5 DEF C!HeldByBatch, C!TargetRow, C!New
<1> QED BY <1>0, <1>3, <1>6 DEF C!RoomFilled, C!RoomMade

\* An attach gives a parent the row that was found, and no other.
LEMMA OneAttachedStep ==
  ASSUME C!Stays, C!KeyInv, plan.isOne, ~C!ReadsKey, C!OneAttached, C!Next,
         \A r \in Row : key'[r] # Nowhere,
         step = "running", todo # <<>>, step' # "failed", UNCHANGED <<plan, input, parents, saved>>
  PROVE  C!OneAttached'
<1>0. C!Attaching' = C!Attaching /\ C!Parents' = C!Parents /\ C!Attached' = C!Attached
  BY OneSame
<1>1. C!Attaching = "connect" /\ ~plan.writesKey /\ todo \in Seq(C!Attached) /\ C!Given(input.connect)
  BY AttachingIs DEF C!OneAttached
<1>2. C!Reached(input.connect[1])' = C!Reached(input.connect[1])
      /\ C!Cardinality(C!Reached(input.connect[1])) = 1
      /\ C!HeldByBatch \subseteq C!Reached(input.connect[1])
  BY <1>1, FoundStays DEF C!KeyInv, C!OneAttached
<1>3. Head(todo) \in C!Attached /\ Tail(todo) \in Seq(C!Attached)
  BY <1>1, HeadTold
<1>4. Head(todo).do = "attach" /\ Head(todo).filter = input.connect[1]
  <2>1. DOMAIN input.connect = {1}
    BY <1>1, AttachingIs, OperandType
  <2>2. C!ToSet(input.connect) = {input.connect[1]}
    BY <2>1 DEF C!ToSet
  <2> QED BY <1>3, <2>2 DEF C!Attached
<1>5. C!RunAttach /\ todo' = Tail(todo)
  BY <1>4, ActionOf
<1>6. C!Write([r \in C!Reached(input.connect[1]) |-> Head(todo).to], <<Head(todo).by, "update">>)
  BY <1>4, <1>5 DEF C!RunAttach
<1>7. ASSUME NEW r \in C!TargetRow \ HiddenRow, key'[r] \in C!Parents, r \notin C!Reached(input.connect[1])
      PROVE  r \in C!HeldByBatch
  <2>1. key'[r] = key[r]
    BY <1>6, <1>7, KeysAfter
  <2> QED BY <1>7, <2>1 DEF C!HeldByBatch
<1>8. C!HeldByBatch' \subseteq C!Reached(input.connect[1])
  BY <1>0, <1>2, <1>7 DEF C!HeldByBatch, C!TargetRow, C!New
<1>9. C!OneAttached'
  BY <1>0, <1>1, <1>2, <1>3, <1>5, <1>8 DEF C!OneAttached
<1> QED BY <1>9

LEMMA ToOneStays ==
  ASSUME C!ToOneInv, UNCHANGED <<plan, input, parents, key, saved, todo>>,
         step' \in {"running", "done"} => step \in {"running", "done"}
  PROVE  C!ToOneInv'
<1> SUFFICES ASSUME plan'.isOne, parents' # <<>>, ~C!ReadsKey', step' \in {"running", "done"}
             PROVE  \/ C!Untouched' \/ C!OneFound' \/ C!NoneComes'
                    \/ C!RoomMade' \/ C!RoomFilled' \/ C!OneAttached'
  BY DEF C!ToOneInv
<1>1. /\ C!Statements' = C!Statements /\ C!Attaching' = C!Attaching
      /\ C!CreateStatements' = C!CreateStatements /\ C!Attached' = C!Attached
      /\ C!Parents' = C!Parents /\ C!ReadsKey' = C!ReadsKey
  BY OneSame
<1>2. C!Untouched \/ C!OneFound \/ C!NoneComes \/ C!RoomMade \/ C!RoomFilled \/ C!OneAttached
  BY <1>1 DEF C!ToOneInv
<1>3. C!HeldByBatch' = C!HeldByBatch /\ (C!Alone <=> C!Alone')
  BY DEF C!HeldByBatch, C!Alone, C!Parents, C!TargetRow, C!New
<1>4. C!Reached(input.connect[1])' = C!Reached(input.connect[1])
  BY DEF C!Reached, C!Exists, C!Selects, C!TargetRow, C!New
<1>5. (C!Untouched => C!Untouched') /\ (C!OneFound => C!OneFound') /\ (C!NoneComes => C!NoneComes')
  BY <1>1, <1>3, <1>4 DEF C!Untouched, C!OneFound, C!NoneComes
<1>6. C!RoomMade => C!RoomMade'
  BY <1>1, <1>3 DEF C!RoomMade
<1>7. C!RoomFilled => C!RoomFilled'
  BY <1>1, <1>3 DEF C!RoomFilled
<1>8. C!OneAttached => C!OneAttached'
  BY <1>1, <1>3, <1>4 DEF C!OneAttached
<1> QED BY <1>2, <1>5, <1>6, <1>7, <1>8

LEMMA ToOneKeep == ASSUME C!HooksInv, C!KeyInv, C!KeyInv', C!ToOneInv, C!Next PROVE C!ToOneInv'
<1> SUFFICES ASSUME plan'.isOne, parents' # <<>>, ~C!ReadsKey', step' \in {"running", "done"}
             PROVE  \/ C!Untouched' \/ C!OneFound' \/ C!NoneComes'
                    \/ C!RoomMade' \/ C!RoomFilled' \/ C!OneAttached'
  BY DEF C!ToOneInv
<1>0. UNCHANGED <<plan, input, parents, saved>> /\ step' # "failed"
  BY DEF C!Next, C!Begin, C!RunDetach, C!RunAttach, C!RunCreate, C!Passes, C!Fails, C!Finish, C!Ended,
     C!Keeps, C!vars
<1>1. /\ C!Statements' = C!Statements /\ C!Attaching' = C!Attaching
      /\ C!CreateStatements' = C!CreateStatements /\ C!Attached' = C!Attached
      /\ C!Parents' = C!Parents /\ C!ReadsKey' = C!ReadsKey
  BY <1>0, OneSame
<1>2. C!Stays /\ plan.isOne /\ parents # <<>> /\ ~C!ReadsKey /\ \A r \in Row : key'[r] # Nowhere
  BY <1>0, <1>1 DEF C!HooksInv, C!KeyInv
<1>3. CASE C!Begin
  <2>1. key' = saved' /\ todo' = C!Statements
    BY <1>0, <1>2, <1>3 DEF C!Begin, C!KeyInv
  <2> QED BY <1>1, <2>1 DEF C!Untouched
<1>4. CASE C!Finish \/ C!Ended
  <2>1. UNCHANGED <<plan, input, parents, key, saved, todo>> /\ step \in {"running", "done"}
    BY <1>0, <1>4 DEF C!Finish, C!Ended, C!vars
  <2>2. C!ToOneInv'
    BY <2>1, ToOneStays
  <2> QED BY <1>1, <1>2, <2>2 DEF C!ToOneInv
<1>5. CASE step = "running" /\ todo # <<>>
  <2>1. C!Untouched \/ C!OneFound \/ C!NoneComes \/ C!RoomMade \/ C!RoomFilled \/ C!OneAttached
    BY <1>2, <1>5 DEF C!ToOneInv
  <2>2. CASE C!Untouched
    BY <1>0, <1>2, <1>5, <2>2, UntouchedStep
  <2>3. CASE C!OneFound
    BY <1>0, <1>2, <1>5, <2>3, OneFoundStep
  <2>4. CASE C!NoneComes \/ C!RoomFilled
    BY <1>5, <2>4 DEF C!NoneComes, C!RoomFilled
  <2>5. CASE C!RoomMade
    BY <1>0, <1>2, <1>5, <2>5, RoomMadeStep
  <2>6. CASE C!OneAttached
    BY <1>0, <1>2, <1>5, <2>6, OneAttachedStep
  <2> QED BY <2>1, <2>2, <2>3, <2>4, <2>5, <2>6
<1>6. C!Fails => FALSE
  BY <1>0 DEF C!Fails
<1>7. C!RunDetach \/ C!RunAttach \/ C!RunCreate \/ C!Passes => step = "running" /\ todo # <<>>
  BY DEF C!RunDetach, C!RunAttach, C!RunCreate, C!Passes, C!Step
<1> QED BY <1>3, <1>4, <1>5, <1>6, <1>7 DEF C!Next

\* What a to-one's statements leave shows at most one row for each parent.
LEMMA ToOneHolds == ASSUME C!HooksInv, C!KeyInv, C!ToOneInv PROVE C!ToOneHoldsOne
<1> SUFFICES ASSUME step = "done", plan.isOne, ~C!ReadsKey, NEW p \in C!Parents
             PROVE  C!Cardinality({r \in C!TargetRow \ HiddenRow : key[r] = p}) <= 1
  BY DEF C!ToOneHoldsOne
<1> DEFINE those == {r \in C!TargetRow \ HiddenRow : key[r] = p}
<1>0. C!Stays
  BY DEF C!HooksInv
<1>1. p \in Parent /\ parents # <<>>
  BY <1>0, OperandType DEF C!Parents, C!ToSet
<1>2. those \subseteq C!HeldByBatch
  BY DEF C!HeldByBatch
<1>3. \A r, s \in those : r = s
  <2>1. CASE C!Untouched \/ C!OneFound
    BY <1>1, <2>1 DEF C!Untouched, C!OneFound, C!KeyInv
  <2>2. CASE C!NoneComes
    BY <2>2 DEF C!NoneComes, C!Alone
  <2>3. CASE C!RoomMade
    BY <1>2, <2>3 DEF C!RoomMade
  <2>4. CASE C!RoomFilled
    <3>1. \A r \in those : r = <<p, 1>>
      BY <1>2, <2>4 DEF C!RoomFilled
    <3> QED BY <3>1
  <2>5. CASE C!OneAttached
    <3> DEFINE found == C!Reached(input.connect[1])
    <3>1. C!Given(input.connect) /\ C!Cardinality(found) = 1 /\ those \subseteq found
      BY <1>0, <1>2, <2>5, AttachingIs DEF C!OneAttached
    <3>2. found \subseteq Row
      BY <1>0, <3>1, AttachingIs DEF C!Reached, C!Selects, C!Filter
    <3>3. IsFiniteSet(found)
      BY <3>2, ChildGround, FS_Subset
    <3> HIDE DEF found
    <3>4. \E x : found = {x}
      BY <3>1, <3>3, SameCount, FS_Singleton
    <3> QED BY <3>1, <3>4
  <2> QED BY <1>1, <2>1, <2>2, <2>3, <2>4, <2>5 DEF C!ToOneInv
<1> HIDE DEF those
<1>4. those = {} \/ \E x : those = {x}
  BY <1>3
<1>5. Cardinality(those) \in {0, 1}
  BY <1>4, FS_EmptySet, FS_Singleton
<1> QED BY <1>5, SameCount DEF those

-----------------------------------------------------------------------------
(* A key on the target: every row ends where the input says. *)

\* The parents of a write are parents, and the last is one of them.
LEMMA ParentFacts ==
  ASSUME C!Stays
  PROVE  /\ C!Parents \subseteq Parent /\ NoHolder \notin C!Parents /\ Nowhere \notin C!Parents
         /\ parents # <<>> => C!LastParent \in C!Parents /\ C!LastParent = parents[Len(parents)]
BY OperandType, ChildGround DEF C!Parents, C!ToSet, C!LastParent, C!Last

\* Two lists end to end: the second begins where the first ends.
LEMMA Joined ==
  ASSUME NEW S, NEW a \in Seq(S), NEW b \in Seq(S)
  PROVE  /\ a \o b \in Seq(S) /\ Len(a \o b) = Len(a) + Len(b) /\ Len(a) \in Nat /\ Len(b) \in Nat
         /\ \A n \in 1..Len(a) : (a \o b)[n] = a[n] /\ n \in 1..Len(a \o b)
         /\ \A n \in 1..Len(b) : (a \o b)[Len(a) + n] = b[n] /\ Len(a) + n \in 1..Len(a \o b)
OBVIOUS

\* What a list clears after some point, when it is the end of another, or the beginning.
LEMMA KeptPast ==
  ASSUME NEW S, NEW a \in Seq(S), NEW b \in Seq(S), NEW r, NEW at_, NEW n \in 1..(Len(b) + 1)
  PROVE  C!Kept(a \o b, r, Len(a) + n, at_) = C!Kept(b, r, n, at_)
<1> DEFINE ab == a \o b  p == Len(a)  q == Len(b)
<1>1. /\ Len(ab) = p + q /\ p \in Nat /\ q \in Nat
      /\ \A m \in 1..q : ab[p + m] = b[m]
  BY Joined
<1> HIDE DEF ab, p, q
<1>2. n \in 1..(q + 1)
  BY DEF q
<1>3. (\E m \in (p + n)..Len(ab) : C!Clears(ab[m], r)) <=> \E m \in n..q : C!Clears(b[m], r)
  <2>1. ASSUME NEW m \in (p + n)..Len(ab), C!Clears(ab[m], r) PROVE \E k \in n..q : C!Clears(b[k], r)
    <3>1. m - p \in n..q /\ m - p \in 1..q /\ p + (m - p) = m
      BY <1>1, <1>2
    <3>2. ab[m] = b[m - p]
      BY <1>1, <3>1
    <3> QED BY <2>1, <3>1, <3>2
  <2>2. ASSUME NEW m \in n..q, C!Clears(b[m], r) PROVE \E k \in (p + n)..Len(ab) : C!Clears(ab[k], r)
    <3>1. p + m \in (p + n)..Len(ab) /\ m \in 1..q
      BY <1>1, <1>2
    <3> QED BY <1>1, <2>2, <3>1
  <2> QED BY <2>1, <2>2
<1> QED BY <1>3 DEF C!Kept, ab, p, q

LEMMA KeptOn ==
  ASSUME C!Stays, NEW S, NEW a \in Seq(S), NEW b \in Seq(S), NEW r, NEW at_, NEW n \in 1..(Len(a) + 1)
  PROVE  C!Kept(a \o b, r, n, at_) = C!Kept(b, r, 1, C!Kept(a, r, n, at_))
<1> DEFINE ab == a \o b  p == Len(a)  q == Len(b)
           InA == \E m \in n..p : C!Clears(a[m], r)
           InB == \E m \in 1..q : C!Clears(b[m], r)
<1>1. /\ Len(ab) = p + q /\ p \in Nat /\ q \in Nat
      /\ \A m \in 1..p : ab[m] = a[m]
      /\ \A m \in 1..q : ab[p + m] = b[m]
  BY Joined
<1> HIDE DEF ab, p, q
<1>2. n \in 1..(p + 1)
  BY DEF p
<1>3. (\E m \in n..Len(ab) : C!Clears(ab[m], r)) <=> InA \/ InB
  <2>1. ASSUME NEW m \in n..Len(ab), C!Clears(ab[m], r) PROVE InA \/ InB
    <3>1. CASE m <= p
      <4>1. m \in n..p /\ m \in 1..p
        BY <1>1, <1>2, <3>1
      <4> QED BY <1>1, <2>1, <4>1
    <3>2. CASE m > p
      <4>1. m - p \in 1..q /\ p + (m - p) = m
        BY <1>1, <1>2, <3>2
      <4>2. ab[m] = b[m - p]
        BY <1>1, <4>1
      <4> QED BY <2>1, <4>1, <4>2
    <3> QED BY <1>1, <1>2, <3>1, <3>2
  <2>2. ASSUME NEW m \in n..p, C!Clears(a[m], r) PROVE \E k \in n..Len(ab) : C!Clears(ab[k], r)
    <3>1. m \in n..Len(ab) /\ m \in 1..p
      BY <1>1, <1>2
    <3> QED BY <1>1, <2>2, <3>1
  <2>3. ASSUME NEW m \in 1..q, C!Clears(b[m], r) PROVE \E k \in n..Len(ab) : C!Clears(ab[k], r)
    <3>1. p + m \in n..Len(ab)
      BY <1>1, <1>2
    <3> QED BY <1>1, <2>3, <3>1
  <2> QED BY <2>1, <2>2, <2>3
<1>4. NoHolder \notin C!Parents
  BY ParentFacts
<1> HIDE DEF InA, InB
<1>5. C!Kept(ab, r, n, at_) = IF at_ \in C!Parents /\ (InA \/ InB) THEN NoHolder ELSE at_
  BY <1>3 DEF C!Kept
<1>6. C!Kept(a, r, n, at_) = IF at_ \in C!Parents /\ InA THEN NoHolder ELSE at_
  BY DEF C!Kept, InA, p
<1>7. \A x : C!Kept(b, r, 1, x) = IF x \in C!Parents /\ InB THEN NoHolder ELSE x
  BY DEF C!Kept, InB, q
<1> QED BY <1>4, <1>5, <1>6, <1>7 DEF ab

\* One list after another leads where the second leads from where the first one does.
LEMMA LeadsOn ==
  ASSUME C!Stays, NEW S, NEW a \in Seq(S), NEW b \in Seq(S), NEW r, NEW from, NEW via, NEW to,
         C!Leads(a, r, from, via), C!Leads(b, r, via, to)
  PROVE  C!Leads(a \o b, r, from, to)
<1> DEFINE ab == a \o b  p == Len(a)  q == Len(b)
<1>1. /\ Len(ab) = p + q /\ p \in Nat /\ q \in Nat
      /\ \A m \in 1..p : ab[m] = a[m]
      /\ \A m \in 1..q : ab[p + m] = b[m]
  BY Joined
<1>2. /\ \A n \in 1..(q + 1) : \A x : C!Kept(ab, r, p + n, x) = C!Kept(b, r, n, x)
      /\ \A n \in 1..(p + 1) : \A x : C!Kept(ab, r, n, x) = C!Kept(b, r, 1, C!Kept(a, r, n, x))
  BY KeptPast, KeptOn
<1>3. \A m \in 1..(p + q) : m \in 1..p \/ (m - p \in 1..q /\ p + (m - p) = m)
  BY <1>1
<1>4. /\ \/ \E n \in 1..p : /\ C!Puts(a[n], r) /\ \A m \in (n + 1)..p : ~C!Puts(a[m], r)
                            /\ via = C!Kept(a, r, n + 1, a[n].to)
         \/ (\A n \in 1..p : ~C!Puts(a[n], r)) /\ via = C!Kept(a, r, 1, from)
      /\ \/ \E n \in 1..q : /\ C!Puts(b[n], r) /\ \A m \in (n + 1)..q : ~C!Puts(b[m], r)
                            /\ to = C!Kept(b, r, n + 1, b[n].to)
         \/ (\A n \in 1..q : ~C!Puts(b[n], r)) /\ to = C!Kept(b, r, 1, via)
  BY DEF C!Leads
<1> SUFFICES \/ \E n \in 1..(p + q) : /\ C!Puts(ab[n], r) /\ \A m \in (n + 1)..(p + q) : ~C!Puts(ab[m], r)
                                      /\ to = C!Kept(ab, r, n + 1, ab[n].to)
             \/ (\A n \in 1..(p + q) : ~C!Puts(ab[n], r)) /\ to = C!Kept(ab, r, 1, from)
  BY <1>1 DEF C!Leads
<1> HIDE DEF ab, p, q
<1>5. CASE \E n \in 1..q : /\ C!Puts(b[n], r) /\ \A m \in (n + 1)..q : ~C!Puts(b[m], r)
                           /\ to = C!Kept(b, r, n + 1, b[n].to)
  <2>1. PICK n \in 1..q : /\ C!Puts(b[n], r) /\ \A m \in (n + 1)..q : ~C!Puts(b[m], r)
                          /\ to = C!Kept(b, r, n + 1, b[n].to)
    BY <1>5
  <2>2. p + n \in 1..(p + q) /\ ab[p + n] = b[n] /\ n + 1 \in 1..(q + 1) /\ p + (n + 1) = (p + n) + 1
    BY <1>1
  <2>3. ASSUME NEW m \in (p + n + 1)..(p + q) PROVE ~C!Puts(ab[m], r)
    <3>1. m - p \in (n + 1)..q /\ m - p \in 1..q /\ p + (m - p) = m
      BY <1>1
    <3>2. ab[m] = b[m - p]
      BY <1>1, <3>1
    <3> QED BY <2>1, <3>1, <3>2
  <2>4. C!Kept(ab, r, (p + n) + 1, ab[p + n].to) = C!Kept(b, r, n + 1, b[n].to)
    BY <1>2, <2>2
  <2> QED BY <2>1, <2>2, <2>3, <2>4
<1>6. CASE (\A n \in 1..q : ~C!Puts(b[n], r)) /\ to = C!Kept(b, r, 1, via)
  <2>1. ASSUME NEW n \in 1..p, C!Puts(a[n], r), \A m \in (n + 1)..p : ~C!Puts(a[m], r),
               via = C!Kept(a, r, n + 1, a[n].to)
        PROVE  /\ n \in 1..(p + q) /\ C!Puts(ab[n], r) /\ \A m \in (n + 1)..(p + q) : ~C!Puts(ab[m], r)
               /\ to = C!Kept(ab, r, n + 1, ab[n].to)
    <3>1. n \in 1..(p + q) /\ ab[n] = a[n] /\ n + 1 \in 1..(p + 1)
      BY <1>1
    <3>2. ASSUME NEW m \in (n + 1)..(p + q) PROVE ~C!Puts(ab[m], r)
      <4>1. CASE m <= p
        <5>1. m \in 1..p /\ m \in (n + 1)..p
          BY <1>1, <4>1
        <5> QED BY <1>1, <2>1, <5>1
      <4>2. CASE m > p
        <5>1. m - p \in 1..q /\ p + (m - p) = m
          BY <1>1, <4>2
        <5>2. ab[m] = b[m - p]
          BY <1>1, <5>1
        <5> QED BY <1>6, <5>1, <5>2
      <4> QED BY <1>1, <4>1, <4>2
    <3> QED BY <1>2, <1>6, <2>1, <3>1, <3>2
  <2>2. ASSUME \A n \in 1..p : ~C!Puts(a[n], r), via = C!Kept(a, r, 1, from)
        PROVE  (\A n \in 1..(p + q) : ~C!Puts(ab[n], r)) /\ to = C!Kept(ab, r, 1, from)
    <3>1. ASSUME NEW m \in 1..(p + q) PROVE ~C!Puts(ab[m], r)
      <4>1. CASE m \in 1..p
        BY <1>1, <2>2, <4>1
      <4>2. CASE m - p \in 1..q /\ p + (m - p) = m
        <5>1. ab[m] = b[m - p]
          BY <1>1, <4>2
        <5> QED BY <1>6, <4>2, <5>1
      <4> QED BY <1>3, <4>1, <4>2
    <3>2. 1 \in 1..(p + 1)
      BY <1>1
    <3> QED BY <1>2, <1>6, <2>2, <3>1, <3>2
  <2> QED BY <1>4, <2>1, <2>2
<1> QED BY <1>4, <1>5, <1>6

\* The statements after the first lead on from where the first leaves the row.
LEMMA LeadsStep ==
  ASSUME C!Stays, NEW S, NEW list \in Seq(S), list # <<>>, C!Blind(Head(list)),
         NEW r, NEW from, NEW to, C!Leads(list, r, from, to)
  PROVE  C!Leads(Tail(list), r, IF C!Puts(Head(list), r) THEN Head(list).to
                                ELSE IF C!Clears(Head(list), r) /\ from \in C!Parents THEN NoHolder ELSE from,
                 to)
<1> DEFINE rest_ == Tail(list)  q == Len(rest_)  one == Head(list)  head == <<one>>
           next == IF C!Puts(one, r) THEN one.to
                   ELSE IF C!Clears(one, r) /\ from \in C!Parents THEN NoHolder ELSE from
<1>1. /\ q \in Nat /\ Len(list) = q + 1 /\ list[1] = one
      /\ \A n \in 1..q : rest_[n] = list[n + 1]
      /\ rest_ \in Seq(S) /\ one \in S /\ head \in Seq(S) /\ list = head \o rest_ /\ Len(head) = 1
      /\ head[1] = one
  OBVIOUS
<1>2. NoHolder \notin C!Parents /\ (one.do = "attach" => one.to \in C!Parents)
  BY ParentFacts DEF C!Blind
<1>3. C!Puts(one, r) => one.to \in C!Parents /\ ~C!Clears(one, r)
  BY <1>2 DEF C!Puts, C!Clears
<1> HIDE DEF one, rest_, head
<1>4. ASSUME NEW n \in 1..(q + 1), NEW x PROVE C!Kept(list, r, n + 1, x) = C!Kept(rest_, r, n, x)
  <2>1. C!Kept(head \o rest_, r, 1 + n, x) = C!Kept(rest_, r, n, x)
    <3>1. n \in 1..(Len(rest_) + 1)
      OBVIOUS
    <3>2. C!Kept(head \o rest_, r, Len(head) + n, x) = C!Kept(rest_, r, n, x)
      BY <1>1, <3>1, KeptPast
    <3> QED BY <1>1, <3>2
  <2>2. 1 + n = n + 1
    BY <1>1
  <2> QED BY <1>1, <2>1, <2>2
<1>5. ASSUME NEW x PROVE C!Kept(list, r, 1, x) = C!Kept(rest_, r, 1, C!Kept(head, r, 1, x))
  <2>1. 1 \in 1..(Len(head) + 1)
    BY <1>1
  <2>2. C!Kept(head \o rest_, r, 1, x) = C!Kept(rest_, r, 1, C!Kept(head, r, 1, x))
    BY <1>1, <2>1, KeptOn
  <2> QED BY <1>1, <2>2
<1>6. \A x : C!Kept(head, r, 1, x) = IF x \in C!Parents /\ C!Clears(one, r) THEN NoHolder ELSE x
  <2>1. \A m : m \in 1..1 <=> m = 1
    OBVIOUS
  <2>2. (\E m \in 1..Len(head) : C!Clears(head[m], r)) <=> C!Clears(one, r)
    BY <1>1, <2>1
  <2> QED BY <2>2 DEF C!Kept
<1>7. \/ \E n \in 1..(q + 1) : /\ C!Puts(list[n], r) /\ \A m \in (n + 1)..(q + 1) : ~C!Puts(list[m], r)
                               /\ to = C!Kept(list, r, n + 1, list[n].to)
      \/ (\A n \in 1..(q + 1) : ~C!Puts(list[n], r)) /\ to = C!Kept(list, r, 1, from)
  BY <1>1 DEF C!Leads
<1> SUFFICES \/ \E n \in 1..q : /\ C!Puts(rest_[n], r) /\ \A m \in (n + 1)..q : ~C!Puts(rest_[m], r)
                                /\ to = C!Kept(rest_, r, n + 1, rest_[n].to)
             \/ (\A n \in 1..q : ~C!Puts(rest_[n], r)) /\ to = C!Kept(rest_, r, 1, next)
  BY DEF C!Leads, rest_, one
<1> HIDE DEF q, next
<1>8. ASSUME NEW n \in 1..(q + 1), C!Puts(list[n], r), \A m \in (n + 1)..(q + 1) : ~C!Puts(list[m], r),
             to = C!Kept(list, r, n + 1, list[n].to), n # 1
      PROVE  \E k \in 1..q : /\ C!Puts(rest_[k], r) /\ \A m \in (k + 1)..q : ~C!Puts(rest_[m], r)
                             /\ to = C!Kept(rest_, r, k + 1, rest_[k].to)
  <2>1. n - 1 \in 1..q /\ (n - 1) + 1 = n
    BY <1>1, <1>8
  <2>2. rest_[n - 1] = list[n]
    BY <1>1, <2>1
  <2>3. ASSUME NEW m \in n..q PROVE ~C!Puts(rest_[m], r)
    <3>1. m \in 1..q /\ m + 1 \in (n + 1)..(q + 1)
      BY <1>1
    <3>2. rest_[m] = list[m + 1]
      BY <1>1, <3>1
    <3> QED BY <1>8, <3>1, <3>2
  <2>4. to = C!Kept(rest_, r, n, rest_[n - 1].to)
    BY <1>4, <1>8, <2>2
  <2> QED BY <1>8, <2>1, <2>2, <2>3, <2>4
<1>9. ASSUME \A m \in 2..(q + 1) : ~C!Puts(list[m], r) PROVE \A n \in 1..q : ~C!Puts(rest_[n], r)
  <2> SUFFICES ASSUME NEW n \in 1..q PROVE ~C!Puts(rest_[n], r)
    OBVIOUS
  <2>1. n + 1 \in 2..(q + 1)
    BY <1>1
  <2> QED BY <1>1, <1>9, <2>1
<1>10. ASSUME C!Puts(list[1], r), \A m \in 2..(q + 1) : ~C!Puts(list[m], r),
              to = C!Kept(list, r, 2, list[1].to)
       PROVE  (\A n \in 1..q : ~C!Puts(rest_[n], r)) /\ to = C!Kept(rest_, r, 1, next)
  <2>1. next = list[1].to
    BY <1>1, <1>10 DEF next
  <2>2. 1 \in 1..(q + 1) /\ 1 + 1 = 2
    BY <1>1
  <2>3. to = C!Kept(rest_, r, 1, list[1].to)
    BY <1>4, <1>10, <2>2
  <2> QED BY <1>9, <1>10, <2>1, <2>3
<1>11. ASSUME \A n \in 1..(q + 1) : ~C!Puts(list[n], r), to = C!Kept(list, r, 1, from)
       PROVE  (\A n \in 1..q : ~C!Puts(rest_[n], r)) /\ to = C!Kept(rest_, r, 1, next)
  <2>1. ~C!Puts(one, r) /\ \A m \in 2..(q + 1) : ~C!Puts(list[m], r)
    <3>1. 1 \in 1..(q + 1) /\ \A m \in 2..(q + 1) : m \in 1..(q + 1)
      BY <1>1
    <3> QED BY <1>1, <1>11, <3>1
  <2>2. next = C!Kept(head, r, 1, from)
    BY <1>6, <2>1 DEF next
  <2> QED BY <1>5, <1>9, <1>11, <2>1, <2>2
<1>12. \A n \in 1..(q + 1) : n # 1 \/ (n = 1 /\ n + 1 = 2)
  BY <1>1
<1> QED BY <1>7, <1>8, <1>10, <1>11, <1>12

\* Statements that put the row nowhere.
LEMMA ClearLeads ==
  ASSUME NEW list, NEW r, NEW from, \A n \in 1..Len(list) : ~C!Puts(list[n], r)
  PROVE  C!Leads(list, r, from, IF from \in C!Parents /\ (\E n \in 1..Len(list) : C!Clears(list[n], r))
                                THEN NoHolder ELSE from)
BY DEF C!Leads, C!Kept

\* When nothing is left to run, the row is where the program leads.
LEMMA EndLeads == ASSUME NEW r, NEW from, NEW to PROVE C!Leads(<<>>, r, from, to) <=> to = from
<1>1. \A n \in 1..Len(<<>>) : FALSE
  OBVIOUS
<1> QED BY <1>1 DEF C!Leads, C!Kept

\* The last operand of a list that selects the row.
LEMMA LastSelecting ==
  ASSUME NEW list \in Seq(C!Filter), NEW r, \E f \in C!ToSet(list) : r \in f.rows
  PROVE  \E n \in 1..Len(list) : r \in list[n].rows /\ \A m \in (n + 1)..Len(list) : r \notin list[m].rows
<1> DEFINE L == Len(list)
           T == {L - n : n \in {m \in 1..L : r \in list[m].rows}}
<1>1. L \in Nat /\ \E n \in 1..L : r \in list[n].rows
  BY DEF C!ToSet
<1> HIDE DEF L
<1>2. T \in SUBSET Nat /\ T # {}
  BY <1>1
<1>3. PICK t \in T : \A u \in T : t <= u
  BY <1>2, LeastPosition
<1>4. PICK n \in 1..L : r \in list[n].rows /\ t = L - n
  BY <1>3
<1>5. ASSUME NEW m \in (n + 1)..L, r \in list[m].rows PROVE FALSE
  <2>1. m \in 1..L /\ L - m < L - n
    BY <1>1
  <2>2. L - m \in T
    BY <1>5, <2>1
  <2>3. L - n <= L - m
    BY <1>3, <1>4, <2>2
  <2> HIDE DEF T
  <2> QED BY <1>1, <2>1, <2>3
<1> QED BY <1>4, <1>5 DEF L

\* An attach ends with the statements of the last parent.
LEMMA AttachEnds ==
  ASSUME C!Stays, parents # <<>>, NEW by, NEW list \in Seq(C!Filter)
  PROVE  \E before \in Seq([do : {"attach"}, by : {by}, filter : C!ToSet(list), to : C!Parents]) :
           C!Attach(by, list) = before \o [m \in DOMAIN list |->
             [do |-> "attach", by |-> by, filter |-> list[m], to |-> C!LastParent]]
<1> DEFINE S == [do : {"attach"}, by : {by}, filter : C!ToSet(list), to : C!Parents]
           One(n) == [m \in DOMAIN list |->
                        [do |-> "attach", by |-> by, filter |-> list[m], to |-> parents[n]]]
           Each == [n \in DOMAIN parents |-> One(n)]
<1>1. /\ \A m \in DOMAIN list : list[m] \in C!ToSet(list)
      /\ \A n \in DOMAIN parents : parents[n] \in C!Parents
      /\ parents \in Seq(Parent) /\ Len(parents) \in DOMAIN parents /\ C!LastParent = parents[Len(parents)]
  BY OperandType, ParentFacts DEF C!Parents, C!ToSet
<1>2. ASSUME NEW n \in DOMAIN parents PROVE One(n) \in Seq(S)
  <2>1. \A m \in DOMAIN list : One(n)[m] \in S
    BY <1>1
  <2>2. Len(list) \in Nat /\ DOMAIN list = 1..Len(list)
    OBVIOUS
  <2>3. One(n) = [m \in 1..Len(list) |-> One(n)[m]]
    BY <2>2
  <2> HIDE DEF One, S
  <2> QED BY <2>1, <2>2, <2>3
<1>3. C!Attach(by, list) = C!FlattenSeq(Each)
  BY DEF C!Attach
<1>4. \A n \in DOMAIN parents : Each[n] = One(n)
  OBVIOUS
<1>5. One(Len(parents)) = [m \in DOMAIN list |->
        [do |-> "attach", by |-> by, filter |-> list[m], to |-> C!LastParent]]
  BY <1>1
<1> HIDE DEF S, One
<1>6. Each \in Seq(Seq(S)) /\ Each # <<>> /\ Len(Each) = Len(parents)
  <2>1. Len(parents) \in Nat /\ DOMAIN parents = 1..Len(parents)
    BY <1>1
  <2> QED BY <1>1, <1>2, <2>1
<1> HIDE DEF Each
<1>7. PICK before \in Seq(S) : C!FlattenSeq(Each) = before \o Each[Len(Each)]
  BY <1>6, FlatType
<1>8. C!Attach(by, list) = before \o One(Len(parents))
  BY <1>1, <1>3, <1>4, <1>6, <1>7
<1> QED BY <1>5, <1>7, <1>8 DEF S

\* An attach puts the rows its filters select with the last parent.
LEMMA AttachLeads ==
  ASSUME C!Stays, parents # <<>>, NEW by, NEW list \in Seq(C!Filter), NEW r, NEW from
  PROVE  C!Leads(C!Attach(by, list), r, from,
                 IF \E f \in C!ToSet(list) : r \in f.rows THEN C!LastParent ELSE from)
<1> DEFINE S == [do : {"attach"}, by : {by}, filter : C!ToSet(list), to : C!Parents]
           all == C!Attach(by, list)
           block == [m \in DOMAIN list |->
                       [do |-> "attach", by |-> by, filter |-> list[m], to |-> C!LastParent]]
<1>1. all \in Seq(S) /\ parents \in Seq(Parent)
  BY OperandType, AttachType
<1>2. \A n \in 1..Len(all) : all[n] \in S
  <2> HIDE DEF all, S
  <2> QED BY <1>1
<1>3. \A s \in S : ~C!Clears(s, r) /\ (C!Puts(s, r) <=> r \in s.filter.rows) /\ s.filter \in C!ToSet(list)
  BY DEF C!Puts, C!Clears
<1>4. \A n, x : n \in Nat \ {0} => C!Kept(all, r, n, x) = x
  <2> SUFFICES ASSUME NEW n \in Nat \ {0}, NEW m \in n..Len(all) PROVE ~C!Clears(all[m], r)
    BY DEF C!Kept
  <2>1. m \in 1..Len(all)
    BY <1>1
  <2> HIDE DEF all, S
  <2> QED BY <1>2, <1>3, <2>1
<1>5. CASE ~ \E f \in C!ToSet(list) : r \in f.rows
  <2>1. \A n \in 1..Len(all) : ~C!Puts(all[n], r)
    <3> HIDE DEF all, S
    <3> QED BY <1>2, <1>3, <1>5
  <2>2. from = C!Kept(all, r, 1, from)
    BY <1>4
  <2> QED BY <1>5, <2>1, <2>2 DEF C!Leads
<1>6. CASE \E f \in C!ToSet(list) : r \in f.rows
  <2>1. PICK before \in Seq(S) : all = before \o block
    BY AttachEnds
  <2>2. PICK k \in 1..Len(list) : r \in list[k].rows /\ \A m \in (k + 1)..Len(list) : r \notin list[m].rows
    BY <1>6, LastSelecting
  <2>3. /\ DOMAIN list = 1..Len(list) /\ Len(list) \in Nat
        /\ \A m \in 1..Len(list) : list[m] \in C!ToSet(list)
    BY DEF C!ToSet
  <2>4. block \in Seq(S) /\ Len(block) = Len(list)
    <3>1. C!LastParent \in C!Parents
      BY ParentFacts
    <3>2. \A m \in 1..Len(list) : block[m] \in S
      BY <2>3, <3>1
    <3>3. block = [m \in 1..Len(list) |-> block[m]]
      BY <2>3
    <3> HIDE DEF block, S
    <3> QED BY <2>3, <3>2, <3>3
  <2>5. \A m \in 1..Len(list) : block[m].filter = list[m] /\ block[m].to = C!LastParent
    BY <2>3
  <2> DEFINE b == Len(before)
  <2> HIDE DEF block, all, S
  <2>6. /\ b \in Nat /\ Len(all) = b + Len(list)
        /\ \A m \in 1..Len(list) : all[b + m] = block[m] /\ b + m \in 1..Len(all)
    <3>1. /\ Len(before \o block) = Len(before) + Len(block) /\ Len(before) \in Nat
          /\ \A m \in 1..Len(block) : /\ (before \o block)[Len(before) + m] = block[m]
                                      /\ Len(before) + m \in 1..Len(before \o block)
      BY <2>4, Joined
    <3> QED BY <2>1, <2>4, <3>1
  <2> HIDE DEF b
  <2>7. C!Puts(all[b + k], r) /\ all[b + k].to = C!LastParent
    BY <1>2, <1>3, <2>2, <2>5, <2>6
  <2>8. ASSUME NEW m \in (b + k + 1)..Len(all) PROVE ~C!Puts(all[m], r)
    <3>1. m - b \in (k + 1)..Len(list) /\ m - b \in 1..Len(list) /\ b + (m - b) = m
      BY <2>3, <2>6
    <3>2. all[m] = block[m - b] /\ all[m] \in S
      BY <1>2, <2>6, <3>1
    <3>3. r \notin block[m - b].filter.rows
      BY <2>2, <2>5, <3>1
    <3> QED BY <1>3, <3>2, <3>3
  <2>9. C!LastParent = C!Kept(all, r, b + k + 1, all[b + k].to)
    <3>1. b + k + 1 \in Nat \ {0}
      BY <2>3, <2>6
    <3> QED BY <1>4, <2>7, <3>1
  <2>10. b + k \in 1..Len(all)
    BY <2>6
  <2> QED BY <1>6, <2>7, <2>8, <2>9, <2>10 DEF C!Leads, all
<1> QED BY <1>5, <1>6

\* Statements that decide by the row alone, the create apart.
Calm(list) == \A n \in DOMAIN list : C!Blind(list[n]) /\ list[n].do # "create"

LEMMA CalmJoined ==
  ASSUME NEW S, NEW a \in Seq(S), NEW b \in Seq(S), Calm(a), Calm(b)
  PROVE  Calm(a \o b)
<1> SUFFICES ASSUME NEW n \in DOMAIN (a \o b) PROVE C!Blind((a \o b)[n]) /\ (a \o b)[n].do # "create"
  BY DEF Calm
<1>1. CASE n \in DOMAIN a
  <2>1. (a \o b)[n] = a[n]
    BY <1>1
  <2> QED BY <1>1, <2>1 DEF Calm
<1>2. CASE n \notin DOMAIN a
  <2>1. n - Len(a) \in DOMAIN b /\ (a \o b)[n] = b[n - Len(a)]
    BY <1>2
  <2> QED BY <2>1 DEF Calm
<1> QED BY <1>1, <1>2

\* Operands that do not read the key, and the rows they name.
LEMMA BlindOperands ==
  ASSUME C!Stays, ~C!ReadsKey, NEW n \in {"set", "disconnect", "connect"}, C!Given(input[n])
  PROVE  /\ input[n] \in Seq(C!Filter)
         /\ \A f \in C!ToSet(input[n]) : f \in C!Filter /\ f.holder = AnyHolder /\ f.rows \subseteq Row
         /\ \A r \in Row \ HiddenRow :
              r \in C!Named(input[n]) <=> \E f \in C!ToSet(input[n]) : r \in f.rows
<1>1. input[n] \in Seq(C!Filter) /\ C!Operands(input[n]) = C!ToSet(input[n])
  BY OperandType DEF C!Operands
<1>2. \A f \in C!ToSet(input[n]) : f \in C!Filter /\ f.holder = AnyHolder
  BY <1>1 DEF C!ReadsKey, C!ToSet
<1>3. \A f \in C!Filter : f.rows \subseteq Row
  BY DEF C!Filter
<1> QED BY <1>1, <1>2, <1>3 DEF C!Named

LEMMA NoneNamed == ASSUME NEW list, ~C!Given(list) PROVE C!Named(list) = {}
BY DEF C!Named, C!Operands

\* An attach of operands that do not read the key.
LEMMA AttachCalm ==
  ASSUME C!Stays, ~C!ReadsKey, NEW n \in {"set", "connect"}, C!Given(input[n])
  PROVE  C!Attach(n, input[n]) \in Seq(C!Statement) /\ Calm(C!Attach(n, input[n]))
<1> DEFINE S == [do : {"attach"}, by : {n}, filter : C!ToSet(input[n]), to : C!Parents]
           all == C!Attach(n, input[n])
<1>1. all \in Seq(S)
  BY OperandType, AttachType
<1>2. \A f \in C!ToSet(input[n]) : f \in C!Filter /\ f.holder = AnyHolder
  BY BlindOperands
<1>3. C!Parents \subseteq Parent
  BY ParentFacts
<1>4. \A s \in S : s \in C!Statement /\ C!Blind(s) /\ s.do # "create"
  BY <1>2, <1>3 DEF C!Statement, C!Blind
<1> HIDE DEF S, all
<1>5. all \in Seq(C!Statement)
  BY <1>1, <1>4, SeqOfMore
<1>6. \A k \in DOMAIN all : all[k] \in S
  BY <1>1
<1> QED BY <1>4, <1>5, <1>6 DEF Calm, all

\* A detach takes the row from its parent.
LEMMA DetachLeads ==
  ASSUME NEW by \in {"set", "disconnect", "connect", "create"}, NEW r, NEW from
  PROVE  /\ C!Detach(by) \in Seq(C!Statement) /\ Calm(C!Detach(by))
         /\ C!Leads(C!Detach(by), r, from, IF from \in C!Parents THEN NoHolder ELSE from)
<1> DEFINE s == [do |-> "detach", by |-> by]
<1>1. C!Detach(by) = <<s>>
  BY DEF C!Detach
<1>2. s \in C!Statement /\ C!Blind(s) /\ s.do # "create" /\ ~C!Puts(s, r) /\ C!Clears(s, r)
  BY DEF C!Statement, C!Blind, C!Puts, C!Clears
<1> HIDE DEF s
<1>3. <<s>> \in Seq(C!Statement) /\ Calm(<<s>>)
  BY <1>2 DEF Calm
<1>4. Len(<<s>>) = 1 /\ <<s>>[1] = s /\ \A n : n \in 1..1 <=> n = 1
  OBVIOUS
<1>5. C!Leads(<<s>>, r, from, IF from \in C!Parents THEN NoHolder ELSE from)
  BY <1>2, <1>4 DEF C!Leads, C!Kept
<1> QED BY <1>1, <1>3, <1>5

LEMMA SetLeads ==
  ASSUME C!Stays, ~C!ReadsKey, parents # <<>>, NEW r
  PROVE  /\ C!SetStatements \in Seq(C!Statement) /\ Calm(C!SetStatements)
         /\ r \in Row \ HiddenRow => C!Leads(C!SetStatements, r, saved[r], C!AfterSet(r))
<1>1. CASE ~C!Given(input.set)
  <2>1. C!SetStatements = <<>> /\ <<>> \in Seq(C!Statement) /\ Calm(<<>>)
    BY <1>1 DEF C!SetStatements, Calm
  <2>2. C!AfterSet(r) = saved[r]
    BY <1>1, NoneNamed DEF C!AfterSet
  <2> QED BY <2>1, <2>2, EndLeads
<1>2. CASE C!Given(input.set)
  <2> DEFINE first_ == C!Detach("set")  then == C!Attach("set", input.set)
             left == IF saved[r] \in C!Parents THEN NoHolder ELSE saved[r]
  <2>1. C!SetStatements = first_ \o then
    BY <1>2 DEF C!SetStatements
  <2>2. first_ \in Seq(C!Statement) /\ Calm(first_) /\ C!Leads(first_, r, saved[r], left)
    BY DetachLeads
  <2>3. then \in Seq(C!Statement) /\ Calm(then)
    BY <1>2, AttachCalm
  <2>4. /\ input.set \in Seq(C!Filter)
        /\ r \in Row \ HiddenRow => 
             (r \in C!Named(input.set) <=> \E f \in C!ToSet(input.set) : r \in f.rows)
    BY <1>2, BlindOperands
  <2>5. C!Leads(then, r, left, IF \E f \in C!ToSet(input.set) : r \in f.rows THEN C!LastParent ELSE left)
    BY <2>4, AttachLeads
  <2>6. r \in Row \ HiddenRow => 
          (IF \E f \in C!ToSet(input.set) : r \in f.rows THEN C!LastParent ELSE left) = C!AfterSet(r)
    BY <1>2, <2>4 DEF C!AfterSet
  <2> HIDE DEF first_, then, left
  <2>7. r \in Row \ HiddenRow => C!Leads(first_ \o then, r, saved[r], C!AfterSet(r))
    BY <2>2, <2>3, <2>5, <2>6, LeadsOn
  <2>8. first_ \o then \in Seq(C!Statement) /\ Calm(first_ \o then)
    BY <2>2, <2>3, CalmJoined
  <2> QED BY <2>1, <2>7, <2>8
<1> QED BY <1>1, <1>2

\* Where a disconnect leaves a row.
Disconnected(r, at_) ==
  IF at_ \in C!Parents /\ (r \in C!Named(input.disconnect) \/ (plan.isOne /\ C!Given(input.disconnect)))
    THEN NoHolder ELSE at_

LEMMA DisconnectLeads ==
  ASSUME C!Stays, ~C!ReadsKey, NEW r, NEW from
  PROVE  /\ C!DisconnectStatements \in Seq(C!Statement) /\ Calm(C!DisconnectStatements)
         /\ r \in Row \ HiddenRow => C!Leads(C!DisconnectStatements, r, from, Disconnected(r, from))
<1>1. CASE ~C!Given(input.disconnect)
  <2>1. C!DisconnectStatements = <<>> /\ <<>> \in Seq(C!Statement) /\ Calm(<<>>)
    BY <1>1 DEF C!DisconnectStatements, Calm
  <2>2. Disconnected(r, from) = from
    BY <1>1, NoneNamed DEF Disconnected
  <2> QED BY <2>1, <2>2, EndLeads
<1>2. CASE C!Given(input.disconnect) /\ plan.isOne
  <2>1. C!DisconnectStatements = C!Detach("disconnect")
    BY <1>2 DEF C!DisconnectStatements
  <2>2. Disconnected(r, from) = IF from \in C!Parents THEN NoHolder ELSE from
    BY <1>2 DEF Disconnected
  <2> QED BY <2>1, <2>2, DetachLeads
<1>3. CASE C!Given(input.disconnect) /\ ~plan.isOne
  <2> DEFINE d == input.disconnect
             One(n) == [do |-> "detachMatching", by |-> "disconnect", filter |-> d[n]]
             all == [n \in 1..Len(d) |-> One(n)]
  <2>1. /\ d \in Seq(C!Filter)
        /\ \A f \in C!ToSet(d) : f \in C!Filter /\ f.holder = AnyHolder
        /\ r \in Row \ HiddenRow => (r \in C!Named(d) <=> \E f \in C!ToSet(d) : r \in f.rows)
    BY <1>3, BlindOperands
  <2>2. C!DisconnectStatements = all
    BY <1>3, <2>1 DEF C!DisconnectStatements
  <2>3. Len(d) \in Nat /\ C!ToSet(d) = {d[n] : n \in 1..Len(d)}
    BY <2>1 DEF C!ToSet
  <2>4. \A n \in 1..Len(d) : d[n] \in C!Filter /\ d[n].holder = AnyHolder
    BY <2>1, <2>3
  <2>5. \A n \in 1..Len(d) : /\ One(n) \in C!Statement /\ C!Blind(One(n)) /\ One(n).do # "create"
                             /\ ~C!Puts(One(n), r) /\ (C!Clears(One(n), r) <=> r \in d[n].rows)
    BY <2>4 DEF C!Statement, C!Blind, C!Puts, C!Clears
  <2> HIDE DEF One
  <2>6. all \in Seq(C!Statement) /\ Len(all) = Len(d) /\ \A n \in 1..Len(d) : all[n] = One(n)
    <3> HIDE DEF d
    <3> QED BY <2>3, <2>5
  <2>7. DOMAIN all = 1..Len(d)
    OBVIOUS
  <2> HIDE DEF all, d
  <2>8. Calm(all)
    BY <2>5, <2>6, <2>7 DEF Calm
  <2>9. r \in Row \ HiddenRow => (r \in C!Named(d) <=> \E n \in 1..Len(all) : C!Clears(all[n], r))
    BY <2>1, <2>3, <2>5, <2>6
  <2>10. C!Leads(all, r, from, IF from \in C!Parents /\ (\E n \in 1..Len(all) : C!Clears(all[n], r))
                                 THEN NoHolder ELSE from)
    BY <2>5, <2>6, ClearLeads
  <2>11. r \in Row \ HiddenRow => 
           Disconnected(r, from) = IF from \in C!Parents /\ (\E n \in 1..Len(all) : C!Clears(all[n], r))
                                     THEN NoHolder ELSE from
    BY <1>3, <2>9 DEF Disconnected, d
  <2> QED BY <2>2, <2>6, <2>8, <2>10, <2>11
<1> QED BY <1>1, <1>2, <1>3

\* Where making room leaves a row.
Displaced(at_) ==
  IF at_ \in C!Parents /\ plan.isOne /\ plan.canDetach /\ C!Attaching # "none" THEN NoHolder ELSE at_

\* A statement that only reads, on its own.
LEMMA ReadLeads ==
  ASSUME NEW s \in C!Statement, s.do \in {"matchOne", "refuseHeld", "checkHeld"}, NEW r, NEW from
  PROVE  <<s>> \in Seq(C!Statement) /\ Calm(<<s>>) /\ C!Leads(<<s>>, r, from, from)
<1>1. C!Blind(s) /\ ~C!Puts(s, r) /\ ~C!Clears(s, r) /\ s.do # "create"
  BY DEF C!Blind, C!Puts, C!Clears
<1>2. Len(<<s>>) = 1 /\ <<s>>[1] = s /\ \A n : n \in 1..1 <=> n = 1
  OBVIOUS
<1>3. C!Leads(<<s>>, r, from, from)
  BY <1>1, <1>2 DEF C!Leads, C!Kept
<1>4. Calm(<<s>>)
  BY <1>1 DEF Calm
<1> QED BY <1>3, <1>4

LEMMA RoomLeads ==
  ASSUME C!Stays, ~C!ReadsKey, NEW r, NEW from
  PROVE  /\ C!MakeRoom \in Seq(C!Statement) /\ Calm(C!MakeRoom)
         /\ C!Leads(C!MakeRoom, r, from, Displaced(from))
<1>0. <<>> \in Seq(C!Statement) /\ Calm(<<>>) /\ C!Leads(<<>>, r, from, from)
  BY EndLeads DEF Calm
<1>1. CASE ~plan.isOne \/ C!Attaching = "none"
  <2>1. C!MakeRoom = <<>> /\ Displaced(from) = from
    BY <1>1 DEF C!MakeRoom, Displaced
  <2> QED BY <1>0, <2>1
<1>2. CASE plan.isOne /\ C!Attaching # "none"
  <2> DEFINE one == IF C!Given(input.connect)
                      THEN <<[do |-> "matchOne", filter |-> input.connect[1]]>> ELSE <<>>
             list == IF C!Given(input.connect) THEN input.connect ELSE <<>>
             room == IF plan.canDetach THEN C!Detach(C!Attaching)
                     ELSE IF C!Attaching = "connect" /\ plan.writesKey THEN <<>>
                     ELSE <<[do |-> "refuseHeld", list |-> list]>>
  <2>1. C!MakeRoom = one \o room
    BY <1>2 DEF C!MakeRoom
  <2>2. one \in Seq(C!Statement) /\ Calm(one) /\ C!Leads(one, r, from, from)
    <3>1. CASE C!Given(input.connect)
      <4>1. [do |-> "matchOne", filter |-> input.connect[1]] \in C!Statement
        BY <1>2, <3>1, AttachingIs DEF C!Statement
      <4>2. /\ <<[do |-> "matchOne", filter |-> input.connect[1]]>> \in Seq(C!Statement)
            /\ Calm(<<[do |-> "matchOne", filter |-> input.connect[1]]>>)
            /\ C!Leads(<<[do |-> "matchOne", filter |-> input.connect[1]]>>, r, from, from)
        BY <4>1, ReadLeads
      <4> QED BY <3>1, <4>2
    <3>2. CASE ~C!Given(input.connect)
      BY <1>0, <3>2
    <3> QED BY <3>1, <3>2
  <2>3. room \in Seq(C!Statement) /\ Calm(room) /\ C!Leads(room, r, from, Displaced(from))
    <3>1. CASE plan.canDetach
      <4>1. C!Attaching \in {"connect", "create"}
        BY <1>2, AttachingIs
      <4>2. Displaced(from) = IF from \in C!Parents THEN NoHolder ELSE from
        BY <1>2, <3>1 DEF Displaced
      <4> QED BY <3>1, <4>1, <4>2, DetachLeads
    <3>2. CASE ~plan.canDetach /\ C!Attaching = "connect" /\ plan.writesKey
      <4>1. Displaced(from) = from
        BY <3>2 DEF Displaced
      <4> QED BY <1>0, <3>2, <4>1
    <3>3. CASE ~plan.canDetach /\ ~(C!Attaching = "connect" /\ plan.writesKey)
      <4>1. Displaced(from) = from /\ room = <<[do |-> "refuseHeld", list |-> list]>>
        BY <3>3 DEF Displaced
      <4>2. list \in Seq(C!Filter)
        BY OperandType
      <4>3. [do |-> "refuseHeld", list |-> list] \in C!Statement
        BY <4>2 DEF C!Statement
      <4> QED BY <4>1, <4>3, ReadLeads
    <3> QED BY <3>1, <3>2, <3>3
  <2> HIDE DEF one, room
  <2>4. one \o room \in Seq(C!Statement) /\ Calm(one \o room)
    BY <2>2, <2>3, CalmJoined
  <2>5. C!Leads(one \o room, r, from, Displaced(from))
    BY <2>2, <2>3, LeadsOn
  <2> QED BY <2>1, <2>4, <2>5
<1> QED BY <1>1, <1>2

\* Where a connect leaves a row.
Connected(r, at_) == IF r \in C!Named(input.connect) /\ ~plan.writesKey THEN C!LastParent ELSE at_

LEMMA ConnectLeads ==
  ASSUME C!Stays, ~C!ReadsKey, parents # <<>>, NEW r, NEW from
  PROVE  /\ C!ConnectStatements \in Seq(C!Statement) /\ Calm(C!ConnectStatements)
         /\ r \in Row \ HiddenRow => C!Leads(C!ConnectStatements, r, from, Connected(r, from))
<1>1. CASE ~C!Given(input.connect)
  <2>1. C!ConnectStatements = <<>> /\ <<>> \in Seq(C!Statement) /\ Calm(<<>>)
    BY <1>1 DEF C!ConnectStatements, Calm
  <2>2. Connected(r, from) = from
    BY <1>1, NoneNamed DEF Connected
  <2> QED BY <2>1, <2>2, EndLeads
<1>2. CASE C!Given(input.connect) /\ plan.writesKey
  <2> DEFINE c == input.connect
             One(n) == [do |-> "checkHeld", filter |-> c[n]]
             all == [n \in 1..Len(c) |-> One(n)]
  <2>1. c \in Seq(C!Filter)
    BY <1>2, OperandType
  <2>2. C!ConnectStatements = all
    BY <1>2, <2>1 DEF C!ConnectStatements
  <2>3. Len(c) \in Nat /\ \A n \in 1..Len(c) : c[n] \in C!Filter
    BY <2>1
  <2>4. \A n \in 1..Len(c) : /\ One(n) \in C!Statement /\ C!Blind(One(n)) /\ One(n).do # "create"
                             /\ ~C!Puts(One(n), r) /\ ~C!Clears(One(n), r)
    BY <2>3 DEF C!Statement, C!Blind, C!Puts, C!Clears
  <2> HIDE DEF One
  <2>5. all \in Seq(C!Statement) /\ Len(all) = Len(c) /\ \A n \in 1..Len(c) : all[n] = One(n)
    <3> HIDE DEF c
    <3> QED BY <2>3, <2>4
  <2>6. DOMAIN all = 1..Len(c)
    OBVIOUS
  <2> HIDE DEF all, c
  <2>7. Calm(all)
    BY <2>4, <2>5, <2>6 DEF Calm
  <2>8. C!Leads(all, r, from, from)
    BY <2>4, <2>5 DEF C!Leads, C!Kept
  <2>9. Connected(r, from) = from
    BY <1>2 DEF Connected
  <2> QED BY <2>2, <2>5, <2>7, <2>8, <2>9
<1>3. CASE C!Given(input.connect) /\ ~plan.writesKey
  <2>1. C!ConnectStatements = C!Attach("connect", input.connect)
    BY <1>3 DEF C!ConnectStatements
  <2>2. C!ConnectStatements \in Seq(C!Statement) /\ Calm(C!ConnectStatements)
    BY <1>3, <2>1, AttachCalm
  <2>3. /\ input.connect \in Seq(C!Filter)
        /\ r \in Row \ HiddenRow => 
             (r \in C!Named(input.connect) <=> \E f \in C!ToSet(input.connect) : r \in f.rows)
    BY <1>3, BlindOperands
  <2>4. C!Leads(C!Attach("connect", input.connect), r, from,
                IF \E f \in C!ToSet(input.connect) : r \in f.rows THEN C!LastParent ELSE from)
    BY <2>3, AttachLeads
  <2>5. r \in Row \ HiddenRow => 
          (IF \E f \in C!ToSet(input.connect) : r \in f.rows THEN C!LastParent ELSE from) = Connected(r, from)
    BY <1>3, <2>3 DEF Connected
  <2> QED BY <2>1, <2>2, <2>4, <2>5
<1> QED BY <1>1, <1>2, <1>3

\* The whole program leads every row in reach to where the input says, and creates at its end.
LEMMA ProgramLeads ==
  ASSUME C!Stays, ~C!ReadsKey, parents # <<>>
  PROVE  /\ C!Statements \in Seq(C!Statement)
         /\ \A r \in Row \ HiddenRow : C!Leads(C!Statements, r, saved[r], C!AsAsked(r))
         /\ \A n \in DOMAIN C!Statements :
              /\ C!Blind(C!Statements[n])
              /\ C!Statements[n].do = "create" <=> input.create > 0 /\ n = Len(C!Statements)
         /\ C!Statements = <<>> => input.create = 0
<1> DEFINE a == C!SetStatements  b == C!DisconnectStatements  c == C!MakeRoom
           d == C!ConnectStatements  e == C!CreateStatements  body == a \o b \o c \o d
<1>1. C!Statements = body \o e
  BY DEF C!Statements
<1>2. input.create \in Nat
  BY OperandType
<1>3. e = IF input.create > 0 THEN <<CreateOne>> ELSE <<>>
  BY DEF C!CreateStatements, CreateOne
<1>4. /\ CreateOne \in C!Statement /\ C!Blind(CreateOne) /\ CreateOne.do = "create"
      /\ \A r : ~C!Puts(CreateOne, r) /\ ~C!Clears(CreateOne, r)
  BY DEF CreateOne, C!Statement, C!Blind, C!Puts, C!Clears
<1> HIDE DEF a, b, c, d, e
<1>5. ASSUME NEW r
      PROVE  /\ body \in Seq(C!Statement) /\ Calm(body)
             /\ r \in Row \ HiddenRow => C!Leads(body, r, saved[r], C!AsAsked(r))
  <2> DEFINE u == C!AfterSet(r)  v == Disconnected(r, u)  w == Displaced(v)  x == Connected(r, w)
             ab == a \o b  abc == ab \o c
  <2>1. /\ a \in Seq(C!Statement) /\ Calm(a) /\ (r \in Row \ HiddenRow => C!Leads(a, r, saved[r], u))
        /\ b \in Seq(C!Statement) /\ Calm(b) /\ (r \in Row \ HiddenRow => C!Leads(b, r, u, v))
        /\ c \in Seq(C!Statement) /\ Calm(c) /\ C!Leads(c, r, v, w)
        /\ d \in Seq(C!Statement) /\ Calm(d) /\ (r \in Row \ HiddenRow => C!Leads(d, r, w, x))
    BY SetLeads, DisconnectLeads, RoomLeads, ConnectLeads DEF a, b, c, d
  <2>2. r \in Row \ HiddenRow => w = IF C!Released(r) THEN NoHolder ELSE u
    BY ParentFacts DEF C!Released, Disconnected, Displaced
  <2>3. r \in Row \ HiddenRow => x = C!AsAsked(r)
    BY <2>2, ChildGround DEF C!AsAsked, Connected
  <2> HIDE DEF u, v, w, x
  <2>4. ab \in Seq(C!Statement) /\ Calm(ab) /\ (r \in Row \ HiddenRow => C!Leads(ab, r, saved[r], v))
    BY <2>1, CalmJoined, LeadsOn
  <2> HIDE DEF ab
  <2>5. abc \in Seq(C!Statement) /\ Calm(abc) /\ (r \in Row \ HiddenRow => C!Leads(abc, r, saved[r], w))
    BY <2>1, <2>4, CalmJoined, LeadsOn
  <2> HIDE DEF abc
  <2>6. /\ abc \o d \in Seq(C!Statement) /\ Calm(abc \o d)
        /\ r \in Row \ HiddenRow => C!Leads(abc \o d, r, saved[r], x)
    BY <2>1, <2>5, CalmJoined, LeadsOn
  <2> QED BY <2>3, <2>6 DEF ab, abc
<1>6. body \in Seq(C!Statement) /\ Calm(body) /\ e \in Seq(C!Statement) /\ DOMAIN body = 1..Len(body)
      /\ Len(body) \in Nat
  BY <1>3, <1>4, <1>5
<1> HIDE DEF body
<1>7. ASSUME NEW r \in Row \ HiddenRow PROVE C!Leads(C!Statements, r, saved[r], C!AsAsked(r))
  <2>1. C!Leads(e, r, C!AsAsked(r), C!AsAsked(r))
    <3>1. CASE input.create > 0
      <4>1. Len(e) = 1 /\ e[1] = CreateOne /\ \A n : n \in 1..1 <=> n = 1
        BY <1>3, <3>1
      <4> QED BY <1>4, <4>1 DEF C!Leads, C!Kept
    <3>2. CASE ~(input.create > 0)
      BY <1>3, <3>2, EndLeads
    <3> QED BY <3>1, <3>2
  <2> QED BY <1>1, <1>5, <1>6, <2>1, LeadsOn
<1>8. CASE input.create > 0
  <2>1. C!Statements \in Seq(C!Statement) /\ C!Statements = body \o <<CreateOne>>
    BY <1>1, <1>3, <1>4, <1>6, <1>8
  <2>2. /\ Len(C!Statements) = Len(body) + 1 /\ DOMAIN C!Statements = 1..(Len(body) + 1)
        /\ C!Statements[Len(body) + 1] = CreateOne
        /\ \A n \in 1..Len(body) : C!Statements[n] = body[n]
    BY <1>4, <1>6, <2>1
  <2>3. ASSUME NEW n \in DOMAIN C!Statements
        PROVE  C!Blind(C!Statements[n]) /\ (C!Statements[n].do = "create" <=> n = Len(C!Statements))
    <3>1. CASE n = Len(body) + 1
      BY <1>4, <2>2, <3>1
    <3>2. CASE n # Len(body) + 1
      <4>1. n \in 1..Len(body) /\ n # Len(C!Statements)
        BY <1>6, <2>2, <3>2
      <4> QED BY <1>6, <2>2, <4>1 DEF Calm
    <3> QED BY <3>1, <3>2
  <2>4. C!Statements # <<>>
    BY <1>6, <2>2
  <2> QED BY <1>7, <1>8, <2>1, <2>3, <2>4
<1>9. CASE ~(input.create > 0)
  <2>1. C!Statements = body /\ input.create = 0
    <3>1. body \o <<>> = body
      BY <1>6, EmptyEnds
    <3>2. input.create = 0
      BY <1>2, <1>9
    <3> QED BY <1>1, <1>3, <1>9, <3>1, <3>2
  <2> QED BY <1>6, <1>7, <1>9, <2>1 DEF Calm
<1> QED BY <1>8, <1>9

\* What the input asks of a row, and where statements lead it, follow from what does not change.
LEMMA AskedSame ==
  ASSUME UNCHANGED <<plan, input, parents, saved>>
  PROVE  /\ C!ReadsKey' = C!ReadsKey /\ C!Parents' = C!Parents
         /\ \A r : C!AsAsked(r)' = C!AsAsked(r)
<1>1. C!ReadsKey' = C!ReadsKey /\ C!Parents' = C!Parents /\ C!Attaching' = C!Attaching
  BY OneSame
<1>2. \A r : C!AfterSet(r)' = C!AfterSet(r)
  BY <1>1 DEF C!AfterSet, C!Named, C!Operands, C!LastParent
<1>3. \A r : C!Released(r)' = C!Released(r)
  BY <1>1, <1>2 DEF C!Released, C!Named, C!Operands
<1>4. \A r : C!AsAsked(r)' = C!AsAsked(r)
  BY <1>1, <1>2, <1>3 DEF C!AsAsked, C!Named, C!Operands, C!LastParent, C!New
<1> QED BY <1>1, <1>4

\* The invariant, where the input does not read the key.
LEMMA AskedNow ==
  ASSUME C!AskedInv, ~C!ReadsKey, step \in {"running", "done"}
  PROVE  /\ \A r \in Row \ HiddenRow : C!Leads(todo, r, key[r], C!AsAsked(r))
         /\ \A r \in HiddenRow : key[r] = saved[r]
         /\ \A r \in C!New : key[r] = IF todo = <<>> THEN C!AsAsked(r) ELSE Nowhere
         /\ \A n \in DOMAIN todo : /\ C!Blind(todo[n])
                                   /\ todo[n].do = "create" <=> input.create > 0 /\ n = Len(todo)
         /\ step = "done" => todo = <<>>
BY Zenon DEF C!AskedInv

\* Where a step of the program leaves each row.
LEMMA RowsAfter ==
  ASSUME C!Stays, C!KeyInv, C!Next, step = "running", todo # <<>>, step' # "failed",
         C!Blind(Head(todo)), \A r \in C!New : key[r] = Nowhere
  PROVE  /\ \A r \in Row \ HiddenRow :
              key'[r] = IF C!Puts(Head(todo), r) THEN Head(todo).to
                        ELSE IF C!Clears(Head(todo), r) /\ key[r] \in C!Parents THEN NoHolder ELSE key[r]
         /\ \A r \in HiddenRow : key'[r] = key[r]
         /\ \A r \in C!New :
              key'[r] = IF Head(todo).do = "create" /\ r[1] \in C!Parents /\ r[2] <= input.create
                        THEN r[1] ELSE Nowhere
<1> DEFINE s == Head(todo)
<1>1. /\ C!TargetRow = Row \cup C!New /\ Row \cap C!New = {} /\ HiddenRow \subseteq Row
      /\ Nowhere \notin C!Parents /\ input.create \in Nat
  BY ChildGround, ParentFacts, OperandType
<1>2. /\ \A r \in Row : key[r] # Nowhere
      /\ s.do \in {"attach", "detachMatching"} => s.filter.holder = AnyHolder
  BY DEF C!KeyInv, C!Blind
<1>3. s.do \in {"attach", "detachMatching"} =>
        \A r \in C!TargetRow :
          r \in C!Reached(s.filter) <=> r \notin HiddenRow /\ key[r] # Nowhere /\ r \in s.filter.rows
  BY <1>2 DEF C!Reached, C!Exists, C!Selects
<1>4. \A r \in C!TargetRow : r \in C!HeldByBatch <=> r \notin HiddenRow /\ key[r] \in C!Parents
  BY DEF C!HeldByBatch
<1>5. CASE C!RunDetach
  <2> DEFINE rows_ == IF s.do = "detach" THEN C!HeldByBatch ELSE C!HeldByBatch \cap C!Reached(s.filter)
  <2>1. C!Write([r \in rows_ |-> NoHolder], <<s.by, "update">>) /\ s.do \in {"detach", "detachMatching"}
    BY <1>5 DEF C!RunDetach
  <2>2. \A r \in C!TargetRow : key'[r] = IF r \in rows_ THEN NoHolder ELSE key[r]
    BY <2>1, KeysAfter
  <2>3. \A r \in C!TargetRow : r \in rows_ <=>
          r \notin HiddenRow /\ key[r] \in C!Parents /\ C!Clears(s, r)
    BY <1>1, <1>3, <1>4, <2>1 DEF C!Clears
  <2>4. \A r : ~C!Puts(s, r)
    BY <2>1 DEF C!Puts
  <2> HIDE DEF rows_
  <2> QED BY <1>1, <2>1, <2>2, <2>3, <2>4
<1>6. CASE C!RunAttach
  <2>1. C!Write([r \in C!Reached(s.filter) |-> s.to], <<s.by, "update">>) /\ s.do = "attach"
    BY <1>6 DEF C!RunAttach
  <2>2. \A r \in C!TargetRow : key'[r] = IF r \in C!Reached(s.filter) THEN s.to ELSE key[r]
    BY <2>1, KeysAfter
  <2>3. \A r : ~C!Clears(s, r) /\ (C!Puts(s, r) <=> r \in s.filter.rows)
    BY <2>1 DEF C!Puts, C!Clears
  <2> QED BY <1>1, <1>2, <1>3, <2>1, <2>2, <2>3
<1>7. CASE C!RunCreate
  <2>1. /\ C!Write([r \in C!Parents \X (1..input.create) |-> r[1]], <<"create", "insert">>)
        /\ s.do = "create"
    BY <1>7 DEF C!RunCreate
  <2>2. \A r \in C!TargetRow : key'[r] = IF r \in C!Parents \X (1..input.create) THEN r[1] ELSE key[r]
    BY <2>1, KeysAfter
  <2>3. ASSUME NEW r \in C!New
        PROVE  r \in C!Parents \X (1..input.create) <=> r[1] \in C!Parents /\ r[2] <= input.create
    BY <1>1 DEF C!New
  <2>4. ASSUME NEW r \in Row PROVE r \notin C!Parents \X (1..input.create)
    <3>1. C!Parents \subseteq Parent /\ input.create \in 0..MaxCreate /\ MaxCreate \in Nat
      BY ParentFacts, PlansAssumption DEF C!Stays, C!Offered, C!ChildrenAssumption
    <3>2. C!Parents \X (1..input.create) \subseteq C!New
      BY <3>1 DEF C!New
    <3> QED BY <1>1, <3>2
  <2>5. \A r : ~C!Clears(s, r) /\ ~C!Puts(s, r)
    BY <2>1 DEF C!Puts, C!Clears
  <2> QED BY <1>1, <2>1, <2>2, <2>3, <2>4, <2>5
<1>8. CASE C!Passes
  <2>1. key' = key /\ s.do \in {"matchOne", "refuseHeld", "checkHeld"}
    BY <1>8 DEF C!Passes
  <2>2. \A r : ~C!Clears(s, r) /\ ~C!Puts(s, r)
    BY <2>1 DEF C!Puts, C!Clears
  <2> QED BY <2>1, <2>2
<1> QED BY <1>5, <1>6, <1>7, <1>8 DEF C!Next, C!Begin, C!Fails, C!Finish, C!Ended

\* Nothing has run yet, and the whole program leads every row to where the input says.
LEMMA AskedBegin ==
  ASSUME C!HooksInv, C!KeyInv, C!Begin, ~C!ReadsKey
  PROVE  /\ \A r \in Row \ HiddenRow : C!Leads(todo', r, key'[r], C!AsAsked(r))
         /\ \A r \in HiddenRow : key'[r] = saved[r]
         /\ \A r \in C!New : key'[r] = IF todo' = <<>> THEN C!AsAsked(r) ELSE Nowhere
         /\ \A n \in DOMAIN todo' : /\ C!Blind(todo'[n])
                                    /\ todo'[n].do = "create" <=> input.create > 0 /\ n = Len(todo')
<1>1. /\ C!Stays /\ key' = saved /\ todo' = IF parents = <<>> THEN <<>> ELSE C!Statements
      /\ \A r \in C!New : saved[r] = Nowhere
  BY DEF C!HooksInv, C!KeyInv, C!Begin
<1>2. CASE parents = <<>>
  <2>1. todo' = <<>> /\ \A r : C!AsAsked(r) = saved[r]
    BY <1>1, <1>2 DEF C!AsAsked
  <2>2. \A n \in DOMAIN <<>> : FALSE
    OBVIOUS
  <2> QED BY <1>1, <2>1, <2>2, EndLeads
<1>3. CASE parents # <<>>
  <2>1. todo' = C!Statements
    BY <1>1, <1>3
  <2>2. /\ \A r \in Row \ HiddenRow : C!Leads(todo', r, saved[r], C!AsAsked(r))
        /\ \A n \in DOMAIN todo' : /\ C!Blind(todo'[n])
                                   /\ todo'[n].do = "create" <=> input.create > 0 /\ n = Len(todo')
        /\ todo' = <<>> => input.create = 0
    BY <1>1, <1>3, <2>1, ProgramLeads
  <2>3. ASSUME NEW r \in C!New, input.create = 0 PROVE C!AsAsked(r) = Nowhere
    <3>1. r[2] \in 1..MaxCreate
      BY DEF C!New
    <3>2. ~(r[2] <= input.create)
      BY <2>3, <3>1
    <3> QED BY <1>3, <3>2 DEF C!AsAsked
  <2> QED BY <1>1, <2>2, <2>3
<1> QED BY <1>2, <1>3

\* A statement has run, and the rest leads every row to where the input says.
LEMMA AskedStep ==
  ASSUME C!HooksInv, C!KeyInv, C!AskedInv, C!Next, step = "running", todo # <<>>, step' # "failed",
         ~C!ReadsKey
  PROVE  /\ \A r \in Row \ HiddenRow : C!Leads(todo', r, key'[r], C!AsAsked(r))
         /\ \A r \in HiddenRow : key'[r] = saved[r]
         /\ \A r \in C!New : key'[r] = IF todo' = <<>> THEN C!AsAsked(r) ELSE Nowhere
         /\ \A n \in DOMAIN todo' : /\ C!Blind(todo'[n])
                                    /\ todo'[n].do = "create" <=> input.create > 0 /\ n = Len(todo')
         /\ step' = "running"
<1> DEFINE s == Head(todo)  q == Len(todo')
<1>1. /\ C!Stays /\ todo \in Seq(C!Told) /\ todo' = Tail(todo) /\ step' = "running"
  BY ActionOf DEF C!HooksInv, C!Next, C!Begin, C!RunDetach, C!RunAttach, C!RunCreate, C!Passes, C!Fails,
                  C!Finish, C!Ended, C!Step
<1>2. /\ \A r \in Row \ HiddenRow : C!Leads(todo, r, key[r], C!AsAsked(r))
      /\ \A r \in HiddenRow : key[r] = saved[r]
      /\ \A r \in C!New : key[r] = Nowhere
      /\ \A n \in DOMAIN todo : /\ C!Blind(todo[n])
                                /\ todo[n].do = "create" <=> input.create > 0 /\ n = Len(todo)
  BY AskedNow
<1>3. /\ q \in Nat /\ Len(todo) = q + 1 /\ DOMAIN todo = 1..(q + 1) /\ todo[1] = s /\ DOMAIN todo' = 1..q
      /\ \A n \in 1..q : todo'[n] = todo[n + 1]
      /\ todo' = <<>> <=> q = 0
  <2> DEFINE S == C!Told
  <2>1. todo \in Seq(S) /\ todo # <<>> /\ todo' = Tail(todo)
    BY <1>1
  <2> HIDE DEF S
  <2>2. todo' \in Seq(S) /\ q \in Nat /\ Len(todo) = q + 1
    BY <2>1
  <2>3. DOMAIN todo = 1..(q + 1) /\ DOMAIN todo' = 1..q /\ \A n \in 1..q : todo'[n] = todo[n + 1]
    BY <2>1, <2>2
  <2>4. todo' = <<>> <=> q = 0
    BY <2>2
  <2>5. todo[1] = s
    BY <2>1
  <2> QED BY <2>2, <2>3, <2>4, <2>5
<1> HIDE DEF q
<1>4. C!Blind(s) /\ (s.do = "create" <=> input.create > 0 /\ q = 0)
  <2>1. 1 \in DOMAIN todo /\ (1 = Len(todo) <=> q = 0)
    BY <1>3
  <2> QED BY <1>2, <1>3, <2>1
<1>5. /\ \A r \in Row \ HiddenRow :
           key'[r] = IF C!Puts(s, r) THEN s.to
                     ELSE IF C!Clears(s, r) /\ key[r] \in C!Parents THEN NoHolder ELSE key[r]
      /\ \A r \in HiddenRow : key'[r] = key[r]
      /\ \A r \in C!New :
           key'[r] = IF s.do = "create" /\ r[1] \in C!Parents /\ r[2] <= input.create THEN r[1] ELSE Nowhere
  BY <1>1, <1>2, <1>4, RowsAfter
<1>6. ASSUME NEW r \in Row \ HiddenRow PROVE C!Leads(todo', r, key'[r], C!AsAsked(r))
  <2>1. C!Leads(Tail(todo), r, IF C!Puts(Head(todo), r) THEN Head(todo).to
                               ELSE IF C!Clears(Head(todo), r) /\ key[r] \in C!Parents THEN NoHolder
                               ELSE key[r], C!AsAsked(r))
    BY <1>1, <1>2, <1>4, LeadsStep
  <2> QED BY <1>1, <1>5, <2>1
<1>7. ASSUME NEW r \in C!New PROVE key'[r] = IF todo' = <<>> THEN C!AsAsked(r) ELSE Nowhere
  <2>1. CASE todo' # <<>>
    BY <1>3, <1>4, <1>5, <2>1
  <2>2. CASE todo' = <<>>
    <3>1. parents # <<>> =>
            C!AsAsked(r) = IF r[1] \in C!Parents /\ r[2] <= input.create THEN r[1] ELSE Nowhere
      BY DEF C!AsAsked
    <3>2. parents = <<>> => r[1] \notin C!Parents /\ C!AsAsked(r) = Nowhere
      BY DEF C!AsAsked, C!Parents, C!ToSet, C!KeyInv
    <3>3. r[2] \in 1..MaxCreate /\ input.create \in Nat
      BY <1>1, OperandType DEF C!New
    <3>4. ~(input.create > 0) => ~(r[2] <= input.create)
      BY <3>3
    <3> QED BY <1>3, <1>4, <1>5, <2>2, <3>1, <3>2, <3>4
  <2> QED BY <2>1, <2>2
<1>8. ASSUME NEW n \in DOMAIN todo'
      PROVE  C!Blind(todo'[n]) /\ (todo'[n].do = "create" <=> input.create > 0 /\ n = Len(todo'))
  <2>1. n + 1 \in DOMAIN todo /\ todo'[n] = todo[n + 1] /\ (n + 1 = Len(todo) <=> n = q)
    BY <1>3
  <2> QED BY <1>2, <2>1 DEF q
<1> QED BY <1>1, <1>2, <1>5, <1>6, <1>7, <1>8

\* The invariant's parts after a step, in terms of what was asked before it.
LEMMA AskedPrimed ==
  ASSUME UNCHANGED <<plan, input, parents, saved>>,
         /\ \A r \in Row \ HiddenRow : C!Leads(todo', r, key'[r], C!AsAsked(r))
         /\ \A r \in HiddenRow : key'[r] = saved[r]
         /\ \A r \in C!New : key'[r] = IF todo' = <<>> THEN C!AsAsked(r) ELSE Nowhere
         /\ \A n \in DOMAIN todo' : /\ C!Blind(todo'[n])
                                    /\ todo'[n].do = "create" <=> input.create > 0 /\ n = Len(todo')
         /\ step' = "done" => todo' = <<>>
  PROVE  C!AskedInv'
<1>1. C!Parents' = C!Parents /\ \A r : C!AsAsked(r)' = C!AsAsked(r)
  BY AskedSame
<1>2. \A r \in Row \ HiddenRow : C!Leads(todo, r, key[r], C!AsAsked(r))'
  BY <1>1 DEF C!Leads, C!Kept, C!Puts, C!Clears
<1>3. \A n \in DOMAIN todo' : C!Blind(todo[n])'
  BY <1>1 DEF C!Blind
<1>4. \A r \in C!New' : (key[r] = IF todo = <<>> THEN C!AsAsked(r) ELSE Nowhere)'
  BY <1>1 DEF C!New
<1> QED BY <1>2, <1>3, <1>4 DEF C!AskedInv

LEMMA AskedStays ==
  ASSUME C!AskedInv, UNCHANGED <<plan, input, parents, saved, key, todo>>,
         step' \in {"running", "done"} => step \in {"running", "done"},
         step' = "done" => todo = <<>> \/ step = "done"
  PROVE  C!AskedInv'
<1> SUFFICES ASSUME ~C!ReadsKey', step' \in {"running", "done"} PROVE C!AskedInv'
  BY DEF C!AskedInv
<1>1. ~C!ReadsKey
  BY AskedSame
<1>2. /\ \A r \in Row \ HiddenRow : C!Leads(todo, r, key[r], C!AsAsked(r))
      /\ \A r \in HiddenRow : key[r] = saved[r]
      /\ \A r \in C!New : key[r] = IF todo = <<>> THEN C!AsAsked(r) ELSE Nowhere
      /\ \A n \in DOMAIN todo : /\ C!Blind(todo[n])
                                /\ todo[n].do = "create" <=> input.create > 0 /\ n = Len(todo)
      /\ step' = "done" => todo = <<>>
  BY <1>1, AskedNow
<1> QED BY <1>2, AskedPrimed

LEMMA AskedKeep == ASSUME C!HooksInv, C!KeyInv, C!AskedInv, C!Next PROVE C!AskedInv'
<1> SUFFICES ASSUME ~C!ReadsKey', step' \in {"running", "done"} PROVE C!AskedInv'
  BY DEF C!AskedInv
<1>0. UNCHANGED <<plan, input, parents, saved>> /\ step' # "failed"
  BY DEF C!Next, C!Begin, C!RunDetach, C!RunAttach, C!RunCreate, C!Passes, C!Fails, C!Finish, C!Ended,
     C!Keeps, C!vars
<1>1. ~C!ReadsKey
  BY <1>0, AskedSame
<1>2. CASE C!Begin
  <2>1. step' = "running"
    BY <1>2 DEF C!Begin
  <2> QED BY <1>0, <1>1, <1>2, <2>1, AskedBegin, AskedPrimed
<1>3. CASE step = "running" /\ todo # <<>>
  <2>1. step' = "running"
    BY <1>0, <1>1, <1>3, AskedStep
  <2> QED BY <1>0, <1>1, <1>3, <2>1, AskedStep, AskedPrimed
<1>4. CASE C!Finish \/ C!Ended
  <2>1. UNCHANGED <<key, todo>> /\ step \in {"running", "done"} /\ (todo = <<>> \/ step = "done")
    BY <1>0, <1>4 DEF C!Finish, C!Ended, C!vars
  <2> QED BY <1>0, <2>1, AskedStays
<1>5. C!Fails => FALSE
  BY <1>0 DEF C!Fails
<1>6. C!RunDetach \/ C!RunAttach \/ C!RunCreate \/ C!Passes => step = "running" /\ todo # <<>>
  BY DEF C!RunDetach, C!RunAttach, C!RunCreate, C!Passes, C!Step
<1> QED BY <1>2, <1>3, <1>4, <1>5, <1>6 DEF C!Next

\* When nothing is left to run, every row is where the input says.
LEMMA AskedHolds == ASSUME C!KeyInv, C!AskedInv PROVE C!OutcomeAsAsked
<1> SUFFICES ASSUME step = "done", ~C!ReadsKey, NEW r \in C!TargetRow PROVE key[r] = C!AsAsked(r)
  BY DEF C!OutcomeAsAsked
<1>1. /\ todo = <<>>
      /\ \A x \in Row \ HiddenRow : C!Leads(todo, x, key[x], C!AsAsked(x))
      /\ \A x \in HiddenRow : key[x] = saved[x]
      /\ \A x \in C!New : key[x] = IF todo = <<>> THEN C!AsAsked(x) ELSE Nowhere
  BY DEF C!AskedInv
<1>2. CASE r \in C!New
  BY <1>1, <1>2
<1>3. CASE r \in Row \ HiddenRow
  BY <1>1, <1>3, EndLeads
<1>4. CASE r \in HiddenRow
  <2>1. r \notin C!New
    BY <1>4, ChildGround
  <2>2. \A list : r \notin C!Named(list)
    BY <1>4 DEF C!Named
  <2>3. C!AsAsked(r) = saved[r]
    BY <1>4, <2>1, <2>2 DEF C!AsAsked, C!Released, C!AfterSet
  <2> QED BY <1>1, <1>4, <2>3
<1> QED BY <1>2, <1>3, <1>4, ChildGround

-----------------------------------------------------------------------------
(* A junction: the hooks. *)

\* What a request is given, and what its operands select.
LEMMA LinkTypes ==
  ASSUME J!ToldInv, NEW q \in Request
  PROVE  /\ chunks[q] \in Seq(SUBSET Source)
         /\ \A n \in {"set", "disconnect", "connect"} :
              J!Given(inputs[q][n]) => J!Selected(inputs[q][n]) \subseteq LinkTarget
<1>1. inputs[q] \in Inputs /\ chunks[q] \in Splits
  BY DEF J!ToldInv
<1>2. chunks[q] \in Seq(SUBSET Source)
  BY <1>1, PlansAssumption DEF J!JunctionAssumption
<1>3. ASSUME NEW n \in {"set", "disconnect", "connect"}, J!Given(inputs[q][n])
      PROVE  J!Selected(inputs[q][n]) \subseteq LinkTarget
  <2> DEFINE list == inputs[q][n]
  <2>1. list \in Seq(SUBSET LinkTarget)
    BY <1>1, <1>3, PlansAssumption DEF J!JunctionAssumption, J!Given
  <2>2. \A S \in J!ToSet(list) : S \subseteq LinkTarget
    BY <2>1 DEF J!ToSet
  <2> QED BY <2>2 DEF J!Selected
<1> QED BY <1>2, <1>3

LEMMA UnlinksTold ==
  ASSUME NEW q \in Request, chunks[q] \in Seq(SUBSET Source), NEW S \in SUBSET LinkTarget,
         NEW by \in {"set", "disconnect"}, <<by, "delete">> \in J!Registered(q)
  PROVE  J!Unlinks(q, by, S) \in Seq(J!Told(q))
<1> DEFINE One(n) == [do |-> "unlink", by |-> by, of |-> chunks[q][n], to |-> S]
<1>1. J!Unlinks(q, by, S) = [n \in DOMAIN chunks[q] |-> One(n)]
  BY DEF J!Unlinks
<1>2. Len(chunks[q]) \in Nat /\ DOMAIN chunks[q] = 1..Len(chunks[q])
      /\ \A n \in DOMAIN chunks[q] : chunks[q][n] \in SUBSET Source
  OBVIOUS
<1>3. \A n \in DOMAIN chunks[q] : One(n) \in J!Told(q)
  BY <1>2 DEF J!Told, J!Statement, J!StepOf
<1> HIDE DEF One
<1> QED BY <1>1, <1>2, <1>3

LEMMA LinksTold ==
  ASSUME NEW q \in Request, chunks[q] \in Seq(SUBSET Source), NEW S \in SUBSET LinkTarget,
         NEW by \in {"set", "connect"}, <<by, "insert">> \in J!Registered(q),
         marks => <<by, "restore">> \in J!Registered(q)
  PROVE  J!Links(q, by, S) \in Seq(J!Told(q))
<1> DEFINE read(n) == [do |-> "read", by |-> by, of |-> chunks[q][n], to |-> S]
           restore == [do |-> "restore", by |-> by]
           insert == [do |-> "insert", by |-> by]
           One(n) == <<read(n)>> \o (IF marks THEN <<restore>> ELSE <<>>) \o <<insert>>
           Each == [n \in DOMAIN chunks[q] |-> One(n)]
<1>1. Len(chunks[q]) \in Nat /\ DOMAIN chunks[q] = 1..Len(chunks[q])
      /\ \A n \in DOMAIN chunks[q] : chunks[q][n] \in SUBSET Source
  OBVIOUS
<1>2. insert \in J!Told(q) /\ (marks => restore \in J!Told(q))
  BY DEF J!Told, J!Statement, J!StepOf
<1>3. \A n \in DOMAIN chunks[q] : read(n) \in J!Told(q)
  BY <1>1 DEF J!Told, J!Statement, J!Writes
<1>4. S # {} => J!Links(q, by, S) = J!FlattenSeq(Each)
  BY DEF J!Links
<1>5. S = {} => J!Links(q, by, S) = <<>>
  BY DEF J!Links
<1> HIDE DEF read, restore, insert
<1>6. ASSUME NEW n \in DOMAIN chunks[q] PROVE One(n) \in Seq(J!Told(q))
  <2>1. read(n) \in J!Told(q) /\ insert \in J!Told(q) /\ (marks => restore \in J!Told(q))
    BY <1>2, <1>3
  <2>2. <<read(n)>> \in Seq(J!Told(q)) /\ <<insert>> \in Seq(J!Told(q))
    BY <2>1
  <2>3. (IF marks THEN <<restore>> ELSE <<>>) \in Seq(J!Told(q))
    BY <2>1
  <2> QED BY <2>2, <2>3
<1> HIDE DEF One
<1>7. Each \in Seq(Seq(J!Told(q)))
  BY <1>1, <1>6
<1> HIDE DEF Each
<1>8. J!FlattenSeq(Each) \in Seq(J!Told(q))
  <2>1. CASE Each # <<>>
    BY <1>7, <2>1, FlatType, SameFlat
  <2>2. CASE Each = <<>>
    <3>1. J!FlattenSeq(Each) = <<>>
      BY <2>2 DEF J!FlattenSeq
    <3> QED BY <3>1
  <2> QED BY <2>1, <2>2
<1>9. CASE S = {}
  <2>1. <<>> \in Seq(J!Told(q))
    OBVIOUS
  <2> QED BY <1>5, <1>9, <2>1
<1>10. CASE S # {}
  BY <1>4, <1>8, <1>10
<1> QED BY <1>9, <1>10

\* Every statement that writes a link belongs to a step that is registered.
LEMMA LinkProgram ==
  ASSUME J!ToldInv, NEW q \in Request
  PROVE  J!Statements(q) \in Seq(J!Told(q))
<1> DEFINE Is(n) == J!Given(inputs[q][n])
<1>0. chunks[q] \in Seq(SUBSET Source)
      /\ \A n \in {"set", "disconnect", "connect"} : Is(n) => J!Selected(inputs[q][n]) \subseteq LinkTarget
  BY LinkTypes
<1>1. /\ Is("set") => <<"set", "delete">> \in J!Registered(q)
      /\ Is("disconnect") => <<"disconnect", "delete">> \in J!Registered(q)
      /\ \A n \in {"set", "connect"} :
           Is(n) => <<n, "insert">> \in J!Registered(q) /\ (marks => <<n, "restore">> \in J!Registered(q))
  BY DEF J!Registered
<1>2. J!SetStatements(q) \in Seq(J!Told(q))
  <2>1. CASE J!Given(inputs[q].set)
    <3>1. J!Unlinks(q, "set", LinkTarget \ HiddenTarget) \in Seq(J!Told(q))
      BY <1>0, <1>1, <2>1, UnlinksTold
    <3>2. J!Links(q, "set", J!Selected(inputs[q].set)) \in Seq(J!Told(q))
      BY <1>0, <1>1, <2>1, LinksTold
    <3> QED BY <2>1, <3>1, <3>2 DEF J!SetStatements
  <2> QED BY <2>1 DEF J!SetStatements
<1>3. J!DisconnectStatements(q) \in Seq(J!Told(q))
  <2>1. CASE J!Given(inputs[q].disconnect)
    <3>1. J!Unlinks(q, "disconnect", J!Selected(inputs[q].disconnect)) \in Seq(J!Told(q))
      BY <1>0, <1>1, <2>1, UnlinksTold
    <3> QED BY <3>1 DEF J!DisconnectStatements
  <2> QED BY <2>1 DEF J!DisconnectStatements
<1>4. J!ConnectStatements(q) \in Seq(J!Told(q))
  <2>1. CASE J!Given(inputs[q].connect)
    <3>1. J!Links(q, "connect", J!Selected(inputs[q].connect)) \in Seq(J!Told(q))
      BY <1>0, <1>1, <2>1, LinksTold
    <3> QED BY <2>1, <3>1 DEF J!ConnectStatements
  <2> QED BY <2>1 DEF J!ConnectStatements
<1> QED BY <1>2, <1>3, <1>4 DEF J!Statements

LEMMA LinkSame ==
  ASSUME UNCHANGED <<marks, inputs>>, NEW q
  PROVE  J!Registered(q)' = J!Registered(q) /\ J!Told(q)' = J!Told(q)
<1>1. J!Registered(q)' = J!Registered(q)
  BY DEF J!Registered
<1> QED BY <1>1 DEF J!Told

\* A request that a step does not touch.
LEMMA OtherRequest ==
  ASSUME UNCHANGED <<marks, inputs>>, NEW q \in Request, J!Collected(q),
         at'[q] = at[q], own'[q] = own[q], told'[q] = told[q], rest'[q] = rest[q]
  PROVE  J!Collected(q)'
<1>1. J!Registered(q)' = J!Registered(q) /\ J!Told(q)' = J!Told(q)
  BY LinkSame
<1> QED BY <1>1 DEF J!Collected

\* A statement that writes links hands them to its step.
LEMMA LinkWrite ==
  ASSUME J!ToldInv, UNCHANGED <<marks, inputs, at>>, NEW q \in Request, at[q] = "running",
         rest[q] # <<>>, rest' = [rest EXCEPT ![q] = Tail(rest[q])],
         NEW rows_, NEW state, NEW s \in J!Registered(q), J!Write(q, rows_, state, s)
  PROVE  /\ J!Collected(q)'
         /\ DOMAIN own' = Request /\ DOMAIN told' = Request
         /\ \A k \in Request \ {q} : own'[k] = own[k] /\ told'[k] = told[k]
<1>1. /\ own' = [own EXCEPT ![q] =
                   [l \in DOMAIN own[q] \cup rows_ |-> IF l \in rows_ THEN state ELSE own[q][l]]]
      /\ told' = [told EXCEPT ![q][s] = told[q][s] \cup rows_]
      /\ DOMAIN own = Request /\ DOMAIN told = Request /\ DOMAIN rest = Request
  BY DEF J!Write, J!ToldInv
<1>2. /\ DOMAIN told[q] = J!Registered(q) /\ rest[q] \in Seq(J!Told(q))
      /\ DOMAIN own[q] = UNION {told[q][k] : k \in DOMAIN told[q]}
  BY DEF J!ToldInv, J!Collected
<1>3. DOMAIN own'[q] = DOMAIN own[q] \cup rows_
  BY <1>1
<1>4. told'[q] = [told[q] EXCEPT ![s] = told[q][s] \cup rows_]
  BY <1>1
<1>5. DOMAIN told'[q] = DOMAIN told[q]
      /\ \A k \in DOMAIN told[q] : told'[q][k] = IF k = s THEN told[q][k] \cup rows_ ELSE told[q][k]
  BY <1>4
<1>6. DOMAIN own'[q] = UNION {told'[q][k] : k \in DOMAIN told'[q]}
  <2>1. ASSUME NEW l \in DOMAIN own'[q] PROVE \E k \in DOMAIN told'[q] : l \in told'[q][k]
    <3>1. CASE l \in rows_
      BY <1>2, <1>5, <3>1
    <3>2. CASE l \in DOMAIN own[q]
      <4>1. PICK k \in DOMAIN told[q] : l \in told[q][k]
        BY <1>2, <3>2
      <4> QED BY <1>5, <4>1
    <3> QED BY <1>3, <2>1, <3>1, <3>2
  <2>2. ASSUME NEW k \in DOMAIN told'[q], NEW l \in told'[q][k] PROVE l \in DOMAIN own'[q]
    BY <1>2, <1>3, <1>5
  <2> QED BY <2>1, <2>2
<1>7. J!Registered(q)' = J!Registered(q) /\ J!Told(q)' = J!Told(q)
  BY LinkSame
<1>8. rest'[q] \in Seq(J!Told(q))
  BY <1>1, <1>2
<1>9. J!Collected(q)'
  BY <1>2, <1>5, <1>6, <1>7, <1>8 DEF J!Collected
<1> QED BY <1>1, <1>9

LEMMA ToldStays == ASSUME J!ToldInv, UNCHANGED linkVars PROVE J!ToldInv'
<1>1. UNCHANGED <<own, told, rest, at, inputs, chunks, marks>>
  BY DEF linkVars
<1>2. \A q \in Request : J!Collected(q)'
  BY <1>1, OtherRequest DEF J!ToldInv
<1> QED BY <1>1, <1>2 DEF J!ToldInv

LEMMA ToldKeep == ASSUME J!ToldInv, J!Next PROVE J!ToldInv'
<1>0. /\ DOMAIN own = Request /\ DOMAIN told = Request /\ DOMAIN rest = Request /\ DOMAIN at = Request
      /\ inputs \in [Request -> Inputs] /\ chunks \in [Request -> Splits]
      /\ \A q \in Request : J!Collected(q)
  BY DEF J!ToldInv
<1>1. ASSUME NEW q \in Request, UNCHANGED <<marks, inputs, chunks>>, J!Collected(q)',
             DOMAIN own' = Request, DOMAIN told' = Request, DOMAIN rest' = Request, DOMAIN at' = Request,
             \A k \in Request \ {q} : /\ at'[k] = at[k] /\ own'[k] = own[k]
                                      /\ told'[k] = told[k] /\ rest'[k] = rest[k]
      PROVE  J!ToldInv'
  <2>1. ASSUME NEW k \in Request \ {q} PROVE J!Collected(k)'
    BY <1>0, <1>1, OtherRequest
  <2>2. \A k \in Request : J!Collected(k)'
    BY <1>1, <2>1
  <2> QED BY <1>0, <1>1, <2>2 DEF J!ToldInv
<1>2. ASSUME NEW q \in Request, J!Begin(q) PROVE J!ToldInv'
  <2>1. /\ at[q] = "before" /\ at' = [at EXCEPT ![q] = "running"]
        /\ rest' = [rest EXCEPT ![q] = J!Statements(q)]
        /\ told' = [told EXCEPT ![q] = [s \in J!Registered(q) |-> {}]]
        /\ UNCHANGED <<marks, inputs, chunks, own>>
    BY <1>2 DEF J!Begin
  <2>2. J!Registered(q)' = J!Registered(q) /\ J!Told(q)' = J!Told(q)
    BY <2>1, LinkSame
  <2>3. own[q] = << >> /\ J!Statements(q) \in Seq(J!Told(q))
    BY <1>0, <2>1, LinkProgram DEF J!Collected
  <2>4. told'[q] = [s \in J!Registered(q) |-> {}] /\ rest'[q] = J!Statements(q) /\ own'[q] = << >>
    BY <1>0, <2>1, <2>3
  <2>5. UNION {told'[q][s] : s \in DOMAIN told'[q]} = {} /\ DOMAIN own'[q] = {}
    BY <2>4
  <2>6. J!Collected(q)'
    BY <1>0, <2>1, <2>2, <2>3, <2>4, <2>5 DEF J!Collected
  <2> QED BY <1>0, <1>1, <2>1, <2>6
<1>3. ASSUME NEW q \in Request, J!Unlink(q) \/ J!Restore(q) \/ J!Insert(q) PROVE J!ToldInv'
  <2>1. /\ at[q] = "running" /\ rest[q] # <<>> /\ rest' = [rest EXCEPT ![q] = Tail(rest[q])]
        /\ UNCHANGED <<marks, inputs, chunks, at>>
    BY <1>3 DEF J!Unlink, J!Restore, J!Insert, J!Runs, J!Keeps
  <2>2. rest[q] \in Seq(J!Told(q))
    BY <1>0, <2>1 DEF J!Collected
  <2>3. Head(rest[q]) \in J!Told(q)
    BY <2>1, <2>2
  <2>4. PICK s \in J!Registered(q) : \E rows_, state : J!Write(q, rows_, state, s)
    <3> DEFINE h == Head(rest[q])
    <3>1. CASE J!Unlink(q)
      <4>1. h.do = "unlink" /\ \E rows_, state : J!Write(q, rows_, state, <<h.by, "delete">>)
        BY <3>1 DEF J!Unlink, J!Runs
      <4>2. <<h.by, "delete">> \in J!Registered(q)
        BY <2>3, <4>1 DEF J!Told, J!Writes, J!StepOf
      <4> QED BY <4>1, <4>2
    <3>2. CASE J!Restore(q)
      <4>1. h.do = "restore" /\ \E rows_, state : J!Write(q, rows_, state, <<h.by, "restore">>)
        BY <3>2 DEF J!Restore, J!Runs
      <4>2. <<h.by, "restore">> \in J!Registered(q)
        BY <2>3, <4>1 DEF J!Told, J!Writes, J!StepOf
      <4> QED BY <4>1, <4>2
    <3>3. CASE J!Insert(q)
      <4>1. h.do = "insert" /\ \E rows_, state : J!Write(q, rows_, state, <<h.by, "insert">>)
        BY <3>3 DEF J!Insert, J!Runs
      <4>2. <<h.by, "insert">> \in J!Registered(q)
        BY <2>3, <4>1 DEF J!Told, J!Writes, J!StepOf
      <4> QED BY <4>1, <4>2
    <3> QED BY <1>3, <3>1, <3>2, <3>3
  <2>5. PICK rows_, state : J!Write(q, rows_, state, s)
    BY <2>4
  <2>6. /\ J!Collected(q)' /\ DOMAIN own' = Request /\ DOMAIN told' = Request
        /\ \A k \in Request \ {q} : own'[k] = own[k] /\ told'[k] = told[k]
    BY <2>1, <2>4, <2>5, LinkWrite
  <2>7. DOMAIN rest' = Request /\ \A k \in Request \ {q} : rest'[k] = rest[k]
    BY <1>0, <2>1
  <2> QED BY <1>0, <1>1, <2>1, <2>6, <2>7
<1>4. ASSUME NEW q \in Request, J!Read(q) PROVE J!ToldInv'
  <2>1. /\ at[q] = "running" /\ rest[q] # <<>> /\ rest' = [rest EXCEPT ![q] = Tail(rest[q])]
        /\ UNCHANGED <<marks, inputs, chunks, at, own, told>>
    BY <1>4 DEF J!Read, J!Runs, J!Keeps
  <2>2. J!Registered(q)' = J!Registered(q) /\ J!Told(q)' = J!Told(q)
    BY <2>1, LinkSame
  <2>3. rest[q] \in Seq(J!Told(q)) /\ rest'[q] = Tail(rest[q])
    BY <1>0, <2>1 DEF J!Collected
  <2>4. rest'[q] \in Seq(J!Told(q))
    BY <2>1, <2>3
  <2>5. J!Collected(q)'
    BY <1>0, <2>1, <2>2, <2>4 DEF J!Collected
  <2> QED BY <1>0, <1>1, <2>1, <2>5
<1>5. ASSUME NEW q \in Request, J!Commit(q) \/ J!Refused(q) \/ J!Fails(q) PROVE J!ToldInv'
  <2>1. PICK how \in {"done", "refused", "failed"} : J!Ends(q, how)
    BY <1>5 DEF J!Commit, J!Refused, J!Fails
  <2>2. /\ at' = [at EXCEPT ![q] = how] /\ own' = [own EXCEPT ![q] = << >>]
        /\ rest' = [rest EXCEPT ![q] = <<>>] /\ UNCHANGED <<marks, inputs, chunks, told>>
    BY <2>1 DEF J!Ends
  <2>3. J!Collected(q)'
    BY <1>0, <2>2 DEF J!Collected
  <2> QED BY <1>0, <1>1, <2>2, <2>3
<1>6. CASE J!AllEnded
  BY <1>6, ToldStays DEF J!AllEnded, J!vars, linkVars
<1> QED BY <1>2, <1>3, <1>4, <1>5, <1>6 DEF J!Next

-----------------------------------------------------------------------------
(* A junction: every pair ends where the input says. *)

\* Of two lists end to end the later one decides, unless it is quiet.
LEMMA LastDecides ==
  ASSUME NEW S, NEW u \in Seq(S), NEW w \in Seq(S), NEW p
  PROVE  /\ J!Quiet(u \o w, p) <=> J!Quiet(u, p) /\ J!Quiet(w, p)
         /\ J!LinksLast(u \o w, p) <=> J!LinksLast(w, p) \/ (J!Quiet(w, p) /\ J!LinksLast(u, p))
<1> DEFINE f == u \o w
           A == Len(u)
           B == Len(w)
<1>0. /\ A \in Nat /\ B \in Nat /\ Len(f) = A + B
      /\ \A n \in 1..A : f[n] = u[n] /\ n \in 1..Len(f)
      /\ \A n \in 1..B : f[A + n] = w[n] /\ A + n \in 1..Len(f)
  BY Joined
<1>1. \A n \in 1..Len(f) : n \in 1..A \/ \E m \in 1..B : n = A + m
  <2> HIDE DEF f, A, B
  <2>1. ASSUME NEW n \in 1..Len(f), n \notin 1..A PROVE n - A \in 1..B /\ n = A + (n - A)
    BY <1>0, <2>1
  <2> QED BY <2>1
<1> HIDE DEF f, A, B
<1>2. J!Quiet(f, p) <=> J!Quiet(u, p) /\ J!Quiet(w, p)
  <2>1. ASSUME J!Quiet(f, p) PROVE J!Quiet(u, p) /\ J!Quiet(w, p)
    <3>1. \A n \in 1..A : ~J!Covers(u[n], p)
      BY <1>0, <1>1, <2>1 DEF J!Quiet
    <3>2. \A n \in 1..B : ~J!Covers(w[n], p)
      BY <1>0, <1>1, <2>1 DEF J!Quiet
    <3> QED BY <3>1, <3>2 DEF J!Quiet, A, B
  <2>2. ASSUME J!Quiet(u, p), J!Quiet(w, p) PROVE J!Quiet(f, p)
    <3>1. ASSUME NEW n \in 1..Len(f) PROVE ~J!Covers(f[n], p)
      BY <1>0, <1>1, <2>2 DEF J!Quiet, A, B
    <3> QED BY <3>1 DEF J!Quiet
  <2> QED BY <2>1, <2>2
<1>3. ASSUME J!LinksLast(w, p) PROVE J!LinksLast(f, p)
  <2>1. PICK n \in 1..B : /\ w[n].do = "read" /\ J!Covers(w[n], p)
                          /\ \A m \in (n + 1)..B : ~J!Covers(w[m], p)
    BY <1>3 DEF J!LinksLast, B
  <2>2. ASSUME NEW m \in (A + n + 1)..Len(f) PROVE ~J!Covers(f[m], p)
    <3>1. m - A \in (n + 1)..B /\ m - A \in 1..B /\ A + (m - A) = m
      BY <1>0, <1>1
    <3> QED BY <1>0, <1>1, <2>1, <3>1
  <2>3. A + n \in 1..Len(f) /\ f[A + n] = w[n]
    BY <1>0, <1>1
  <2> QED BY <2>1, <2>2, <2>3 DEF J!LinksLast
<1>4. ASSUME J!Quiet(w, p), J!LinksLast(u, p) PROVE J!LinksLast(f, p)
  <2>1. PICK n \in 1..A : /\ u[n].do = "read" /\ J!Covers(u[n], p)
                          /\ \A m \in (n + 1)..A : ~J!Covers(u[m], p)
    BY <1>4 DEF J!LinksLast, A
  <2>2. ASSUME NEW m \in (n + 1)..Len(f) PROVE ~J!Covers(f[m], p)
    <3>1. CASE m \in 1..A
      <4>1. m \in (n + 1)..A
        BY <1>0, <1>1, <3>1
      <4> QED BY <1>0, <1>1, <2>1, <3>1, <4>1
    <3>2. CASE m \notin 1..A
      <4>1. m \in 1..Len(f)
        BY <1>0, <1>1
      <4>2. PICK k \in 1..B : m = A + k
        BY <1>0, <1>1, <3>2, <4>1
      <4> QED BY <1>0, <1>1, <1>4, <4>2 DEF J!Quiet, B
    <3> QED BY <3>1, <3>2
  <2> QED BY <1>0, <1>1, <2>1, <2>2 DEF J!LinksLast
<1>5. ASSUME J!LinksLast(f, p), ~J!LinksLast(w, p) PROVE J!Quiet(w, p) /\ J!LinksLast(u, p)
  <2>1. PICK n \in 1..Len(f) : /\ f[n].do = "read" /\ J!Covers(f[n], p)
                               /\ \A m \in (n + 1)..Len(f) : ~J!Covers(f[m], p)
    BY <1>5 DEF J!LinksLast
  <2>2. n \in 1..A
    <3> SUFFICES ASSUME n \notin 1..A PROVE FALSE
      OBVIOUS
    <3>1. PICK k \in 1..B : n = A + k
      BY <1>0, <1>1
    <3>2. ASSUME NEW m \in (k + 1)..B PROVE ~J!Covers(w[m], p)
      <4>1. m \in 1..B /\ A + m \in (n + 1)..Len(f)
        BY <1>0, <1>1, <3>1
      <4> QED BY <1>0, <1>1, <2>1, <4>1
    <3>3. w[k].do = "read" /\ J!Covers(w[k], p)
      BY <1>0, <1>1, <2>1, <3>1
    <3> QED BY <1>5, <3>2, <3>3 DEF J!LinksLast, B
  <2>3. ASSUME NEW m \in 1..B PROVE ~J!Covers(w[m], p)
    <3>1. A + m \in (n + 1)..Len(f)
      BY <1>0, <1>1, <2>2
    <3> QED BY <1>0, <1>1, <2>1, <3>1
  <2>4. ASSUME NEW m \in (n + 1)..A PROVE ~J!Covers(u[m], p)
    <3>1. m \in 1..A /\ m \in (n + 1)..Len(f)
      BY <1>0, <1>1, <2>2
    <3> QED BY <1>0, <1>1, <2>1, <3>1
  <2>5. u[n].do = "read" /\ J!Covers(u[n], p)
    BY <1>0, <1>1, <2>1, <2>2
  <2> QED BY <2>2, <2>3, <2>4, <2>5 DEF J!LinksLast, J!Quiet, A, B
<1> QED BY <1>2, <1>3, <1>4, <1>5 DEF f

\* The first statement decides where the others are quiet.
LEMMA HeadDecides ==
  ASSUME NEW S, NEW f \in Seq(S), f # <<>>, NEW p
  PROVE  /\ J!Quiet(f, p) <=> ~J!Covers(Head(f), p) /\ J!Quiet(Tail(f), p)
         /\ J!LinksLast(f, p) <=> \/ J!LinksLast(Tail(f), p)
                                  \/ /\ J!Quiet(Tail(f), p) /\ Head(f).do = "read"
                                     /\ J!Covers(Head(f), p)
<1> DEFINE h == Head(f)
           t == Tail(f)
<1>1. <<h>> \in Seq(S) /\ t \in Seq(S) /\ f = <<h>> \o t
  OBVIOUS
<1>2. Len(<<h>>) = 1 /\ <<h>>[1] = h /\ 1 \in 1..1 /\ (\A n \in 1..1 : n = 1) /\ ~\E m \in (1 + 1)..1 : TRUE
  OBVIOUS
<1> HIDE DEF h, t
<1>3. J!Quiet(<<h>>, p) <=> ~J!Covers(h, p)
  BY <1>2 DEF J!Quiet
<1>4. J!LinksLast(<<h>>, p) <=> h.do = "read" /\ J!Covers(h, p)
  BY <1>2 DEF J!LinksLast
<1>5. /\ J!Quiet(<<h>> \o t, p) <=> J!Quiet(<<h>>, p) /\ J!Quiet(t, p)
      /\ J!LinksLast(<<h>> \o t, p) <=> J!LinksLast(t, p) \/ (J!Quiet(t, p) /\ J!LinksLast(<<h>>, p))
  BY <1>1, LastDecides
<1> QED BY <1>1, <1>3, <1>4, <1>5 DEF h, t

\* A list that never unlinks a pair, and covers it, links it last.
LEMMA OnlyReads ==
  ASSUME NEW f \in Seq(J!Statement), NEW p, ~J!Quiet(f, p), \A n \in 1..Len(f) : f[n].do # "unlink"
  PROVE  J!LinksLast(f, p)
<1> DEFINE L == Len(f)
           T == {L - n : n \in {m \in 1..L : J!Covers(f[m], p)}}
<1>1. L \in Nat /\ \E n \in 1..L : J!Covers(f[n], p)
  BY DEF J!Quiet
<1>2. \A n \in 1..L : J!Covers(f[n], p) => f[n].do = "read"
  BY DEF J!Covers
<1> HIDE DEF L
<1>3. T \in SUBSET Nat /\ T # {}
  BY <1>1
<1>4. PICK t \in T : \A u \in T : t <= u
  BY <1>3, LeastPosition
<1>5. PICK n \in 1..L : J!Covers(f[n], p) /\ t = L - n
  BY <1>4
<1>6. ASSUME NEW m \in (n + 1)..L, J!Covers(f[m], p) PROVE FALSE
  <2>1. m \in 1..L /\ L - m < L - n
    BY <1>1
  <2>2. L - m \in T
    BY <1>6, <2>1
  <2>3. L - n <= L - m
    BY <1>4, <1>5, <2>2
  <2> HIDE DEF T
  <2> QED BY <1>1, <2>1, <2>3
<1> QED BY <1>2, <1>5, <1>6 DEF L, J!LinksLast

\* Statements in their order, which reach only these pairs; and such that only link.
Program(reach) ==
  {f \in Seq(J!Statement) :
     /\ J!InOrder(f) /\ (f # <<>> => Head(f).do \in {"unlink", "read"})
     /\ \A n \in 1..Len(f) : f[n].do \in {"unlink", "read"} => f[n].of \X f[n].to \subseteq reach}
Linking(reach) == {f \in Program(reach) : \A n \in 1..Len(f) : f[n].do # "unlink"}

LEMMA ProgramsJoin == ASSUME NEW reach PROVE Closed(Program(reach)) /\ Closed(Linking(reach))
<1>1. ASSUME NEW u \in Program(reach), NEW w \in Program(reach) PROVE u \o w \in Program(reach)
  <2> DEFINE f == u \o w
             A == Len(u)
             B == Len(w)
  <2>0. u \in Seq(J!Statement) /\ w \in Seq(J!Statement)
    BY DEF Program
  <2>1. /\ A \in Nat /\ B \in Nat /\ Len(f) = A + B /\ f \in Seq(J!Statement)
        /\ \A n \in 1..A : f[n] = u[n] /\ n \in 1..Len(f)
        /\ \A n \in 1..B : f[A + n] = w[n] /\ A + n \in 1..Len(f)
    BY <2>0, Joined
  <2>2. /\ \A n \in 1..A : u[n] \in J!Statement
        /\ f # <<>> => IF A = 0 THEN B > 0 /\ Head(f) = w[1] ELSE Head(f) = u[1]
        /\ u # <<>> => Head(u) = u[1]
        /\ w # <<>> => Head(w) = w[1]
        /\ (B = 0 <=> w = <<>>) /\ (A = 0 <=> u = <<>>)
    BY <2>0
  <2> HIDE DEF f, A, B
  <2>3. \A n \in 1..Len(f) : n \in 1..A \/ (n - A \in 1..B /\ f[n] = w[n - A])
    <3> SUFFICES ASSUME NEW n \in 1..Len(f), n \notin 1..A PROVE n - A \in 1..B /\ f[n] = w[n - A]
      OBVIOUS
    <3>1. n - A \in 1..B /\ A + (n - A) = n
      BY <2>1
    <3> QED BY <2>1, <3>1
  <2>4. ASSUME NEW n \in 1..Len(f)
        PROVE  /\ f[n].do = "read" => n < Len(f) /\ f[n + 1].do = IF marks THEN "restore" ELSE "insert"
               /\ f[n].do = "restore" => n < Len(f) /\ f[n + 1].do = "insert"
               /\ f[n].do \in {"unlink", "insert"} /\ n < Len(f) => f[n + 1].do \in {"unlink", "read"}
    <3>1. CASE n \in 1..A /\ n < A
      <4>1. n + 1 \in 1..A /\ n < Len(f) /\ f[n] = u[n] /\ f[n + 1] = u[n + 1]
        BY <2>1, <3>1
      <4> QED BY <3>1, <4>1 DEF Program, J!InOrder, A
    <3>2. CASE n = A
      <4>1. n \in 1..A /\ f[n] = u[n] /\ ~(n < A)
        BY <2>1, <3>2
      <4>2. u[n].do \notin {"read", "restore"}
        BY <4>1 DEF Program, J!InOrder, A
      <4>3. n < Len(f) => w # <<>> /\ 1 \in 1..B /\ f[n + 1] = w[1]
        BY <2>1, <2>2, <3>2
      <4> QED BY <2>2, <4>1, <4>2, <4>3 DEF Program
    <3>3. CASE n \notin 1..A
      <4> DEFINE m == n - A
      <4>1. m \in 1..B /\ f[n] = w[m] /\ (n < Len(f) <=> m < B)
        BY <2>1, <2>3, <3>3
      <4>2. m < B => m + 1 \in 1..B /\ A + (m + 1) = n + 1
        BY <2>1, <4>1
      <4>3. m < B => f[n + 1] = w[m + 1]
        BY <2>1, <4>2
      <4> HIDE DEF m
      <4> QED BY <4>1, <4>3 DEF Program, J!InOrder, B
    <3> QED BY <2>1, <3>1, <3>2, <3>3
  <2>5. ASSUME NEW n \in 1..Len(f), f[n].do \in {"unlink", "read"} PROVE f[n].of \X f[n].to \subseteq reach
    <3>1. CASE n \in 1..A
      <4>1. f[n] = u[n]
        BY <2>1, <3>1
      <4> QED BY <2>5, <3>1, <4>1 DEF Program, A
    <3>2. CASE n \notin 1..A
      <4>1. n - A \in 1..B /\ f[n] = w[n - A]
        BY <2>3, <3>2
      <4> QED BY <2>5, <4>1 DEF Program, B
    <3> QED BY <3>1, <3>2
  <2>6. f # <<>> => Head(f).do \in {"unlink", "read"}
    BY <2>1, <2>2 DEF Program
  <2>7. J!InOrder(f)
    BY <2>4 DEF J!InOrder
  <2>8. f \in Program(reach)
    BY <2>1, <2>5, <2>6, <2>7 DEF Program
  <2> QED BY <2>8 DEF f
<1>2. ASSUME NEW u \in Linking(reach), NEW w \in Linking(reach) PROVE u \o w \in Linking(reach)
  <2>1. u \o w \in Program(reach) /\ u \in Seq(J!Statement) /\ w \in Seq(J!Statement)
    BY <1>1 DEF Linking, Program
  <2>2. ASSUME NEW n \in 1..Len(u \o w) PROVE (u \o w)[n].do # "unlink"
    <3>1. n \in 1..Len(u) => (u \o w)[n] = u[n]
      BY <2>1
    <3>2. n \notin 1..Len(u) => n - Len(u) \in 1..Len(w) /\ (u \o w)[n] = w[n - Len(u)]
      BY <2>1
    <3> QED BY <3>1, <3>2 DEF Linking
  <2> QED BY <2>1, <2>2 DEF Linking
<1> QED BY <1>1, <1>2 DEF Closed

\* A program is quiet about a pair it does not reach, and one that reaches less reaches no more.
LEMMA ProgramQuiet ==
  ASSUME NEW reach, NEW f \in Program(reach), NEW p, p \notin reach
  PROVE  J!Quiet(f, p)
<1>1. ASSUME NEW n \in 1..Len(f) PROVE ~J!Covers(f[n], p)
  BY DEF J!Covers, Program
<1> QED BY <1>1 DEF J!Quiet

LEMMA ProgramWithin ==
  ASSUME NEW reach, NEW more, reach \subseteq more PROVE Program(reach) \subseteq Program(more)
<1> SUFFICES ASSUME NEW f \in Program(reach) PROVE f \in Program(more)
  OBVIOUS
<1>1. \A n \in 1..Len(f) : f[n].do \in {"unlink", "read"} => f[n].of \X f[n].to \subseteq more
  BY DEF Program
<1> QED BY <1>1 DEF Program

LEMMA NothingToDo ==
  ASSUME NEW reach PROVE <<>> \in Program(reach) /\ \A p : J!Quiet(<<>>, p) /\ ~J!LinksLast(<<>>, p)
<1>1. <<>> \in Seq(J!Statement) /\ \A n \in 1..Len(<<>>) : FALSE
  OBVIOUS
<1> QED BY <1>1 DEF Program, J!InOrder, J!Quiet, J!LinksLast

LEMMA UnlinksProgram ==
  ASSUME NEW q \in Request, chunks[q] \in Seq(SUBSET Source), NEW S \in SUBSET LinkTarget,
         NEW by \in {"set", "disconnect"}
  PROVE  /\ J!Unlinks(q, by, S) \in Program(J!Written(q) \X S)
         /\ \A p : ~J!LinksLast(J!Unlinks(q, by, S), p)
         /\ \A p \in J!Written(q) \X S : ~J!Quiet(J!Unlinks(q, by, S), p)
<1> DEFINE One(n) == [do |-> "unlink", by |-> by, of |-> chunks[q][n], to |-> S]
           f == J!Unlinks(q, by, S)
           L == Len(chunks[q])
<1>1. f = [n \in DOMAIN chunks[q] |-> One(n)]
  BY DEF J!Unlinks
<1>2. L \in Nat /\ DOMAIN chunks[q] = 1..L /\ \A n \in 1..L : chunks[q][n] \in SUBSET Source
  OBVIOUS
<1>3. f \in Seq(J!Statement) /\ Len(f) = L /\ \A n \in 1..L : f[n] = One(n)
  <2>1. \A n \in 1..L : One(n) \in J!Statement
    BY <1>2 DEF J!Statement
  <2> HIDE DEF One, L, f
  <2>2. f = [n \in 1..L |-> One(n)]
    BY <1>1, <1>2
  <2> QED BY <1>2, <2>1, <2>2
<1>4. J!Written(q) = UNION {chunks[q][n] : n \in 1..L}
  BY <1>2 DEF J!Written, J!ToSet
<1> HIDE DEF f, L
<1>5. \A n \in 1..Len(f) : f[n].do = "unlink" /\ f[n].of = chunks[q][n] /\ f[n].to = S
  BY <1>3
<1>6. f \in Program(J!Written(q) \X S)
  <2>1. J!InOrder(f)
    <3>1. \A n \in 1..Len(f) : n < Len(f) => n + 1 \in 1..Len(f)
      BY <1>2, <1>3
    <3> QED BY <1>5, <3>1 DEF J!InOrder
  <2>2. f # <<>> => Head(f).do = "unlink"
    <3>1. f # <<>> => 1 \in 1..Len(f) /\ Head(f) = f[1]
      BY <1>3
    <3> QED BY <1>5, <3>1
  <2>3. \A n \in 1..Len(f) : f[n].of \X f[n].to \subseteq J!Written(q) \X S
    BY <1>3, <1>4, <1>5
  <2> QED BY <1>3, <2>1, <2>2, <2>3 DEF Program
<1>7. ASSUME NEW p PROVE ~J!LinksLast(f, p)
  BY <1>5 DEF J!LinksLast
<1>8. ASSUME NEW p \in J!Written(q) \X S PROVE ~J!Quiet(f, p)
  <2>1. PICK n \in 1..L : p[1] \in chunks[q][n]
    BY <1>4
  <2>2. J!Covers(f[n], p)
    BY <1>3, <1>5, <2>1 DEF J!Covers
  <2> QED BY <1>3, <2>1, <2>2 DEF J!Quiet
<1> QED BY <1>6, <1>7, <1>8 DEF f

LEMMA OneMore ==
  ASSUME NEW S, NEW u \in Seq(S), NEW c \in S, NEW f, f = u \o <<c>>
  PROVE  f \in Seq(S) /\ Len(f) = Len(u) + 1 /\ f[Len(u) + 1] = c /\ \A n \in 1..Len(u) : f[n] = u[n]
OBVIOUS

LEMMA ListedTwo ==
  ASSUME NEW S, NEW a \in S, NEW c \in S, NEW f, f = <<a>> \o <<c>>
  PROVE  f \in Seq(S) /\ Len(f) = 2 /\ f[1] = a /\ f[2] = c /\ Head(f) = a
<1> DEFINE u == <<a>>
<1>1. u \in Seq(S) /\ Len(u) = 1 /\ u[1] = a
  OBVIOUS
<1>2. f = u \o <<c>>
  OBVIOUS
<1> HIDE DEF u
<1>3. f \in Seq(S) /\ Len(f) = Len(u) + 1 /\ f[Len(u) + 1] = c /\ \A n \in 1..Len(u) : f[n] = u[n]
  BY <1>1, <1>2, OneMore
<1>4. f \in Seq(S) /\ Len(f) = 2 /\ f[1] = a /\ f[2] = c
  BY <1>1, <1>3
<1> QED BY <1>4

\* The third one, on top of two.
LEMMA ListedThree ==
  ASSUME NEW S, NEW h \in Seq(S), NEW c \in S, NEW f, Len(h) = 2,
         f \in Seq(S) /\ Len(f) = Len(h) + 1 /\ f[Len(h) + 1] = c /\ \A n \in 1..Len(h) : f[n] = h[n]
  PROVE  Len(f) = 3 /\ f[1] = h[1] /\ f[2] = h[2] /\ f[3] = c /\ Head(f) = h[1]
<1>1. Len(f) = 3 /\ f[1] = h[1] /\ f[2] = h[2] /\ f[3] = c
  OBVIOUS
<1> QED BY <1>1

LEMMA LinksProgram ==
  ASSUME NEW q \in Request, chunks[q] \in Seq(SUBSET Source), NEW S \in SUBSET LinkTarget,
         NEW by \in {"set", "connect"}
  PROVE  /\ J!Links(q, by, S) \in Program(J!Written(q) \X S)
         /\ \A p \in J!Written(q) \X S : J!LinksLast(J!Links(q, by, S), p)
<1> DEFINE read(n) == [do |-> "read", by |-> by, of |-> chunks[q][n], to |-> S]
           restore == [do |-> "restore", by |-> by]
           insert == [do |-> "insert", by |-> by]
           One(n) == <<read(n)>> \o (IF marks THEN <<restore>> ELSE <<>>) \o <<insert>>
           Each == [n \in DOMAIN chunks[q] |-> One(n)]
           reach == J!Written(q) \X S
           L == Len(chunks[q])
<1>1. L \in Nat /\ DOMAIN chunks[q] = 1..L /\ \A n \in 1..L : chunks[q][n] \in SUBSET Source
  OBVIOUS
<1>2. J!Written(q) = UNION {chunks[q][n] : n \in 1..L}
  BY <1>1 DEF J!Written, J!ToSet
<1>3. S # {} => J!Links(q, by, S) = J!FlattenSeq(Each)
  BY DEF J!Links
<1>4. S = {} => J!Links(q, by, S) = <<>>
  BY DEF J!Links
<1>5. restore \in J!Statement /\ insert \in J!Statement /\ \A n \in 1..L : read(n) \in J!Statement
  BY <1>1 DEF J!Statement
<1>6. /\ restore.do = "restore" /\ insert.do = "insert"
      /\ \A n : read(n).do = "read" /\ read(n).of = chunks[q][n] /\ read(n).to = S
  OBVIOUS
<1> HIDE DEF L, read, restore, insert
<1>7. ASSUME NEW n \in 1..L
      PROVE  /\ One(n) \in Linking(reach) /\ One(n) \in Seq(J!Statement)
             /\ \A p : J!Covers(read(n), p) => ~J!Quiet(One(n), p)
  <2> DEFINE f == One(n)
  <2>1. CASE marks
    <3>1. f = <<read(n)>> \o <<restore>> \o <<insert>>
      BY <2>1
    <3> DEFINE h == <<read(n)>> \o <<restore>>
    <3>2. h \in Seq(J!Statement) /\ Len(h) = 2 /\ h[1] = read(n) /\ h[2] = restore
      BY <1>5, ListedTwo
    <3>3. f = h \o <<insert>>
      BY <3>1
    <3> HIDE DEF f, h
    <3>4. /\ f \in Seq(J!Statement) /\ Len(f) = 3 /\ Head(f) = read(n)
          /\ f[1] = read(n) /\ f[2] = restore /\ f[3] = insert
      <4>0. h \in Seq(J!Statement) /\ insert \in J!Statement
        BY <1>5, <3>2
      <4>1. f \in Seq(J!Statement) /\ Len(f) = Len(h) + 1 /\ f[Len(h) + 1] = insert
            /\ \A m \in 1..Len(h) : f[m] = h[m]
        BY ONLY <4>0, <3>3, OneMore
      <4>2. Len(f) = 3 /\ f[1] = h[1] /\ f[2] = h[2] /\ f[3] = insert /\ Head(f) = h[1]
        BY <1>5, <3>2, <4>1, ListedThree
      <4> QED BY <3>2, <4>1, <4>2
    <3>5. \A m \in 1..3 : m = 1 \/ m = 2 \/ m = 3
      OBVIOUS
    <3>6. J!InOrder(f)
      BY <1>6, <2>1, <3>4, <3>5 DEF J!InOrder
    <3>7. \A m \in 1..Len(f) : /\ f[m].do # "unlink"
                               /\ f[m].do = "read" => f[m].of \X f[m].to \subseteq reach
      BY <1>2, <1>6, <3>4, <3>5
    <3>8. f \in Linking(reach)
      BY <1>6, <3>4, <3>6, <3>7 DEF Linking, Program
    <3>9. \A p : J!Covers(read(n), p) => ~J!Quiet(f, p)
      BY <3>4 DEF J!Quiet
    <3> QED BY <3>4, <3>8, <3>9 DEF f
  <2>2. CASE ~marks
    <3>1. f = <<read(n)>> \o <<insert>>
      <4>1. <<read(n)>> \in Seq(J!Statement)
        BY <1>5
      <4>2. <<read(n)>> \o <<>> = <<read(n)>>
        BY <4>1, EmptyEnds
      <4> QED BY <2>2, <4>2
    <3> HIDE DEF f
    <3>2. f \in Seq(J!Statement) /\ Len(f) = 2 /\ Head(f) = read(n) /\ f[1] = read(n) /\ f[2] = insert
      BY <1>5, <3>1, ListedTwo
    <3>3. \A m \in 1..2 : m = 1 \/ m = 2
      OBVIOUS
    <3>4. J!InOrder(f)
      BY <1>6, <2>2, <3>2, <3>3 DEF J!InOrder
    <3>5. \A m \in 1..Len(f) : /\ f[m].do # "unlink"
                               /\ f[m].do = "read" => f[m].of \X f[m].to \subseteq reach
      BY <1>2, <1>6, <3>2, <3>3
    <3>6. f \in Linking(reach)
      BY <1>6, <3>2, <3>4, <3>5 DEF Linking, Program
    <3>7. \A p : J!Covers(read(n), p) => ~J!Quiet(f, p)
      BY <3>2 DEF J!Quiet
    <3> QED BY <3>2, <3>6, <3>7 DEF f
  <2> QED BY <2>1, <2>2
<1>8. \A n \in 1..L : Each[n] = One(n)
  BY <1>1 DEF L
<1>9. Each \in Seq(Linking(reach)) /\ Len(Each) = L
  <2> HIDE DEF One
  <2>1. Each = [n \in 1..L |-> One(n)] /\ L \in Nat
    BY <1>1 DEF L
  <2>2. \A n \in 1..L : One(n) \in Linking(reach)
    BY <1>7
  <2> HIDE DEF Each, reach
  <2> QED BY <2>1, <2>2
<1>10. Linking(reach) \in SUBSET Seq(J!Statement)
  BY DEF Linking, Program
<1> HIDE DEF One, Each
<1>11. ASSUME Each # <<>>
       PROVE  /\ J!FlattenSeq(Each) \in Linking(reach)
              /\ \A n \in DOMAIN Each : Within(Each[n], J!FlattenSeq(Each), J!Statement)
  <2> HIDE DEF reach
  <2> QED BY <1>9, <1>10, <1>11, ProgramsJoin, FlatGood, SameFlat
<1>12. J!FlattenSeq(Each) \in Linking(reach)
  <2>1. CASE Each = <<>>
    <3>1. J!FlattenSeq(Each) = <<>>
      BY <2>1 DEF J!FlattenSeq
    <3>2. <<>> \in Linking(reach)
      BY NothingToDo DEF Linking
    <3> QED BY <3>1, <3>2
  <2> QED BY <1>11, <2>1
<1>13. ASSUME NEW p \in reach, S # {} PROVE J!LinksLast(J!FlattenSeq(Each), p)
  <2> DEFINE f == J!FlattenSeq(Each)
  <2>1. PICK n \in 1..L : p[1] \in chunks[q][n]
    BY <1>2
  <2>2. J!Covers(read(n), p)
    BY <1>6, <2>1 DEF J!Covers
  <2>3. n \in DOMAIN Each /\ Each # <<>>
    BY <1>9
  <2> HIDE DEF f
  <2>4. Within(One(n), f, J!Statement) /\ f \in Linking(reach)
    BY <1>8, <1>11, <2>3 DEF f
  <2>5. PICK x, y \in Seq(J!Statement) : f = x \o One(n) \o y
    BY <2>4 DEF Within
  <2>6. One(n) \in Seq(J!Statement) /\ x \o One(n) \in Seq(J!Statement) /\ ~J!Quiet(One(n), p)
    BY <1>7, <2>2
  <2>7. J!Quiet(x \o One(n), p) <=> J!Quiet(x, p) /\ J!Quiet(One(n), p)
    BY <2>6, LastDecides
  <2>8. J!Quiet(x \o One(n) \o y, p) <=> J!Quiet(x \o One(n), p) /\ J!Quiet(y, p)
    BY <2>6, LastDecides
  <2>9. ~J!Quiet(f, p)
    BY <2>5, <2>6, <2>7, <2>8
  <2> QED BY <2>4, <2>9, OnlyReads DEF Linking, Program, f
<1>14. CASE S = {}
  <2>1. reach = {}
    BY <1>14
  <2> QED BY <1>4, <1>14, <2>1, NothingToDo
<1>15. CASE S # {}
  BY <1>3, <1>12, <1>13, <1>15 DEF Linking
<1> QED BY <1>14, <1>15

\* The whole program: what is connected is linked last, then what is disconnected is not, then the
\* set is what it names.
LEMMA ProgramLinks ==
  ASSUME J!ToldInv, NEW q \in Request
  PROVE  /\ J!Statements(q) \in Program(J!Reach(q))
         /\ \A p \in J!Reach(q) :
              /\ J!LinksLast(J!Statements(q), p) <=>
                   \/ J!Names(q, "connect", p[2])
                   \/ ~J!Names(q, "disconnect", p[2]) /\ J!Names(q, "set", p[2])
              /\ J!Quiet(J!Statements(q), p) <=>
                   /\ ~J!Names(q, "connect", p[2]) /\ ~J!Names(q, "disconnect", p[2])
                   /\ ~J!Given(inputs[q].set)
<1> DEFINE W == J!Written(q)
           free == LinkTarget \ HiddenTarget
           sel(n) == J!Selected(inputs[q][n])
           Set == J!SetStatements(q)
           Dis == J!DisconnectStatements(q)
           Con == J!ConnectStatements(q)
<1>1. /\ chunks[q] \in Seq(SUBSET Source) /\ J!Reach(q) = W \X free
      /\ \A n \in {"set", "disconnect", "connect"} :
           J!Given(inputs[q][n]) => sel(n) \subseteq free /\ sel(n) \subseteq LinkTarget
  BY LinkTypes DEF J!Reach, J!Selected
<1>2. free \in SUBSET LinkTarget
  OBVIOUS
<1> HIDE DEF W, free, sel
<1>3. /\ Set \in Program(W \X free)
      /\ \A p \in W \X free : /\ J!LinksLast(Set, p) <=> J!Names(q, "set", p[2])
                              /\ J!Quiet(Set, p) <=> ~J!Given(inputs[q].set)
  <2>1. CASE J!Given(inputs[q].set)
    <3> DEFINE U == J!Unlinks(q, "set", free)
               K == J!Links(q, "set", sel("set"))
    <3>1. /\ U \in Program(W \X free) /\ \A p : ~J!LinksLast(U, p)
          /\ \A p \in W \X free : ~J!Quiet(U, p)
      BY <1>1, <1>2, UnlinksProgram DEF W
    <3>2. /\ K \in Program(W \X sel("set")) /\ \A p \in W \X sel("set") : J!LinksLast(K, p)
          /\ sel("set") \subseteq free
      BY <1>1, <2>1, LinksProgram DEF W
    <3>3. Set = U \o K
      BY <2>1 DEF J!SetStatements, free, sel
    <3> HIDE DEF Set, U, K
    <3>4. K \in Program(W \X free)
      <4>1. W \X sel("set") \subseteq W \X free
        BY <3>2
      <4> QED BY <3>2, <4>1, ProgramWithin
    <3>5. Set \in Program(W \X free) /\ U \in Seq(J!Statement) /\ K \in Seq(J!Statement)
      <4>1. Program(W \X free) \subseteq Seq(J!Statement)
        BY DEF Program
      <4>2. U \o K \in Program(W \X free)
        BY <3>1, <3>4, ProgramsJoin DEF Closed
      <4> QED BY <3>1, <3>3, <3>4, <4>1, <4>2
    <3>6. ASSUME NEW p \in W \X free
          PROVE  (J!LinksLast(Set, p) <=> J!Names(q, "set", p[2])) /\ ~J!Quiet(Set, p)
      <4>1. /\ J!Quiet(Set, p) <=> J!Quiet(U, p) /\ J!Quiet(K, p)
            /\ J!LinksLast(Set, p) <=> J!LinksLast(K, p) \/ (J!Quiet(K, p) /\ J!LinksLast(U, p))
        BY <3>3, <3>5, LastDecides
      <4>2. p \in W \X sel("set") <=> J!Names(q, "set", p[2])
        BY <2>1 DEF J!Names, sel
      <4>3. p \in W \X sel("set") => J!LinksLast(K, p)
        BY <3>2
      <4>4. p \notin W \X sel("set") => J!Quiet(K, p)
        BY <3>2, ProgramQuiet
      <4>5. J!Quiet(K, p) => ~J!LinksLast(K, p)
        BY DEF J!Quiet, J!LinksLast
      <4> QED BY <3>1, <4>1, <4>2, <4>3, <4>4, <4>5
    <3> QED BY <2>1, <3>5, <3>6
  <2>2. CASE ~J!Given(inputs[q].set)
    <3>1. Set = <<>>
      BY <2>2 DEF J!SetStatements
    <3> QED BY <2>2, <3>1, NothingToDo DEF J!Names
  <2> QED BY <2>1, <2>2
<1>4. /\ Dis \in Program(W \X free)
      /\ \A p \in W \X free : /\ ~J!LinksLast(Dis, p)
                              /\ J!Quiet(Dis, p) <=> ~J!Names(q, "disconnect", p[2])
  <2>1. CASE J!Given(inputs[q].disconnect)
    <3> DEFINE U == J!Unlinks(q, "disconnect", sel("disconnect"))
    <3>1. /\ U \in Program(W \X sel("disconnect")) /\ \A p : ~J!LinksLast(U, p)
          /\ \A p \in W \X sel("disconnect") : ~J!Quiet(U, p)
          /\ sel("disconnect") \subseteq free
      BY <1>1, <2>1, UnlinksProgram DEF W
    <3>2. sel("disconnect") # {} => Dis = U
      BY <2>1 DEF J!DisconnectStatements, sel
    <3>3. sel("disconnect") = {} => Dis = <<>>
      BY <2>1 DEF J!DisconnectStatements, sel
    <3>4. \A p \in W \X free : p \in W \X sel("disconnect") <=> J!Names(q, "disconnect", p[2])
      BY <2>1 DEF J!Names, sel
    <3> HIDE DEF Dis, U
    <3>5. CASE sel("disconnect") = {}
      BY <3>3, <3>4, <3>5, NothingToDo
    <3>6. CASE sel("disconnect") # {}
      <4>1. W \X sel("disconnect") \subseteq W \X free
        BY <3>1
      <4>2. U \in Program(W \X free)
        BY <3>1, <4>1, ProgramWithin
      <4>3. \A p : p \notin W \X sel("disconnect") => J!Quiet(U, p)
        BY <3>1, ProgramQuiet
      <4> QED BY <3>1, <3>2, <3>4, <3>6, <4>2, <4>3
    <3> QED BY <3>5, <3>6
  <2>2. CASE ~J!Given(inputs[q].disconnect)
    <3>1. Dis = <<>>
      BY <2>2 DEF J!DisconnectStatements
    <3> QED BY <2>2, <3>1, NothingToDo DEF J!Names
  <2> QED BY <2>1, <2>2
<1>5. /\ Con \in Program(W \X free)
      /\ \A p \in W \X free : /\ J!LinksLast(Con, p) <=> J!Names(q, "connect", p[2])
                              /\ J!Quiet(Con, p) <=> ~J!Names(q, "connect", p[2])
  <2>1. CASE J!Given(inputs[q].connect)
    <3>1. /\ Con \in Program(W \X sel("connect")) /\ \A p \in W \X sel("connect") : J!LinksLast(Con, p)
          /\ sel("connect") \subseteq free
      BY <1>1, <2>1, LinksProgram DEF W, J!ConnectStatements, sel
    <3>2. \A p \in W \X free : p \in W \X sel("connect") <=> J!Names(q, "connect", p[2])
      BY <2>1 DEF J!Names, sel
    <3> HIDE DEF Con
    <3>3. W \X sel("connect") \subseteq W \X free
      BY <3>1
    <3>4. Con \in Program(W \X free)
      BY <3>1, <3>3, ProgramWithin
    <3>5. \A p : p \notin W \X sel("connect") => J!Quiet(Con, p)
      BY <3>1, ProgramQuiet
    <3>6. \A p : J!LinksLast(Con, p) => ~J!Quiet(Con, p)
      BY DEF J!Quiet, J!LinksLast
    <3> QED BY <3>1, <3>2, <3>4, <3>5, <3>6
  <2>2. CASE ~J!Given(inputs[q].connect)
    <3>1. Con = <<>>
      BY <2>2 DEF J!ConnectStatements
    <3> QED BY <2>2, <3>1, NothingToDo DEF J!Names
  <2> QED BY <2>1, <2>2
<1>6. J!Statements(q) = Set \o Dis \o Con
  BY DEF J!Statements
<1> HIDE DEF Set, Dis, Con
<1>7. Set \o Dis \in Program(W \X free) /\ (Set \o Dis) \o Con \in Program(W \X free)
  BY <1>3, <1>4, <1>5, ProgramsJoin DEF Closed
<1>8. ASSUME NEW p \in W \X free
      PROVE  /\ J!Quiet(Set \o Dis, p) <=> J!Quiet(Set, p) /\ J!Quiet(Dis, p)
             /\ J!LinksLast(Set \o Dis, p) <=> J!LinksLast(Dis, p) \/ (J!Quiet(Dis, p) /\ J!LinksLast(Set, p))
  BY <1>3, <1>4, LastDecides DEF Program
<1>9. ASSUME NEW p \in W \X free
      PROVE  /\ J!Quiet((Set \o Dis) \o Con, p) <=> J!Quiet(Set \o Dis, p) /\ J!Quiet(Con, p)
             /\ J!LinksLast((Set \o Dis) \o Con, p) <=>
                  J!LinksLast(Con, p) \/ (J!Quiet(Con, p) /\ J!LinksLast(Set \o Dis, p))
  BY <1>5, <1>7, LastDecides DEF Program
<1>10. ASSUME NEW p \in W \X free
       PROVE  /\ J!LinksLast((Set \o Dis) \o Con, p) <=>
                   \/ J!Names(q, "connect", p[2])
                   \/ ~J!Names(q, "disconnect", p[2]) /\ J!Names(q, "set", p[2])
              /\ J!Quiet((Set \o Dis) \o Con, p) <=>
                   /\ ~J!Names(q, "connect", p[2]) /\ ~J!Names(q, "disconnect", p[2])
                   /\ ~J!Given(inputs[q].set)
  BY <1>3, <1>4, <1>5, <1>8, <1>9
<1> QED BY <1>1, <1>6, <1>7, <1>10

\* A pair is linked when one of its rows is live; what a request sees of them.
LEMMA LinkedRows ==
  ASSUME NEW q, NEW p \in J!Reach(q), NEW tab
  PROVE  J!Linked(tab, p[1], p[2]) <=> \E l \in J!Rows(p) : tab[l] = "live"
<1>1. p = <<p[1], p[2]>>
  BY DEF J!Reach
<1>2. \A l : l \in J!LiveIn(tab) /\ J!Pair(l) = <<p[1], p[2]>> <=> l \in J!Rows(p) /\ tab[l] = "live"
  BY <1>1 DEF J!LiveIn, J!Rows
<1> QED BY <1>2 DEF J!Linked

LEMMA ViewIs ==
  ASSUME J!PairInv, NEW q \in Request
  PROVE  /\ \A l \in J!Link : J!View(q)[l] = IF l \in DOMAIN own[q] THEN own[q][l] ELSE table[l]
         /\ J!View(q) \in [J!Link -> J!State]
<1>1. \A l \in J!Link : J!View(q)[l] = IF l \in DOMAIN own[q] THEN own[q][l] ELSE table[l]
  BY DEF J!View
<1>2. J!View(q) = [l \in J!Link |-> IF l \in DOMAIN own[q] THEN own[q][l] ELSE table[l]]
  BY DEF J!View
<1>3. \A l \in J!Link : (IF l \in DOMAIN own[q] THEN own[q][l] ELSE table[l]) \in J!State
  BY DEF J!PairInv, J!PairsOf
<1> QED BY <1>1, <1>2, <1>3

LEMMA ViewNext ==
  ASSUME NEW q
  PROVE  \A l \in J!Link : J!View(q)'[l] = IF l \in DOMAIN own'[q] THEN own'[q][l] ELSE table'[l]
BY DEF J!View

\* What others do to other pairs leaves a pair where it was.
LEMMA SamePair ==
  ASSUME UNCHANGED <<marks, inputs, chunks>>, NEW q \in Request, NEW p \in J!Reach(q),
         rest'[q] = rest[q], missing'[q] = missing[q], own'[q] = own[q],
         \A l \in J!Rows(p) : table'[l] = table[l], J!PairInv, J!Leads(q, p)
  PROVE  J!Leads(q, p)'
<1>1. \A l \in J!Rows(p) : J!View(q)'[l] = J!View(q)[l] /\ l \in J!Link
  BY ViewIs, ViewNext DEF J!Rows
<1>2. /\ J!Linked(J!View(q), p[1], p[2])' <=> J!Linked(J!View(q), p[1], p[2])
      /\ J!Linked(table, p[1], p[2])' <=> J!Linked(table, p[1], p[2])
  <2>1. \A tab : J!Linked(tab, p[1], p[2]) <=> \E l \in J!Rows(p) : tab[l] = "live"
    BY LinkedRows
  <2>2. /\ J!Linked(J!View(q)', p[1], p[2]) <=> J!Linked(J!View(q), p[1], p[2])
        /\ J!Linked(table', p[1], p[2]) <=> J!Linked(table, p[1], p[2])
    BY <1>1, <2>1
  <2> QED BY <2>2 DEF J!Linked, J!LiveIn
<1>3. J!Adds(q, p)' <=> J!Adds(q, p)
  BY DEF J!Adds
<1>4. J!Will(q, p)' <=> J!Will(q, p)
  BY <1>2, <1>3 DEF J!Will, J!LinksLast, J!Quiet
<1>5. J!Asked(q, p[1], p[2], J!Linked(table, p[1], p[2]))' <=>
        J!Asked(q, p[1], p[2], J!Linked(table, p[1], p[2]))
  BY <1>2 DEF J!Asked, J!Names, J!Written, J!Given, J!Selected
<1> QED BY <1>1, <1>3, <1>4, <1>5 DEF J!Leads

LEMMA ReachSame ==
  ASSUME UNCHANGED <<marks, chunks>>, NEW q
  PROVE  J!Reach(q)' = J!Reach(q) /\ J!State' = J!State /\ \A f : J!InOrder(f)' <=> J!InOrder(f)
BY DEF J!Reach, J!Written, J!State, J!InOrder

\* A request that a step does not touch, and whose pairs it changes only where that is recorded.
LEMMA OtherPairs ==
  ASSUME J!PairInv, UNCHANGED <<marks, inputs, chunks>>, NEW q \in Request,
         at'[q] = at[q], rest'[q] = rest[q], missing'[q] = missing[q], own'[q] = own[q],
         at[q] = "running" => /\ touched[q] \subseteq touched'[q]
                              /\ \A l \in J!Link : J!Pair(l) \notin touched'[q] => table'[l] = table[l]
  PROVE  J!PairsOf(q)'
<1>1. J!PairsOf(q) /\ J!Reach(q)' = J!Reach(q) /\ J!State' = J!State
  BY ReachSame DEF J!PairInv
<1>2. ASSUME at[q] = "running", NEW p \in J!Reach(q) \ touched'[q] PROVE J!Leads(q, p)'
  <2>1. J!Leads(q, p) /\ \A l \in J!Rows(p) : table'[l] = table[l]
    BY <1>1, <1>2 DEF J!PairsOf, J!Rows
  <2> QED BY <1>2, <2>1, SamePair
<1>3. J!InOrder(rest[q])' <=> J!InOrder(rest[q])
  BY DEF J!InOrder
<1> QED BY <1>1, <1>2, <1>3 DEF J!PairsOf

\* A statement of one request.
LEMMA OneMoves ==
  ASSUME J!PairInv, UNCHANGED <<marks, inputs, chunks, table, touched>>, NEW q \in Request,
         DOMAIN missing' = Request, J!PairsOf(q)',
         \A k \in Request \ {q} : /\ at'[k] = at[k] /\ own'[k] = own[k]
                                  /\ rest'[k] = rest[k] /\ missing'[k] = missing[k]
  PROVE  J!PairInv'
<1>1. ASSUME NEW k \in Request \ {q} PROVE J!PairsOf(k)'
  BY <1>1, OtherPairs
<1>2. J!State' = J!State
  BY ReachSame
<1> QED BY <1>1, <1>2 DEF J!PairInv

LEMMA EmptyIs == ASSUME NEW S, NEW s \in Seq(S) PROVE s = <<>> <=> Len(s) = 0
OBVIOUS

\* What is left of a program in order is in order, and its head follows the one before.
LEMMA RestInOrder ==
  ASSUME NEW f \in Seq(J!Statement), f # <<>>, J!InOrder(f)
  PROVE  /\ J!InOrder(Tail(f)) /\ Tail(f) \in Seq(J!Statement)
         /\ \A n \in 1..Len(Tail(f)) : n + 1 \in 1..Len(f) /\ Tail(f)[n] = f[n + 1]
         /\ Head(f).do = "read" =>
              Tail(f) # <<>> /\ Head(Tail(f)).do = IF marks THEN "restore" ELSE "insert"
         /\ Head(f).do = "restore" => Tail(f) # <<>> /\ Head(Tail(f)).do = "insert"
         /\ Head(f).do \in {"unlink", "insert"} /\ Tail(f) # <<>> => Head(Tail(f)).do \in {"unlink", "read"}
<1> DEFINE t == Tail(f)
           L == Len(f)
<1>0. /\ L \in Nat \ {0} /\ t \in Seq(J!Statement) /\ Len(t) = L - 1 /\ Head(f) = f[1]
      /\ \A n \in 1..(L - 1) : t[n] = f[n + 1]
  OBVIOUS
<1> HIDE DEF t, L
<1>1. (t # <<>> <=> 1 < L) /\ (t # <<>> => Head(t) = t[1])
  <2>1. t # <<>> <=> Len(t) # 0
    BY <1>0, EmptyIs
  <2>2. L - 1 # 0 <=> 1 < L
    BY <1>0
  <2>3. t # <<>> => Head(t) = t[1]
    BY <1>0
  <2> QED BY <1>0, <2>1, <2>2, <2>3
<1>2. ASSUME NEW n \in 1..Len(t)
      PROVE  /\ n + 1 \in 1..L /\ t[n] = f[n + 1] /\ (n < Len(t) <=> n + 1 < L)
             /\ n < Len(t) => t[n + 1] = f[n + 1 + 1]
  <2>1. n \in 1..(L - 1) /\ n + 1 \in 1..L /\ (n < Len(t) <=> n + 1 < L)
    BY <1>0, <1>1
  <2>2. n < Len(t) => n + 1 \in 1..(L - 1)
    BY <1>0, <1>1
  <2> QED BY <1>0, <1>1, <2>1, <2>2
<1>3. J!InOrder(t)
  <2>1. \A n \in 1..L :
          /\ f[n].do = "read" => n < L /\ f[n + 1].do = IF marks THEN "restore" ELSE "insert"
          /\ f[n].do = "restore" => n < L /\ f[n + 1].do = "insert"
          /\ f[n].do \in {"unlink", "insert"} /\ n < L => f[n + 1].do \in {"unlink", "read"}
    BY DEF J!InOrder, L
  <2>2. ASSUME NEW n \in 1..Len(t)
        PROVE  /\ t[n].do = "read" => n < Len(t) /\ t[n + 1].do = IF marks THEN "restore" ELSE "insert"
               /\ t[n].do = "restore" => n < Len(t) /\ t[n + 1].do = "insert"
               /\ t[n].do \in {"unlink", "insert"} /\ n < Len(t) => t[n + 1].do \in {"unlink", "read"}
    <3> DEFINE m == n + 1
    <3>1. m \in 1..L /\ t[n] = f[m] /\ (n < Len(t) <=> m < L) /\ (n < Len(t) => t[n + 1] = f[m + 1])
      BY <1>2
    <3> HIDE DEF m
    <3> QED BY <2>1, <3>1
  <2> QED BY <2>2 DEF J!InOrder
<1>4. t # <<>> => Head(t) = f[1 + 1]
  <2>1. t # <<>> => 1 \in 1..(L - 1)
    BY <1>0, <1>1
  <2> QED BY <1>0, <1>1, <2>1
<1>5. /\ f[1].do = "read" => 1 < L /\ f[1 + 1].do = IF marks THEN "restore" ELSE "insert"
      /\ f[1].do = "restore" => 1 < L /\ f[1 + 1].do = "insert"
      /\ f[1].do \in {"unlink", "insert"} /\ 1 < L => f[1 + 1].do \in {"unlink", "read"}
  <2>1. 1 \in 1..L
    BY <1>0, <1>1
  <2> QED BY <2>1 DEF J!InOrder, L
<1> QED BY <1>0, <1>1, <1>2, <1>3, <1>4, <1>5 DEF t, L

\* Where the rest of the program leads is decided by what its first statement makes of the pair.
LEMMA WillOn ==
  ASSUME J!ToldInv, NEW q \in Request, at[q] = "running", rest[q] # <<>>, rest'[q] = Tail(rest[q]), NEW p,
         (J!Adds(q, p)' \/ J!Linked(J!View(q), p[1], p[2])') <=>
           IF J!Covers(Head(rest[q]), p) THEN Head(rest[q]).do = "read"
           ELSE J!Adds(q, p) \/ J!Linked(J!View(q), p[1], p[2])
  PROVE  J!Will(q, p)' <=> J!Will(q, p)
<1> DEFINE f == rest[q]
           t == Tail(f)
           now == J!Adds(q, p) \/ J!Linked(J!View(q), p[1], p[2])
           then == J!Adds(q, p)' \/ J!Linked(J!View(q), p[1], p[2])'
<1>1. f \in Seq(J!Statement)
  <2>1. f \in Seq(J!Told(q)) /\ J!Told(q) \subseteq J!Statement
    BY DEF J!ToldInv, J!Collected, J!Told
  <2> QED BY <2>1, SeqOfMore
<1>2. /\ J!Quiet(f, p) <=> ~J!Covers(Head(f), p) /\ J!Quiet(t, p)
      /\ J!LinksLast(f, p) <=> \/ J!LinksLast(t, p)
                               \/ J!Quiet(t, p) /\ Head(f).do = "read" /\ J!Covers(Head(f), p)
  BY <1>1, HeadDecides
<1>3. J!Will(q, p) <=> J!LinksLast(f, p) \/ (J!Quiet(f, p) /\ now)
  BY DEF J!Will
<1>4. J!Will(q, p)' <=> J!LinksLast(t, p) \/ (J!Quiet(t, p) /\ then)
  BY DEF J!Will, J!LinksLast, J!Quiet
<1> HIDE DEF now, then
<1>5. then <=> IF J!Covers(Head(f), p) THEN Head(f).do = "read" ELSE now
  BY DEF now, then
<1> QED BY <1>2, <1>3, <1>4, <1>5

\* A statement is taken off the program, and nothing else of it changes.
LEMMA StatementRuns ==
  ASSUME J!ToldInv, J!PairInv, NEW q \in Request, NEW do, J!Runs(q, do), J!Keeps
  PROVE  /\ UNCHANGED <<marks, inputs, chunks, table, touched, at>>
         /\ at[q] = "running" /\ rest[q] \in Seq(J!Statement) /\ rest[q] # <<>> /\ J!InOrder(rest[q])
         /\ Head(rest[q]).do = do /\ rest'[q] = Tail(rest[q])
         /\ \A k \in Request \ {q} : rest'[k] = rest[k]
         /\ do \in {"unlink", "read"} => Head(rest[q]).of \X Head(rest[q]).to \subseteq J!Reach(q)
<1>1. /\ UNCHANGED <<marks, inputs, chunks, table, touched, at>> /\ at[q] = "running" /\ rest[q] # <<>>
      /\ rest' = [rest EXCEPT ![q] = Tail(rest[q])] /\ Head(rest[q]).do = do
  BY DEF J!Runs, J!Keeps
<1>2. DOMAIN rest = Request /\ rest[q] \in Seq(J!Told(q)) /\ J!Told(q) \subseteq J!Statement
  BY <1>1 DEF J!ToldInv, J!Collected, J!Told
<1>3. rest[q] \in Seq(J!Statement)
  BY <1>2, SeqOfMore
<1>4. rest'[q] = Tail(rest[q]) /\ \A k \in Request \ {q} : rest'[k] = rest[k]
  BY <1>1, <1>2
<1>5. J!InOrder(rest[q])
      /\ \A n \in 1..Len(rest[q]) :
           rest[q][n].do \in {"unlink", "read"} => rest[q][n].of \X rest[q][n].to \subseteq J!Reach(q)
  BY <1>1 DEF J!PairInv, J!PairsOf
<1>6. Head(rest[q]) = rest[q][1] /\ 1 \in 1..Len(rest[q])
  BY <1>1, <1>3
<1> QED BY <1>1, <1>3, <1>4, <1>5, <1>6

\* A statement leads on when it makes of each pair what the program says it does.
LEMMA MovesOn ==
  ASSUME J!ToldInv, J!PairInv, NEW q \in Request, NEW do, J!Runs(q, do), J!Keeps,
         \A k \in Request \ {q} : own'[k] = own[k] /\ missing'[k] = missing[k], DOMAIN missing' = Request,
         missing'[q] \subseteq J!Reach(q),
         \A l \in DOMAIN own'[q] :
           l \in J!Link /\ l.ours /\ J!Pair(l) \in J!Reach(q) /\ own'[q][l] \in J!State,
         \A p \in J!Reach(q) \ touched[q] :
           /\ (J!Adds(q, p)' \/ J!Linked(J!View(q), p[1], p[2])') <=>
                IF J!Covers(Head(rest[q]), p) THEN Head(rest[q]).do = "read"
                ELSE J!Adds(q, p) \/ J!Linked(J!View(q), p[1], p[2])
           /\ J!Adds(q, p)' => \A l \in J!Rows(p) :
                J!View(q)'[l] \in IF Head(rest'[q]).do = "insert" THEN {"absent"} ELSE {"absent", "marked"}
           /\ \A l, k \in J!Rows(p) :
                table[l] = "absent" /\ J!View(q)'[l] # "absent" /\ J!View(q)'[k] # "absent" => l = k
  PROVE  J!PairInv'
<1>1. /\ UNCHANGED <<marks, inputs, chunks, table, touched, at>>
      /\ at[q] = "running" /\ rest[q] \in Seq(J!Statement) /\ rest[q] # <<>> /\ J!InOrder(rest[q])
      /\ rest'[q] = Tail(rest[q]) /\ \A k \in Request \ {q} : rest'[k] = rest[k]
  BY StatementRuns
<1>2. J!PairsOf(q) /\ J!Reach(q)' = J!Reach(q) /\ J!State' = J!State
  BY <1>1, ReachSame DEF J!PairInv
<1>3. ASSUME NEW p \in J!Reach(q) \ touched[q] PROVE J!Leads(q, p)'
  <2>1. J!Leads(q, p)
    BY <1>1, <1>2 DEF J!PairsOf
  <2>2. J!Will(q, p)' <=> J!Will(q, p)
    BY <1>1, <1>3, WillOn
  <2>3. J!Asked(q, p[1], p[2], J!Linked(table, p[1], p[2]))' <=>
          J!Asked(q, p[1], p[2], J!Linked(table, p[1], p[2]))
    <3>1. J!Linked(table, p[1], p[2])' <=> J!Linked(table, p[1], p[2])
      BY <1>1 DEF J!Linked, J!LiveIn
    <3> QED BY <1>1, <3>1 DEF J!Asked, J!Names, J!Written, J!Given, J!Selected
  <2> QED BY <1>1, <1>3, <2>1, <2>2, <2>3 DEF J!Leads
<1>4. /\ J!InOrder(rest[q])'
      /\ \A n \in 1..Len(rest'[q]) :
           rest'[q][n].do \in {"unlink", "read"} => rest'[q][n].of \X rest'[q][n].to \subseteq J!Reach(q)
  <2>1. /\ J!InOrder(rest'[q])
        /\ \A n \in 1..Len(rest'[q]) : n + 1 \in 1..Len(rest[q]) /\ rest'[q][n] = rest[q][n + 1]
    BY <1>1, RestInOrder
  <2>2. J!InOrder(rest[q])'
    BY <1>1, <2>1 DEF J!InOrder
  <2>3. \A n \in 1..Len(rest[q]) :
          rest[q][n].do \in {"unlink", "read"} => rest[q][n].of \X rest[q][n].to \subseteq J!Reach(q)
    BY <1>1, <1>2 DEF J!PairsOf
  <2> QED BY <2>1, <2>2, <2>3
<1>5. J!PairsOf(q)'
  BY <1>1, <1>2, <1>3, <1>4 DEF J!PairsOf
<1> QED BY <1>1, <1>5, OneMoves

\* What a write makes of the rows a request has written, and of the rows it sees.
LEMMA WriteRows ==
  ASSUME J!ToldInv, NEW q \in Request, NEW rows_, NEW state, NEW s, J!Write(q, rows_, state, s)
  PROVE  /\ DOMAIN own'[q] = DOMAIN own[q] \cup rows_
         /\ \A l \in DOMAIN own[q] \cup rows_ : own'[q][l] = IF l \in rows_ THEN state ELSE own[q][l]
         /\ \A k \in Request \ {q} : own'[k] = own[k]
<1>1. own' = [own EXCEPT ![q] = [l \in DOMAIN own[q] \cup rows_ |-> IF l \in rows_ THEN state ELSE own[q][l]]]
      /\ DOMAIN own = Request
  BY DEF J!Write, J!ToldInv
<1> QED BY <1>1

LEMMA WriteIs ==
  ASSUME J!ToldInv, J!PairInv, NEW q \in Request, NEW rows_ \in SUBSET J!Link, NEW state, NEW s,
         J!Write(q, rows_, state, s), UNCHANGED <<table, marks, chunks>>
  PROVE  /\ \A l \in J!Link : J!View(q)'[l] = IF l \in rows_ THEN state ELSE J!View(q)[l]
         /\ \A k \in Request \ {q} : own'[k] = own[k]
<1>1. /\ DOMAIN own'[q] = DOMAIN own[q] \cup rows_
      /\ \A l \in DOMAIN own[q] \cup rows_ : own'[q][l] = IF l \in rows_ THEN state ELSE own[q][l]
      /\ \A k \in Request \ {q} : own'[k] = own[k]
  BY WriteRows
<1>2. \A l \in J!Link : J!View(q)'[l] = IF l \in rows_ THEN state ELSE J!View(q)[l]
  BY <1>1, ViewIs, ViewNext
<1> QED BY <1>1, <1>2

LEMMA WriteWithin ==
  ASSUME J!ToldInv, J!PairInv, NEW q \in Request, NEW rows_ \in SUBSET J!Link, NEW state \in J!State, NEW s,
         J!Write(q, rows_, state, s), \A l \in rows_ : l.ours /\ J!Pair(l) \in J!Reach(q)
  PROVE  \A l \in DOMAIN own'[q] :
           l \in J!Link /\ l.ours /\ J!Pair(l) \in J!Reach(q) /\ own'[q][l] \in J!State
<1>1. /\ DOMAIN own'[q] = DOMAIN own[q] \cup rows_
      /\ \A l \in DOMAIN own[q] \cup rows_ : own'[q][l] = IF l \in rows_ THEN state ELSE own[q][l]
  BY WriteRows
<1>2. \A l \in DOMAIN own[q] : l \in J!Link /\ l.ours /\ J!Pair(l) \in J!Reach(q) /\ own[q][l] \in J!State
  BY DEF J!PairInv, J!PairsOf
<1> QED BY <1>1, <1>2

\* A pair is linked, before a step and after it, when one of its rows is live.
LEMMA ViewLinked ==
  ASSUME NEW q, NEW p \in J!Reach(q)
  PROVE  /\ J!Linked(J!View(q), p[1], p[2]) <=> \E l \in J!Rows(p) : J!View(q)[l] = "live"
         /\ J!Linked(J!View(q), p[1], p[2])' <=> \E l \in J!Rows(p) : J!View(q)'[l] = "live"
<1>1. \A tab : J!Linked(tab, p[1], p[2]) <=> \E l \in J!Rows(p) : tab[l] = "live"
  BY LinkedRows
<1>2. J!Linked(J!View(q)', p[1], p[2]) <=> \E l \in J!Rows(p) : J!View(q)'[l] = "live"
  BY <1>1
<1> QED BY <1>1, <1>2 DEF J!Linked, J!LiveIn

\* An unlink leaves none of the pairs it covers a live row; a read decides to add what it does not find
\* linked; and what it decided to add, the restore or the insert adds, in one row for each pair.
LEMMA UnlinkPairs == ASSUME J!ToldInv, J!PairInv, NEW q \in Request, J!Unlink(q) PROVE J!PairInv'
<1> DEFINE s == Head(rest[q])
           gone == IF marks THEN "marked" ELSE "absent"
           hit == J!Reachable(q, s)
<1>1. /\ J!Runs(q, "unlink") /\ J!Keeps /\ missing' = missing
      /\ J!Write(q, hit, gone, <<s.by, "delete">>)
  BY DEF J!Unlink
<1>2. /\ UNCHANGED <<marks, inputs, chunks, table, touched, at>>
      /\ at[q] = "running" /\ rest[q] \in Seq(J!Statement) /\ rest[q] # <<>> /\ J!InOrder(rest[q])
      /\ s.do = "unlink" /\ rest'[q] = Tail(rest[q]) /\ s.of \X s.to \subseteq J!Reach(q)
  BY <1>1, StatementRuns
<1>3. hit = {l \in J!Link : l.ours /\ J!View(q)[l] = "live" /\ l.source \in s.of /\ l.target \in s.to}
  BY DEF J!Reachable, J!LiveIn
<1>4. /\ gone \in J!State /\ gone # "live" /\ hit \subseteq J!Link
      /\ \A l \in hit : l.ours /\ J!Pair(l) \in J!Reach(q)
  BY <1>2, <1>3 DEF J!State, J!RowState, J!Pair
<1> HIDE DEF s, gone, hit
<1>5. /\ \A l \in J!Link : J!View(q)'[l] = IF l \in hit THEN gone ELSE J!View(q)[l]
      /\ \A k \in Request \ {q} : own'[k] = own[k]
      /\ \A l \in DOMAIN own'[q] :
           l \in J!Link /\ l.ours /\ J!Pair(l) \in J!Reach(q) /\ own'[q][l] \in J!State
  <2>1. /\ \A l \in J!Link : J!View(q)'[l] = IF l \in hit THEN gone ELSE J!View(q)[l]
        /\ \A k \in Request \ {q} : own'[k] = own[k]
    <3>1. hit \in SUBSET J!Link /\ UNCHANGED <<table, marks, chunks>>
          /\ J!Write(q, hit, gone, <<s.by, "delete">>)
      BY <1>1, <1>2, <1>4
    <3> QED BY <3>1, WriteIs
  <2>2. \A l \in DOMAIN own'[q] :
          l \in J!Link /\ l.ours /\ J!Pair(l) \in J!Reach(q) /\ own'[q][l] \in J!State
    BY <1>1, <1>4, WriteWithin
  <2> QED BY <2>1, <2>2
<1>6. ASSUME NEW p PROVE ~J!Adds(q, p) /\ ~J!Adds(q, p)'
  <2>1. rest'[q] # <<>> => Head(rest'[q]).do \in {"unlink", "read"}
    BY <1>2, RestInOrder DEF s
  <2> QED BY <1>2, <2>1 DEF J!Adds, s
<1>7. DOMAIN missing' = Request /\ missing'[q] \subseteq J!Reach(q)
  BY <1>1 DEF J!PairInv, J!PairsOf
<1>8. ASSUME NEW p \in J!Reach(q) \ touched[q]
      PROVE  /\ (J!Adds(q, p)' \/ J!Linked(J!View(q), p[1], p[2])') <=>
                  IF J!Covers(s, p) THEN s.do = "read" ELSE J!Adds(q, p) \/ J!Linked(J!View(q), p[1], p[2])
             /\ \A l, k \in J!Rows(p) :
                  table[l] = "absent" /\ J!View(q)'[l] # "absent" /\ J!View(q)'[k] # "absent" => l = k
  <2>1. \A l \in J!Rows(p) : l \in J!Link /\ l.ours /\ J!Pair(l) = p
    BY DEF J!Rows
  <2>2. J!Covers(s, p) => ~J!Linked(J!View(q), p[1], p[2])'
    <3>1. ASSUME J!Covers(s, p), NEW l \in J!Rows(p) PROVE J!View(q)'[l] # "live"
      <4>1. l.source \in s.of /\ l.target \in s.to
        BY <2>1, <3>1 DEF J!Covers, J!Pair
      <4> QED BY <1>3, <1>4, <1>5, <2>1, <4>1
    <3> QED BY <3>1, ViewLinked
  <2>3. ASSUME ~J!Covers(s, p), NEW l \in J!Rows(p) PROVE J!View(q)'[l] = J!View(q)[l]
    <3>1. l \notin hit
      BY <1>2, <1>3, <2>1, <2>3 DEF J!Covers, J!Pair
    <3> QED BY <1>5, <2>1, <3>1
  <2>4. J!Covers(s, p) \/ (J!Linked(J!View(q), p[1], p[2])' <=> J!Linked(J!View(q), p[1], p[2]))
    BY <2>3, ViewLinked
  <2>5. \A l \in J!Rows(p) : J!View(q)'[l] # "absent" => J!View(q)[l] # "absent"
    BY <1>3, <1>5, <2>1
  <2>6. \A l, k \in J!Rows(p) :
          table[l] = "absent" /\ J!View(q)[l] # "absent" /\ J!View(q)[k] # "absent" => l = k
    BY <1>2 DEF J!PairInv, J!PairsOf, J!Leads
  <2> QED BY <1>2, <1>6, <2>2, <2>4, <2>5, <2>6
<1> QED BY <1>1, <1>5, <1>6, <1>7, <1>8, MovesOn DEF s

LEMMA ReadPairs == ASSUME J!ToldInv, J!PairInv, NEW q \in Request, J!Read(q) PROVE J!PairInv'
<1> DEFINE s == Head(rest[q])
           m == (s.of \X s.to) \ {J!Pair(l) : l \in J!LiveIn(J!View(q))}
<1>1. J!Runs(q, "read") /\ J!Keeps /\ own' = own /\ missing' = [missing EXCEPT ![q] = m]
  BY DEF J!Read
<1>2. /\ UNCHANGED <<marks, inputs, chunks, table, touched, at>>
      /\ at[q] = "running" /\ rest[q] \in Seq(J!Statement) /\ rest[q] # <<>> /\ J!InOrder(rest[q])
      /\ s.do = "read" /\ rest'[q] = Tail(rest[q]) /\ s.of \X s.to \subseteq J!Reach(q)
  BY <1>1, StatementRuns
<1>3. /\ m \subseteq s.of \X s.to
      /\ \A p \in s.of \X s.to :
           p \in m <=> ~\E l \in J!Link : l.ours /\ J!View(q)[l] = "live" /\ J!Pair(l) = p
  BY DEF J!LiveIn
<1> HIDE DEF s, m
<1>4. /\ DOMAIN missing' = Request /\ missing'[q] = m /\ m \subseteq J!Reach(q)
      /\ \A k \in Request \ {q} : own'[k] = own[k] /\ missing'[k] = missing[k]
      /\ \A l \in DOMAIN own'[q] :
           l \in J!Link /\ l.ours /\ J!Pair(l) \in J!Reach(q) /\ own'[q][l] \in J!State
  BY <1>1, <1>2, <1>3 DEF J!PairInv, J!PairsOf
<1>5. \A l \in J!Link : J!View(q)'[l] = J!View(q)[l] /\ J!View(q)[l] \in J!State
  BY <1>1, <1>2, ViewIs, ViewNext
<1>6. rest'[q] # <<>> /\ Head(rest'[q]).do = IF marks THEN "restore" ELSE "insert"
  BY <1>2, RestInOrder DEF s
<1>7. ASSUME NEW p PROVE ~J!Adds(q, p) /\ (J!Adds(q, p)' <=> p \in m)
  BY <1>2, <1>4, <1>6 DEF J!Adds, s
<1>8. ASSUME NEW p \in J!Reach(q) \ touched[q]
      PROVE  /\ (J!Adds(q, p)' \/ J!Linked(J!View(q), p[1], p[2])') <=>
                  IF J!Covers(s, p) THEN s.do = "read" ELSE J!Adds(q, p) \/ J!Linked(J!View(q), p[1], p[2])
             /\ J!Adds(q, p)' => \A l \in J!Rows(p) :
                  J!View(q)'[l] \in IF Head(rest'[q]).do = "insert" THEN {"absent"} ELSE {"absent", "marked"}
             /\ \A l, k \in J!Rows(p) :
                  table[l] = "absent" /\ J!View(q)'[l] # "absent" /\ J!View(q)'[k] # "absent" => l = k
  <2>1. \A l \in J!Link : l \in J!Rows(p) <=> l.ours /\ J!Pair(l) = p
    BY DEF J!Rows
  <2>2. \A l \in J!Rows(p) : l \in J!Link
    BY DEF J!Rows
  <2>3. J!Covers(s, p) <=> p \in s.of \X s.to
    BY <1>2 DEF J!Covers
  <2>4. p \in m <=> J!Covers(s, p) /\ ~J!Linked(J!View(q), p[1], p[2])
    BY <1>3, <2>1, <2>2, <2>3, ViewLinked
  <2>5. J!Linked(J!View(q), p[1], p[2])' <=> J!Linked(J!View(q), p[1], p[2])
    BY <1>5, <2>2, ViewLinked
  <2>6. ASSUME p \in m, NEW l \in J!Rows(p)
        PROVE  J!View(q)'[l] \in IF Head(rest'[q]).do = "insert" THEN {"absent"} ELSE {"absent", "marked"}
    <3>1. J!View(q)[l] # "live"
      BY <2>4, <2>6, ViewLinked
    <3>2. J!View(q)[l] \in J!State
      BY <1>5, <2>2
    <3> QED BY <1>5, <1>6, <2>2, <3>1, <3>2 DEF J!State, J!RowState
  <2>7. \A l, k \in J!Rows(p) :
          table[l] = "absent" /\ J!View(q)[l] # "absent" /\ J!View(q)[k] # "absent" => l = k
    BY <1>2 DEF J!PairInv, J!PairsOf, J!Leads
  <2> QED BY <1>2, <1>5, <1>7, <2>2, <2>4, <2>5, <2>6, <2>7
<1> QED BY <1>1, <1>4, <1>8, MovesOn DEF s

LEMMA RestorePairs == ASSUME J!ToldInv, J!PairInv, NEW q \in Request, J!Restore(q) PROVE J!PairInv'
<1> DEFINE s == Head(rest[q])
           hit == J!Restorable(q)
           m == missing[q] \ {J!Pair(l) : l \in hit}
<1>1. /\ J!Runs(q, "restore") /\ J!Keeps /\ J!Write(q, hit, "live", <<s.by, "restore">>)
      /\ missing' = [missing EXCEPT ![q] = m]
  BY DEF J!Restore
<1>2. /\ UNCHANGED <<marks, inputs, chunks, table, touched, at>>
      /\ at[q] = "running" /\ rest[q] \in Seq(J!Statement) /\ rest[q] # <<>> /\ J!InOrder(rest[q])
      /\ s.do = "restore" /\ rest'[q] = Tail(rest[q])
  BY <1>1, StatementRuns
<1>3. hit = {l \in J!Link : l.ours /\ J!View(q)[l] = "marked" /\ J!Pair(l) \in missing[q]}
  BY DEF J!Restorable
<1>4. "live" \in J!State /\ missing[q] \subseteq J!Reach(q)
  BY DEF J!State, J!RowState, J!PairInv, J!PairsOf
<1>5. m \subseteq missing[q] /\ \A p \in missing[q] : p \in m <=> ~\E l \in hit : J!Pair(l) = p
  OBVIOUS
<1> HIDE DEF s, hit, m
<1>6. hit \subseteq J!Link /\ \A l \in hit : l.ours /\ J!Pair(l) \in J!Reach(q)
  BY <1>3, <1>4
<1>7. /\ \A l \in J!Link : J!View(q)'[l] = IF l \in hit THEN "live" ELSE J!View(q)[l]
      /\ \A k \in Request \ {q} : own'[k] = own[k]
      /\ \A l \in DOMAIN own'[q] :
           l \in J!Link /\ l.ours /\ J!Pair(l) \in J!Reach(q) /\ own'[q][l] \in J!State
  <2>1. /\ \A l \in J!Link : J!View(q)'[l] = IF l \in hit THEN "live" ELSE J!View(q)[l]
        /\ \A k \in Request \ {q} : own'[k] = own[k]
    BY <1>1, <1>2, <1>4, <1>6, WriteIs
  <2>2. \A l \in DOMAIN own'[q] :
          l \in J!Link /\ l.ours /\ J!Pair(l) \in J!Reach(q) /\ own'[q][l] \in J!State
    BY <1>1, <1>4, <1>6, WriteWithin
  <2> QED BY <2>1, <2>2
<1>8. /\ DOMAIN missing' = Request /\ missing'[q] = m /\ m \subseteq J!Reach(q)
      /\ \A k \in Request \ {q} : missing'[k] = missing[k]
  BY <1>1, <1>4, <1>5 DEF J!PairInv
<1>9. rest'[q] # <<>> /\ Head(rest'[q]).do = "insert"
  BY <1>2, RestInOrder DEF s
<1>10. ASSUME NEW p PROVE (J!Adds(q, p) <=> p \in missing[q]) /\ (J!Adds(q, p)' <=> p \in m)
  BY <1>2, <1>8, <1>9 DEF J!Adds, s
<1>11. ASSUME NEW p \in J!Reach(q) \ touched[q]
       PROVE  /\ (J!Adds(q, p)' \/ J!Linked(J!View(q), p[1], p[2])') <=>
                   IF J!Covers(s, p) THEN s.do = "read" ELSE J!Adds(q, p) \/ J!Linked(J!View(q), p[1], p[2])
              /\ J!Adds(q, p)' => \A l \in J!Rows(p) :
                   J!View(q)'[l] \in IF Head(rest'[q]).do = "insert" THEN {"absent"} ELSE {"absent", "marked"}
              /\ \A l, k \in J!Rows(p) :
                   table[l] = "absent" /\ J!View(q)'[l] # "absent" /\ J!View(q)'[k] # "absent" => l = k
  <2>1. \A l \in J!Rows(p) : l \in J!Link /\ l.ours /\ J!Pair(l) = p
    BY DEF J!Rows
  <2>2. ~J!Covers(s, p)
    BY <1>2 DEF J!Covers
  <2>3. J!Leads(q, p) /\ s.do # "insert"
    BY <1>2 DEF J!PairInv, J!PairsOf
  <2>4. p \in missing[q] => \A l \in J!Rows(p) : J!View(q)[l] \in {"absent", "marked"}
    BY <1>10, <2>3 DEF J!Leads, s
  <2>5. \A l \in J!Rows(p) : l \in hit <=> p \in missing[q] /\ J!View(q)[l] = "marked"
    BY <1>3, <2>1
  <2>6. p \notin missing[q] => J!Linked(J!View(q), p[1], p[2])' <=> J!Linked(J!View(q), p[1], p[2])
    BY <1>7, <2>1, <2>5, ViewLinked
  <2>7. p \in missing[q] =>
          (p \in m <=> \A l \in J!Rows(p) : l \notin hit)
    <3>1. \A l \in hit : J!Pair(l) = p => l \in J!Rows(p)
      BY <1>3 DEF J!Rows
    <3> QED BY <1>5, <2>1, <3>1
  <2>8. p \in m => \A l \in J!Rows(p) : J!View(q)'[l] = "absent"
    BY <1>5, <1>7, <2>1, <2>4, <2>5, <2>7
  <2>9. p \in missing[q] /\ p \notin m => J!Linked(J!View(q), p[1], p[2])'
    BY <1>7, <2>1, <2>7, ViewLinked
  <2>10. \A l \in J!Rows(p) : J!View(q)'[l] # "absent" <=> J!View(q)[l] # "absent"
    BY <1>7, <2>1, <2>5
  <2>11. \A l, k \in J!Rows(p) :
           table[l] = "absent" /\ J!View(q)'[l] # "absent" /\ J!View(q)'[k] # "absent" => l = k
    BY <2>3, <2>10 DEF J!Leads
  <2>12. (J!Adds(q, p)' \/ J!Linked(J!View(q), p[1], p[2])') <=>
           (J!Adds(q, p) \/ J!Linked(J!View(q), p[1], p[2]))
    BY <1>5, <1>10, <2>6, <2>9
  <2> QED BY <1>9, <1>10, <2>2, <2>8, <2>11, <2>12
<1> QED BY <1>1, <1>7, <1>8, <1>11, MovesOn DEF s

LEMMA InsertPairs == ASSUME J!ToldInv, J!PairInv, NEW q \in Request, J!Insert(q) PROVE J!PairInv'
<1> DEFINE s == Head(rest[q])
           hit == J!NewLinks(q)
<1>0. missing' = missing /\ {J!Pair(l) : l \in hit} = missing[q]
  BY DEF J!Insert
<1>1. J!Runs(q, "insert") /\ J!Keeps /\ J!Write(q, hit, "live", <<s.by, "insert">>)
  BY DEF J!Insert
<1>2. /\ UNCHANGED <<marks, inputs, chunks, table, touched, at>>
      /\ at[q] = "running" /\ rest[q] \in Seq(J!Statement) /\ rest[q] # <<>> /\ J!InOrder(rest[q])
      /\ s.do = "insert" /\ rest'[q] = Tail(rest[q])
  BY <1>1, StatementRuns
<1>3. /\ \A l \in hit : l \in J!Link /\ l.ours /\ J!Pair(l) \in missing[q] /\ J!View(q)[l] = "absent"
      /\ \A l, k \in hit : J!Pair(k) = J!Pair(l) => l.copy <= k.copy
  BY DEF J!NewLinks
<1>4. \A l, k \in hit : J!Pair(k) = J!Pair(l) => l = k
  <2> SUFFICES ASSUME NEW l \in hit, NEW k \in hit, J!Pair(k) = J!Pair(l) PROVE l = k
    OBVIOUS
  <2>1. Copy \subseteq Nat
    BY PlansAssumption DEF J!JunctionAssumption
  <2>2. l \in J!Link /\ k \in J!Link /\ l.ours = k.ours
    BY <1>3 DEF J!Link
  <2>3. l.copy = k.copy
    <3>1. l.copy <= k.copy /\ k.copy <= l.copy
      BY <1>3
    <3>2. l.copy \in Nat /\ k.copy \in Nat
      BY <2>1, <2>2 DEF J!Link
    <3> QED BY <3>1, <3>2
  <2>4. l.source = k.source /\ l.target = k.target
    BY DEF J!Pair
  <2> QED BY <2>2, <2>3, <2>4 DEF J!Link
<1>5. "live" \in J!State /\ missing[q] \subseteq J!Reach(q) /\ DOMAIN missing = Request
  BY DEF J!State, J!RowState, J!PairInv, J!PairsOf
<1>6. \A p : p \in missing[q] <=> \E l \in hit : J!Pair(l) = p
  BY <1>0
<1> HIDE DEF s, hit
<1>7. hit \subseteq J!Link /\ \A l \in hit : l.ours /\ J!Pair(l) \in J!Reach(q)
  BY <1>3, <1>5
<1>8. /\ \A l \in J!Link : J!View(q)'[l] = IF l \in hit THEN "live" ELSE J!View(q)[l]
      /\ \A k \in Request \ {q} : own'[k] = own[k]
      /\ \A l \in DOMAIN own'[q] :
           l \in J!Link /\ l.ours /\ J!Pair(l) \in J!Reach(q) /\ own'[q][l] \in J!State
  <2>1. "live" \in J!State /\ hit \in SUBSET J!Link /\ UNCHANGED <<table, marks, chunks>>
        /\ J!Write(q, hit, "live", <<s.by, "insert">>)
    BY <1>1, <1>2, <1>5, <1>7
  <2>2. /\ \A l \in J!Link : J!View(q)'[l] = IF l \in hit THEN "live" ELSE J!View(q)[l]
        /\ \A k \in Request \ {q} : own'[k] = own[k]
    BY <2>1, WriteIs
  <2>3. \A l \in DOMAIN own'[q] :
          l \in J!Link /\ l.ours /\ J!Pair(l) \in J!Reach(q) /\ own'[q][l] \in J!State
    BY <1>7, <2>1, WriteWithin
  <2> QED BY <2>2, <2>3
<1>9. ASSUME NEW p PROVE ~J!Adds(q, p)' /\ (J!Adds(q, p) <=> p \in missing[q])
  <2>1. rest'[q] # <<>> => Head(rest'[q]).do \in {"unlink", "read"}
    BY <1>2, RestInOrder DEF s
  <2> QED BY <1>2, <2>1 DEF J!Adds, s
<1>10. ASSUME NEW p \in J!Reach(q) \ touched[q]
       PROVE  /\ (J!Adds(q, p)' \/ J!Linked(J!View(q), p[1], p[2])') <=>
                   IF J!Covers(s, p) THEN s.do = "read" ELSE J!Adds(q, p) \/ J!Linked(J!View(q), p[1], p[2])
              /\ \A l, k \in J!Rows(p) :
                   table[l] = "absent" /\ J!View(q)'[l] # "absent" /\ J!View(q)'[k] # "absent" => l = k
  <2>1. \A l \in J!Rows(p) : l \in J!Link /\ l.ours /\ J!Pair(l) = p
    BY DEF J!Rows
  <2>2. ~J!Covers(s, p)
    BY <1>2 DEF J!Covers
  <2>3. J!Leads(q, p)
    BY <1>2 DEF J!PairInv, J!PairsOf
  <2>4. \A l \in hit : J!Pair(l) = p => l \in J!Rows(p)
    BY <1>3 DEF J!Rows
  <2>5. p \in missing[q] => J!Linked(J!View(q), p[1], p[2])'
    BY <1>6, <1>8, <2>1, <2>4, ViewLinked
  <2>6. p \notin missing[q] => \A l \in J!Rows(p) : J!View(q)'[l] = J!View(q)[l]
    BY <1>6, <1>8, <2>1
  <2>7. p \in missing[q] => \A l \in J!Rows(p) : J!View(q)[l] = "absent"
    BY <1>2, <1>9, <2>3 DEF J!Leads, s
  <2>8. p \notin missing[q] => (J!Linked(J!View(q), p[1], p[2])' <=> J!Linked(J!View(q), p[1], p[2]))
    BY <2>6, ViewLinked
  <2>9. ASSUME NEW l \in J!Rows(p), NEW k \in J!Rows(p), table[l] = "absent",
               J!View(q)'[l] # "absent", J!View(q)'[k] # "absent"
        PROVE  l = k
    <3>1. CASE p \in missing[q]
      <4>1. l \in hit /\ k \in hit
        BY <1>8, <2>1, <2>7, <2>9, <3>1
      <4> QED BY <1>4, <2>1, <4>1
    <3>2. CASE p \notin missing[q]
      BY <2>3, <2>6, <2>9, <3>2 DEF J!Leads
    <3> QED BY <3>1, <3>2
  <2>10. (J!Adds(q, p)' \/ J!Linked(J!View(q), p[1], p[2])') <=>
           (J!Adds(q, p) \/ J!Linked(J!View(q), p[1], p[2]))
    BY <1>9, <2>5, <2>8
  <2> QED BY <2>2, <2>9, <2>10
<1>11. /\ missing'[q] \subseteq J!Reach(q) /\ DOMAIN missing' = Request
       /\ \A k \in Request \ {q} : missing'[k] = missing[k]
  BY <1>0, <1>5
<1> QED BY <1>1, <1>8, <1>9, <1>10, <1>11, MovesOn DEF s

\* When a request begins, the whole of its program leads to what the input asks.
LEMMA BeginPairs == ASSUME J!ToldInv, J!PairInv, NEW q \in Request, J!Begin(q) PROVE J!PairInv'
<1> DEFINE f == J!Statements(q)
<1>1. /\ at[q] = "before" /\ at' = [at EXCEPT ![q] = "running"] /\ rest' = [rest EXCEPT ![q] = f]
      /\ UNCHANGED <<marks, inputs, chunks, table, touched, own, missing>>
  BY DEF J!Begin
<1>2. DOMAIN at = Request /\ DOMAIN rest = Request /\ own[q] = << >> /\ DOMAIN missing = Request
  BY <1>1 DEF J!ToldInv, J!Collected, J!PairInv
<1>3. f \in Program(J!Reach(q))
  BY ProgramLinks
<1>4. \A p \in J!Reach(q) :
        /\ J!LinksLast(f, p) <=> \/ J!Names(q, "connect", p[2])
                                 \/ ~J!Names(q, "disconnect", p[2]) /\ J!Names(q, "set", p[2])
        /\ J!Quiet(f, p) <=> /\ ~J!Names(q, "connect", p[2]) /\ ~J!Names(q, "disconnect", p[2])
                             /\ ~J!Given(inputs[q].set)
  BY ProgramLinks
<1> HIDE DEF f
<1>5. at'[q] = "running" /\ rest'[q] = f /\ own'[q] = << >> /\ missing'[q] = missing[q]
  BY <1>1, <1>2
<1>6. J!Reach(q)' = J!Reach(q) /\ J!State' = J!State
  BY <1>1, ReachSame
<1>7. \A l \in J!Link : J!View(q)'[l] = table[l]
  <2>1. DOMAIN own'[q] = {}
    BY <1>5
  <2> QED BY <1>1, <2>1, ViewNext
<1>8. \A p : ~J!Adds(q, p)'
  BY <1>3, <1>5 DEF J!Adds, Program
<1>9. ASSUME NEW p \in J!Reach(q) PROVE J!Leads(q, p)'
  <2>1. \A l \in J!Rows(p) : l \in J!Link
    BY DEF J!Rows
  <2>2. J!Linked(table, p[1], p[2])' <=> J!Linked(table, p[1], p[2])
    BY <1>1 DEF J!Linked, J!LiveIn
  <2>3. J!Linked(J!View(q), p[1], p[2])' <=> J!Linked(table, p[1], p[2])
    BY <1>7, <2>1, LinkedRows, ViewLinked
  <2>4. J!Will(q, p)' <=> J!LinksLast(f, p) \/ (J!Quiet(f, p) /\ J!Linked(table, p[1], p[2]))
    BY <1>5, <1>8, <2>3 DEF J!Will, J!LinksLast, J!Quiet
  <2>5. p[1] \in J!Written(q) /\ p[2] \notin HiddenTarget
    BY DEF J!Reach
  <2>6. J!Asked(q, p[1], p[2], J!Linked(table, p[1], p[2])) <=>
          \/ J!LinksLast(f, p)
          \/ J!Quiet(f, p) /\ J!Linked(table, p[1], p[2])
    BY <1>4, <2>5 DEF J!Asked, J!Names
  <2>7. J!Asked(q, p[1], p[2], J!Linked(table, p[1], p[2]))' <=>
          J!Asked(q, p[1], p[2], J!Linked(table, p[1], p[2]))
    BY <1>1, <2>2 DEF J!Asked, J!Names, J!Written, J!Given, J!Selected
  <2>8. \A l \in J!Rows(p) : J!View(q)'[l] = table'[l]
    BY <1>1, <1>7, <2>1
  <2> QED BY <1>8, <2>4, <2>6, <2>7, <2>8 DEF J!Leads
<1>10. J!InOrder(rest[q])'
  BY <1>1, <1>3, <1>5 DEF J!InOrder, Program
<1>11. \A n \in 1..Len(rest'[q]) :
         rest'[q][n].do \in {"unlink", "read"} => rest'[q][n].of \X rest'[q][n].to \subseteq J!Reach(q)'
  BY <1>3, <1>5, <1>6 DEF Program
<1>12. missing[q] \subseteq J!Reach(q) /\ DOMAIN own'[q] = {}
  BY <1>5 DEF J!PairInv, J!PairsOf
<1>13. J!PairsOf(q)'
  BY <1>5, <1>6, <1>9, <1>10, <1>11, <1>12 DEF J!PairsOf
<1>14. \A k \in Request \ {q} : /\ at'[k] = at[k] /\ own'[k] = own[k]
                                /\ rest'[k] = rest[k] /\ missing'[k] = missing[k]
  BY <1>1, <1>2
<1> QED BY <1>1, <1>2, <1>13, <1>14, OneMoves

\* A transaction that ends leaves no writes of its own.
LEMMA EndsPairs ==
  ASSUME J!ToldInv, J!PairInv, NEW q \in Request, NEW how \in {"done", "refused", "failed"}, J!Ends(q, how)
  PROVE  /\ UNCHANGED <<marks, inputs, chunks, missing>> /\ J!PairsOf(q)' /\ DOMAIN at = Request
         /\ \A k \in Request \ {q} : at'[k] = at[k] /\ own'[k] = own[k] /\ rest'[k] = rest[k]
<1>1. /\ at' = [at EXCEPT ![q] = how] /\ own' = [own EXCEPT ![q] = << >>]
      /\ rest' = [rest EXCEPT ![q] = <<>>] /\ UNCHANGED <<marks, inputs, chunks, missing>>
  BY DEF J!Ends
<1>2. DOMAIN at = Request /\ DOMAIN rest = Request /\ DOMAIN own = Request
  BY DEF J!ToldInv
<1>3. at'[q] # "running" /\ DOMAIN own'[q] = {}
  BY <1>1, <1>2
<1>4. J!Reach(q)' = J!Reach(q) /\ missing[q] \subseteq J!Reach(q)
  BY <1>1, ReachSame DEF J!PairInv, J!PairsOf
<1>5. J!PairsOf(q)'
  BY <1>1, <1>3, <1>4 DEF J!PairsOf
<1> QED BY <1>1, <1>2, <1>5

\* What a commit changes is recorded for every request that runs.
LEMMA CommitPairs == ASSUME J!ToldInv, J!PairInv, NEW q \in Request, J!Commit(q) PROVE J!PairInv'
<1>1. /\ J!Ends(q, "done") /\ table' = J!View(q)
      /\ touched' = [r \in Request |->
           IF at'[r] = "running"
             THEN touched[r] \cup {J!Pair(l) : l \in {k \in J!Link : table'[k] # table[k]}} ELSE {}]
  BY DEF J!Commit
<1>2. /\ UNCHANGED <<marks, inputs, chunks, missing>> /\ J!PairsOf(q)'
      /\ \A k \in Request \ {q} : at'[k] = at[k] /\ own'[k] = own[k] /\ rest'[k] = rest[k]
  BY <1>1, EndsPairs
<1>3. ASSUME NEW k \in Request \ {q} PROVE J!PairsOf(k)'
  <2>1. at[k] = "running" =>
          touched'[k] = touched[k] \cup {J!Pair(l) : l \in {m \in J!Link : table'[m] # table[m]}}
    BY <1>1, <1>2
  <2>2. at[k] = "running" => /\ touched[k] \subseteq touched'[k]
                             /\ \A l \in J!Link : J!Pair(l) \notin touched'[k] => table'[l] = table[l]
    BY <2>1
  <2> QED BY <1>2, <2>2, OtherPairs
<1>4. table' \in [J!Link -> J!State] /\ J!State' = J!State
  BY <1>1, <1>2, ViewIs, ReachSame
<1>5. DOMAIN touched' = Request /\ DOMAIN missing' = Request
  BY <1>1, <1>2 DEF J!PairInv
<1> QED BY <1>2, <1>3, <1>4, <1>5 DEF J!PairInv

\* Every step keeps it, and so does a step of another relation.
LEMMA PairStays == ASSUME J!PairInv, UNCHANGED linkVars PROVE J!PairInv'
<1>1. UNCHANGED <<marks, inputs, chunks, table, touched, own, missing, rest, at>>
  BY DEF linkVars
<1>2. \A q \in Request : J!PairsOf(q)'
  BY <1>1, OtherPairs
<1>3. J!State' = J!State
  BY <1>1, ReachSame
<1> QED BY <1>1, <1>2, <1>3 DEF J!PairInv

LEMMA PairKeep == ASSUME J!ToldInv, J!PairInv, J!Next PROVE J!PairInv'
<1>1. ASSUME NEW q \in Request, J!Refused(q) \/ J!Fails(q) PROVE J!PairInv'
  <2>1. PICK how \in {"done", "refused", "failed"} : J!Ends(q, how) /\ UNCHANGED <<table, touched>>
    BY <1>1 DEF J!Refused, J!Fails
  <2>2. /\ UNCHANGED <<marks, inputs, chunks, missing>> /\ J!PairsOf(q)'
        /\ \A k \in Request \ {q} : at'[k] = at[k] /\ own'[k] = own[k] /\ rest'[k] = rest[k]
    BY <2>1, EndsPairs
  <2>3. DOMAIN missing' = Request
    BY <2>2 DEF J!PairInv
  <2> QED BY <2>1, <2>2, <2>3, OneMoves
<1>2. CASE J!AllEnded
  BY <1>2, PairStays DEF J!AllEnded, J!vars, linkVars
<1> QED BY <1>1, <1>2, BeginPairs, UnlinkPairs, ReadPairs, RestorePairs, InsertPairs, CommitPairs DEF J!Next

LEMMA PairStart == J!Init => J!PairInv
<1> SUFFICES ASSUME J!Init PROVE J!PairInv
  OBVIOUS
<1>1. /\ origin \in Tables /\ (~marks => \A l \in J!Link : origin[l] # "marked") /\ table = origin
      /\ touched = [q \in Request |-> {}] /\ missing = [q \in Request |-> {}]
      /\ own = [q \in Request |-> << >>]
      /\ at = [q \in Request |-> "before"]
  BY DEF J!Init
<1>2. origin \in [J!Link -> J!RowState]
  BY <1>1, PlansAssumption DEF J!JunctionAssumption
<1>3. table \in [J!Link -> J!State]
  <2>1. \A l \in J!Link : origin[l] \in J!State
    BY <1>1, <1>2 DEF J!State
  <2> QED BY <1>1, <1>2, <2>1
<1>4. ASSUME NEW q \in Request PROVE J!PairsOf(q)
  <2>1. DOMAIN own[q] = {} /\ missing[q] = {} /\ at[q] # "running"
    BY <1>1
  <2> QED BY <2>1 DEF J!PairsOf
<1> QED BY <1>1, <1>3, <1>4 DEF J!PairInv

\* When it commits, every pair nobody else touched is linked as asked, and no other is written.
LEMMA CommitAsAsked ==
  ASSUME J!ToldInv, J!PairInv, NEW q \in Request, J!Commit(q)
  PROVE  /\ \A s \in Source, t \in LinkTarget : <<s, t>> \notin touched[q] =>
              /\ J!Linked(table', s, t) = J!Asked(q, s, t, J!Linked(table, s, t))
              /\ \A l, k \in J!Rows(<<s, t>>) :
                   table[l] = "absent" /\ table'[l] # "absent" /\ table'[k] # "absent" => l = k
         /\ \A l \in J!OutOfReach(q) : table'[l] = table[l]
<1>1. at[q] = "running" /\ rest[q] = <<>> /\ table' = J!View(q)
  BY DEF J!Commit
<1>2. J!PairsOf(q)
  BY DEF J!PairInv
<1>3. \A l \in J!Link : J!View(q)[l] = IF l \in DOMAIN own[q] THEN own[q][l] ELSE table[l]
  BY ViewIs
<1>4. ASSUME NEW l \in J!OutOfReach(q) PROVE table'[l] = table[l]
  <2>1. l \in J!Link /\ ~(l.ours /\ J!Pair(l) \in J!Reach(q))
    BY <1>4 DEF J!OutOfReach, J!Pair, J!Reach
  <2> QED BY <1>1, <1>2, <1>3, <2>1 DEF J!PairsOf
<1>5. ASSUME NEW p \in J!Reach(q) \ touched[q]
      PROVE  /\ J!Linked(J!View(q), p[1], p[2]) <=> J!Asked(q, p[1], p[2], J!Linked(table, p[1], p[2]))
             /\ \A l, k \in J!Rows(p) :
                  table[l] = "absent" /\ J!View(q)[l] # "absent" /\ J!View(q)[k] # "absent" => l = k
  <2>1. J!Leads(q, p)
    BY <1>1, <1>2 DEF J!PairsOf
  <2>2. J!Will(q, p) <=> J!Linked(J!View(q), p[1], p[2])
    BY <1>1, NothingToDo DEF J!Will, J!Adds
  <2> QED BY <2>1, <2>2 DEF J!Leads
<1>6. ASSUME NEW s \in Source, NEW t \in LinkTarget, <<s, t>> \notin J!Reach(q)
      PROVE  /\ J!Linked(J!View(q), s, t) <=> J!Linked(table, s, t)
             /\ J!Asked(q, s, t, J!Linked(table, s, t)) = J!Linked(table, s, t)
             /\ \A l \in J!Rows(<<s, t>>) : table'[l] = table[l]
  <2>1. s \notin J!Written(q) \/ t \in HiddenTarget
    BY <1>6 DEF J!Reach
  <2>2. \A l \in J!Link : J!Pair(l) = <<s, t>> => J!View(q)[l] = table[l]
    BY <1>2, <1>3, <1>6 DEF J!PairsOf
  <2> QED BY <1>1, <2>1, <2>2 DEF J!Asked, J!Linked, J!LiveIn, J!Rows
<1>7. ASSUME NEW s \in Source, NEW t \in LinkTarget, <<s, t>> \notin touched[q]
      PROVE  /\ J!Linked(table', s, t) <=> J!Asked(q, s, t, J!Linked(table, s, t))
             /\ \A l, k \in J!Rows(<<s, t>>) :
                  table[l] = "absent" /\ table'[l] # "absent" /\ table'[k] # "absent" => l = k
  <2>1. CASE <<s, t>> \in J!Reach(q)
    <3> DEFINE p == <<s, t>>
    <3>1. p \in J!Reach(q) \ touched[q] /\ p[1] = s /\ p[2] = t
      BY <1>7, <2>1
    <3> HIDE DEF p
    <3>2. /\ J!Linked(J!View(q), s, t) <=> J!Asked(q, s, t, J!Linked(table, s, t))
          /\ \A l, k \in J!Rows(p) :
               table[l] = "absent" /\ J!View(q)[l] # "absent" /\ J!View(q)[k] # "absent" => l = k
      BY <1>5, <3>1
    <3> QED BY <1>1, <3>2 DEF p
  <2>2. CASE <<s, t>> \notin J!Reach(q)
    <3>1. J!Linked(J!View(q), s, t) <=> J!Linked(table, s, t)
      BY <1>6, <2>2
    <3>2. J!Asked(q, s, t, J!Linked(table, s, t)) = J!Linked(table, s, t)
          /\ \A l \in J!Rows(<<s, t>>) : table'[l] = table[l]
      BY <1>6, <2>2
    <3> QED BY <1>1, <3>1, <3>2
  <2> QED BY <2>1, <2>2
<1>8. ASSUME NEW s \in Source, NEW t \in LinkTarget
      PROVE  J!Linked(table', s, t) \in BOOLEAN /\ J!Asked(q, s, t, J!Linked(table, s, t)) \in BOOLEAN
  BY DEF J!Asked, J!Linked
<1> QED BY <1>4, <1>7, <1>8

-----------------------------------------------------------------------------
(* A junction: the order of the requests. *)

LEMMA LargestIs ==
  ASSUME NEW n \in Nat, NEW S \in SUBSET (1..n), S # {}
  PROVE  J!Max(S) \in S /\ (n \in S => J!Max(S) = n)
<1>1. \E x \in S : \A y \in S : x >= y
  <2> DEFINE T == {n - x : x \in S}
  <2>1. T \in SUBSET Nat /\ T # {}
    <3>1. ASSUME NEW x \in S PROVE n - x \in Nat
      BY x \in 1..n
    <3> QED BY <3>1
  <2>2. PICK p \in T : \A r \in T : p <= r
    <3> HIDE DEF T
    <3> QED BY <2>1, LeastPosition
  <2>3. PICK x \in S : p = n - x
    BY <2>2
  <2>4. ASSUME NEW y \in S PROVE x >= y
    <3>1. n - x <= n - y
      BY <2>2, <2>3
    <3> QED BY <3>1
  <2> QED BY <2>4
<1>2. J!Max(S) \in S /\ \A y \in S : J!Max(S) >= y
  BY <1>1 DEF J!Max
<1>3. J!Max(S) \in 1..n
  BY <1>2
<1>4. n \in S => J!Max(S) >= n
  BY <1>2
<1> QED BY <1>2, <1>3, <1>4

\* What applying an order of requests to a pair comes to.
InTurn(order, s, t, base) == J!FoldLeft(LAMBDA was, q : J!Asked(q, s, t, was), base, order)

LEMMA FoldRuns ==
  ASSUME NEW order \in Seq(Request), NEW s, NEW t, NEW base
  PROVE  \E g : /\ g[0] = base /\ \A n \in 1..Len(order) : g[n] = J!Asked(order[n], s, t, g[n - 1])
                /\ InTurn(order, s, t, base) = g[Len(order)]
<1> DEFINE L == Len(order)
           Onto(x, was) == J!Asked(order[x], s, t, was)
           Of(h, S) == IF S = {} THEN base ELSE Onto(J!Max(S), h[S \ {J!Max(S)}])
           Is(h, n) == h = [S \in SUBSET (1..n) |-> Of(h, S)]
           Made(n) == \E h : Is(h, n)
           Bad == {n \in 0..L : ~Made(n)}
           iter == CHOOSE h : h = [S \in SUBSET DOMAIN order |-> Of(h, S)]
<1>0. L \in Nat /\ DOMAIN order = 1..L
  OBVIOUS
<1>1. InTurn(order, s, t, base) = iter[DOMAIN order]
  BY DEF InTurn, J!FoldLeft, J!MapThenFoldSet
<1> HIDE DEF L, Onto
<1>2. Made(L)
  <2> SUFFICES ASSUME Bad # {} PROVE FALSE
    <3> HIDE DEF Made
    <3> QED BY <1>0
  <2>1. Bad \in SUBSET Nat
    BY <1>0
  <2>2. PICK n \in Bad : \A m \in Bad : n <= m
    <3> HIDE DEF Bad
    <3> QED BY <2>1, LeastPosition
  <2>3. n \in 0..L /\ ~Made(n) /\ \A m \in 0..L : m < n => Made(m)
    <3> HIDE DEF Made
    <3> QED BY <1>0, <2>2
  <2>4. CASE n = 0
    <3> DEFINE h == [S \in SUBSET (1..0) |-> base]
    <3>1. \A S \in SUBSET (1..0) : S = {}
      OBVIOUS
    <3>2. h = [S \in SUBSET (1..0) |-> Of(h, S)]
      BY <3>1
    <3> HIDE DEF h, Of
    <3>3. Made(0)
      BY <3>2
    <3> HIDE DEF Made
    <3> QED BY <2>3, <2>4, <3>3
  <2>5. CASE n # 0
    <3>1. n \in Nat \ {0} /\ n - 1 \in Nat /\ Made(n - 1)
      <4> HIDE DEF Made
      <4> QED BY <1>0, <2>3, <2>5
    <3>2. PICK h : Is(h, n - 1)
      <4> HIDE DEF Is
      <4> QED BY <3>1 DEF Made
    <3> DEFINE k == [S \in SUBSET (1..n) |-> IF n \in S THEN Onto(n, h[S \ {n}]) ELSE h[S]]
    <3>3. \A S \in SUBSET (1..n) : k[S] = IF n \in S THEN Onto(n, h[S \ {n}]) ELSE h[S]
      OBVIOUS
    <3>4. k = [S \in SUBSET (1..n) |-> k[S]]
      OBVIOUS
    <3>5. \A S \in SUBSET (1..(n - 1)) : h[S] = Of(h, S)
      <4> HIDE DEF Of, k
      <4> QED BY <3>2, Zenon
    <3> HIDE DEF k, Is
    <3>6. ASSUME NEW S \in SUBSET (1..n) PROVE k[S] = Of(k, S)
      <4>1. CASE n \in S
        <5>1. J!Max(S) = n /\ S # {}
          BY <3>1, <4>1, LargestIs
        <5>2. S \ {n} \in SUBSET (1..n) /\ n \notin S \ {n}
          OBVIOUS
        <5>3. k[S \ {n}] = h[S \ {n}]
          BY <3>3, <5>2
        <5>4. k[S] = Onto(n, h[S \ {n}])
          BY <3>3, <4>1
        <5> QED BY <5>1, <5>3, <5>4
      <4>2. CASE n \notin S
        <5> DEFINE m == J!Max(S)
        <5>1. S \in SUBSET (1..(n - 1)) /\ k[S] = h[S] /\ h[S] = Of(h, S)
          <6>1. S \in SUBSET (1..(n - 1))
            BY <3>1, <4>2
          <6> HIDE DEF Of
          <6> QED BY <3>3, <3>5, <4>2, <6>1
        <5>2. k[S \ {m}] = h[S \ {m}]
          <6>1. S \ {m} \in SUBSET (1..n) /\ n \notin S \ {m}
            BY <4>2
          <6> HIDE DEF m
          <6> QED BY <3>3, <6>1
        <5> QED BY <5>1, <5>2
      <4> QED BY <4>1, <4>2
    <3>7. Is(k, n)
      <4> HIDE DEF Of
      <4> QED BY <3>4, <3>6 DEF Is
    <3>8. Made(n)
      BY <3>7 DEF Made
    <3> HIDE DEF Made
    <3> QED BY <2>3, <3>8
  <2> QED BY <2>4, <2>5
<1>3. Is(iter, L)
  <2>1. \E h : h = [S \in SUBSET DOMAIN order |-> Of(h, S)]
    <3> HIDE DEF Of
    <3> QED BY <1>0, <1>2
  <2>2. iter = [S \in SUBSET DOMAIN order |-> Of(iter, S)]
    <3> HIDE DEF Of
    <3> QED BY <2>1, Zenon
  <2> HIDE DEF iter, Of
  <2> QED BY <1>0, <2>2
<1> HIDE DEF iter
<1>4. \A S \in SUBSET (1..L) : iter[S] = Of(iter, S)
  <2> HIDE DEF Of
  <2> QED BY <1>3, Zenon
<1> HIDE DEF Is, Made
<1> DEFINE g == [n \in 0..L |-> iter[1..n]]
<1>5. g[0] = base
  <2>1. 1..0 = {} /\ {} \in SUBSET (1..L) /\ 0 \in 0..L
    BY <1>0
  <2> QED BY <1>4, <2>1
<1>6. ASSUME NEW n \in 1..L PROVE g[n] = Onto(n, g[n - 1])
  <2>1. n \in 0..L /\ n - 1 \in 0..L /\ n \in Nat /\ 1..n \in SUBSET (1..L) /\ n \in 1..n
    BY <1>0
  <2>2. (1..n) \ {n} = 1..(n - 1)
    BY <2>1
  <2>3. J!Max(1..n) = n /\ 1..n # {}
    BY <2>1, LargestIs
  <2>4. iter[1..n] = Of(iter, 1..n)
    <3> HIDE DEF Of
    <3> QED BY <1>4, <2>1
  <2>5. iter[1..n] = Onto(n, iter[1..(n - 1)])
    BY <2>2, <2>3, <2>4
  <2> QED BY <2>1, <2>5
<1>7. g[L] = iter[1..L]
  BY <1>0
<1> HIDE DEF g
<1> QED BY <1>0, <1>1, <1>5, <1>6, <1>7 DEF L, Onto

\* What an input asks of a pair does not change, and either it leaves the pair alone or it decides it.
LEMMA AskedStill ==
  ASSUME UNCHANGED <<inputs, chunks>>, NEW q, NEW p
  PROVE  /\ J!Silent(q, p)' <=> J!Silent(q, p)
         /\ \A v \in BOOLEAN : J!Decides(q, p, v)' <=> J!Decides(q, p, v)
<1>1. \A was : J!Asked(q, p[1], p[2], was)' = J!Asked(q, p[1], p[2], was)
  BY DEF J!Asked, J!Names, J!Written, J!Given, J!Selected
<1>2. J!Silent(q, p)' <=> J!Silent(q, p)
  BY <1>1 DEF J!Silent
<1>3. ASSUME NEW v \in BOOLEAN PROVE J!Decides(q, p, v)' <=> J!Decides(q, p, v)
  BY <1>1 DEF J!Decides
<1> QED BY <1>2, <1>3

LEMMA SilentOrDecides ==
  ASSUME NEW q, NEW p, NEW was \in BOOLEAN
  PROVE  /\ J!Asked(q, p[1], p[2], was) \in BOOLEAN
         /\ J!Silent(q, p) \/ J!Decides(q, p, J!Asked(q, p[1], p[2], was))
BY DEF J!Asked, J!Names, J!Silent, J!Decides

\* A request keeps its decisions while others write.
LEMMA DecidedSame ==
  ASSUME UNCHANGED <<marks, inputs, chunks>>, NEW q \in Request, NEW p,
         rest'[q] = rest[q], missing'[q] = missing[q], own'[q] = own[q],
         J!Removing(q, p)' => J!Removing(q, p) /\ (J!Linked(J!View(q), p[1], p[2])
                                                   => J!Linked(J!View(q), p[1], p[2])'),
         J!Decided(q, p)
  PROVE  J!Decided(q, p)'
<1>1. /\ J!Silent(q, p)' <=> J!Silent(q, p)
      /\ \A v \in BOOLEAN : J!Decides(q, p, v)' <=> J!Decides(q, p, v)
  BY AskedStill
<1>2. /\ J!Adds(q, p)' <=> J!Adds(q, p)
      /\ J!Mine(q, p)' = J!Mine(q, p)
      /\ J!Quiet(rest[q], p)' <=> J!Quiet(rest[q], p)
      /\ J!LinksLast(rest[q], p)' <=> J!LinksLast(rest[q], p)
  BY DEF J!Adds, J!Mine, J!Rows, J!Quiet, J!LinksLast
<1> QED BY <1>1, <1>2 DEF J!Decided

\* A statement keeps the order when it makes of each pair what the program says it does, takes away
\* every link of a pair it takes one from, and waits for the rows that others have written.
LEMMA StatementOrders ==
  ASSUME J!ToldInv, J!PairInv, J!OrderInv, NEW q \in Request, NEW do, J!Runs(q, do), J!Keeps,
         NEW hit, NEW state,
         DOMAIN own'[q] = DOMAIN own[q] \cup hit,
         \A l \in DOMAIN own[q] \cup hit : own'[q][l] = IF l \in hit THEN state ELSE own[q][l],
         \A k \in Request \ {q} : own'[k] = own[k] /\ missing'[k] = missing[k],
         \A l \in hit : ~J!Locked(q, l),
         state = "live" \/ \A p, l : l \in J!Rows(p) \cap hit
                             => \A k \in J!Rows(p) : J!View(q)[k] = "live" => k \in hit,
         \A p \in J!Reach(q) :
           /\ J!Covers(Head(rest[q]), p) /\ do = "read" => J!Adds(q, p)' \/ J!Linked(J!View(q), p[1], p[2])'
           /\ J!Covers(Head(rest[q]), p) /\ do = "unlink" =>
                ~J!Adds(q, p)' /\ \A l \in J!Rows(p) \cap DOMAIN own'[q] : own'[q][l] # "live"
           /\ J!Adds(q, p) => J!Adds(q, p)' \/ J!Linked(J!View(q), p[1], p[2])'
           /\ ~J!Covers(Head(rest[q]), p) /\ ~J!Adds(q, p) => ~J!Adds(q, p)' /\ J!Rows(p) \cap hit = {}
  PROVE  J!OrderInv'
<1> DEFINE s == Head(rest[q])
<1>1. /\ UNCHANGED <<marks, inputs, chunks, table, touched, at, origin>>
      /\ at[q] = "running" /\ rest[q] \in Seq(J!Statement) /\ rest[q] # <<>>
      /\ s.do = do /\ rest'[q] = Tail(rest[q])
      /\ \A k \in Request \ {q} : rest'[k] = rest[k]
  <2>1. UNCHANGED origin
    BY DEF J!Keeps
  <2> QED BY <2>1, StatementRuns
<1>2. J!Apart /\ J!OneRemoves
  BY DEF J!OrderInv
<1>3. \A p : \A l \in J!Rows(p) : l \in J!Link
  BY DEF J!Rows
<1>4. \A l \in J!Link : J!View(q)[l] = IF l \in DOMAIN own[q] THEN own[q][l] ELSE table[l]
  BY ViewIs
<1>5. \A p : J!Rows(p)' = J!Rows(p)
  BY DEF J!Rows
<1>6. J!Apart'
  <2>1. ASSUME NEW r \in Request \ {q} PROVE DOMAIN own'[q] \cap DOMAIN own'[r] = {}
    <3>1. own'[r] = own[r] /\ DOMAIN own[q] \cap DOMAIN own[r] = {}
      BY <1>2, <2>1 DEF J!Apart
    <3>2. \A l \in hit : l \notin DOMAIN own[r]
      BY <2>1 DEF J!Locked
    <3> QED BY <3>1, <3>2
  <2>2. ASSUME NEW k \in Request \ {q}, NEW r \in Request \ {q}, k # r
        PROVE  DOMAIN own'[k] \cap DOMAIN own'[r] = {}
    BY <1>2, <2>2 DEF J!Apart
  <2>3. ASSUME NEW k \in Request, NEW r \in Request, k # r
        PROVE  DOMAIN own'[k] \cap DOMAIN own'[r] = {}
    <3>1. CASE k = q
      BY <2>1, <2>3, <3>1
    <3>2. CASE r = q
      BY <2>1, <2>3, <3>2
    <3>3. CASE k # q /\ r # q
      BY <2>2, <2>3, <3>3
    <3> QED BY <3>1, <3>2, <3>3
  <2> QED BY <2>3 DEF J!Apart
<1>7. ASSUME NEW r \in Request \ {q}, NEW p PROVE J!Removing(r, p)' <=> J!Removing(r, p)
  BY <1>1, <1>5, <1>7 DEF J!Removing, J!Mine
<1>8. ASSUME NEW r \in Request \ {q}, NEW p \in Source \X LinkTarget, J!Removing(q, p)', J!Removing(r, p)
      PROVE  FALSE
  <2>1. ~J!Removing(q, p)
    BY <1>2, <1>8 DEF J!OneRemoves
  <2>2. PICK l \in J!Rows(p) : l \in DOMAIN own'[q] /\ own'[q][l] # "live" /\ table[l] = "live"
    BY <1>1, <1>5, <1>8 DEF J!Removing, J!Mine
  <2>3. l \in hit /\ state # "live"
    BY <2>1, <2>2 DEF J!Removing, J!Mine
  <2>4. PICK k \in J!Rows(p) : k \in DOMAIN own[r] /\ table[k] = "live"
    BY <1>8 DEF J!Removing, J!Mine
  <2>5. k \notin DOMAIN own[q]
    BY <1>2, <2>4 DEF J!Apart
  <2>6. J!View(q)[k] = "live"
    BY <1>3, <1>4, <2>4, <2>5
  <2>7. k \in hit
    BY <2>2, <2>3, <2>6
  <2> QED BY <2>4, <2>7 DEF J!Locked
<1>9. J!OneRemoves'
  <2>1. ASSUME NEW k \in Request, NEW r \in Request, NEW p \in Source \X LinkTarget,
               J!Removing(k, p)', J!Removing(r, p)', k # r
        PROVE  FALSE
    <3>1. CASE k = q
      BY <1>7, <1>8, <2>1, <3>1
    <3>2. CASE r = q
      BY <1>7, <1>8, <2>1, <3>2
    <3>3. CASE k # q /\ r # q
      BY <1>2, <1>7, <2>1, <3>3 DEF J!OneRemoves
    <3> QED BY <3>1, <3>2, <3>3
  <2> QED BY <2>1 DEF J!OneRemoves
<1>10. \A k \in Request : J!Reach(k)' = J!Reach(k)
  BY <1>1, ReachSame
<1>11. ASSUME NEW r \in Request \ {q}, at[r] = "running", NEW p \in J!Reach(r) PROVE J!Decided(r, p)'
  <2>1. J!Decided(r, p)
    BY <1>11 DEF J!OrderInv
  <2>2. J!View(r)' = J!View(r)
    BY <1>1 DEF J!View
  <2>3. J!Linked(J!View(r), p[1], p[2]) => J!Linked(J!View(r), p[1], p[2])'
    BY <2>2 DEF J!Linked, J!LiveIn
  <2>4. J!Removing(r, p)' => J!Removing(r, p)
    BY <1>7
  <2> QED BY <1>1, <2>1, <2>3, <2>4, DecidedSame
<1>12. ASSUME NEW p \in J!Reach(q) PROVE J!Decided(q, p)'
  <2> DEFINE t == Tail(rest[q])
             lk == J!Linked(J!View(q), p[1], p[2])
             lk1 == J!Linked(J!View(q), p[1], p[2])'
             ad == J!Adds(q, p)
             ad1 == J!Adds(q, p)'
  <2>1. J!Decided(q, p)
    BY <1>1 DEF J!OrderInv
  <2>2. /\ J!Quiet(rest[q], p) <=> ~J!Covers(s, p) /\ J!Quiet(t, p)
        /\ J!LinksLast(rest[q], p) <=> \/ J!LinksLast(t, p)
                                       \/ J!Quiet(t, p) /\ s.do = "read" /\ J!Covers(s, p)
    BY <1>1, HeadDecides
  <2>3. (J!Quiet(rest[q], p)' <=> J!Quiet(t, p)) /\ (J!LinksLast(rest[q], p)' <=> J!LinksLast(t, p))
    BY <1>1 DEF J!Quiet, J!LinksLast
  <2>4. J!Covers(s, p) => do \in {"unlink", "read"}
    BY <1>1 DEF J!Covers
  <2>5. /\ J!Covers(s, p) /\ do = "read" => ad1 \/ lk1
        /\ J!Covers(s, p) /\ do = "unlink" =>
             ~ad1 /\ \A l \in J!Rows(p) \cap DOMAIN own'[q] : own'[q][l] # "live"
        /\ ad => ad1 \/ lk1
        /\ ~J!Covers(s, p) /\ ~ad => ~ad1 /\ J!Rows(p) \cap hit = {}
    OBVIOUS
  <2>6. J!Rows(p) \cap hit = {} =>
          /\ J!Mine(q, p)' = J!Mine(q, p)
          /\ \A l \in J!Mine(q, p) : own'[q][l] = own[q][l]
    BY <1>5 DEF J!Mine
  <2>7. J!Rows(p) \cap hit = {} => (J!Removing(q, p)' <=> J!Removing(q, p)) /\ (lk => lk1)
    <3>1. ASSUME J!Rows(p) \cap hit = {}, NEW l \in J!Rows(p) PROVE J!View(q)'[l] = J!View(q)[l]
      BY <1>1, <1>3, <1>4, <3>1, ViewNext
    <3>2. J!Rows(p) \cap hit = {} => (lk => lk1)
      BY <3>1, ViewLinked
    <3> QED BY <1>1, <2>6, <3>2 DEF J!Removing
  <2>8. /\ J!Silent(q, p)' <=> J!Silent(q, p)
        /\ \A v \in BOOLEAN : J!Decides(q, p, v)' <=> J!Decides(q, p, v)
    BY <1>1, AskedStill
  <2> HIDE DEF t, lk, lk1, ad, ad1, s
  <2>9. J!Silent(q, p) => J!Quiet(t, p) /\ ~ad1 /\ J!Mine(q, p)' = {}
    BY <2>1, <2>2, <2>5, <2>6 DEF J!Decided, ad
  <2>10. J!Decides(q, p, TRUE) =>
           \/ J!LinksLast(t, p)
           \/ J!Quiet(t, p) /\ (ad1 \/ lk1 \/ ~J!Removing(q, p)')
    <3> SUFFICES ASSUME J!Decides(q, p, TRUE)
                 PROVE  \/ J!LinksLast(t, p)
                        \/ J!Quiet(t, p) /\ (ad1 \/ lk1 \/ ~J!Removing(q, p)')
      OBVIOUS
    <3>1. \/ J!LinksLast(rest[q], p)
          \/ J!Quiet(rest[q], p) /\ (ad \/ lk \/ ~J!Removing(q, p))
      BY <2>1 DEF J!Decided, ad, lk
    <3> QED BY <1>1, <2>2, <2>5, <2>7, <3>1
  <2>11. J!Decides(q, p, FALSE) =>
           /\ ~J!LinksLast(t, p)
           /\ J!Quiet(t, p) => ~ad1 /\ \A l \in J!Mine(q, p)' : own'[q][l] # "live"
    <3> SUFFICES ASSUME J!Decides(q, p, FALSE)
                 PROVE  /\ ~J!LinksLast(t, p)
                        /\ J!Quiet(t, p) => ~ad1 /\ \A l \in J!Mine(q, p)' : own'[q][l] # "live"
      OBVIOUS
    <3>1. /\ ~J!LinksLast(rest[q], p)
          /\ J!Quiet(rest[q], p) => ~ad /\ \A l \in J!Mine(q, p) : own[q][l] # "live"
      BY <2>1 DEF J!Decided, ad
    <3>2. J!Mine(q, p)' = J!Rows(p) \cap DOMAIN own'[q]
      BY <1>5 DEF J!Mine
    <3> QED BY <1>1, <2>2, <2>4, <2>5, <2>6, <3>1, <3>2
  <2>12. /\ (J!Silent(q, p) => J!Quiet(rest[q], p) /\ ~J!Adds(q, p) /\ J!Mine(q, p) = {})'
         /\ (J!Decides(q, p, TRUE) =>
              \/ J!LinksLast(rest[q], p)
              \/ /\ J!Quiet(rest[q], p)
                 /\ J!Adds(q, p) \/ J!Linked(J!View(q), p[1], p[2]) \/ ~J!Removing(q, p))'
         /\ (J!Decides(q, p, FALSE) =>
              /\ ~J!LinksLast(rest[q], p)
              /\ J!Quiet(rest[q], p) => ~J!Adds(q, p) /\ \A l \in J!Mine(q, p) : own[q][l] # "live")'
    BY <2>3, <2>8, <2>9, <2>10, <2>11 DEF lk1, ad1
  <2> QED BY <2>12 DEF J!Decided
<1>13. ASSUME NEW p \in Source \X LinkTarget PROVE J!Settled(p)'
  <2>1. J!Settled(p)
    BY DEF J!OrderInv
  <2>2. J!Deciders(p)' = J!Deciders(p) /\ (J!Linked(table, p[1], p[2])' <=> J!Linked(table, p[1], p[2]))
    BY <1>1, AskedStill DEF J!Deciders, J!Linked, J!LiveIn
  <2> QED BY <1>1, <1>5, <2>1, <2>2, AskedStill DEF J!Settled, J!Linked
<1>14. \A k \in Request : at'[k] = "running" => \A p \in J!Reach(k)' : J!Decided(k, p)'
  BY <1>1, <1>10, <1>11, <1>12
<1> QED BY <1>6, <1>9, <1>13, <1>14 DEF J!OrderInv

\* An unlink leaves none of the pairs it covers a live row of its own; a read decides to add what it does
\* not find linked; and the restore or the insert adds what was decided.
LEMMA UnlinkOrders ==
  ASSUME J!ToldInv, J!PairInv, J!OrderInv, NEW q \in Request, J!Unlink(q) PROVE J!OrderInv'
<1> DEFINE s == Head(rest[q])
           gone == IF marks THEN "marked" ELSE "absent"
           hit == J!Reachable(q, s)
<1>1. /\ J!Runs(q, "unlink") /\ J!Keeps /\ missing' = missing
      /\ J!Write(q, hit, gone, <<s.by, "delete">>) /\ gone # "live"
  BY DEF J!Unlink
<1>2. /\ at[q] = "running" /\ rest[q] \in Seq(J!Statement) /\ rest[q] # <<>> /\ J!InOrder(rest[q])
      /\ s.do = "unlink" /\ rest'[q] = Tail(rest[q])
  BY <1>1, StatementRuns
<1>3. hit = {l \in J!Link : l.ours /\ J!View(q)[l] = "live" /\ l.source \in s.of /\ l.target \in s.to}
  BY DEF J!Reachable, J!LiveIn
<1>4. /\ DOMAIN own'[q] = DOMAIN own[q] \cup hit
      /\ \A l \in DOMAIN own[q] \cup hit : own'[q][l] = IF l \in hit THEN gone ELSE own[q][l]
      /\ \A k \in Request \ {q} : own'[k] = own[k]
  <2> HIDE DEF hit, gone, s
  <2> QED BY <1>1, WriteRows
<1>5. \A l \in hit : ~J!Locked(q, l)
  BY <1>1 DEF J!Write
<1> HIDE DEF s, gone, hit
<1>6. ASSUME NEW p PROVE ~J!Adds(q, p) /\ ~J!Adds(q, p)'
  <2>1. rest'[q] # <<>> => Head(rest'[q]).do \in {"unlink", "read"}
    BY <1>2, RestInOrder DEF s
  <2> QED BY <1>2, <2>1 DEF J!Adds, s
<1>7. \A p : \A l \in J!Rows(p) : l \in J!Link /\ l.ours /\ J!Pair(l) = p
  BY DEF J!Rows
<1>8. ASSUME NEW p, NEW l \in J!Rows(p) \cap hit, NEW k \in J!Rows(p), J!View(q)[k] = "live" PROVE k \in hit
  <2>1. k.source = l.source /\ k.target = l.target
    BY <1>7 DEF J!Pair
  <2> QED BY <1>3, <1>7, <1>8, <2>1
<1>9. ASSUME NEW p, J!Covers(s, p), NEW l \in J!Rows(p) \cap DOMAIN own'[q] PROVE own'[q][l] # "live"
  <2>1. l.source \in s.of /\ l.target \in s.to
    BY <1>7, <1>9 DEF J!Covers, J!Pair
  <2>2. l \in DOMAIN own[q] => J!View(q)[l] = own[q][l]
    BY <1>7, ViewIs
  <2> QED BY <1>1, <1>3, <1>4, <1>7, <2>1, <2>2
<1>10. ASSUME NEW p, ~J!Covers(s, p) PROVE J!Rows(p) \cap hit = {}
  BY <1>2, <1>3, <1>7, <1>10 DEF J!Covers, J!Pair
<1>11. \A k \in Request \ {q} : own'[k] = own[k] /\ missing'[k] = missing[k]
  BY <1>1, <1>4
<1>12. \A p, l : l \in J!Rows(p) \cap hit => \A k \in J!Rows(p) : J!View(q)[k] = "live" => k \in hit
  BY <1>8
<1>13. \A p \in J!Reach(q) :
         /\ J!Covers(Head(rest[q]), p) =>
              ~J!Adds(q, p)' /\ \A l \in J!Rows(p) \cap DOMAIN own'[q] : own'[q][l] # "live"
         /\ ~J!Adds(q, p)
         /\ ~J!Covers(Head(rest[q]), p) => ~J!Adds(q, p)' /\ J!Rows(p) \cap hit = {}
  BY <1>6, <1>9, <1>10 DEF s
<1> QED BY <1>1, <1>4, <1>5, <1>11, <1>12, <1>13, StatementOrders

LEMMA ReadOrders ==
  ASSUME J!ToldInv, J!PairInv, J!OrderInv, NEW q \in Request, J!Read(q) PROVE J!OrderInv'
<1> DEFINE s == Head(rest[q])
           m == (s.of \X s.to) \ {J!Pair(l) : l \in J!LiveIn(J!View(q))}
           none == {}
<1>1. J!Runs(q, "read") /\ J!Keeps /\ own' = own /\ missing' = [missing EXCEPT ![q] = m]
  BY DEF J!Read
<1>2. /\ UNCHANGED <<marks, table>>
      /\ at[q] = "running" /\ rest[q] \in Seq(J!Statement) /\ rest[q] # <<>> /\ J!InOrder(rest[q])
      /\ s.do = "read" /\ rest'[q] = Tail(rest[q])
  BY <1>1, StatementRuns
<1>3. /\ \A p : p \in m => p \in s.of \X s.to
      /\ \A p \in s.of \X s.to :
           p \in m <=> ~\E l \in J!Link : l.ours /\ J!View(q)[l] = "live" /\ J!Pair(l) = p
  BY DEF J!LiveIn
<1> HIDE DEF s, m
<1>4. missing'[q] = m /\ \A k \in Request \ {q} : own'[k] = own[k] /\ missing'[k] = missing[k]
  BY <1>1 DEF J!PairInv
<1>5. J!View(q)' = J!View(q)
  BY <1>1, <1>2 DEF J!View
<1>6. rest'[q] # <<>> /\ Head(rest'[q]).do = IF marks THEN "restore" ELSE "insert"
  BY <1>2, RestInOrder DEF s
<1>7. ASSUME NEW p PROVE ~J!Adds(q, p) /\ (J!Adds(q, p)' <=> p \in m)
  BY <1>2, <1>4, <1>6 DEF J!Adds, s
<1>8. ASSUME NEW p \in J!Reach(q)
      PROVE  /\ J!Covers(s, p) => J!Adds(q, p)' \/ J!Linked(J!View(q), p[1], p[2])'
             /\ ~J!Covers(s, p) => ~J!Adds(q, p)'
  <2>1. J!Covers(s, p) <=> p \in s.of \X s.to
    BY <1>2 DEF J!Covers
  <2>2. \A l \in J!Link : l \in J!Rows(p) <=> l.ours /\ J!Pair(l) = p
    BY DEF J!Rows
  <2>3. J!Covers(s, p) => p \in m \/ \E l \in J!Rows(p) : J!View(q)[l] = "live"
    BY <1>3, <2>1, <2>2
  <2> QED BY <1>3, <1>5, <1>7, <2>1, <2>3, ViewLinked
<1>9. \A p \in J!Reach(q) :
        /\ ~J!Adds(q, p)
        /\ J!Covers(Head(rest[q]), p) => J!Adds(q, p)' \/ J!Linked(J!View(q), p[1], p[2])'
        /\ ~J!Covers(Head(rest[q]), p) => ~J!Adds(q, p)' /\ J!Rows(p) \cap none = {}
  BY <1>7, <1>8 DEF s
<1>10. /\ DOMAIN own'[q] = DOMAIN own[q] \cup none
       /\ \A l \in DOMAIN own[q] \cup none : own'[q][l] = IF l \in none THEN "live" ELSE own[q][l]
       /\ \A l \in none : ~J!Locked(q, l)
  BY <1>1
<1>11. J!Runs(q, "read") /\ J!Keeps
  BY <1>1
<1>12. \A k \in Request \ {q} : own'[k] = own[k] /\ missing'[k] = missing[k]
  BY <1>4
<1> HIDE DEF none
<1> QED BY <1>9, <1>10, <1>11, <1>12, StatementOrders

LEMMA RestoreOrders ==
  ASSUME J!ToldInv, J!PairInv, J!OrderInv, NEW q \in Request, J!Restore(q) PROVE J!OrderInv'
<1> DEFINE s == Head(rest[q])
           hit == J!Restorable(q)
           m == missing[q] \ {J!Pair(l) : l \in hit}
<1>1. /\ J!Runs(q, "restore") /\ J!Keeps /\ J!Write(q, hit, "live", <<s.by, "restore">>)
      /\ missing' = [missing EXCEPT ![q] = m]
  BY DEF J!Restore
<1>2. /\ UNCHANGED <<marks, chunks, table>>
      /\ at[q] = "running" /\ rest[q] \in Seq(J!Statement) /\ rest[q] # <<>> /\ J!InOrder(rest[q])
      /\ s.do = "restore" /\ rest'[q] = Tail(rest[q])
  BY <1>1, StatementRuns
<1>3. hit = {l \in J!Link : l.ours /\ J!View(q)[l] = "marked" /\ J!Pair(l) \in missing[q]}
  BY DEF J!Restorable
<1>4. (\A p : p \in m => p \in missing[q]) /\ \A p \in missing[q] : p \in m \/ \E l \in hit : J!Pair(l) = p
  OBVIOUS
<1>5. \A l \in hit : ~J!Locked(q, l)
  BY <1>1 DEF J!Write
<1> HIDE DEF s, hit, m
<1>6. /\ DOMAIN own'[q] = DOMAIN own[q] \cup hit
      /\ \A l \in DOMAIN own[q] \cup hit : own'[q][l] = IF l \in hit THEN "live" ELSE own[q][l]
      /\ \A k \in Request \ {q} : own'[k] = own[k]
  BY <1>1, WriteRows
<1>7. \A l \in hit : J!View(q)'[l] = "live" /\ l \in J!Link
  <2>1. hit \in SUBSET J!Link
    BY <1>3
  <2>2. J!Write(q, hit, "live", <<s.by, "restore">>) /\ UNCHANGED <<table, marks, chunks>>
    BY <1>1, <1>2
  <2>3. \A l \in J!Link : J!View(q)'[l] = IF l \in hit THEN "live" ELSE J!View(q)[l]
    BY <2>1, <2>2, WriteIs
  <2> QED BY <2>1, <2>3
<1>8. missing'[q] = m /\ \A k \in Request \ {q} : missing'[k] = missing[k]
  BY <1>1 DEF J!PairInv
<1>9. rest'[q] # <<>> /\ Head(rest'[q]).do = "insert"
  BY <1>2, RestInOrder DEF s
<1>10. ASSUME NEW p PROVE (J!Adds(q, p) <=> p \in missing[q]) /\ (J!Adds(q, p)' <=> p \in m)
  BY <1>2, <1>8, <1>9 DEF J!Adds, s
<1>11. ASSUME NEW p \in J!Reach(q)
       PROVE  /\ ~J!Covers(s, p)
              /\ J!Adds(q, p) => J!Adds(q, p)' \/ J!Linked(J!View(q), p[1], p[2])'
              /\ ~J!Adds(q, p) => ~J!Adds(q, p)' /\ J!Rows(p) \cap hit = {}
  <2>1. \A l \in J!Link : l \in J!Rows(p) <=> l.ours /\ J!Pair(l) = p
    BY DEF J!Rows
  <2>2. ~J!Covers(s, p)
    BY <1>2 DEF J!Covers
  <2>3. p \in missing[q] /\ p \notin m => \E l \in J!Rows(p) : J!View(q)'[l] = "live"
    BY <1>3, <1>4, <1>7, <2>1
  <2>4. p \notin missing[q] => p \notin m /\ J!Rows(p) \cap hit = {}
    BY <1>3, <1>4, <2>1
  <2> QED BY <1>10, <2>2, <2>3, <2>4, ViewLinked
<1>12. \A p \in J!Reach(q) :
         /\ ~J!Covers(Head(rest[q]), p)
         /\ J!Adds(q, p) => J!Adds(q, p)' \/ J!Linked(J!View(q), p[1], p[2])'
         /\ ~J!Adds(q, p) => ~J!Adds(q, p)' /\ J!Rows(p) \cap hit = {}
  BY <1>11 DEF s
<1>13. \A k \in Request \ {q} : own'[k] = own[k] /\ missing'[k] = missing[k]
  BY <1>6, <1>8
<1> QED BY <1>1, <1>5, <1>6, <1>12, <1>13, StatementOrders

LEMMA InsertOrders ==
  ASSUME J!ToldInv, J!PairInv, J!OrderInv, NEW q \in Request, J!Insert(q) PROVE J!OrderInv'
<1> DEFINE s == Head(rest[q])
           hit == J!NewLinks(q)
<1>1. /\ J!Runs(q, "insert") /\ J!Keeps /\ J!Write(q, hit, "live", <<s.by, "insert">>)
      /\ missing' = missing /\ {J!Pair(l) : l \in hit} = missing[q]
  BY DEF J!Insert
<1>2. /\ UNCHANGED <<marks, chunks, table>>
      /\ at[q] = "running" /\ rest[q] \in Seq(J!Statement) /\ rest[q] # <<>> /\ J!InOrder(rest[q])
      /\ s.do = "insert" /\ rest'[q] = Tail(rest[q])
  BY <1>1, StatementRuns
<1>3. \A l \in hit : l \in J!Link /\ l.ours /\ J!Pair(l) \in missing[q]
  BY DEF J!NewLinks
<1>4. \A p : p \in missing[q] <=> \E l \in hit : J!Pair(l) = p
  BY <1>1
<1>5. \A l \in hit : ~J!Locked(q, l)
  BY <1>1 DEF J!Write
<1> HIDE DEF s, hit
<1>6. /\ DOMAIN own'[q] = DOMAIN own[q] \cup hit
      /\ \A l \in DOMAIN own[q] \cup hit : own'[q][l] = IF l \in hit THEN "live" ELSE own[q][l]
      /\ \A k \in Request \ {q} : own'[k] = own[k]
  BY <1>1, WriteRows
<1>7. \A l \in hit : J!View(q)'[l] = "live" /\ l \in J!Link
  <2>1. hit \in SUBSET J!Link
    BY <1>3
  <2> QED BY <1>1, <1>2, <2>1, WriteIs
<1>8. ASSUME NEW p PROVE ~J!Adds(q, p)' /\ (J!Adds(q, p) <=> p \in missing[q])
  <2>1. rest'[q] # <<>> => Head(rest'[q]).do \in {"unlink", "read"}
    BY <1>2, RestInOrder DEF s
  <2> QED BY <1>2, <2>1 DEF J!Adds, s
<1>9. ASSUME NEW p \in J!Reach(q)
      PROVE  /\ ~J!Covers(s, p)
             /\ J!Adds(q, p) => J!Linked(J!View(q), p[1], p[2])'
             /\ ~J!Adds(q, p) => J!Rows(p) \cap hit = {}
  <2>1. \A l \in J!Link : l \in J!Rows(p) <=> l.ours /\ J!Pair(l) = p
    BY DEF J!Rows
  <2>2. ~J!Covers(s, p)
    BY <1>2 DEF J!Covers
  <2>3. p \in missing[q] => \E l \in J!Rows(p) : J!View(q)'[l] = "live"
    BY <1>3, <1>4, <1>7, <2>1
  <2>4. p \notin missing[q] => J!Rows(p) \cap hit = {}
    BY <1>3, <2>1
  <2> QED BY <1>8, <2>2, <2>3, <2>4, ViewLinked
<1>10. \A p \in J!Reach(q) :
         /\ ~J!Covers(Head(rest[q]), p) /\ ~J!Adds(q, p)'
         /\ J!Adds(q, p) => J!Linked(J!View(q), p[1], p[2])'
         /\ ~J!Adds(q, p) => J!Rows(p) \cap hit = {}
  BY <1>8, <1>9 DEF s
<1>11. \A k \in Request \ {q} : own'[k] = own[k] /\ missing'[k] = missing[k]
  BY <1>1, <1>6
<1> QED BY <1>1, <1>5, <1>6, <1>10, <1>11, StatementOrders

\* When a request begins, its program decides what its input decides.
LEMMA BeginOrders ==
  ASSUME J!ToldInv, J!PairInv, J!OrderInv, NEW q \in Request, J!Begin(q) PROVE J!OrderInv'
<1> DEFINE f == J!Statements(q)
<1>1. /\ at[q] = "before" /\ at' = [at EXCEPT ![q] = "running"] /\ rest' = [rest EXCEPT ![q] = f]
      /\ UNCHANGED <<marks, inputs, chunks, table, touched, own, missing, origin>>
  BY DEF J!Begin
<1>2. DOMAIN at = Request /\ DOMAIN rest = Request /\ own[q] = << >>
  BY <1>1 DEF J!ToldInv, J!Collected
<1>3. f \in Program(J!Reach(q))
  BY ProgramLinks
<1>4. \A p \in J!Reach(q) :
        /\ J!LinksLast(f, p) <=> \/ J!Names(q, "connect", p[2])
                                 \/ ~J!Names(q, "disconnect", p[2]) /\ J!Names(q, "set", p[2])
        /\ J!Quiet(f, p) <=> /\ ~J!Names(q, "connect", p[2]) /\ ~J!Names(q, "disconnect", p[2])
                             /\ ~J!Given(inputs[q].set)
  BY ProgramLinks
<1> HIDE DEF f
<1>5. /\ at'[q] = "running" /\ rest'[q] = f /\ own'[q] = << >>
      /\ \A r \in Request \ {q} : at'[r] = at[r] /\ rest'[r] = rest[r]
  BY <1>1, <1>2
<1>6. \A r, p : /\ J!Rows(p)' = J!Rows(p) /\ J!Mine(r, p)' = J!Mine(r, p)
                /\ J!Removing(r, p)' <=> J!Removing(r, p)
  BY <1>1 DEF J!Rows, J!Mine, J!Removing
<1>7. J!Apart' /\ J!OneRemoves'
  <2>1. J!Apart /\ J!OneRemoves
    BY DEF J!OrderInv
  <2> QED BY <1>1, <1>6, <2>1 DEF J!Apart, J!OneRemoves
<1>8. ASSUME NEW p \in J!Reach(q) PROVE J!Decided(q, p)'
  <2>1. /\ J!Silent(q, p)' <=> J!Silent(q, p)
        /\ \A v \in BOOLEAN : J!Decides(q, p, v)' <=> J!Decides(q, p, v)
    BY <1>1, AskedStill
  <2>2. (J!Quiet(rest[q], p)' <=> J!Quiet(f, p)) /\ (J!LinksLast(rest[q], p)' <=> J!LinksLast(f, p))
    BY <1>5 DEF J!Quiet, J!LinksLast
  <2>3. ~J!Adds(q, p)'
    BY <1>3, <1>5 DEF J!Adds, Program
  <2>4. J!Mine(q, p)' = {}
    BY <1>5 DEF J!Mine
  <2>5. p[1] \in J!Written(q) /\ p[2] \notin HiddenTarget
    BY DEF J!Reach
  <2>6. /\ J!Silent(q, p) => J!Quiet(f, p)
        /\ J!Decides(q, p, TRUE) => J!LinksLast(f, p)
        /\ J!Decides(q, p, FALSE) => ~J!LinksLast(f, p)
    BY <1>4, <2>5 DEF J!Silent, J!Decides, J!Asked, J!Names
  <2>7. \A l \in J!Mine(q, p)' : own'[q][l] # "live"
    BY <2>4
  <2>8. /\ (J!Silent(q, p) => J!Quiet(rest[q], p) /\ ~J!Adds(q, p) /\ J!Mine(q, p) = {})'
        /\ (J!Decides(q, p, TRUE) => J!LinksLast(rest[q], p))'
        /\ (J!Decides(q, p, FALSE) =>
              ~J!LinksLast(rest[q], p) /\ ~J!Adds(q, p) /\ \A l \in J!Mine(q, p) : own[q][l] # "live")'
    BY <2>1, <2>2, <2>3, <2>4, <2>6, <2>7
  <2> QED BY <2>8 DEF J!Decided
<1>9. ASSUME NEW r \in Request \ {q}, at[r] = "running", NEW p \in J!Reach(r) PROVE J!Decided(r, p)'
  <2>1. J!Decided(r, p)
    BY <1>9 DEF J!OrderInv
  <2>2. J!Linked(J!View(r), p[1], p[2]) => J!Linked(J!View(r), p[1], p[2])'
    BY <1>1 DEF J!Linked, J!LiveIn, J!View
  <2> QED BY <1>1, <1>5, <1>6, <2>1, <2>2, DecidedSame
<1>10. \A r \in Request : at'[r] = "running" => \A p \in J!Reach(r)' : J!Decided(r, p)'
  <2>1. \A r \in Request : J!Reach(r)' = J!Reach(r)
    BY <1>1, ReachSame
  <2> QED BY <1>5, <1>8, <1>9, <2>1
<1>11. ASSUME NEW p \in Source \X LinkTarget PROVE J!Settled(p)'
  <2>1. J!Settled(p)
    BY DEF J!OrderInv
  <2>2. J!Deciders(p)' = J!Deciders(p)
    BY <1>1, <1>5, AskedStill DEF J!Deciders
  <2>3. J!Linked(table, p[1], p[2]) \in BOOLEAN
        /\ (J!Linked(table, p[1], p[2])' <=> J!Linked(table, p[1], p[2]))
    BY <1>1 DEF J!Linked, J!LiveIn
  <2> QED BY <1>1, <1>6, <2>1, <2>2, <2>3, AskedStill DEF J!Settled, J!Linked
<1> QED BY <1>7, <1>10, <1>11 DEF J!OrderInv

\* A transaction that ends holds nothing back, and the others keep what they decide.
LEMMA EndsOrders ==
  ASSUME J!ToldInv, J!PairInv, J!OrderInv, NEW q \in Request, NEW how \in {"done", "refused", "failed"},
         J!Ends(q, how), table' = table \/ table' = J!View(q)
  PROVE  /\ J!Apart' /\ J!OneRemoves'
         /\ \A r \in Request : at'[r] = "running" => \A p \in J!Reach(r)' : J!Decided(r, p)'
<1>1. /\ at' = [at EXCEPT ![q] = how] /\ own' = [own EXCEPT ![q] = << >>]
      /\ rest' = [rest EXCEPT ![q] = <<>>] /\ UNCHANGED <<marks, inputs, chunks, missing>>
  BY DEF J!Ends
<1>2. DOMAIN at = Request /\ DOMAIN rest = Request /\ DOMAIN own = Request
  BY DEF J!ToldInv
<1>3. /\ at'[q] # "running" /\ own'[q] = << >> /\ DOMAIN own'[q] = {}
      /\ \A r \in Request \ {q} : at'[r] = at[r] /\ own'[r] = own[r] /\ rest'[r] = rest[r]
  BY <1>1, <1>2
<1>4. J!Apart /\ J!OneRemoves
  BY DEF J!OrderInv
<1>5. J!Apart'
  <2>1. ASSUME NEW k \in Request, NEW r \in Request, k # r
        PROVE  DOMAIN own'[k] \cap DOMAIN own'[r] = {}
    <3>1. CASE k = q \/ r = q
      BY <1>3, <3>1
    <3>2. CASE k # q /\ r # q
      BY <1>3, <1>4, <2>1, <3>2 DEF J!Apart
    <3> QED BY <3>1, <3>2
  <2> QED BY <2>1 DEF J!Apart
<1>6. \A p : J!Rows(p)' = J!Rows(p) /\ \A l \in J!Rows(p) : l \in J!Link
  BY DEF J!Rows
<1>7. \A r \in Request \ {q} : \A l \in J!Link : l \in DOMAIN own[r] => table'[l] = table[l]
  <2>1. ASSUME NEW r \in Request \ {q}, NEW l \in J!Link, l \in DOMAIN own[r] PROVE table'[l] = table[l]
    <3>1. l \notin DOMAIN own[q]
      BY <1>4, <2>1 DEF J!Apart
    <3> QED BY <2>1, <3>1, ViewIs
  <2> QED BY <2>1
<1>8. ASSUME NEW r \in Request \ {q}, NEW p PROVE J!Removing(r, p)' <=> J!Removing(r, p)
  BY <1>3, <1>6, <1>7, <1>8 DEF J!Removing, J!Mine
<1>9. \A p : ~J!Removing(q, p)'
  BY <1>3 DEF J!Removing, J!Mine
<1>10. J!OneRemoves'
  BY <1>4, <1>8, <1>9 DEF J!OneRemoves
<1>11. ASSUME NEW r \in Request \ {q}, at[r] = "running", NEW p \in J!Reach(r) PROVE J!Decided(r, p)'
  <2>1. J!Decided(r, p)
    BY <1>11 DEF J!OrderInv
  <2>2. p \in Source \X LinkTarget
    <3>1. chunks[r] \in Seq(SUBSET Source)
      BY LinkTypes
    <3>2. J!Written(r) \subseteq Source
      BY <3>1 DEF J!Written, J!ToSet
    <3> QED BY <3>2 DEF J!Reach
  <2>3. ASSUME J!Removing(r, p), J!Linked(J!View(r), p[1], p[2]) PROVE J!Linked(J!View(r), p[1], p[2])'
    <3>1. ~J!Removing(q, p)
      BY <1>4, <2>2, <2>3 DEF J!OneRemoves
    <3>2. PICK l \in J!Rows(p) : J!View(r)[l] = "live"
      BY <2>3, ViewLinked
    <3>3. l \in J!Link
      BY <1>6
    <3>4. J!View(r)'[l] = "live"
      <4>1. CASE l \in DOMAIN own[r]
        BY <1>3, <3>2, <3>3, <4>1, ViewIs, ViewNext
      <4>2. CASE l \notin DOMAIN own[r]
        <5>1. table[l] = "live"
          BY <3>2, <3>3, <4>2, ViewIs
        <5>2. l \in DOMAIN own[q] => own[q][l] = "live"
          BY <3>1, <3>2, <5>1 DEF J!Removing, J!Mine
        <5>3. table'[l] = "live"
          BY <3>3, <5>1, <5>2, ViewIs
        <5> QED BY <1>3, <3>3, <4>2, <5>3, ViewNext
      <4> QED BY <4>1, <4>2
    <3> QED BY <3>4, ViewLinked
  <2>4. J!Removing(r, p)' => J!Removing(r, p) /\ (J!Linked(J!View(r), p[1], p[2])
                                                 => J!Linked(J!View(r), p[1], p[2])')
    BY <1>8, <2>3
  <2> QED BY <1>1, <1>3, <2>1, <2>4, DecidedSame
<1>12. \A r \in Request : J!Reach(r)' = J!Reach(r)
  BY <1>1, ReachSame
<1> QED BY <1>3, <1>5, <1>10, <1>11, <1>12

\* The row of a pair, for pairs that a request does not reach as well.
LEMMA PairRows ==
  ASSUME NEW p \in Source \X LinkTarget, NEW tab
  PROVE  J!Linked(tab, p[1], p[2]) <=> \E l \in J!Rows(p) : tab[l] = "live"
<1>1. p = <<p[1], p[2]>>
  OBVIOUS
<1>2. \A l : l \in J!LiveIn(tab) /\ J!Pair(l) = <<p[1], p[2]>> <=> l \in J!Rows(p) /\ tab[l] = "live"
  BY <1>1 DEF J!LiveIn, J!Rows
<1> QED BY <1>2 DEF J!Linked

\* A transaction that does not commit settles nothing.
LEMMA RefusedOrders ==
  ASSUME J!ToldInv, J!PairInv, J!OrderInv, NEW q \in Request, J!Refused(q) \/ J!Fails(q)
  PROVE  J!OrderInv'
<1>1. PICK how \in {"refused", "failed"} : J!Ends(q, how) /\ UNCHANGED <<table, touched>> /\ at[q] = "running"
  BY DEF J!Refused, J!Fails
<1>2. /\ J!Apart' /\ J!OneRemoves'
      /\ \A r \in Request : at'[r] = "running" => \A p \in J!Reach(r)' : J!Decided(r, p)'
  BY <1>1, EndsOrders
<1>3. /\ at' = [at EXCEPT ![q] = how] /\ DOMAIN at = Request
      /\ UNCHANGED <<inputs, chunks, origin, table, touched>>
  BY <1>1 DEF J!Ends, J!ToldInv
<1>4. \A r \in Request : at'[r] = "done" <=> at[r] = "done"
  BY <1>1, <1>3
<1>5. ASSUME NEW p \in Source \X LinkTarget PROVE J!Settled(p)'
  <2>1. J!Settled(p)
    BY DEF J!OrderInv
  <2>2. J!Deciders(p)' = J!Deciders(p) /\ J!Rows(p)' = J!Rows(p)
    BY <1>3, <1>4, AskedStill DEF J!Deciders, J!Rows
  <2>3. J!Linked(table, p[1], p[2]) \in BOOLEAN
        /\ (J!Linked(table, p[1], p[2])' <=> J!Linked(table, p[1], p[2]))
    BY <1>3 DEF J!Linked, J!LiveIn
  <2> QED BY <1>3, <2>1, <2>2, <2>3, AskedStill DEF J!Settled, J!Linked
<1> QED BY <1>2, <1>5 DEF J!OrderInv

\* A commit leaves each pair as the request decides it, or as one that committed before it did.
LEMMA CommitOrders ==
  ASSUME J!ToldInv, J!PairInv, J!OrderInv, NEW q \in Request, J!Commit(q) PROVE J!OrderInv'
<1>1. /\ J!Ends(q, "done") /\ table' = J!View(q) /\ at[q] = "running" /\ rest[q] = <<>>
      /\ touched' = [r \in Request |->
           IF at'[r] = "running"
             THEN touched[r] \cup {J!Pair(l) : l \in {k \in J!Link : table'[k] # table[k]}} ELSE {}]
  BY DEF J!Commit
<1>2. /\ J!Apart' /\ J!OneRemoves'
      /\ \A r \in Request : at'[r] = "running" => \A p \in J!Reach(r)' : J!Decided(r, p)'
  BY <1>1, EndsOrders
<1>3. at' = [at EXCEPT ![q] = "done"] /\ UNCHANGED <<inputs, chunks, origin>> /\ DOMAIN at = Request
  BY <1>1 DEF J!Ends, J!ToldInv
<1>4. at'[q] = "done" /\ \A r \in Request \ {q} : at'[r] = at[r]
  BY <1>3
<1>5. \A p : J!Rows(p)' = J!Rows(p) /\ \A l \in J!Link : l \in J!Rows(p) <=> l.ours /\ J!Pair(l) = p
  BY DEF J!Rows
<1>6. \A p : \A l \in J!Rows(p) : l \in J!Link
  BY DEF J!Rows
<1>7. \A l \in J!Link : table'[l] = IF l \in DOMAIN own[q] THEN own[q][l] ELSE table[l]
  BY <1>1, ViewIs
<1>8. \A l \in DOMAIN own[q] : l \in J!Link /\ l.ours /\ J!Pair(l) \in J!Reach(q)
  BY DEF J!PairInv, J!PairsOf
<1>9. ASSUME NEW p \in Source \X LinkTarget
      PROVE  /\ J!Linked(table, p[1], p[2]) \in BOOLEAN /\ J!Linked(table', p[1], p[2]) \in BOOLEAN
             /\ J!Linked(table, p[1], p[2])' = J!Linked(table', p[1], p[2])
             /\ J!Linked(table, p[1], p[2]) <=> \E l \in J!Rows(p) : table[l] = "live"
             /\ J!Linked(table', p[1], p[2]) <=> \E l \in J!Rows(p) : table'[l] = "live"
  <2>1. J!Linked(table, p[1], p[2])' = J!Linked(table', p[1], p[2])
    BY DEF J!Linked, J!LiveIn
  <2>2. J!Linked(table, p[1], p[2]) \in BOOLEAN /\ J!Linked(table', p[1], p[2]) \in BOOLEAN
    BY DEF J!Linked
  <2> QED BY <2>1, <2>2, PairRows
<1>10. ASSUME NEW p, J!Mine(q, p) = {}
       PROVE  /\ \A l \in J!Rows(p) : table'[l] = table[l]
              /\ \A r \in Request : p \notin touched[r] => p \notin touched'[r]
  <2>1. \A l \in J!Rows(p) : l \notin DOMAIN own[q]
    BY <1>10 DEF J!Mine
  <2>2. \A l \in J!Link : table'[l] # table[l] => J!Pair(l) # p
    BY <1>5, <1>7, <1>8, <2>1
  <2> QED BY <1>1, <1>6, <1>7, <2>1, <2>2
<1>11. ASSUME NEW p \in Source \X LinkTarget
       PROVE  /\ J!Silent(q, p) => J!Mine(q, p) = {}
              /\ \A v \in BOOLEAN : J!Decides(q, p, v) =>
                   J!Linked(table', p[1], p[2]) = v
                   \/ J!Linked(table', p[1], p[2]) = J!Linked(table, p[1], p[2])
  <2>1. CASE p \in J!Reach(q)
    <3>1. J!Decided(q, p)
      BY <1>1, <2>1 DEF J!OrderInv
    <3>2. J!Quiet(rest[q], p) /\ ~J!LinksLast(rest[q], p) /\ ~J!Adds(q, p)
      BY <1>1, NothingToDo DEF J!Adds
    <3>3. J!Silent(q, p) => J!Mine(q, p) = {}
      BY <3>1 DEF J!Decided
    <3>4. ASSUME J!Decides(q, p, TRUE), ~J!Linked(table', p[1], p[2]) PROVE ~J!Linked(table, p[1], p[2])
      <4>1. ~J!Removing(q, p)
        BY <1>1, <3>1, <3>2, <3>4 DEF J!Decided
      <4>2. \A l \in J!Rows(p) : table[l] = "live" => table'[l] = "live"
        BY <1>6, <1>7, <4>1 DEF J!Removing, J!Mine
      <4> QED BY <1>9, <3>4, <4>2
    <3>5. ASSUME J!Decides(q, p, FALSE), J!Linked(table', p[1], p[2]) PROVE J!Linked(table, p[1], p[2])
      <4>1. \A l \in J!Mine(q, p) : own[q][l] # "live"
        BY <3>1, <3>2, <3>5 DEF J!Decided
      <4>2. \A l \in J!Rows(p) : table'[l] = "live" => table[l] = "live"
        BY <1>6, <1>7, <4>1 DEF J!Mine
      <4> QED BY <1>9, <3>5, <4>2
    <3> QED BY <1>9, <3>3, <3>4, <3>5
  <2>2. CASE p \notin J!Reach(q)
    <3>1. J!Mine(q, p) = {}
      BY <1>5, <1>6, <1>8, <2>2 DEF J!Mine
    <3>2. \A l \in J!Rows(p) : table'[l] = table[l]
      BY <1>10, <3>1
    <3> QED BY <1>9, <3>1, <3>2
  <2> QED BY <2>1, <2>2
<1>12. \A r, p : /\ J!Silent(r, p)' <=> J!Silent(r, p)
                 /\ \A v \in BOOLEAN : J!Decides(r, p, v)' <=> J!Decides(r, p, v)
  BY <1>3, AskedStill
<1>13. \A p : \A r \in Request : /\ r \in J!Deciders(p)' <=> r \in J!Deciders(p) \/ (r = q /\ ~J!Silent(q, p))
                                 /\ r \in J!Deciders(p)' => r \in Request
  BY <1>1, <1>4, <1>12 DEF J!Deciders
<1>14. \A p : J!Deciders(p) \subseteq Request /\ J!Deciders(p)' \subseteq Request
  BY DEF J!Deciders
<1>15. ASSUME NEW p \in Source \X LinkTarget, J!Silent(q, p) PROVE J!Settled(p)'
  <2>1. J!Deciders(p)' = J!Deciders(p)
    BY <1>13, <1>14, <1>15
  <2>2. /\ \A l \in J!Rows(p) : table'[l] = table[l]
        /\ \A r \in Request : p \notin touched[r] => p \notin touched'[r]
    BY <1>10, <1>11, <1>15
  <2>3. J!Linked(table, p[1], p[2])' = J!Linked(table, p[1], p[2])
    BY <1>9, <2>2
  <2>4. J!Settled(p)
    BY DEF J!OrderInv
  <2>5. J!Linked(table, p[1], p[2]) \in BOOLEAN
    BY <1>9
  <2>6. CASE \E r \in J!Deciders(p) : J!Decides(r, p, J!Linked(table, p[1], p[2]))
    <3>1. PICK r \in J!Deciders(p) : J!Decides(r, p, J!Linked(table, p[1], p[2]))
      BY <2>6
    <3>2. J!Decides(r, p, J!Linked(table, p[1], p[2]))'
      BY <1>12, <2>3, <2>5, <3>1 DEF J!Decides
    <3> QED BY <2>1, <3>2 DEF J!Settled
  <2>7. CASE /\ J!Deciders(p) = {} /\ \A l \in J!Rows(p) : table[l] = origin[l]
             /\ \A r \in Request : p \notin touched[r]
    BY <1>3, <1>5, <2>1, <2>2, <2>7 DEF J!Settled
  <2> QED BY <2>4, <2>6, <2>7 DEF J!Settled
<1>16. ASSUME NEW p \in Source \X LinkTarget, ~J!Silent(q, p) PROVE J!Settled(p)'
  <2> DEFINE was == J!Linked(table, p[1], p[2])
             now == J!Linked(table', p[1], p[2])
  <2>1. was \in BOOLEAN /\ now \in BOOLEAN /\ J!Linked(table, p[1], p[2])' = now
    BY <1>9
  <2>2. J!Settled(p)
    BY DEF J!OrderInv
  <2>3. J!Decides(q, p, J!Asked(q, p[1], p[2], was)) /\ J!Asked(q, p[1], p[2], was) \in BOOLEAN
    BY <1>16, <2>1, SilentOrDecides
  <2>4. q \in J!Deciders(p)'
    BY <1>13, <1>16
  <2>5. ASSUME NEW r \in J!Deciders(p)', J!Decides(r, p, now) PROVE J!Settled(p)'
    <3>1. J!Decides(r, p, J!Linked(table, p[1], p[2]))'
      BY <1>12, <2>1, <2>5 DEF J!Decides
    <3> QED BY <2>5, <3>1 DEF J!Settled
  <2>6. CASE \E r \in J!Deciders(p) : J!Decides(r, p, was)
    <3>1. PICK r \in J!Deciders(p) : J!Decides(r, p, was)
      BY <2>6
    <3>2. r \in J!Deciders(p)'
      BY <1>13, <1>14
    <3>3. now = J!Asked(q, p[1], p[2], was) \/ now = was
      BY <1>11, <2>3
    <3> HIDE DEF was, now
    <3> QED BY <2>3, <2>4, <2>5, <3>1, <3>2, <3>3
  <2>7. CASE J!Deciders(p) = {} /\ \A r \in Request : p \notin touched[r]
    <3>1. now = J!Asked(q, p[1], p[2], was)
      <4>1. p = <<p[1], p[2]>> /\ p[1] \in Source /\ p[2] \in LinkTarget /\ p \notin touched[q]
        BY <2>7
      <4>2. \A s \in Source, t \in LinkTarget : <<s, t>> \notin touched[q] =>
              J!Linked(table', s, t) = J!Asked(q, s, t, J!Linked(table, s, t))
        BY CommitAsAsked
      <4> QED BY <4>1, <4>2
    <3> HIDE DEF was, now
    <3> QED BY <2>3, <2>4, <2>5, <3>1
  <2> QED BY <2>2, <2>6, <2>7 DEF J!Settled
<1> QED BY <1>2, <1>15, <1>16 DEF J!OrderInv

\* Every step keeps it, and so does a step of another relation.
LEMMA OrderStays == ASSUME J!OrderInv, UNCHANGED linkVars PROVE J!OrderInv'
<1>1. /\ UNCHANGED <<marks, inputs, chunks, table, touched, own, missing, origin>>
      /\ UNCHANGED rest /\ UNCHANGED at
  BY DEF linkVars
<1>2. \A r, p : /\ J!Rows(p)' = J!Rows(p) /\ J!Mine(r, p)' = J!Mine(r, p)
                /\ J!Removing(r, p)' <=> J!Removing(r, p)
  BY <1>1 DEF J!Rows, J!Mine, J!Removing
<1>3. J!Apart' /\ J!OneRemoves'
  BY <1>1, <1>2 DEF J!OrderInv, J!Apart, J!OneRemoves
<1>4. ASSUME NEW r \in Request, at[r] = "running", NEW p \in J!Reach(r) PROVE J!Decided(r, p)'
  <2>1. J!Decided(r, p)
    BY <1>4 DEF J!OrderInv
  <2>2. J!Linked(J!View(r), p[1], p[2]) => J!Linked(J!View(r), p[1], p[2])'
    BY <1>1 DEF J!Linked, J!LiveIn, J!View
  <2> QED BY <1>1, <1>2, <2>1, <2>2, DecidedSame
<1>5. \A r \in Request : at'[r] = "running" => \A p \in J!Reach(r)' : J!Decided(r, p)'
  BY <1>1, <1>4, ReachSame
<1>6. ASSUME NEW p \in Source \X LinkTarget PROVE J!Settled(p)'
  <2>1. J!Settled(p)
    BY DEF J!OrderInv
  <2>2. J!Deciders(p)' = J!Deciders(p)
    BY <1>1, AskedStill DEF J!Deciders
  <2>3. J!Linked(table, p[1], p[2]) \in BOOLEAN
        /\ (J!Linked(table, p[1], p[2])' <=> J!Linked(table, p[1], p[2]))
    BY <1>1 DEF J!Linked, J!LiveIn
  <2> QED BY <1>1, <1>2, <2>1, <2>2, <2>3, AskedStill DEF J!Settled, J!Linked
<1> QED BY <1>3, <1>5, <1>6 DEF J!OrderInv

LEMMA OrderKeep == ASSUME J!ToldInv, J!PairInv, J!OrderInv, J!Next PROVE J!OrderInv'
<1>1. CASE J!AllEnded
  BY <1>1, OrderStays DEF J!AllEnded, J!vars, linkVars
<1> QED BY <1>1, BeginOrders, UnlinkOrders, ReadOrders, RestoreOrders, InsertOrders, CommitOrders,
           RefusedOrders DEF J!Next

LEMMA OrderStart == J!Init => J!OrderInv
<1> SUFFICES ASSUME J!Init PROVE J!OrderInv
  OBVIOUS
<1>1. /\ table = origin /\ touched = [q \in Request |-> {}] /\ own = [q \in Request |-> << >>]
      /\ at = [q \in Request |-> "before"]
  BY DEF J!Init
<1>2. \A q \in Request : DOMAIN own[q] = {} /\ at[q] = "before" /\ touched[q] = {}
  BY <1>1
<1>3. J!Apart /\ J!OneRemoves
  BY <1>2 DEF J!Apart, J!OneRemoves, J!Removing, J!Mine
<1>4. \A p \in Source \X LinkTarget : J!Settled(p)
  BY <1>1, <1>2 DEF J!Settled, J!Deciders
<1> QED BY <1>2, <1>3, <1>4 DEF J!OrderInv

\* What an order of requests comes to: what was there if all of them leave it, else what the last decides.
LEMMA FoldSilent ==
  ASSUME NEW order \in Seq(Request), NEW s, NEW t, NEW base \in BOOLEAN,
         \A n \in 1..Len(order) : J!Silent(order[n], <<s, t>>)
  PROVE  InTurn(order, s, t, base) = base
<1> DEFINE L == Len(order)
           fold == InTurn(order, s, t, base)
<1>1. PICK g : /\ g[0] = base /\ \A n \in 1..L : g[n] = J!Asked(order[n], s, t, g[n - 1])
               /\ fold = g[L]
  BY FoldRuns
<1>2. ASSUME NEW n \in 1..L, NEW was \in BOOLEAN PROVE J!Asked(order[n], s, t, was) = was
  <2>1. \A v \in BOOLEAN : J!Asked(order[n], <<s, t>>[1], <<s, t>>[2], v) = v
    BY DEF J!Silent
  <2> QED BY <2>1
<1>3. L \in Nat
  OBVIOUS
<1> HIDE DEF L, fold
<1> DEFINE Bad == {n \in 0..L : g[n] # base}
<1>4. ASSUME Bad # {} PROVE FALSE
  <2>1. PICK n \in Bad : \A m \in Bad : n <= m
    <3>1. Bad \in SUBSET Nat
      OBVIOUS
    <3> HIDE DEF Bad
    <3> QED BY <1>4, <3>1, LeastPosition
  <2>2. n \in 1..L /\ n - 1 \in 0..L /\ ~(n <= n - 1)
    BY <1>1, <1>3
  <2>3. g[n - 1] = base
    BY <2>1, <2>2
  <2> QED BY <1>1, <1>2, <2>1, <2>2, <2>3
<1>5. L \in 0..L
  BY <1>3
<1> QED BY <1>1, <1>4, <1>5 DEF fold

LEMMA FoldDecided ==
  ASSUME NEW order \in Seq(Request), NEW s, NEW t, NEW base \in BOOLEAN, NEW v \in BOOLEAN,
         order # <<>>, J!Decides(order[Len(order)], <<s, t>>, v)
  PROVE  InTurn(order, s, t, base) = v
<1> DEFINE L == Len(order)
           fold == InTurn(order, s, t, base)
<1>1. PICK g : /\ g[0] = base /\ \A n \in 1..L : g[n] = J!Asked(order[n], s, t, g[n - 1])
               /\ fold = g[L]
  BY FoldRuns
<1>2. ASSUME NEW n \in 1..L, NEW was \in BOOLEAN PROVE J!Asked(order[n], s, t, was) \in BOOLEAN
  BY DEF J!Asked, J!Names
<1>3. \A was \in BOOLEAN : J!Asked(order[L], s, t, was) = v
  <2>1. \A was \in BOOLEAN : J!Asked(order[L], <<s, t>>[1], <<s, t>>[2], was) = v
    BY DEF J!Decides
  <2> QED BY <2>1
<1>4. L \in Nat \ {0}
  OBVIOUS
<1> HIDE DEF L, fold
<1> DEFINE Bad == {n \in 0..L : g[n] \notin BOOLEAN}
<1>5. ASSUME Bad # {} PROVE FALSE
  <2>1. PICK n \in Bad : \A m \in Bad : n <= m
    <3>1. Bad \in SUBSET Nat
      OBVIOUS
    <3> HIDE DEF Bad
    <3> QED BY <1>5, <3>1, LeastPosition
  <2>2. n \in 1..L /\ n - 1 \in 0..L /\ ~(n <= n - 1)
    BY <1>1, <1>4
  <2>3. g[n - 1] \in BOOLEAN
    BY <2>1, <2>2
  <2> QED BY <1>1, <1>2, <2>1, <2>2, <2>3
<1>6. L - 1 \in 0..L /\ L \in 1..L
  BY <1>4
<1>7. g[L - 1] \in BOOLEAN /\ g[L] = J!Asked(order[L], s, t, g[L - 1])
  BY <1>1, <1>5, <1>6
<1> QED BY <1>1, <1>3, <1>7 DEF fold

\* There is an order of any of the requests, and one that ends with any of them.
LEMMA SomeOrder ==
  ASSUME NEW some \in SUBSET Request
  PROVE  /\ \A order \in J!SetToSeqs(some) :
              order \in Seq(Request) /\ \A n \in 1..Len(order) : order[n] \in some
         /\ \E order \in J!SetToSeqs(some) : TRUE
         /\ \A q \in some : \E order \in J!SetToSeqs(some) : order # <<>> /\ order[Len(order)] = q
<1> DEFINE n == Cardinality(some)
<1>1. IsFiniteSet(some)
  <2>1. IsFiniteSet(Request)
    BY PlansAssumption DEF J!JunctionAssumption, J!IsFiniteSet, IsFiniteSet
  <2> QED BY <2>1, FS_Subset
<1>2. n \in Nat /\ ExistsBijection(1..n, some)
  BY <1>1, FS_CardinalityType
<1>3. PICK f \in [1..n -> some] : /\ \A x, y \in 1..n : x # y => f[x] # f[y]
                                  /\ \A q \in some : \E x \in 1..n : f[x] = q
  BY <1>2 DEF ExistsBijection, Bijection, Injection, Surjection, IsInjective
<1>4. J!SetToSeqs(some) = {g \in [1..n -> some] : \A x, y \in 1..n : x # y => g[x] # g[y]}
  <2>1. n = J!Cardinality(some)
    BY DEF J!Cardinality, Cardinality
  <2> HIDE DEF n
  <2> QED BY <2>1 DEF J!SetToSeqs
<1> HIDE DEF n
<1>5. ASSUME NEW g \in [1..n -> some]
      PROVE  g \in Seq(Request) /\ Len(g) = n /\ \A k \in 1..Len(g) : g[k] \in some
  <2>1. g \in Seq(some)
    BY <1>2
  <2> QED BY <1>2, <2>1
<1>6. f \in J!SetToSeqs(some)
  BY <1>3, <1>4
<1>7. ASSUME NEW q \in some PROVE \E g \in J!SetToSeqs(some) : g # <<>> /\ g[Len(g)] = q
  <2>1. PICK k \in 1..n : f[k] = q
    BY <1>3
  <2> DEFINE swap == [x \in 1..n |-> IF x = n THEN k ELSE IF x = k THEN n ELSE x]
             g == [x \in 1..n |-> f[swap[x]]]
  <2>2. n \in 1..n /\ n # 0
    BY <1>2
  <2>3. \A x \in 1..n : swap[x] \in 1..n
    BY <2>2
  <2>4. \A x, y \in 1..n : x # y => swap[x] # swap[y]
    BY <2>2
  <2>5. swap[n] = k
    BY <2>2
  <2> HIDE DEF swap
  <2>6. g \in [1..n -> some] /\ (\A x, y \in 1..n : x # y => g[x] # g[y]) /\ g[n] = q
    BY <1>3, <2>1, <2>2, <2>3, <2>4, <2>5
  <2> HIDE DEF g
  <2>7. g \in J!SetToSeqs(some) /\ Len(g) = n /\ g # <<>>
    BY <1>4, <1>5, <2>2, <2>6
  <2> QED BY <2>6, <2>7
<1> QED BY <1>4, <1>5, <1>6, <1>7

\* Once all have ended, each pair is as some order of those that committed leaves it.
LEMMA SettledInOrder ==
  ASSUME J!PairInv, J!OrderInv, NEW s \in Source, NEW t \in LinkTarget
  PROVE  \E order \in J!SetToSeqs({q \in Request : at[q] = "done"}) :
           J!Linked(table, s, t) =
             J!FoldLeft(LAMBDA was, q : J!Asked(q, s, t, was), J!Linked(origin, s, t), order)
<1> DEFINE p == <<s, t>>
           some == {q \in Request : at[q] = "done"}
           now == J!Linked(table, s, t)
           base == J!Linked(origin, s, t)
           fold(order) == InTurn(order, s, t, base)
<1>1. /\ p \in Source \X LinkTarget /\ some \in SUBSET Request /\ p[1] = s /\ p[2] = t
      /\ now \in BOOLEAN /\ base \in BOOLEAN
  BY DEF J!Linked
<1>2. \/ J!Deciders(p) = {} /\ \A l \in J!Rows(p) : table[l] = origin[l]
      \/ \E q \in J!Deciders(p) : J!Decides(q, p, now)
  BY <1>1 DEF J!OrderInv, J!Settled
<1>3. \A q : q \in J!Deciders(p) <=> q \in some /\ ~J!Silent(q, p)
  BY DEF J!Deciders
<1>4. CASE J!Deciders(p) = {} /\ \A l \in J!Rows(p) : table[l] = origin[l]
  <2>1. now = base
    <3>1. /\ J!Linked(table, p[1], p[2]) <=> \E l \in J!Rows(p) : table[l] = "live"
          /\ J!Linked(origin, p[1], p[2]) <=> \E l \in J!Rows(p) : origin[l] = "live"
      BY <1>1, PairRows
    <3> QED BY <1>1, <1>4, <3>1
  <2>2. PICK order \in J!SetToSeqs(some) :
          order \in Seq(Request) /\ \A n \in 1..Len(order) : order[n] \in some
    BY <1>1, SomeOrder
  <2>3. \A n \in 1..Len(order) : J!Silent(order[n], p)
    BY <1>3, <1>4, <2>2
  <2> HIDE DEF some, now, base
  <2>4. fold(order) = base
    BY <1>1, <2>2, <2>3, FoldSilent
  <2> HIDE DEF fold
  <2>5. \E o \in J!SetToSeqs(some) : now = fold(o)
    BY <2>1, <2>2, <2>4
  <2> QED BY <2>5 DEF fold, some, now, base, InTurn
<1>5. CASE \E q \in J!Deciders(p) : J!Decides(q, p, now)
  <2>1. PICK q \in some : J!Decides(q, p, now)
    BY <1>3, <1>5
  <2>2. PICK order \in J!SetToSeqs(some) : order \in Seq(Request) /\ order # <<>> /\ order[Len(order)] = q
    BY <1>1, <2>1, SomeOrder
  <2> HIDE DEF some, now, base
  <2>3. fold(order) = now
    BY <1>1, <2>1, <2>2, FoldDecided
  <2> HIDE DEF fold
  <2>4. \E o \in J!SetToSeqs(some) : now = fold(o)
    BY <2>2, <2>3
  <2> QED BY <2>4 DEF fold, some, now, base, InTurn
<1> QED BY <1>2, <1>4, <1>5

-----------------------------------------------------------------------------
(* One relation, wherever its key is. *)

LEMMA ToldStart == J!Init => J!ToldInv
<1> SUFFICES ASSUME J!Init PROVE J!ToldInv
  OBVIOUS
<1>1. \A q \in Request : J!Collected(q)
  BY DEF J!Init, J!Collected
<1> QED BY <1>1 DEF J!Init, J!ToldInv

\* What the statements of a junction keep.
LEMMA LinkStart == J!Init => J!LinkInv
BY ToldStart, PairStart, OrderStart DEF J!LinkInv

LEMMA LinkKeep == ASSUME J!LinkInv, J!Next PROVE J!LinkInv'
BY ToldKeep, PairKeep, OrderKeep DEF J!LinkInv

LEMMA LinkStays == ASSUME J!LinkInv, UNCHANGED linkVars PROVE J!LinkInv'
BY ToldStays, PairStays, OrderStays DEF J!LinkInv

LEMMA ChildStart == C!Init => C!ChildInv
<1> SUFFICES ASSUME C!Init PROVE C!ChildInv
  OBVIOUS
<1>1. C!Stays /\ step = "before" /\ wrote = {} /\ saved = key
  BY DEF C!Init, C!Stays
<1>2. C!HooksInv /\ C!ToOneInv /\ C!AskedInv
  BY <1>1 DEF C!HooksInv, C!ToOneInv, C!AskedInv
<1>3. PICK h \in [Row -> Parent \cup {NoHolder}] :
        /\ plan.isOne => \A r, s \in Row \ HiddenRow : h[r] = h[s] /\ h[r] # NoHolder => r = s
        /\ key = [r \in C!TargetRow |-> IF r \in Row THEN h[r] ELSE Nowhere]
  BY DEF C!Init
<1>4. \A r \in C!TargetRow : key[r] = IF r \in Row THEN h[r] ELSE Nowhere
  BY <1>3
<1>5. key \in [C!TargetRow -> Parent \cup {NoHolder, Nowhere}]
  BY <1>3
<1>6. \A r \in Row : key[r] # Nowhere
  BY <1>4, ChildGround
<1>7. \A r \in C!New : key[r] = Nowhere
  BY <1>4, ChildGround
<1>8. plan.isOne => \A r, s \in C!TargetRow \ HiddenRow : key[r] = key[s] /\ key[r] \in Parent => r = s
  BY <1>3, <1>4, ChildGround
<1> QED BY <1>1, <1>2, <1>5, <1>6, <1>7, <1>8 DEF C!ChildInv, C!KeyInv

LEMMA ChildKeep == ASSUME C!ChildInv, C!Next PROVE C!ChildInv'
<1>1. C!HooksInv' /\ C!KeyInv'
  BY HooksKeep, KeyKeep DEF C!ChildInv
<1>2. C!ToOneInv'
  BY <1>1, ToOneKeep DEF C!ChildInv
<1>3. C!AskedInv'
  BY AskedKeep DEF C!ChildInv
<1> QED BY <1>1, <1>2, <1>3 DEF C!ChildInv

LEMMA ChildStays == ASSUME C!ChildInv, UNCHANGED childVars PROVE C!ChildInv'
<1>1. UNCHANGED <<plan, input, parents, key, saved, todo, seen, wrote, step>>
  BY DEF childVars
<1>2. C!Stays' /\ C!Registered' = C!Registered /\ C!Told' = C!Told
  BY <1>1, ProgramSame DEF C!ChildInv, C!HooksInv
<1>3. C!HooksInv'
  BY <1>1, <1>2 DEF C!ChildInv, C!HooksInv
<1>4. C!KeyInv'
  BY <1>1 DEF C!ChildInv, C!KeyInv, C!TargetRow, C!New
<1>5. C!ToOneInv'
  BY <1>1, ToOneStays DEF C!ChildInv
<1>6. C!AskedInv'
  BY <1>1, AskedStays DEF C!ChildInv
<1> QED BY <1>3, <1>4, <1>5, <1>6 DEF C!ChildInv

\* A relation whose key is elsewhere has no entries.
LEMMA NoEntryInv == NoEntry => IInv
<1> SUFFICES ASSUME NoEntry PROVE IInv
  OBVIOUS
<1>1. 1 \in Entry /\ NoKey \in Key /\ NoKey # Absent
  BY BatchAssumption, KeyAssumption DEF Entry, Key
<1>2. held \in [ParentRow -> Key \cup {Absent}] /\ first \in [ParentRow -> Target \cup {NoKey, Absent}]
  BY <1>1 DEF NoEntry
<1>3. TypeOK
  BY <1>1, <1>2 DEF NoEntry, TypeOK, Ops
<1>4. HiddenStays /\ Unwritten /\ PatchRight /\ UpdateRight /\ PastHolds /\ CreatedKept
  BY DEF NoEntry, HiddenStays, Unwritten, PatchRight, UpdateRight, PastHolds, CreatedKept
<1> QED BY <1>3, <1>4 DEF IInv

\* The invariants of the three kinds of plan hold of every reachable state, for every table, plan
\* and input, and every number of requests (applyForeignKeyOps, applyThroughOps, writeNestedEntry).
THEOREM Invariance == NestedSpec => [](IInv /\ SideInv)
<1>1. NestedInit => IInv /\ SideInv
  BY InitInv, NoEntryInv, ChildStart, LinkStart DEF NestedInit, SideInv
<1>2. IInv /\ SideInv /\ [NestedNext]_allVars => (IInv /\ SideInv)'
  <2> SUFFICES ASSUME IInv, SideInv, [NestedNext]_allVars PROVE IInv' /\ SideInv'
    OBVIOUS
  <2>1. CASE WritesParent
    <3>1. IInv' /\ side' = "parent"
      BY <2>1, NextInv DEF WritesParent
    <3> QED BY <3>1 DEF SideInv
  <2>2. CASE WritesChildren
    <3>1. side = "child" /\ side' = "child" /\ C!Next /\ UNCHANGED vars
      BY <2>2 DEF WritesChildren
    <3>2. IInv'
      BY <3>1, NextInv
    <3>3. C!ChildInv'
      BY <3>1, ChildKeep DEF SideInv
    <3> QED BY <3>1, <3>2, <3>3 DEF SideInv
  <2>3. CASE WritesLinks
    <3>1. side = "junction" /\ side' = "junction" /\ J!Next /\ UNCHANGED vars
      BY <2>3 DEF WritesLinks
    <3>2. IInv'
      BY <3>1, NextInv
    <3>3. J!LinkInv'
      BY <3>1, LinkKeep DEF SideInv
    <3> QED BY <3>1, <3>2, <3>3 DEF SideInv
  <2>4. CASE UNCHANGED allVars
    <3>1. side' = side /\ UNCHANGED vars /\ UNCHANGED childVars /\ UNCHANGED linkVars
      BY <2>4 DEF allVars
    <3>2. IInv'
      BY <3>1, NextInv
    <3>3. side = "child" => C!ChildInv'
      BY <3>1, ChildStays DEF SideInv
    <3>4. side = "junction" => J!LinkInv'
      BY <3>1, LinkStays DEF SideInv
    <3> QED BY <3>1, <3>2, <3>3, <3>4 DEF SideInv
  <2> QED BY <2>1, <2>2, <2>3, <2>4 DEF NestedNext
<1> QED BY <1>1, <1>2, PTL DEF NestedSpec

\* Every variable of an entry keeps its type.
THEOREM TypeCorrect == NestedSpec => []TypeOK
<1>1. IInv => TypeOK
  BY DEF IInv
<1> QED BY <1>1, Invariance, PTL

\* A created target row that stays is pointed at by a row its entry returned (writeNestedEntry).
THEOREM OrphanFree == NestedSpec => []NoOrphan
<1>1. ASSUME IInv, pc = "done", NEW e \in Entry, Created(e) \in targets
      PROVE  \E r \in written[e] : held[r] = Created(e) \/ ~Last(e, r)
  <2>1. op[e].do = "create" /\ written[e] # {} /\ rows = {}
    BY <1>1 DEF IInv, CreatedKept, Past, Unwritten
  <2>2. \A r \in written[e] : Last(e, r) => Holds(e, r)
    BY <1>1, <2>1 DEF IInv, PastHolds
  <2> QED BY <2>1, <2>2 DEF Holds
<1>2. IInv => NoOrphan
  BY <1>1 DEF NoOrphan
<1> QED BY <1>2, Invariance, PTL

\* Every returned row holds the key its operation produced (checkParentSide).
THEOREM RowsRight == NestedSpec => []RowsHoldWhatWasAsked
<1>1. IInv => RowsHoldWhatWasAsked
  BY DEF IInv, PastHolds, Unwritten, Holds, RowsHoldWhatWasAsked
<1> QED BY <1>1, Invariance, PTL

\* A key that points at a row the relation hides is never replaced (keepingHidden).
THEOREM HiddenKept == NestedSpec => []HiddenStays
<1>1. IInv => HiddenStays
  BY DEF IInv
<1> QED BY <1>1, Invariance, PTL

\* The hooks of a nested write are told of every row its statements wrote, and of no input that ran
\* none (registerChildSteps mirrors applyForeignKeyOps and applyThroughOps).
THEOREM HooksMirrored == NestedSpec => []HooksMirror
<1>1. SideInv => HooksMirror
  <2> SUFFICES ASSUME SideInv PROVE HooksMirror
    OBVIOUS
  <2>1. side = "child" => C!HooksMirrorStatements
    BY ChildHooks DEF SideInv, C!ChildInv
  <2>2. side = "junction" => J!HooksToldOfLinks
    BY DEF SideInv, J!LinkInv, J!ToldInv, J!Collected, J!HooksToldOfLinks
  <2> QED BY <2>1, <2>2 DEF HooksMirror
<1> QED BY <1>1, Invariance, PTL

\* A nested write that succeeds leaves every row that holds the key where its input says, rows out of
\* the request's reach included, whatever parents, rows, operands and batch it is given
\* (applyForeignKeyOps).
THEOREM RowsEndAsAsked == NestedSpec => []ChildrenAsAsked
<1>1. SideInv => ChildrenAsAsked
  BY AskedHolds DEF SideInv, C!ChildInv, ChildrenAsAsked
<1> QED BY <1>1, Invariance, PTL

\* Whatever requests write one junction at a time, with whatever inputs, parents and rows, each leaves
\* every pair that no other changed meanwhile linked exactly if its input says so, in one row if it
\* adds any, and every row it cannot see or was not asked about as it was (applyThroughOps).
THEOREM LinksEndAsAsked == NestedSpec => LinksAsAsked
<1> DEFINE Kept(q) == /\ \A s \in Source, t \in LinkTarget : <<s, t>> \notin touched[q] =>
                             /\ J!Linked(table', s, t) = J!Asked(q, s, t, J!Linked(table, s, t))
                             /\ \A l, k \in J!Rows(<<s, t>>) :
                                  table[l] = "absent" /\ table'[l] # "absent" /\ table'[k] # "absent" => l = k
                      /\ \A l \in J!OutOfReach(q) : table'[l] = table[l]
           Step == \A q \in Request : at[q] = "running" /\ at'[q] = "done" => Kept(q)
<1>1. SideInv /\ [NestedNext]_allVars => [Step]_(J!vars)
  <2> SUFFICES ASSUME SideInv, [NestedNext]_allVars PROVE Step \/ UNCHANGED J!vars
    OBVIOUS
  <2>1. CASE WritesLinks
    <3>1. J!ToldInv /\ J!PairInv /\ J!Next /\ DOMAIN at = Request
      BY <2>1 DEF WritesLinks, SideInv, J!LinkInv, J!ToldInv
    <3>2. ASSUME NEW q \in Request, at[q] = "running", at'[q] = "done" PROVE J!Commit(q)
      <4>1. J!AllEnded => at' = at
        BY DEF J!AllEnded, J!vars
      <4>2. PICK k \in Request : \/ J!Begin(k) \/ J!Unlink(k) \/ J!Read(k) \/ J!Restore(k) \/ J!Insert(k)
                                \/ J!Commit(k) \/ J!Refused(k) \/ J!Fails(k)
        BY <3>1, <3>2, <4>1 DEF J!Next
      <4>3. J!Unlink(k) \/ J!Read(k) \/ J!Restore(k) \/ J!Insert(k) => at' = at
        BY DEF J!Unlink, J!Read, J!Restore, J!Insert, J!Keeps
      <4>4. J!Begin(k) => at' = [at EXCEPT ![k] = "running"]
        BY DEF J!Begin
      <4>5. J!Refused(k) \/ J!Fails(k) => \E how \in {"refused", "failed"} : at' = [at EXCEPT ![k] = how]
        BY DEF J!Refused, J!Fails, J!Ends
      <4>6. J!Commit(k) => at' = [at EXCEPT ![k] = "done"]
        BY DEF J!Commit, J!Ends
      <4> QED BY <3>1, <3>2, <4>2, <4>3, <4>4, <4>5, <4>6
    <3>3. ASSUME NEW q \in Request, at[q] = "running", at'[q] = "done" PROVE Kept(q)
      BY <3>1, <3>2, <3>3, CommitAsAsked
    <3> QED BY <3>3
  <2>2. CASE WritesParent \/ WritesChildren \/ UNCHANGED allVars
    <3>1. UNCHANGED linkVars
      BY <2>2 DEF WritesParent, WritesChildren, allVars
    <3> QED BY <3>1 DEF linkVars, J!vars
  <2> QED BY <2>1, <2>2 DEF NestedNext
<1> QED BY <1>1, Invariance, PTL DEF NestedSpec, LinksAsAsked, J!OutcomeAsAsked

\* However the statements of any number of requests fall between one another, each pair of the junction
\* ends as some order of those that committed would have left it (applyThroughOps).
THEOREM PairsEndInSomeOrder == NestedSpec => []PairsSerializable
<1>1. SideInv => PairsSerializable
  <2> SUFFICES ASSUME SideInv, side = "junction" PROVE J!PairsSerializable
    BY DEF PairsSerializable
  <2>1. J!PairInv /\ J!OrderInv
    BY DEF SideInv, J!LinkInv
  <2>2. \A s \in Source, t \in LinkTarget :
          \E order \in J!SetToSeqs({q \in Request : at[q] = "done"}) :
            J!Linked(table, s, t) =
              J!FoldLeft(LAMBDA was, q : J!Asked(q, s, t, was), J!Linked(origin, s, t), order)
    BY <2>1, SettledInOrder
  <2> QED BY <2>2 DEF J!PairsSerializable
<1> QED BY <1>1, Invariance, PTL

\* A to-one relation whose input does not read the key shows at most one row for each written parent
\* (applyForeignKeyOps, assertNothingElseAttached).
THEOREM OneRowEach == NestedSpec => []OneIsOne
<1>1. SideInv => OneIsOne
  BY ToOneHolds DEF SideInv, C!ChildInv, OneIsOne
<1> QED BY <1>1, Invariance, PTL
=============================================================================
