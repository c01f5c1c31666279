-------------------------- MODULE CallerCommitProofs --------------------------
(***************************************************************************)
(* Proofs about CallerCommit.tla: an accepted callback has exactly one     *)
(* place, and with a caller that awaits its executions only callbacks of   *)
(* work that committed run.  A place is counted once per occurrence, so    *)
(* the first lemmas say how counting follows the operations on queues.     *)
(***************************************************************************)
EXTENDS CallerCommit, FiniteSetTheorems, TLAPS

-----------------------------------------------------------------------------
(* Counting the occurrences of a callback in a queue. *)

\* A count is a number, and positive exactly for the elements.
LEMMA OccType ==
  ASSUME NEW S, NEW s \in Seq(S), NEW c
  PROVE  /\ IsFiniteSet({i \in DOMAIN s : s[i] = c})
         /\ Occurrences(s, c) \in Nat
         /\ Occurrences(s, c) # 0 <=> c \in Elements(s)
  <1> DEFINE At == {i \in DOMAIN s : s[i] = c}
  <1>1. At \in SUBSET (1..Len(s)) /\ IsFiniteSet(1..Len(s))
    BY FS_Interval
  <1>2. IsFiniteSet(At)
    BY <1>1, FS_Subset, Zenon
  <1>3. Cardinality(At) \in Nat /\ (Cardinality(At) = 0 <=> At = {})
    BY <1>2, FS_CardinalityType, FS_EmptySet
  <1>4. At # {} <=> c \in Elements(s)
    BY DEF Elements
  <1> QED
    BY <1>2, <1>3, <1>4 DEF Occurrences

\* Renaming the members of a finite set keeps their number.
LEMMA SameSize ==
  ASSUME NEW S, NEW T, IsFiniteSet(S), NEW g \in [S -> T],
         \A x, y \in S : g[x] = g[y] => x = y,
         \A z \in T : \E x \in S : g[x] = z
  PROVE  IsFiniteSet(T) /\ Cardinality(T) = Cardinality(S)
  <1>1. g \in Bijection(S, T)
    BY DEF Bijection, Injection, Surjection, IsInjective
  <1>2. ExistsBijection(S, T)
    BY <1>1 DEF ExistsBijection
  <1> QED
    BY <1>2, FS_Bijection

\* Counts of disjoint finite sets add up.
LEMMA DisjointSize ==
  ASSUME NEW S, NEW T, IsFiniteSet(S), IsFiniteSet(T), S \cap T = {}
  PROVE  IsFiniteSet(S \cup T) /\ Cardinality(S \cup T) = Cardinality(S) + Cardinality(T)
  <1>1. Cardinality(S) \in Nat /\ Cardinality(T) \in Nat /\ Cardinality(S \cap T) = 0
    BY FS_CardinalityType, FS_EmptySet
  <1>2. /\ IsFiniteSet(S \cup T)
        /\ Cardinality(S \cup T) = Cardinality(S) + Cardinality(T) - Cardinality(S \cap T)
    BY FS_Union, Zenon
  <1> QED
    BY <1>1, <1>2

LEMMA OccConcat ==
  ASSUME NEW S, NEW s \in Seq(S), NEW t \in Seq(S), NEW c
  PROVE  Occurrences(s \o t, c) = Occurrences(s, c) + Occurrences(t, c)
  <1> DEFINE A == {i \in DOMAIN s : s[i] = c}
             B == {j \in DOMAIN t : t[j] = c}
             C == {i \in DOMAIN (s \o t) : i > Len(s) /\ (s \o t)[i] = c}
             g == [j \in B |-> Len(s) + j]
  <1>1. /\ Len(s \o t) = Len(s) + Len(t) /\ DOMAIN (s \o t) = 1..(Len(s) + Len(t))
        /\ DOMAIN s = 1..Len(s) /\ DOMAIN t = 1..Len(t) /\ Len(s) \in Nat /\ Len(t) \in Nat
        /\ \A i \in 1..Len(s) : (s \o t)[i] = s[i]
        /\ \A j \in 1..Len(t) : (s \o t)[Len(s) + j] = t[j]
    OBVIOUS
  <1>2. IsFiniteSet(A) /\ IsFiniteSet(B)
    BY OccType, Zenon
  <1>3. IsFiniteSet(C) /\ Cardinality(C) = Cardinality(B)
    <2>1. g \in [B -> C] /\ \A x, y \in B : g[x] = g[y] => x = y
      BY <1>1
    <2>2. \A i \in C : i - Len(s) \in B /\ g[i - Len(s)] = i
      <3> TAKE i \in C
      <3>1. i - Len(s) \in 1..Len(t) /\ i = Len(s) + (i - Len(s))
        BY <1>1
      <3>2. t[i - Len(s)] = c
        BY <1>1, <3>1
      <3> QED
        BY <1>1, <3>1, <3>2
    <2> HIDE DEF g, B, C
    <2> QED
      BY <1>2, <2>1, <2>2, SameSize
  <1>4. A \cap C = {} /\ A \cup C = {i \in DOMAIN (s \o t) : (s \o t)[i] = c}
    <2>1. \A i \in 1..(Len(s) + Len(t)) : i \in 1..Len(s) \/ i > Len(s)
      BY <1>1
    <2>2. \A i \in 1..Len(s) : i \in 1..(Len(s) + Len(t)) /\ ~(i > Len(s))
      BY <1>1
    <2> QED
      BY <1>1, <2>1, <2>2
  <1>5. Cardinality(A \cup C) = Cardinality(A) + Cardinality(C)
    <2> HIDE DEF A, C
    <2> QED
      BY <1>2, <1>3, <1>4, DisjointSize
  <1> QED
    BY <1>3, <1>4, <1>5 DEF Occurrences

LEMMA OccOne ==
  ASSUME NEW c, NEW d
  PROVE  Occurrences(<<>>, c) = 0 /\ Occurrences(<<d>>, c) = IF d = c THEN 1 ELSE 0
  <1>1. {i \in DOMAIN <<>> : <<>>[i] = c} = {}
    OBVIOUS
  <1>2. {i \in DOMAIN <<d>> : <<d>>[i] = c} = IF d = c THEN {1} ELSE {}
    OBVIOUS
  <1> QED
    BY <1>1, <1>2, FS_EmptySet, FS_Singleton DEF Occurrences

LEMMA OccAppend ==
  ASSUME NEW S, NEW s \in Seq(S), NEW d \in S, NEW c
  PROVE  Occurrences(Append(s, d), c) = Occurrences(s, c) + IF d = c THEN 1 ELSE 0
  <1>1. Append(s, d) = s \o <<d>> /\ <<d>> \in Seq(S)
    OBVIOUS
  <1>2. Occurrences(s \o <<d>>, c) = Occurrences(s, c) + Occurrences(<<d>>, c)
    BY <1>1, OccConcat, Zenon
  <1> QED
    BY <1>1, <1>2, OccOne

LEMMA OccHead ==
  ASSUME NEW S, NEW s \in Seq(S), s # <<>>, NEW c
  PROVE  Occurrences(s, c) = Occurrences(Tail(s), c) + IF Head(s) = c THEN 1 ELSE 0
  <1>1. Head(s) \in S /\ Tail(s) \in Seq(S) /\ <<Head(s)>> \in Seq(S) /\ s = <<Head(s)>> \o Tail(s)
    OBVIOUS
  <1>2. Occurrences(Tail(s), c) \in Nat
    BY <1>1, OccType, Zenon
  <1>3. Occurrences(<<Head(s)>> \o Tail(s), c) = Occurrences(<<Head(s)>>, c) + Occurrences(Tail(s), c)
    BY <1>1, OccConcat, Zenon
  <1>4. Occurrences(<<Head(s)>>, c) = IF Head(s) = c THEN 1 ELSE 0
    BY OccOne, Zenon
  <1>5. Occurrences(s, c) = Occurrences(<<Head(s)>> \o Tail(s), c)
    BY <1>1, Zenon
  <1> QED
    BY <1>2, <1>3, <1>4, <1>5

-----------------------------------------------------------------------------
(* Counting it in the flushes, one of which is looked at. *)

Positions(F)     == UNION {{i} \X DOMAIN F[i] : i \in DOMAIN F}
Holding(F, c)    == {p \in Positions(F) : F[p[1]][p[2]] = c}
Besides(F, k, c) == {p \in Holding(F, c) : p[1] # k}

LEMMA PositionsFinite ==
  ASSUME NEW F \in Seq(Seq(Callback)), NEW c
  PROVE  IsFiniteSet(Positions(F)) /\ IsFiniteSet(Holding(F, c)) /\ Cardinality(Holding(F, c)) \in Nat
  <1> HIDE DEF Callback
  <1>1. IsFiniteSet(Positions(F))
    <2>1. \A i \in DOMAIN F : IsFiniteSet({i} \X DOMAIN F[i])
      <3> TAKE i \in DOMAIN F
      <3>1. IsFiniteSet(1..Len(F[i])) /\ DOMAIN F[i] = 1..Len(F[i])
        BY FS_Interval
      <3> QED
        BY <3>1, FS_Product, FS_Singleton
    <2>2. IsFiniteSet(DOMAIN F)
      BY FS_Interval
    <2>3. IsFiniteSet({{i} \X DOMAIN F[i] : i \in DOMAIN F})
      <3> DEFINE T == {{i} \X DOMAIN F[i] : i \in DOMAIN F}
                 h == [i \in DOMAIN F |-> {i} \X DOMAIN F[i]]
      <3>1. h \in Surjection(DOMAIN F, T)
        BY DEF Surjection
      <3> HIDE DEF h
      <3> QED
        BY <2>2, <3>1, FS_Surjection, Zenon DEF T
    <2> QED
      BY <2>1, <2>3, FS_UNION DEF Positions
  <1>2. IsFiniteSet(Holding(F, c))
    BY <1>1, FS_Subset DEF Holding
  <1> QED
    BY <1>1, <1>2, FS_CardinalityType

\* What is held is held by the flush looked at or by another one.
LEMMA FlushSplit ==
  ASSUME NEW F \in Seq(Seq(Callback)), NEW k \in DOMAIN F, NEW c
  PROVE  /\ IsFiniteSet(Holding(F, c)) /\ Cardinality(Holding(F, c)) \in Nat
         /\ Cardinality(Besides(F, k, c)) \in Nat
         /\ Cardinality(Holding(F, c)) = Cardinality(Besides(F, k, c)) + Occurrences(F[k], c)
  <1> HIDE DEF Callback
  <1> DEFINE B == {j \in DOMAIN F[k] : F[k][j] = c}
             C == {p \in Holding(F, c) : p[1] = k}
             g == [j \in B |-> <<k, j>>]
  <1>1. IsFiniteSet(Positions(F))
    BY PositionsFinite
  <1>2. IsFiniteSet(Holding(F, c)) /\ IsFiniteSet(Besides(F, k, c)) /\ IsFiniteSet(C)
    BY <1>1, FS_Subset DEF Holding, Besides
  <1>3. IsFiniteSet(B) /\ Cardinality(B) = Occurrences(F[k], c)
    <2>1. F[k] \in Seq(Callback)
      OBVIOUS
    <2> QED
      BY <2>1, OccType DEF Occurrences
  <1>4. Cardinality(C) = Cardinality(B)
    <2>1. C = {p \in {k} \X DOMAIN F[k] : F[k][p[2]] = c}
      BY DEF Holding, Positions
    <2>2. g \in [B -> C] /\ \A x, y \in B : g[x] = g[y] => x = y
      BY <2>1
    <2>3. \A p \in C : p[2] \in B /\ g[p[2]] = p
      BY <2>1
    <2>4. \A p \in C : \E j \in B : g[j] = p
      BY <2>3, Zenon
    <2> HIDE DEF g, B, C
    <2> QED
      BY <1>3, <2>2, <2>4, SameSize, Zenon
  <1>5. Besides(F, k, c) \cap C = {} /\ Besides(F, k, c) \cup C = Holding(F, c)
    BY DEF Besides
  <1>6. Cardinality(Besides(F, k, c) \cup C) = Cardinality(Besides(F, k, c)) + Cardinality(C)
    <2> HIDE DEF C
    <2> QED
      BY <1>2, <1>5, DisjointSize, Zenon
  <1>7. Cardinality(Besides(F, k, c)) \in Nat /\ Cardinality(Holding(F, c)) \in Nat
    BY <1>2, FS_CardinalityType
  <1> HIDE DEF B, C
  <1> QED
    BY <1>2, <1>3, <1>4, <1>5, <1>6, <1>7

-----------------------------------------------------------------------------
(* Types. *)

Own(f)    == call[f].own.callbacks
Nested(f) == call[f].nested.callbacks

LEMMA Shapes ==
  ASSUME TypeOK, NEW f \in Field
  PROVE  /\ call[f] \in Resolver /\ call[f].own \in Stage /\ call[f].nested \in Stage
         /\ Own(f) \in Seq(Callback) /\ Nested(f) \in Seq(Callback)
         /\ queue.callbacks \in Seq(Callback) /\ Now \in Nat \ {0}
         /\ Fresh \in Stage /\ Drained \in Stage
  <1>1. Fresh \in Stage /\ Drained \in Stage
    BY DEF Fresh, Drained, Stage
  <1>2. host.fate \in Seq(Fate) /\ host.fate # <<>>
    BY DEF TypeOK
  <1>3. Now \in Nat \ {0}
    BY <1>2 DEF Now
  <1>4. call[f] \in Resolver /\ call[f].own \in Stage /\ call[f].nested \in Stage
    BY DEF TypeOK, Resolver
  <1> QED
    BY <1>1, <1>3, <1>4 DEF TypeOK, Own, Nested, Stage

\* A stage that ended joins the one above it, if that still takes callbacks.
LEMMA JoinedIs ==
  ASSUME NEW own \in Stage
  PROVE  /\ \A parent \in Stage :
              /\ Joined(parent, own) \in Stage
              /\ Joined(parent, own).closed = parent.closed
              /\ ~parent.closed => Joined(parent, own).callbacks = parent.callbacks \o own.callbacks
         /\ TypeOK => /\ Joined(CallerQueue, own) \in [callbacks : Seq(Callback), closed : BOOLEAN, present : BOOLEAN]
                      /\ Joined(CallerQueue, own).closed = queue.closed
                      /\ ~queue.closed => Joined(CallerQueue, own).callbacks = queue.callbacks \o own.callbacks
  <1> HIDE DEF Callback
  <1>1. own.callbacks \in Seq(Callback)
    BY DEF Stage
  <1>2. ASSUME NEW parent \in Stage
        PROVE  /\ Joined(parent, own) \in Stage
               /\ Joined(parent, own).closed = parent.closed
               /\ ~parent.closed => Joined(parent, own).callbacks = parent.callbacks \o own.callbacks
    <2>1. parent.callbacks \o own.callbacks \in Seq(Callback)
      BY <1>1 DEF Stage
    <2>2. Joined(parent, own) = IF parent.closed THEN parent
                                ELSE [parent EXCEPT !.callbacks = parent.callbacks \o own.callbacks]
      BY DEF Joined
    <2> QED
      BY <2>1, <2>2 DEF Stage
  <1>3. ASSUME TypeOK
        PROVE  /\ Joined(CallerQueue, own) \in [callbacks : Seq(Callback), closed : BOOLEAN, present : BOOLEAN]
               /\ Joined(CallerQueue, own).closed = queue.closed
               /\ ~queue.closed => Joined(CallerQueue, own).callbacks = queue.callbacks \o own.callbacks
    <2>1. /\ CallerQueue \in [callbacks : Seq(Callback), closed : BOOLEAN, present : BOOLEAN]
          /\ CallerQueue.closed = queue.closed /\ CallerQueue.callbacks = queue.callbacks
      BY <1>3 DEF TypeOK, CallerQueue
    <2> HIDE DEF CallerQueue
    <2> QED
      <3>1. CallerQueue.callbacks \o own.callbacks \in Seq(Callback)
        BY <1>1, <2>1
      <3>2. Joined(CallerQueue, own) = IF CallerQueue.closed THEN CallerQueue
              ELSE [CallerQueue EXCEPT !.callbacks = CallerQueue.callbacks \o own.callbacks]
        BY DEF Joined
      <3> QED
        BY <2>1, <3>1, <3>2
  <1> QED
    BY <1>2, <1>3

LEMMA CurrentField ==
  ASSUME TypeOK, NEW e \in Execution, pos[e] <= Len(FieldsOf[e])
  PROVE  FieldsOf[e][pos[e]] \in Field
  <1>1. FieldsOf[e] \in Seq(Field) /\ pos[e] \in 1..Len(FieldsOf[e])
    BY ShapeAssumption DEF TypeOK
  <1> QED
    BY <1>1

LEMMA InitTypes == ASSUME Init PROVE TypeOK
  <1> HIDE DEF Callback
  <1>1. <<>> \in Seq(Callback) /\ <<>> \in Seq(Seq(Callback)) /\ <<"open">> \in Seq(Fate) \ {<<>>}
    BY DEF Fate
  <1>2. host \in [at : Fate \cup {"idle"}, awaits : BOOLEAN, fate : Seq(Fate) \ {<<>>}]
    <2>1. PICK a \in BOOLEAN : host = [at |-> "open", awaits |-> a, fate |-> <<"open">>]
      BY DEF Init
    <2> QED
      BY <1>1, <2>1 DEF Fate
  <1>3. call \in [Field -> Resolver]
    BY <1>1 DEF Init, Resolver, Stage, Drained
  <1> QED
    BY <1>1, <1>2, <1>3 DEF Init, TypeOK, Absent

LEMMA Counts ==
  ASSUME TypeOK, NEW c \in Callback
  PROVE  /\ c[1] \in Field
         /\ Occurrences(Own(c[1]), c) \in Nat /\ Occurrences(Nested(c[1]), c) \in Nat
         /\ Occurrences(queue.callbacks, c) \in Nat /\ Flushing(c) \in Nat /\ Occurrences(ran, c) \in Nat
         /\ Flushing(c) = Cardinality(Holding(flushes, c))
         /\ Places(c) = Occurrences(Own(c[1]), c) + Occurrences(Nested(c[1]), c)
                          + Occurrences(queue.callbacks, c) + Flushing(c) + Occurrences(ran, c)
                          + (IF c \in dropped THEN 1 ELSE 0)
  <1>1. c[1] \in Field
    BY DEF Callback
  <1>2. /\ Own(c[1]) \in Seq(Callback) /\ Nested(c[1]) \in Seq(Callback)
        /\ queue.callbacks \in Seq(Callback) /\ ran \in Seq(Callback) /\ flushes \in Seq(Seq(Callback))
    BY <1>1, Shapes DEF TypeOK
  <1>3. Flushing(c) = Cardinality(Holding(flushes, c))
    BY DEF Flushing, Pending, Holding, Positions
  <1>4. /\ Occurrences(Own(c[1]), c) \in Nat /\ Occurrences(Nested(c[1]), c) \in Nat
        /\ Occurrences(queue.callbacks, c) \in Nat /\ Occurrences(ran, c) \in Nat
    BY <1>2, OccType
  <1>5. Flushing(c) \in Nat
    BY <1>2, <1>3, PositionsFinite
  <1> QED
    BY <1>1, <1>3, <1>4, <1>5 DEF Places, Waiting, Own, Nested

LEMMA ElementsFinite ==
  ASSUME NEW S, NEW s \in Seq(S)
  PROVE  IsFiniteSet(Elements(s))
  <1>1. s \in Surjection(DOMAIN s, Elements(s))
    BY DEF Surjection, Elements
  <1>2. IsFiniteSet(DOMAIN s)
    BY FS_Interval
  <1> QED
    BY <1>1, <1>2, FS_Surjection, Zenon

LEMMA ElementsAppend ==
  ASSUME NEW S, NEW s \in Seq(S), NEW d \in S
  PROVE  Elements(Append(s, d)) = Elements(s) \cup {d}
  <1>1. /\ DOMAIN Append(s, d) = 1..(Len(s) + 1) /\ DOMAIN s = 1..Len(s) /\ Len(s) \in Nat
        /\ \A j \in 1..Len(s) : Append(s, d)[j] = s[j]
        /\ Append(s, d)[Len(s) + 1] = d
    OBVIOUS
  <1>2. \A j \in 1..(Len(s) + 1) : j \in 1..Len(s) \/ j = Len(s) + 1
    BY <1>1
  <1>3. Len(s) + 1 \in 1..(Len(s) + 1) /\ \A j \in 1..Len(s) : j \in 1..(Len(s) + 1)
    BY <1>1
  <1>4. Elements(Append(s, d)) \subseteq Elements(s) \cup {d}
    BY <1>1, <1>2, Zenon DEF Elements
  <1>5. Elements(s) \cup {d} \subseteq Elements(Append(s, d))
    BY <1>1, <1>3 DEF Elements
  <1> QED
    BY <1>4, <1>5

LEMMA ElementsConcat ==
  ASSUME NEW S, NEW s \in Seq(S), NEW t \in Seq(S)
  PROVE  Elements(s \o t) \subseteq Elements(s) \cup Elements(t)
  <1> SUFFICES ASSUME NEW j \in DOMAIN (s \o t) PROVE (s \o t)[j] \in Elements(s) \cup Elements(t)
    BY DEF Elements
  <1>1. /\ Len(s \o t) = Len(s) + Len(t) /\ DOMAIN s = 1..Len(s) /\ DOMAIN t = 1..Len(t)
        /\ \A i \in 1..Len(s) : (s \o t)[i] = s[i]
        /\ \A i \in 1..Len(t) : (s \o t)[Len(s) + i] = t[i]
    OBVIOUS
  <1>2. CASE j <= Len(s)
    BY <1>1, <1>2 DEF Elements
  <1>3. CASE j > Len(s)
    <2>1. j - Len(s) \in 1..Len(t) /\ j = Len(s) + (j - Len(s))
      BY <1>1, <1>3
    <2> QED
      BY <1>1, <2>1 DEF Elements
  <1> QED
    BY <1>2, <1>3

-----------------------------------------------------------------------------
(* Every step keeps the places. *)

\* Of a step of one field, what is the same for every such step.
LEMMA FieldKeeps ==
  ASSUME PlaceInv, NEW f \in Field, TypeOK',
         \A g \in Field \ {f} : call'[g] = call[g],
         registered' = registered, ~queue'.closed, Staged(f)',
         \A c \in Callback : c[1] = f => Places(c)' = Places(c),
         \A c \in Callback : c[1] # f => /\ Occurrences(queue'.callbacks, c) = Occurrences(queue.callbacks, c)
                                         /\ c \in dropped' <=> c \in dropped,
         flushes' = flushes, ran' = ran
  PROVE  PlaceInv'
  <1> HIDE DEF Callback
  <1>1. \A g \in Field : Staged(g)'
    BY DEF PlaceInv, Staged, Running
  <1>2. Numbered'
    BY DEF PlaceInv, Numbered
  <1>3. ASSUME NEW c \in Callback, c[1] # f PROVE Places(c)' = Places(c)
    <2>0. c[1] \in Field
      BY DEF Callback
    <2>1. Own(c[1])' = Own(c[1]) /\ Nested(c[1])' = Nested(c[1]) /\ Flushing(c)' = Flushing(c)
      BY <1>3, <2>0 DEF Own, Nested, Flushing, Pending
    <2>2. (c \in dropped) \in BOOLEAN /\ (c \in dropped') \in BOOLEAN
      OBVIOUS
    <2>3. (IF c \in dropped' THEN 1 ELSE 0) = (IF c \in dropped THEN 1 ELSE 0)
      BY <1>3
    <2> QED
      BY <1>3, <2>1, <2>3 DEF Places, Waiting, Own, Nested
  <1>4. Accepted'
    BY <1>3 DEF PlaceInv, Accepted
  <1> QED
    BY <1>1, <1>2, <1>4 DEF PlaceInv

LEMMA StartKeeps == ASSUME PlaceInv, NEW e \in Execution, StartField(e) PROVE PlaceInv'
  <1> HIDE DEF Callback
  <1> PICK f \in Field : f = FieldsOf[e][pos[e]]
    BY CurrentField DEF StartField, PlaceInv
  <1>1. TypeOK /\ Staged(f)
    BY DEF PlaceInv
  <1>2. /\ call'[f] \in Resolver /\ \A g \in Field \ {f} : call'[g] = call[g]
        /\ call[f].pc = "waiting" /\ call'[f].pc = "body"
        /\ call'[f].own = Fresh /\ call'[f].nested = call[f].nested
    <2>1. call[f] \in Resolver /\ Fresh \in Stage /\ Now \in Nat
      BY <1>1, Shapes
    <2>2. /\ call' = [call EXCEPT ![f] = [@ EXCEPT !.pc = "body", !.own = Fresh, !.tx = Now]]
          /\ call \in [Field -> Resolver] /\ call[f].pc = "waiting"
      BY <1>1 DEF StartField, TypeOK
    <2>3. /\ call'[f] = [call[f] EXCEPT !.pc = "body", !.own = Fresh, !.tx = Now]
          /\ \A g \in Field \ {f} : call'[g] = call[g]
      BY <2>2
    <2>4. /\ call'[f] \in Resolver /\ call'[f].pc = "body"
          /\ call'[f].own = Fresh /\ call'[f].nested = call[f].nested
      BY <2>1, <2>3 DEF Resolver
    <2> QED
      BY <2>2, <2>3, <2>4
  <1>3. call' \in [Field -> Resolver]
    BY <1>1, <1>2 DEF StartField, TypeOK
  <1>4. TypeOK'
    BY <1>1, <1>3 DEF StartField, TypeOK
  <1>5. Own(f) = <<>> /\ Nested(f) = <<>> /\ Own(f)' = <<>> /\ Nested(f)' = <<>>
    BY <1>1, <1>2 DEF Staged, Running, Own, Nested, Fresh
  <1>6. Staged(f)'
    BY <1>2, <1>5 DEF Staged, Running, Own, Nested, Fresh, Elements
  <1>7. \A c \in Callback : c[1] = f => Places(c)' = Places(c)
    BY <1>5 DEF StartField, Places, Waiting, Own, Nested, Flushing, Pending
  <1> QED
    BY <1>1, <1>2, <1>4, <1>6, <1>7, FieldKeeps DEF StartField, PlaceInv

LEMMA EnterKeeps == ASSUME PlaceInv, NEW f \in Field, EnterSavepoint(f) PROVE PlaceInv'
  <1> HIDE DEF Callback
  <1>1. TypeOK /\ Staged(f)
    BY DEF PlaceInv
  <1>2. /\ call'[f] \in Resolver /\ \A g \in Field \ {f} : call'[g] = call[g]
        /\ call[f].pc = "body" /\ call'[f].pc = "savepoint"
        /\ call'[f].own = call[f].own /\ call'[f].nested = Fresh
    <2>1. /\ call'[f] = [call[f] EXCEPT !.pc = "savepoint", !.entries = call[f].entries + 1, !.nested = Fresh]
          /\ \A g \in Field \ {f} : call'[g] = call[g]
      BY <1>1 DEF EnterSavepoint, TypeOK
    <2>2. call[f] \in Resolver /\ Fresh \in Stage
      BY <1>1, Shapes
    <2>3. call[f].pc = "body"
      BY DEF EnterSavepoint
    <2> QED
      <3>1. call'[f].pc = "savepoint" /\ call'[f].own = call[f].own /\ call'[f].nested = Fresh
        BY <2>1, <2>2 DEF Resolver
      <3>2. call'[f] \in Resolver
        <4>1. call[f].entries \in Nat
          BY <2>2 DEF Resolver
        <4>2. PICK n \in Nat : n = call[f].entries + 1
          BY <4>1
        <4>3. call'[f] = [call[f] EXCEPT !.pc = "savepoint", !.entries = n, !.nested = Fresh]
          BY <2>1, <4>2
        <4> QED
          BY <2>2, <4>3 DEF Resolver
      <3> QED
        BY <2>1, <2>3, <3>1, <3>2
  <1>3. TypeOK'
    <2>1. call' \in [Field -> Resolver]
      BY <1>1, <1>2 DEF EnterSavepoint, TypeOK
    <2> QED
      BY <1>1, <2>1 DEF EnterSavepoint, TypeOK
  <1>4. Nested(f) = <<>> /\ Nested(f)' = <<>> /\ Own(f)' = Own(f)
    BY <1>1, <1>2 DEF PlaceInv, Staged, Running, Own, Nested, Fresh
  <1>5. Staged(f)'
    BY <1>2, <1>4 DEF PlaceInv, Staged, Running, Own, Nested, Fresh, Elements
  <1>6. \A c \in Callback : c[1] = f => Places(c)' = Places(c)
    BY <1>4 DEF EnterSavepoint, Places, Waiting, Own, Nested, Flushing, Pending
  <1> QED
    BY <1>1, <1>2, <1>3, <1>5, <1>6, FieldKeeps DEF EnterSavepoint, PlaceInv

LEMMA KeepsKeep == ASSUME PlaceInv, NEW f \in Field, SavepointKeeps(f) PROVE PlaceInv'
  <1> HIDE DEF Callback
  <1>1. TypeOK /\ Staged(f) /\ call[f].pc = "savepoint" /\ ~call[f].own.closed
    BY DEF PlaceInv, Staged, Running, SavepointKeeps
  <1>2. call[f] \in Resolver /\ call[f].own \in Stage /\ call[f].nested \in Stage /\ Drained \in Stage
    BY <1>1, Shapes
  <1>3. /\ Joined(call[f].own, call[f].nested) \in Stage
        /\ ~Joined(call[f].own, call[f].nested).closed
        /\ Joined(call[f].own, call[f].nested).callbacks = Own(f) \o Nested(f)
    BY <1>1, <1>2, JoinedIs DEF Own, Nested
  <1>4. /\ call'[f] = [call[f] EXCEPT !.pc = "body", !.nested = Drained,
                                      !.own = Joined(call[f].own, call[f].nested)]
        /\ \A g \in Field \ {f} : call'[g] = call[g]
    BY <1>1 DEF SavepointKeeps, TypeOK
  <1>5. /\ call'[f] \in Resolver /\ call'[f].pc = "body" /\ call'[f].nested = Drained
        /\ call'[f].own = Joined(call[f].own, call[f].nested)
    BY <1>2, <1>3, <1>4 DEF Resolver
  <1>6. TypeOK'
    <2>1. call' \in [Field -> Resolver]
      BY <1>1, <1>4, <1>5 DEF SavepointKeeps, TypeOK
    <2> QED
      BY <1>1, <2>1 DEF SavepointKeeps, TypeOK
  <1>7. Own(f) \in Seq(Callback) /\ Nested(f) \in Seq(Callback)
    BY <1>1, Shapes
  <1>8. Own(f)' = Own(f) \o Nested(f) /\ Nested(f)' = <<>>
    <2>1. Own(f)' = Own(f) \o Nested(f)
      BY <1>3, <1>5, Zenon DEF Own
    <2>2. Nested(f)' = <<>>
      BY <1>5 DEF Nested, Drained
    <2> QED
      BY <2>1, <2>2
  <1>9. Staged(f)'
    <2>1. Elements(Own(f) \o Nested(f)) \subseteq Elements(Own(f)) \cup Elements(Nested(f))
      BY <1>7, ElementsConcat
    <2>2. /\ \A c \in Elements(Own(f)) \cup Elements(Nested(f)) : c[1] = f
          /\ Elements(<<>>) = {}
      BY <1>1 DEF Staged, Own, Nested, Elements
    <2>3. \A c \in Elements(Own(f)') \cup Elements(Nested(f)') : c[1] = f
      BY <1>8, <2>1, <2>2
    <2>4. ~call'[f].own.closed /\ call'[f].nested.callbacks = <<>>
      BY <1>3, <1>5 DEF Drained
    <2> QED
      BY <1>5, <2>3, <2>4 DEF Staged, Running, Own, Nested
  <1>10. ASSUME NEW c \in Callback, c[1] = f PROVE Places(c)' = Places(c)
    <2>1. /\ Occurrences(Own(f)', c) = Occurrences(Own(f), c) + Occurrences(Nested(f), c)
          /\ Occurrences(Nested(f)', c) = 0
      <3>1. Occurrences(Own(f) \o Nested(f), c) = Occurrences(Own(f), c) + Occurrences(Nested(f), c)
        BY <1>7, OccConcat, Zenon
      <3>2. Occurrences(<<>>, c) = 0
        BY OccOne
      <3> QED
        BY <1>8, <3>1, <3>2
    <2>2. Flushing(c)' = Flushing(c) /\ queue' = queue /\ ran' = ran /\ dropped' = dropped
      BY DEF SavepointKeeps, Flushing, Pending
    <2>3. /\ Occurrences(Own(f), c) \in Nat /\ Occurrences(Nested(f), c) \in Nat
          /\ Occurrences(queue.callbacks, c) \in Nat /\ Flushing(c) \in Nat /\ Occurrences(ran, c) \in Nat
      BY <1>1, <1>10, Counts
    <2> QED
      BY <1>10, <2>1, <2>2, <2>3 DEF Places, Waiting, Own, Nested
  <1> QED
    BY <1>1, <1>4, <1>6, <1>9, <1>10, FieldKeeps DEF SavepointKeeps, PlaceInv

LEMMA RollsBackKeep == ASSUME PlaceInv, NEW f \in Field, SavepointRollsBack(f) PROVE PlaceInv'
  <1> HIDE DEF Callback
  <1>1. TypeOK /\ Staged(f) /\ call[f].pc = "savepoint"
    BY DEF PlaceInv, SavepointRollsBack
  <1>2. call[f] \in Resolver /\ Drained \in Stage
    BY <1>1, Shapes
  <1>3. /\ call'[f] = [call[f] EXCEPT !.pc = "body", !.nested = Drained]
        /\ \A g \in Field \ {f} : call'[g] = call[g]
    BY <1>1 DEF SavepointRollsBack, TypeOK
  <1>4. /\ call'[f] \in Resolver /\ call'[f].pc = "body" /\ call'[f].nested = Drained
        /\ call'[f].own = call[f].own
    BY <1>2, <1>3 DEF Resolver
  <1>5. Own(f) \in Seq(Callback) /\ Nested(f) \in Seq(Callback)
    BY <1>1, Shapes
  <1>6. Own(f)' = Own(f) /\ Nested(f)' = <<>>
    BY <1>4 DEF Own, Nested, Drained
  <1>7. dropped' = dropped \cup Elements(Nested(f)) /\ \A c \in Elements(Nested(f)) : c \in Callback /\ c[1] = f
    BY <1>1, <1>5 DEF SavepointRollsBack, Nested, Staged, Elements
  <1>8. TypeOK'
    <2>1. call' \in [Field -> Resolver]
      BY <1>1, <1>3, <1>4 DEF SavepointRollsBack, TypeOK
    <2> QED
      BY <1>1, <1>7, <2>1 DEF SavepointRollsBack, TypeOK
  <1>9. Staged(f)'
    BY <1>1, <1>4, <1>6 DEF Staged, Running, Own, Nested, Elements
  <1>10. ASSUME NEW c \in Callback, c[1] = f PROVE Places(c)' = Places(c)
    <2>1. /\ Occurrences(Own(f), c) \in Nat /\ Occurrences(Nested(f), c) \in Nat
          /\ Occurrences(queue.callbacks, c) \in Nat /\ Flushing(c) \in Nat /\ Occurrences(ran, c) \in Nat
          /\ Places(c) \in {0, 1}
          /\ Places(c) = Occurrences(Own(f), c) + Occurrences(Nested(f), c) + Occurrences(queue.callbacks, c)
                           + Flushing(c) + Occurrences(ran, c) + (IF c \in dropped THEN 1 ELSE 0)
      BY <1>1, <1>10, Counts DEF PlaceInv, Accepted
    <2>2. (c \in Elements(Nested(f)) <=> Occurrences(Nested(f), c) # 0) /\ Occurrences(<<>>, c) = 0
      BY <1>5, OccType, OccOne
    <2>3. Flushing(c)' = Flushing(c) /\ queue' = queue /\ ran' = ran
      BY DEF SavepointRollsBack, Flushing, Pending
    <2>4. Places(c)' = Occurrences(Own(f), c) + 0 + Occurrences(queue.callbacks, c)
                         + Flushing(c) + Occurrences(ran, c) + (IF c \in dropped' THEN 1 ELSE 0)
      BY <1>6, <1>10, <2>2, <2>3 DEF Places, Waiting, Own, Nested
    <2>5. (IF c \in dropped' THEN 1 ELSE 0) = (IF c \in dropped THEN 1 ELSE 0) + Occurrences(Nested(f), c)
      BY <1>7, <2>1, <2>2
    <2> QED
      BY <2>1, <2>4, <2>5
  <1>11. \A c \in Callback : c[1] # f => (c \in dropped' <=> c \in dropped)
    BY <1>7
  <1> QED
    BY <1>1, <1>3, <1>8, <1>9, <1>10, <1>11, FieldKeeps DEF SavepointRollsBack, PlaceInv

\* A field is answered: its stages have moved to the queue, or were dropped.
LEMMA AnswerIs ==
  ASSUME TypeOK, NEW e \in Execution, NEW how \in {"ok", "error"}, NEW f \in Field,
         f = FieldsOf[e][pos[e]], Answer(e, how)
  PROVE  /\ pos' \in [Execution -> Nat \ {0}] /\ call' \in [Field -> Resolver]
         /\ \A g \in Field \ {f} : call'[g] = call[g]
         /\ call'[f].pc = how /\ call'[f].tx = call[f].tx /\ Own(f)' = <<>> /\ Nested(f)' = <<>>
  <1> HIDE DEF Callback
  <1>1. call[f] \in Resolver /\ Drained \in Stage
    BY Shapes
  <1>2. /\ call'[f] = [call[f] EXCEPT !.pc = how, !.own = Drained, !.nested = Drained]
        /\ \A g \in Field \ {f} : call'[g] = call[g]
        /\ DOMAIN call' = Field /\ call' = [g \in Field |-> call'[g]]
    BY DEF Answer, TypeOK
  <1>3. /\ call'[f] \in Resolver /\ call'[f].pc = how /\ call'[f].tx = call[f].tx
        /\ call'[f].own = Drained /\ call'[f].nested = Drained
    BY <1>1, <1>2 DEF Resolver
  <1>4. \A g \in Field : call'[g] \in Resolver
    BY <1>2, <1>3 DEF TypeOK
  <1>5. call' \in [Field -> Resolver]
    BY <1>2, <1>4
  <1>6. pos' \in [Execution -> Nat \ {0}]
    BY DEF Answer, TypeOK
  <1> QED
    BY <1>2, <1>3, <1>5, <1>6 DEF Own, Nested, Drained

LEMMA ReturnsKeep == ASSUME PlaceInv, NEW e \in Execution, FieldReturns(e) PROVE PlaceInv'
  <1> HIDE DEF Callback
  <1> PICK f \in Field : f = FieldsOf[e][pos[e]]
    BY CurrentField DEF FieldReturns, PlaceInv
  <1>1. /\ TypeOK /\ Staged(f) /\ ~queue.closed /\ call[f].pc = "body"
        /\ queue' = Joined(CallerQueue, call[f].own) /\ Answer(e, "ok")
        /\ UNCHANGED <<host, flushes, registered, dropped, ran>>
    BY DEF PlaceInv, FieldReturns
  <1>2. /\ pos' \in [Execution -> Nat \ {0}] /\ call' \in [Field -> Resolver]
        /\ \A g \in Field \ {f} : call'[g] = call[g]
        /\ call'[f].pc = "ok" /\ Own(f)' = <<>> /\ Nested(f)' = <<>>
    BY <1>1, AnswerIs
  <1>3. /\ call[f].own \in Stage /\ Own(f) \in Seq(Callback) /\ queue.callbacks \in Seq(Callback)
        /\ Nested(f) = <<>> /\ \A c \in Elements(Own(f)) : c[1] = f
    BY <1>1, Shapes DEF Staged, Own, Nested
  <1>4. /\ queue' \in [callbacks : Seq(Callback), closed : BOOLEAN, present : BOOLEAN]
        /\ queue'.closed = queue.closed /\ queue'.callbacks = queue.callbacks \o Own(f)
    BY <1>1, <1>3, JoinedIs DEF Own
  <1>5. TypeOK'
    BY <1>1, <1>2, <1>4 DEF TypeOK
  <1>6. Staged(f)'
    BY <1>2 DEF Staged, Running, Own, Nested, Elements
  <1>7. ASSUME NEW c \in Callback
        PROVE  Occurrences(queue'.callbacks, c) = Occurrences(queue.callbacks, c) + Occurrences(Own(f), c)
    <2>1. Occurrences(queue.callbacks \o Own(f), c) = Occurrences(queue.callbacks, c) + Occurrences(Own(f), c)
      <3>1. Own(f) \in Seq(Callback) /\ queue.callbacks \in Seq(Callback)
        BY <1>3
      <3> QED
        BY <3>1, OccConcat, ZenonT(60)
    <2> QED
      BY <1>4, <2>1
  <1>8. ASSUME NEW c \in Callback, c[1] = f PROVE Places(c)' = Places(c)
    <2>1. /\ Occurrences(Own(f), c) \in Nat /\ Occurrences(queue.callbacks, c) \in Nat
          /\ Flushing(c) \in Nat /\ Occurrences(ran, c) \in Nat
      BY <1>1, <1>8, Counts
    <2>2. Flushing(c)' = Flushing(c) /\ Occurrences(<<>>, c) = 0
      BY <1>1, OccOne DEF Flushing, Pending
    <2>3. Places(c) = Occurrences(Own(f), c) + 0 + Occurrences(queue.callbacks, c)
                        + Flushing(c) + Occurrences(ran, c) + (IF c \in dropped THEN 1 ELSE 0)
      BY <1>3, <1>8, <2>2 DEF Places, Waiting, Own, Nested
    <2>4. Places(c)' = 0 + 0 + Occurrences(queue'.callbacks, c)
                         + Flushing(c) + Occurrences(ran, c) + (IF c \in dropped THEN 1 ELSE 0)
      BY <1>1, <1>2, <1>8, <2>2 DEF Places, Waiting, Own, Nested
    <2>5. Occurrences(queue'.callbacks, c) = Occurrences(queue.callbacks, c) + Occurrences(Own(f), c)
      BY <1>7
    <2>6. (IF c \in dropped THEN 1 ELSE 0) \in Nat
      OBVIOUS
    <2> HIDE DEF Places
    <2> QED
      BY <2>1, <2>3, <2>4, <2>5, <2>6
  <1>9. ASSUME NEW c \in Callback, c[1] # f
        PROVE  Occurrences(queue'.callbacks, c) = Occurrences(queue.callbacks, c)
    <2>1. Occurrences(Own(f), c) \in Nat /\ (Occurrences(Own(f), c) # 0 <=> c \in Elements(Own(f)))
      BY <1>3, OccType
    <2>2. Occurrences(queue.callbacks, c) \in Nat
      BY <1>3, OccType
    <2> QED
      BY <1>3, <1>7, <1>9, <2>1, <2>2
  <1> QED
    BY <1>1, <1>2, <1>4, <1>5, <1>6, <1>8, <1>9, FieldKeeps

LEMMA ThrowsKeep == ASSUME PlaceInv, NEW e \in Execution, FieldThrows(e) PROVE PlaceInv'
  <1> HIDE DEF Callback
  <1> PICK f \in Field : f = FieldsOf[e][pos[e]]
    BY CurrentField DEF FieldThrows, PlaceInv
  <1>1. /\ TypeOK /\ Staged(f) /\ ~queue.closed /\ Answer(e, "error")
        /\ dropped' = dropped \cup Elements(Own(f)) \cup Elements(Nested(f))
        /\ UNCHANGED <<host, queue, flushes, registered, ran>>
    BY DEF PlaceInv, FieldThrows, Own, Nested
  <1>2. /\ pos' \in [Execution -> Nat \ {0}] /\ call' \in [Field -> Resolver]
        /\ \A g \in Field \ {f} : call'[g] = call[g]
        /\ call'[f].pc = "error" /\ Own(f)' = <<>> /\ Nested(f)' = <<>>
    BY <1>1, AnswerIs
  <1>3. /\ Own(f) \in Seq(Callback) /\ Nested(f) \in Seq(Callback)
        /\ \A c \in Elements(Own(f)) \cup Elements(Nested(f)) : c[1] = f
    BY <1>1, Shapes DEF Staged, Own, Nested
  <1>4. \A c \in Elements(Own(f)) \cup Elements(Nested(f)) : c \in Callback
    BY <1>3 DEF Elements
  <1>5. TypeOK'
    BY <1>1, <1>2, <1>4 DEF TypeOK
  <1>6. Staged(f)'
    BY <1>2 DEF Staged, Running, Own, Nested, Elements
  <1>7. ASSUME NEW c \in Callback, c[1] = f PROVE Places(c)' = Places(c)
    <2>1. /\ Occurrences(Own(f), c) \in Nat /\ Occurrences(Nested(f), c) \in Nat
          /\ Occurrences(queue.callbacks, c) \in Nat /\ Flushing(c) \in Nat /\ Occurrences(ran, c) \in Nat
          /\ Places(c) \in {0, 1}
          /\ Places(c) = Occurrences(Own(f), c) + Occurrences(Nested(f), c) + Occurrences(queue.callbacks, c)
                           + Flushing(c) + Occurrences(ran, c) + (IF c \in dropped THEN 1 ELSE 0)
      BY <1>1, <1>7, Counts DEF PlaceInv, Accepted
    <2>2. /\ c \in Elements(Own(f)) <=> Occurrences(Own(f), c) # 0
          /\ c \in Elements(Nested(f)) <=> Occurrences(Nested(f), c) # 0
          /\ Occurrences(<<>>, c) = 0 /\ Flushing(c)' = Flushing(c)
      <3>1. /\ c \in Elements(Own(f)) <=> Occurrences(Own(f), c) # 0
            /\ c \in Elements(Nested(f)) <=> Occurrences(Nested(f), c) # 0
        BY <1>3, OccType, Zenon
      <3>2. Occurrences(<<>>, c) = 0 /\ Flushing(c)' = Flushing(c)
        BY <1>1, OccOne DEF Flushing, Pending
      <3> QED
        BY <3>1, <3>2
    <2>3. Places(c)' = 0 + 0 + Occurrences(queue.callbacks, c)
                         + Flushing(c) + Occurrences(ran, c) + (IF c \in dropped' THEN 1 ELSE 0)
      BY <1>1, <1>2, <1>7, <2>2 DEF Places, Waiting, Own, Nested
    <2>4. (IF c \in dropped' THEN 1 ELSE 0)
             = (IF c \in dropped THEN 1 ELSE 0) + Occurrences(Own(f), c) + Occurrences(Nested(f), c)
      <3>1. CASE c \in dropped
        <4>1. Occurrences(Own(f), c) = 0 /\ Occurrences(Nested(f), c) = 0
          <5>1. Places(c) = Occurrences(Own(f), c) + Occurrences(Nested(f), c) + Occurrences(queue.callbacks, c)
                              + Flushing(c) + Occurrences(ran, c) + 1
            BY <2>1, <3>1, Zenon
          <5> HIDE DEF Places
          <5> QED
            BY <2>1, <5>1
        <4> QED
          BY <1>1, <3>1, <4>1
      <3>2. CASE c \notin dropped
        <4>1. Occurrences(Own(f), c) + Occurrences(Nested(f), c) \in {0, 1}
          <5>1. Places(c) = Occurrences(Own(f), c) + Occurrences(Nested(f), c) + Occurrences(queue.callbacks, c)
                              + Flushing(c) + Occurrences(ran, c) + 0
            BY <2>1, <3>2, Zenon
          <5>2. /\ Occurrences(Own(f), c) \in Nat /\ Occurrences(Nested(f), c) \in Nat
                /\ Occurrences(queue.callbacks, c) \in Nat /\ Flushing(c) \in Nat /\ Occurrences(ran, c) \in Nat
                /\ Places(c) \in {0, 1}
            BY <2>1
          <5> QED
            BY <5>1, <5>2
        <4>2. c \in dropped' <=> Occurrences(Own(f), c) # 0 \/ Occurrences(Nested(f), c) # 0
          BY <1>1, <2>2, <3>2, Zenon
        <4> QED
          BY <2>1, <3>2, <4>1, <4>2
      <3> QED
        BY <3>1, <3>2
    <2>5. (IF c \in dropped THEN 1 ELSE 0) \in Nat
      OBVIOUS
    <2> HIDE DEF Places
    <2> QED
      BY <2>1, <2>3, <2>4, <2>5
  <1>8. \A c \in Callback : c[1] # f => (c \in dropped' <=> c \in dropped)
    BY <1>1, <1>3
  <1> QED
    BY <1>1, <1>2, <1>5, <1>6, <1>7, <1>8, FieldKeeps

LEMMA RegisterKeeps == ASSUME PlaceInv, NEW f \in Field, Register(f) PROVE PlaceInv'
  <1> DEFINE Of(g) == {b \in Elements(registered) : b[1] = g}
             d     == <<f, Cardinality(Of(f)) + 1>>
  <1>1. TypeOK /\ Staged(f) /\ Running(f) /\ registered \in Seq(Callback)
    BY DEF PlaceInv, Register, TypeOK
  <1>2. \A g \in Field : IsFiniteSet(Of(g)) /\ Cardinality(Of(g)) \in Nat
    <2>1. IsFiniteSet(Elements(registered))
      BY <1>1, ElementsFinite, Zenon
    <2>2. \A g \in Field : IsFiniteSet(Of(g))
      BY <2>1, FS_Subset
    <2> QED
      BY <2>2, FS_CardinalityType
  <1>3. d \in Callback /\ d[1] = f /\ d[2] = Cardinality(Of(f)) + 1
    BY <1>2 DEF Callback
  <1>4. PICK c \in Callback : c = d
    BY <1>3
  <1>5. c[1] = f /\ c[2] = Cardinality(Of(f)) + 1
    BY <1>3, <1>4, Zenon
  <1>6. /\ registered' = Append(registered, c)
        /\ call' = IF call[f].pc = "savepoint"
                     THEN [call EXCEPT ![f].nested.callbacks = Append(@, c)]
                     ELSE [call EXCEPT ![f].own.callbacks = Append(@, c)]
        /\ UNCHANGED <<host, pos, queue, flushes, dropped, ran>>
    BY <1>4 DEF Register
  <1> HIDE DEF Callback, d
  <1>7. registered' \in Seq(Callback) /\ Elements(registered') = Elements(registered) \cup {c}
    BY <1>1, <1>6, ElementsAppend
  <1>8. c \notin Elements(registered)
    BY <1>2, <1>5 DEF PlaceInv, Numbered
  <1>9. Numbered'
    <2> SUFFICES ASSUME NEW b \in Elements(registered')
                 PROVE  b[2] <= Cardinality({a \in Elements(registered') : a[1] = b[1]})
      BY DEF Numbered
    <2>1. CASE b[1] = f
      <3>1. {a \in Elements(registered') : a[1] = f} = Of(f) \cup {c}
        BY <1>5, <1>7
      <3>2. Cardinality(Of(f) \cup {c}) = Cardinality(Of(f)) + 1
        BY <1>2, <1>8, FS_AddElement
      <3>3. b \in Elements(registered) => b[2] <= Cardinality(Of(f)) /\ b[2] \in Nat
        <4>1. ASSUME b \in Elements(registered) PROVE b \in Callback
          BY <1>1, <4>1 DEF Elements
        <4> QED
          BY <2>1, <4>1 DEF PlaceInv, Numbered, Callback
      <3> QED
        <4>1. Cardinality({a \in Elements(registered') : a[1] = b[1]}) = Cardinality(Of(f)) + 1
          BY <2>1, <3>1, <3>2
        <4>2. CASE b = c
          BY <1>2, <1>5, <4>1, <4>2
        <4>3. CASE b # c
          <5>1. b[2] <= Cardinality(Of(f)) /\ b[2] \in Nat
            BY <1>7, <3>3, <4>3
          <5> QED
            BY <1>2, <4>1, <5>1
        <4> QED
          BY <4>2, <4>3
    <2>2. CASE b[1] # f
      <3>1. {a \in Elements(registered') : a[1] = b[1]} = {a \in Elements(registered) : a[1] = b[1]}
        BY <1>5, <1>7, <2>2
      <3> QED
        BY <1>5, <1>7, <2>2, <3>1 DEF PlaceInv, Numbered
    <2> QED
      BY <2>1, <2>2
  <1>10. /\ call[f] \in Resolver /\ call[f].own \in Stage /\ call[f].nested \in Stage
         /\ Own(f) \in Seq(Callback) /\ Nested(f) \in Seq(Callback)
         /\ Append(Own(f), c) \in Seq(Callback) /\ Append(Nested(f), c) \in Seq(Callback)
    <2>1. /\ call[f] \in Resolver /\ call[f].own \in Stage /\ call[f].nested \in Stage
          /\ Own(f) \in Seq(Callback) /\ Nested(f) \in Seq(Callback)
      BY <1>1, Shapes
    <2> QED
      BY <2>1
  <1>11. \A g \in Field \ {f} : call'[g] = call[g]
    BY <1>1, <1>6 DEF TypeOK
  <1>12. /\ call' \in [Field -> Resolver]
         /\ call'[f].pc = call[f].pc
         /\ \/ /\ call[f].pc = "savepoint" /\ call'[f].own = call[f].own
               /\ call'[f].nested = [call[f].nested EXCEPT !.callbacks = Append(Nested(f), c)]
            \/ /\ call[f].pc # "savepoint" /\ call'[f].nested = call[f].nested
               /\ call'[f].own = [call[f].own EXCEPT !.callbacks = Append(Own(f), c)]
    <2>1. CASE call[f].pc = "savepoint"
      <3> DEFINE s == [call[f].nested EXCEPT !.callbacks = Append(Nested(f), c)]
      <3>1. s \in Stage
        BY <1>10 DEF Stage
      <3>2. call' = [call EXCEPT ![f] = [call[f] EXCEPT !.nested = s]]
        BY <1>1, <1>6, <2>1 DEF Nested
      <3>3. s = [call[f].nested EXCEPT !.callbacks = Append(Nested(f), c)]
        OBVIOUS
      <3> HIDE DEF s
      <3> QED
        BY <1>1, <1>10, <2>1, <3>1, <3>2, <3>3 DEF TypeOK, Resolver
    <2>2. CASE call[f].pc # "savepoint"
      <3> DEFINE s == [call[f].own EXCEPT !.callbacks = Append(Own(f), c)]
      <3>1. s \in Stage
        BY <1>10 DEF Stage
      <3>2. call' = [call EXCEPT ![f] = [call[f] EXCEPT !.own = s]]
        BY <1>1, <1>6, <2>2 DEF Own
      <3>3. s = [call[f].own EXCEPT !.callbacks = Append(Own(f), c)]
        OBVIOUS
      <3> HIDE DEF s
      <3> QED
        BY <1>1, <1>10, <2>2, <3>1, <3>2, <3>3 DEF TypeOK, Resolver
    <2> QED
      BY <2>1, <2>2
  <1>13. TypeOK'
    BY <1>1, <1>6, <1>7, <1>12 DEF TypeOK
  <1>14. \/ Own(f)' = Own(f) /\ Nested(f)' = Append(Nested(f), c) /\ call[f].pc = "savepoint"
         \/ Own(f)' = Append(Own(f), c) /\ Nested(f)' = Nested(f) /\ call[f].pc # "savepoint"
    BY <1>10, <1>12 DEF Own, Nested, Stage
  <1>15. call'[f].own.closed = call[f].own.closed
    BY <1>10, <1>12 DEF Stage
  <1>16. Staged(f)'
    <2>1. \A b \in Elements(Own(f)') \cup Elements(Nested(f)') : b[1] = f
      <3>1. /\ Elements(Append(Own(f), c)) = Elements(Own(f)) \cup {c}
            /\ Elements(Append(Nested(f), c)) = Elements(Nested(f)) \cup {c}
        BY <1>10, ElementsAppend
      <3>2. \A b \in Elements(Own(f)) \cup Elements(Nested(f)) : b[1] = f
        BY <1>1 DEF Staged, Own, Nested
      <3> QED
        BY <1>5, <1>14, <3>1, <3>2
    <2>2. Running(f)' /\ ~call'[f].own.closed
      BY <1>1, <1>12, <1>15 DEF Staged, Running
    <2>3. call'[f].pc # "savepoint" => call'[f].nested.callbacks = <<>>
      BY <1>1, <1>12 DEF Staged
    <2> QED
      BY <2>1, <2>2, <2>3 DEF Staged, Own, Nested
  <1>17. \A g \in Field : Staged(g)'
    BY <1>11, <1>16 DEF PlaceInv, Staged, Running
  <1>18. Accepted'
    <2> SUFFICES ASSUME NEW b \in Callback
                 PROVE  Places(b)' = IF b \in Elements(registered') THEN 1 ELSE 0
      BY DEF Accepted
    <2>1. Flushing(b)' = Flushing(b) /\ Places(b) = IF b \in Elements(registered) THEN 1 ELSE 0
      BY <1>6 DEF Flushing, Pending, PlaceInv, Accepted
    <2>2. /\ b[1] \in Field
          /\ Occurrences(Own(b[1]), b) \in Nat /\ Occurrences(Nested(b[1]), b) \in Nat
          /\ Occurrences(queue.callbacks, b) \in Nat /\ Flushing(b) \in Nat /\ Occurrences(ran, b) \in Nat
      BY <1>1, Counts
    <2>3. CASE b[1] # f
      <3>1. Own(b[1])' = Own(b[1]) /\ Nested(b[1])' = Nested(b[1])
        BY <1>11, <2>2, <2>3 DEF Own, Nested
      <3>2. Places(b)' = Places(b)
        BY <1>6, <2>1, <3>1 DEF Places, Waiting, Own, Nested
      <3> QED
        BY <1>5, <1>7, <2>1, <2>3, <3>2
    <2>4. CASE b[1] = f
      <3>1. /\ Occurrences(Append(Own(f), c), b) = Occurrences(Own(f), b) + IF c = b THEN 1 ELSE 0
            /\ Occurrences(Append(Nested(f), c), b) = Occurrences(Nested(f), b) + IF c = b THEN 1 ELSE 0
        BY <1>10, OccAppend
      <3>2. Places(b)' = Occurrences(Own(f)', b) + Occurrences(Nested(f)', b) + Occurrences(queue.callbacks, b)
                          + Flushing(b) + Occurrences(ran, b) + (IF b \in dropped THEN 1 ELSE 0)
        BY <1>6, <2>1, <2>4 DEF Places, Waiting, Own, Nested
      <3>3. Places(b) = Occurrences(Own(f), b) + Occurrences(Nested(f), b) + Occurrences(queue.callbacks, b)
                          + Flushing(b) + Occurrences(ran, b) + (IF b \in dropped THEN 1 ELSE 0)
        BY <2>4 DEF Places, Waiting, Own, Nested
      <3>4. Places(b)' = Places(b) + IF c = b THEN 1 ELSE 0
        <4>0. /\ Occurrences(Own(f), b) \in Nat /\ Occurrences(Nested(f), b) \in Nat
              /\ (IF b \in dropped THEN 1 ELSE 0) \in Nat /\ (IF c = b THEN 1 ELSE 0) \in Nat
          BY <2>2, <2>4
        <4>1. CASE Own(f)' = Own(f) /\ Nested(f)' = Append(Nested(f), c)
          <5>1. /\ Occurrences(Own(f)', b) = Occurrences(Own(f), b)
                /\ Occurrences(Nested(f)', b) = Occurrences(Nested(f), b) + IF c = b THEN 1 ELSE 0
            BY <3>1, <4>1
          <5> HIDE DEF Places
          <5> QED
            BY <2>2, <3>2, <3>3, <4>0, <5>1
        <4>2. CASE Own(f)' = Append(Own(f), c) /\ Nested(f)' = Nested(f)
          <5>1. /\ Occurrences(Own(f)', b) = Occurrences(Own(f), b) + IF c = b THEN 1 ELSE 0
                /\ Occurrences(Nested(f)', b) = Occurrences(Nested(f), b)
            BY <3>1, <4>2
          <5> HIDE DEF Places
          <5> QED
            BY <2>2, <3>2, <3>3, <4>0, <5>1
        <4> QED
          BY <1>14, <4>1, <4>2
      <3> QED
        BY <1>7, <1>8, <2>1, <3>4
    <2> QED
      BY <2>3, <2>4
  <1> QED
    BY <1>6, <1>9, <1>13, <1>17, <1>18 DEF PlaceInv

\* The caller's own steps do not touch a field.
LEMMA HostKeeps ==
  ASSUME PlaceInv, TypeOK', UNCHANGED <<call, registered>>, ~queue'.closed,
         \A c \in Callback : Places(c)' = Places(c)
  PROVE  PlaceInv'
  BY DEF PlaceInv, Staged, Running, Numbered, Accepted

LEMMA SettlesKeep == ASSUME PlaceInv, HostCommits \/ HostRollsBack PROVE PlaceInv'
  <1> HIDE DEF Callback
  <1>1. TypeOK /\ ~queue.closed /\ host.fate \in Seq(Fate) \ {<<>>} /\ Now \in DOMAIN host.fate
    BY DEF PlaceInv, TypeOK, Now
  <1>2. PICK how \in {"committed", "rolledBack"} :
           /\ host' = [host EXCEPT !.at = how, !.fate = [host.fate EXCEPT ![Now] = how]]
           /\ UNCHANGED <<pos, call, queue, flushes, registered, dropped, ran>>
    BY DEF HostCommits, HostRollsBack, Settles
  <1>3. [host.fate EXCEPT ![Now] = how] \in Seq(Fate) \ {<<>>}
    BY <1>1 DEF Fate
  <1>4. host' \in [at : Fate \cup {"idle"}, awaits : BOOLEAN, fate : Seq(Fate) \ {<<>>}]
    BY <1>1, <1>2, <1>3 DEF TypeOK, Fate
  <1>5. TypeOK'
    BY <1>1, <1>2, <1>4 DEF TypeOK
  <1>6. \A c \in Callback : Places(c)' = Places(c)
    BY <1>2 DEF Places, Waiting, Flushing, Pending
  <1> QED
    BY <1>1, <1>2, <1>5, <1>6, HostKeeps

LEMMA BeginsKeep == ASSUME PlaceInv, HostBegins PROVE PlaceInv'
  <1> HIDE DEF Callback
  <1>1. TypeOK /\ ~queue.closed /\ host.fate \in Seq(Fate)
    BY DEF PlaceInv, TypeOK
  <1>2. Append(host.fate, "open") \in Seq(Fate) \ {<<>>}
    <2>1. "open" \in Fate
      BY DEF Fate
    <2>2. Append(host.fate, "open") \in Seq(Fate) /\ Len(Append(host.fate, "open")) = Len(host.fate) + 1
      BY <1>1, <2>1
    <2>3. Len(host.fate) \in Nat /\ Len(<<>>) = 0
      BY <1>1
    <2> QED
      BY <2>2, <2>3
  <1>3. host' \in [at : Fate \cup {"idle"}, awaits : BOOLEAN, fate : Seq(Fate) \ {<<>>}]
    BY <1>1, <1>2 DEF HostBegins, TypeOK, Fate
  <1>4. TypeOK'
    BY <1>1, <1>3 DEF HostBegins, TypeOK
  <1>5. \A c \in Callback : Places(c)' = Places(c)
    BY DEF HostBegins, Places, Waiting, Flushing, Pending
  <1> QED
    BY <1>1, <1>4, <1>5, HostKeeps DEF HostBegins

\* A flush appended to the ones before it holds what the queue held.
LEMMA FlushAppend ==
  ASSUME NEW F \in Seq(Seq(Callback)), NEW q \in Seq(Callback), NEW c
  PROVE  Cardinality(Holding(Append(F, q), c)) = Cardinality(Holding(F, c)) + Occurrences(q, c)
  <1> HIDE DEF Callback
  <1> DEFINE G == Append(F, q)
             k == Len(F) + 1
  <1>1. /\ G \in Seq(Seq(Callback)) /\ k \in DOMAIN G /\ G[k] = q
        /\ DOMAIN G = DOMAIN F \cup {k} /\ k \notin DOMAIN F
        /\ \A i \in DOMAIN F : G[i] = F[i]
    OBVIOUS
  <1> HIDE DEF G, k
  <1>2. Cardinality(Holding(G, c)) = Cardinality(Besides(G, k, c)) + Occurrences(G[k], c)
    BY <1>1, FlushSplit
  <1>3. Besides(G, k, c) = Holding(F, c)
    <2>1. \A p : p \in Besides(G, k, c) <=> \E i \in DOMAIN F : p \in {i} \X DOMAIN F[i] /\ F[i][p[2]] = c
      BY <1>1 DEF Besides, Holding, Positions
    <2>2. \A p : p \in Holding(F, c) <=> \E i \in DOMAIN F : p \in {i} \X DOMAIN F[i] /\ F[i][p[2]] = c
      BY DEF Holding, Positions
    <2> QED
      BY <2>1, <2>2
  <1> QED
    BY <1>1, <1>2, <1>3 DEF G

LEMMA FlushesKeep == ASSUME PlaceInv, HostFlushes PROVE PlaceInv'
  <1> HIDE DEF Callback
  <1>1. /\ TypeOK /\ ~queue.closed /\ queue.callbacks \in Seq(Callback)
        /\ flushes \in Seq(Seq(Callback)) /\ flushes' = Append(flushes, queue.callbacks)
        /\ queue' = Absent /\ UNCHANGED <<pos, call, registered, dropped, ran>>
    BY DEF PlaceInv, TypeOK, HostFlushes
  <1>2. host' \in [at : Fate \cup {"idle"}, awaits : BOOLEAN, fate : Seq(Fate) \ {<<>>}]
    BY DEF HostFlushes, PlaceInv, TypeOK
  <1>3. TypeOK'
    BY <1>1, <1>2 DEF TypeOK, Absent
  <1>4. ASSUME NEW c \in Callback PROVE Places(c)' = Places(c)
    <2>1. /\ Flushing(c) = Cardinality(Holding(flushes, c))
          /\ Flushing(c)' = Cardinality(Holding(flushes', c))
          /\ c[1] \in Field
          /\ Occurrences(Own(c[1]), c) \in Nat /\ Occurrences(Nested(c[1]), c) \in Nat
          /\ Occurrences(queue.callbacks, c) \in Nat /\ Flushing(c) \in Nat /\ Occurrences(ran, c) \in Nat
      BY <1>1, Counts DEF Flushing, Pending, Holding, Positions
    <2>2. Cardinality(Holding(flushes', c)) = Cardinality(Holding(flushes, c)) + Occurrences(queue.callbacks, c)
      BY <1>1, FlushAppend
    <2>3. Occurrences(queue'.callbacks, c) = 0
      BY <1>1, OccOne DEF Absent
    <2> QED
      BY <1>1, <2>1, <2>2, <2>3 DEF Places, Waiting, Own, Nested
  <1> QED
    BY <1>1, <1>3, <1>4, HostKeeps DEF Absent

LEMMA DiscardsKeep == ASSUME PlaceInv, HostDiscards PROVE PlaceInv'
  <1> HIDE DEF Callback
  <1>1. /\ TypeOK /\ ~queue.closed /\ queue.callbacks \in Seq(Callback)
        /\ dropped' = dropped \cup Elements(queue.callbacks)
        /\ queue' = Absent /\ UNCHANGED <<pos, call, registered, flushes, ran>>
    BY DEF PlaceInv, TypeOK, HostDiscards
  <1>2. host' \in [at : Fate \cup {"idle"}, awaits : BOOLEAN, fate : Seq(Fate) \ {<<>>}]
    BY DEF HostDiscards, PlaceInv, TypeOK
  <1>3. Elements(queue.callbacks) \subseteq Callback
    BY <1>1 DEF Elements
  <1>4. TypeOK'
    BY <1>1, <1>2, <1>3 DEF TypeOK, Absent
  <1>5. ASSUME NEW c \in Callback PROVE Places(c)' = Places(c)
    <2>1. /\ c[1] \in Field
          /\ Occurrences(Own(c[1]), c) \in Nat /\ Occurrences(Nested(c[1]), c) \in Nat
          /\ Occurrences(queue.callbacks, c) \in Nat /\ Flushing(c) \in Nat /\ Occurrences(ran, c) \in Nat
          /\ Places(c) \in {0, 1}
          /\ Places(c) = Occurrences(Own(c[1]), c) + Occurrences(Nested(c[1]), c) + Occurrences(queue.callbacks, c)
                           + Flushing(c) + Occurrences(ran, c) + (IF c \in dropped THEN 1 ELSE 0)
      BY <1>1, Counts DEF PlaceInv, Accepted
    <2>2. c \in Elements(queue.callbacks) <=> Occurrences(queue.callbacks, c) # 0
      BY <1>1, OccType, Zenon
    <2>3. Occurrences(queue'.callbacks, c) = 0 /\ Flushing(c)' = Flushing(c)
      BY <1>1, OccOne DEF Absent, Flushing, Pending
    <2>4. Places(c)' = Occurrences(Own(c[1]), c) + Occurrences(Nested(c[1]), c) + 0
                         + Flushing(c) + Occurrences(ran, c) + (IF c \in dropped' THEN 1 ELSE 0)
      BY <1>1, <2>3 DEF Places, Waiting, Own, Nested
    <2>5. (IF c \in dropped' THEN 1 ELSE 0) = (IF c \in dropped THEN 1 ELSE 0) + Occurrences(queue.callbacks, c)
      BY <1>1, <2>1, <2>2
    <2> QED
      BY <2>1, <2>4, <2>5
  <1> QED
    BY <1>1, <1>4, <1>5, HostKeeps DEF Absent

LEMMA CallbackKeeps == ASSUME PlaceInv, NEW k \in DOMAIN flushes, RunCallback(k) PROVE PlaceInv'
  <1> HIDE DEF Callback
  <1>1. /\ TypeOK /\ ~queue.closed /\ flushes \in Seq(Seq(Callback)) /\ flushes[k] \in Seq(Callback)
        /\ flushes[k] # <<>> /\ ran \in Seq(Callback)
        /\ ran' = Append(ran, Head(flushes[k])) /\ flushes' = [flushes EXCEPT ![k] = Tail(flushes[k])]
        /\ UNCHANGED <<host, pos, call, queue, registered, dropped>>
    BY DEF PlaceInv, TypeOK, RunCallback
  <1>2. /\ Head(flushes[k]) \in Callback /\ Tail(flushes[k]) \in Seq(Callback)
        /\ ran' \in Seq(Callback) /\ flushes' \in Seq(Seq(Callback))
        /\ DOMAIN flushes' = DOMAIN flushes /\ flushes'[k] = Tail(flushes[k])
        /\ \A i \in DOMAIN flushes \ {k} : flushes'[i] = flushes[i]
    BY <1>1
  <1>3. TypeOK'
    BY <1>1, <1>2 DEF TypeOK
  <1>4. ASSUME NEW c \in Callback PROVE Places(c)' = Places(c)
    <2>1. /\ Flushing(c) = Cardinality(Holding(flushes, c))
          /\ Flushing(c)' = Cardinality(Holding(flushes', c))
      BY DEF Flushing, Pending, Holding, Positions
    <2>2. /\ c[1] \in Field
          /\ Occurrences(Own(c[1]), c) \in Nat /\ Occurrences(Nested(c[1]), c) \in Nat
          /\ Occurrences(queue.callbacks, c) \in Nat /\ Flushing(c) \in Nat /\ Occurrences(ran, c) \in Nat
      BY <1>1, Counts
    <2>3. /\ Cardinality(Besides(flushes, k, c)) \in Nat
          /\ Cardinality(Holding(flushes, c)) = Cardinality(Besides(flushes, k, c)) + Occurrences(flushes[k], c)
      BY <1>1, FlushSplit
    <2>4. Cardinality(Holding(flushes', c)) = Cardinality(Besides(flushes', k, c)) + Occurrences(flushes'[k], c)
      BY <1>2, FlushSplit
    <2>5. Besides(flushes', k, c) = Besides(flushes, k, c)
      BY <1>2 DEF Besides, Holding, Positions
    <2>6. Occurrences(flushes[k], c) = Occurrences(Tail(flushes[k]), c) + IF Head(flushes[k]) = c THEN 1 ELSE 0
      BY <1>1, OccHead
    <2>7. Occurrences(ran', c) = Occurrences(ran, c) + IF Head(flushes[k]) = c THEN 1 ELSE 0
      BY <1>1, <1>2, OccAppend
    <2>8. Occurrences(Tail(flushes[k]), c) \in Nat
      BY <1>2, OccType
    <2>9. Flushing(c)' + Occurrences(ran', c) = Flushing(c) + Occurrences(ran, c) /\ Flushing(c)' \in Nat
           /\ Occurrences(ran', c) \in Nat
      <3> DEFINE one == IF Head(flushes[k]) = c THEN 1 ELSE 0
      <3>1. one \in Nat
        OBVIOUS
      <3>2. Flushing(c)' = Cardinality(Besides(flushes, k, c)) + Occurrences(Tail(flushes[k]), c)
        BY <1>2, <2>1, <2>4, <2>5
      <3>3. Flushing(c) = Cardinality(Besides(flushes, k, c)) + (Occurrences(Tail(flushes[k]), c) + one)
        BY <2>1, <2>3, <2>6
      <3>4. Occurrences(ran', c) = Occurrences(ran, c) + one
        BY <2>7
      <3> HIDE DEF one
      <3> QED
        BY <2>2, <2>3, <2>8, <3>1, <3>2, <3>3, <3>4
    <2>10. /\ Places(c)' = Occurrences(Own(c[1]), c) + Occurrences(Nested(c[1]), c) + Occurrences(queue.callbacks, c)
                             + Flushing(c)' + Occurrences(ran', c) + (IF c \in dropped THEN 1 ELSE 0)
           /\ Places(c) = Occurrences(Own(c[1]), c) + Occurrences(Nested(c[1]), c) + Occurrences(queue.callbacks, c)
                            + Flushing(c) + Occurrences(ran, c) + (IF c \in dropped THEN 1 ELSE 0)
      BY <1>1 DEF Places, Waiting, Own, Nested
    <2>11. (IF c \in dropped THEN 1 ELSE 0) \in Nat
      OBVIOUS
    <2> QED
      BY <2>2, <2>9, <2>10, <2>11
  <1> QED
    BY <1>1, <1>3, <1>4, HostKeeps

LEMMA PlaceInit == Init => PlaceInv
  <1> HIDE DEF Callback
  <1> SUFFICES ASSUME Init PROVE PlaceInv
    OBVIOUS
  <1>1. TypeOK /\ ~queue.closed
    BY InitTypes DEF Init, Absent
  <1>2. \A f \in Field : Staged(f)
    BY DEF Init, Staged, Running, Drained, Elements
  <1>3. Numbered
    BY DEF Init, Numbered, Elements
  <1>4. ASSUME NEW c \in Callback PROVE Places(c) = 0 /\ c \notin Elements(registered)
    <2>1. c[1] \in Field
      BY DEF Callback
    <2>2. call[c[1]].own.callbacks = <<>> /\ call[c[1]].nested.callbacks = <<>> /\ queue.callbacks = <<>>
          /\ ran = <<>> /\ c \notin dropped
      BY <2>1 DEF Init, Drained, Absent
    <2>3. Flushing(c) = 0
      <3>1. {p \in Pending : flushes[p[1]][p[2]] = c} = {}
        BY DEF Init, Pending
      <3> QED
        BY <3>1, FS_EmptySet DEF Flushing
    <2>4. Occurrences(<<>>, c) = 0
      BY OccOne
    <2>5. Places(c) = 0
      BY <2>2, <2>3, <2>4 DEF Places, Waiting
    <2> QED
      BY <2>5 DEF Init, Elements
  <1>5. Accepted
    BY <1>4 DEF Accepted
  <1> QED
    BY <1>1, <1>2, <1>3, <1>5 DEF PlaceInv

LEMMA PlaceStep == PlaceInv /\ [Next]_vars => PlaceInv'
  <1> SUFFICES ASSUME PlaceInv, [Next]_vars PROVE PlaceInv'
    OBVIOUS
  <1>1. CASE UNCHANGED vars
    <2>1. TypeOK'
      BY <1>1 DEF vars, PlaceInv, TypeOK
    <2>2. \A c \in Callback : Places(c)' = Places(c)
      BY <1>1 DEF vars, Places, Waiting, Flushing, Pending
    <2> QED
      BY <1>1, <2>1, <2>2, HostKeeps DEF vars, PlaceInv
  <1>2. CASE FieldStep
    BY <1>2, StartKeeps, ReturnsKeep, ThrowsKeep, EnterKeeps, KeepsKeep, RollsBackKeep DEF FieldStep
  <1>3. CASE Hook
    BY <1>3, RegisterKeeps DEF Hook
  <1>4. CASE Host
    BY <1>4, SettlesKeep, FlushesKeep, DiscardsKeep, BeginsKeep DEF Host
  <1>5. CASE Callbacks
    BY <1>5, CallbackKeeps DEF Callbacks
  <1> QED
    BY <1>1, <1>2, <1>3, <1>4, <1>5 DEF Next, Rest

\* The invariant behind both results holds in every reachable state.
THEOREM PlaceInvariant == Spec => []PlaceInv
  BY PlaceInit, PlaceStep, PTL DEF Spec

\* Every callback accepted through onCommit is in exactly one place, for any number of executions,
\* fields, savepoints and transactions of the caller, awaited or not.
THEOREM NoneLostNoneTwice == Spec => []OnePlace
  <1>1. PlaceInv => OnePlace
    <2> SUFFICES ASSUME PlaceInv, NEW c \in Elements(registered) PROVE Places(c) = 1
      BY DEF OnePlace
    <2>1. c \in Callback
      BY DEF PlaceInv, TypeOK, Elements
    <2> QED
      BY <2>1 DEF PlaceInv, Accepted
  <1> QED
    BY <1>1, PlaceInvariant, PTL

-----------------------------------------------------------------------------
(* What runs has committed. *)

\* Steps that leave the caller alone and answer no field.
LEMMA BodyKeepsCommits ==
  ASSUME PlaceInv, CommitInv, PlaceInv', UNCHANGED <<host, queue, flushes, ran>>,
         NEW f \in Field, \A g \in Field \ {f} : call'[g] = call[g],
         \/ Running(f) /\ call'[f].tx = call[f].tx
         \/ call[f].pc = "waiting" /\ host.at = "open" /\ call'[f].tx = Now
  PROVE  CommitInv'
  <1> HIDE DEF Callback
  <1>1. ASSUME NEW c \in Callback, call[c[1]].pc = "ok" PROVE call'[c[1]] = call[c[1]]
    BY <1>1 DEF Running, Callback
  <1>2. Now' = Now
    BY DEF Now
  <1>3. \A c \in Callback : Earned(c) => Earned(c)'
    BY <1>1, <1>2 DEF Earned
  <1>4. (\A g \in Field : Running(g) => host.at = "open" /\ call[g].tx = Now)
          => \A g \in Field : Running(g)' => host'.at = "open" /\ call'[g].tx = Now'
    BY <1>2 DEF Running
  <1>5. /\ \A c \in Elements(queue.callbacks) \cup Elements(ran) : c \in Callback
        /\ \A i \in DOMAIN flushes : \A c \in Elements(flushes[i]) : c \in Callback
    BY DEF PlaceInv, TypeOK, Elements
  <1> QED
    BY <1>1, <1>2, <1>3, <1>4, <1>5 DEF CommitInv

LEMMA BodyStepsCommit ==
  ASSUME PlaceInv, CommitInv, PlaceInv', NEW f \in Field,
         Register(f) \/ EnterSavepoint(f) \/ SavepointKeeps(f) \/ SavepointRollsBack(f)
  PROVE  CommitInv'
  <1> HIDE DEF Callback
  <1>1. call \in [Field -> Resolver] /\ call[f] \in Resolver /\ Running(f)
    BY DEF PlaceInv, TypeOK, Register, EnterSavepoint, SavepointKeeps, SavepointRollsBack, Running
  <1>2. \A g \in Field \ {f} : call'[g] = call[g]
    BY <1>1 DEF Register, EnterSavepoint, SavepointKeeps, SavepointRollsBack
  <1>3. call'[f].tx = call[f].tx
    <2>1. CASE Register(f)
      BY <1>1, <2>1 DEF Register, Resolver
    <2>2. CASE EnterSavepoint(f)
      BY <1>1, <2>2 DEF EnterSavepoint, Resolver
    <2>3. CASE SavepointKeeps(f)
      BY <1>1, <2>3 DEF SavepointKeeps, Resolver
    <2>4. CASE SavepointRollsBack(f)
      BY <1>1, <2>4 DEF SavepointRollsBack, Resolver
    <2> QED
      BY <2>1, <2>2, <2>3, <2>4
  <1>4. UNCHANGED <<host, queue, flushes, ran>>
    BY DEF Register, EnterSavepoint, SavepointKeeps, SavepointRollsBack
  <1> QED
    BY <1>1, <1>2, <1>3, <1>4, BodyKeepsCommits

LEMMA StartCommits ==
  ASSUME PlaceInv, CommitInv, PlaceInv', NEW e \in Execution, StartField(e)
  PROVE  CommitInv'
  <1> HIDE DEF Callback
  <1> PICK f \in Field : f = FieldsOf[e][pos[e]]
    BY CurrentField DEF StartField, PlaceInv
  <1>1. call \in [Field -> Resolver] /\ call[f] \in Resolver
    BY DEF PlaceInv, TypeOK
  <1>2. /\ call' = [call EXCEPT ![f] = [call[f] EXCEPT !.pc = "body", !.own = Fresh, !.tx = Now]]
        /\ call[f].pc = "waiting" /\ host.at = "open" /\ UNCHANGED <<host, queue, flushes, ran>>
    BY DEF StartField
  <1>3. call'[f].tx = Now /\ \A g \in Field \ {f} : call'[g] = call[g]
    BY <1>1, <1>2 DEF Resolver
  <1> QED
    BY <1>2, <1>3, BodyKeepsCommits

\* An answered field leaves its callbacks on the queue of its transaction, or none.
LEMMA AnswerCommits ==
  ASSUME PlaceInv, CommitInv, PlaceInv', NEW e \in Execution, FieldReturns(e) \/ FieldThrows(e)
  PROVE  CommitInv'
  <1> HIDE DEF Callback
  <1> PICK f \in Field : f = FieldsOf[e][pos[e]]
    BY CurrentField DEF FieldReturns, FieldThrows, PlaceInv
  <1>1. /\ TypeOK /\ Staged(f) /\ ~queue.closed /\ Running(f) /\ UNCHANGED <<host, flushes, ran>>
        /\ \/ Answer(e, "ok") /\ queue' = Joined(CallerQueue, call[f].own)
           \/ Answer(e, "error") /\ queue' = queue
    BY DEF FieldReturns, FieldThrows, PlaceInv, Running
  <1>2. /\ \A g \in Field \ {f} : call'[g] = call[g]
        /\ ~Running(f)' /\ call'[f].tx = call[f].tx
        /\ queue' # queue => call'[f].pc = "ok"
    <2>1. \A how \in {"ok", "error"} : Answer(e, how) =>
             /\ \A g \in Field \ {f} : call'[g] = call[g]
             /\ call'[f].pc = how /\ call'[f].tx = call[f].tx
      BY <1>1, AnswerIs
    <2> QED
      BY <1>1, <2>1 DEF Running
  <1>3. /\ call[f].own \in Stage /\ Own(f) \in Seq(Callback) /\ queue.callbacks \in Seq(Callback)
        /\ \A c \in Elements(Own(f)) : c[1] = f
    BY <1>1, Shapes DEF Staged, Own
  <1>4. Elements(queue'.callbacks) \subseteq Elements(queue.callbacks) \cup
                                              (IF queue' = queue THEN {} ELSE Elements(Own(f)))
    <2>1. Joined(CallerQueue, call[f].own).callbacks = queue.callbacks \o Own(f)
      BY <1>1, <1>3, JoinedIs DEF Own
    <2>2. Elements(queue.callbacks \o Own(f)) \subseteq Elements(queue.callbacks) \cup Elements(Own(f))
      BY <1>3, ElementsConcat
    <2> QED
      BY <1>1, <2>1, <2>2
  <1>5. ASSUME NEW c \in Callback, call[c[1]].pc = "ok" PROVE call'[c[1]] = call[c[1]]
    BY <1>1, <1>2, <1>5 DEF Running, Callback
  <1>6. Now' = Now
    BY <1>1 DEF Now
  <1>7. \A c \in Callback : Earned(c) => Earned(c)'
    BY <1>1, <1>5, <1>6 DEF Earned
  <1>8. /\ \A c \in Elements(queue.callbacks) \cup Elements(ran) : c \in Callback
        /\ \A i \in DOMAIN flushes : \A c \in Elements(flushes[i]) : c \in Callback
    BY DEF PlaceInv, TypeOK, Elements
  <1>9. host.at # "idle" => host.fate[Now] = host.at
    BY DEF CommitInv
  <1>10. ASSUME host.awaits
         PROVE  /\ \A g \in Field : Running(g)' => host.at = "open" /\ call'[g].tx = Now
                /\ \A c \in Elements(queue'.callbacks) :
                     host.at # "idle" /\ call'[c[1]].pc = "ok" /\ call'[c[1]].tx = Now
                /\ \A i \in DOMAIN flushes : \A c \in Elements(flushes[i]) : Earned(c)'
                /\ \A c \in Elements(ran) : Earned(c)'
    <2>1. \A g \in Field : Running(g)' => host.at = "open" /\ call'[g].tx = Now
      BY <1>2, <1>10 DEF CommitInv, Running
    <2>2. ASSUME NEW c \in Elements(queue'.callbacks)
          PROVE  host.at # "idle" /\ call'[c[1]].pc = "ok" /\ call'[c[1]].tx = Now
      <3>1. CASE c \in Elements(queue.callbacks)
        BY <1>5, <1>8, <1>10, <3>1 DEF CommitInv
      <3>2. CASE c \notin Elements(queue.callbacks)
        <4>1. c \in Elements(Own(f)) /\ queue' # queue
          BY <1>4, <2>2, <3>2
        <4>2. c[1] = f
          BY <1>3, <4>1
        <4>3. host.at = "open" /\ call[f].tx = Now
          BY <1>1, <1>10 DEF CommitInv
        <4> QED
          BY <1>2, <4>1, <4>2, <4>3
      <3> QED
        BY <3>1, <3>2
    <2>3. /\ \A i \in DOMAIN flushes : \A c \in Elements(flushes[i]) : Earned(c)'
          /\ \A c \in Elements(ran) : Earned(c)'
      BY <1>7, <1>8, <1>10 DEF CommitInv
    <2> QED
      BY <2>1, <2>2, <2>3
  <1> QED
    BY <1>1, <1>6, <1>9, <1>10 DEF CommitInv

\* The caller ends its transaction: what the transaction's fields queued waits for the flush.
LEMMA SettlesCommit ==
  ASSUME PlaceInv, CommitInv, PlaceInv', HostCommits \/ HostRollsBack
  PROVE  CommitInv'
  <1> HIDE DEF Callback
  <1>1. TypeOK /\ host.fate \in Seq(Fate) \ {<<>>} /\ Now \in Nat \ {0} /\ DOMAIN host.fate = 1..Now
    BY DEF PlaceInv, TypeOK, Now
  <1>2. PICK how \in {"committed", "rolledBack"} :
           /\ host.at = "open" /\ (host.awaits => Quiet)
           /\ host' = [host EXCEPT !.at = how, !.fate = [host.fate EXCEPT ![Now] = how]]
           /\ UNCHANGED <<pos, call, queue, flushes, registered, dropped, ran>>
    BY DEF HostCommits, HostRollsBack, Settles
  <1>3. /\ host'.at = how /\ host'.awaits = host.awaits /\ host'.fate = [host.fate EXCEPT ![Now] = how]
    BY <1>1, <1>2 DEF TypeOK
  <1>4. Now' = Now /\ host'.fate[Now] = how /\ \A i \in 1..Now : i # Now => host'.fate[i] = host.fate[i]
    BY <1>1, <1>3 DEF Now
  <1>5. host.fate[Now] = "open"
    BY <1>2 DEF CommitInv
  <1>6. \A c \in Callback : Earned(c) => Earned(c)'
    BY <1>2, <1>4, <1>5 DEF Earned
  <1>7. /\ \A c \in Elements(queue.callbacks) \cup Elements(ran) : c \in Callback
        /\ \A i \in DOMAIN flushes : \A c \in Elements(flushes[i]) : c \in Callback
    BY DEF PlaceInv, TypeOK, Elements
  <1>8. ASSUME host.awaits
        PROVE  /\ \A g \in Field : ~Running(g)'
               /\ \A c \in Elements(queue.callbacks) : call[c[1]].pc = "ok" /\ call[c[1]].tx = Now
               /\ \A i \in DOMAIN flushes : \A c \in Elements(flushes[i]) : Earned(c)'
               /\ \A c \in Elements(ran) : Earned(c)'
    BY <1>2, <1>6, <1>7, <1>8 DEF CommitInv, Quiet, Running
  <1> QED
    BY <1>2, <1>3, <1>4, <1>8 DEF CommitInv

LEMMA BeginsCommit == ASSUME PlaceInv, CommitInv, PlaceInv', HostBegins PROVE CommitInv'
  <1> HIDE DEF Callback
  <1>1. TypeOK /\ host.fate \in Seq(Fate) /\ Now \in Nat /\ DOMAIN host.fate = 1..Now
    BY DEF PlaceInv, TypeOK, Now
  <1>2. /\ host.at = "idle" /\ host' = [host EXCEPT !.at = "open", !.fate = Append(host.fate, "open")]
        /\ UNCHANGED <<pos, call, queue, flushes, registered, dropped, ran>>
    BY DEF HostBegins
  <1>3. /\ host'.at = "open" /\ host'.awaits = host.awaits /\ host'.fate = Append(host.fate, "open")
    BY <1>1, <1>2 DEF TypeOK
  <1>4. "open" \in Fate
    BY DEF Fate
  <1>5. Now' = Now + 1 /\ host'.fate[Now + 1] = "open" /\ \A i \in 1..Now : host'.fate[i] = host.fate[i]
    BY <1>1, <1>3, <1>4 DEF Now
  <1>6. \A c \in Callback : Earned(c) => Earned(c)'
    BY <1>1, <1>2, <1>5 DEF Earned
  <1>7. /\ \A c \in Elements(queue.callbacks) \cup Elements(ran) : c \in Callback
        /\ \A i \in DOMAIN flushes : \A c \in Elements(flushes[i]) : c \in Callback
    BY DEF PlaceInv, TypeOK, Elements
  <1>8. ASSUME host.awaits
        PROVE  /\ \A g \in Field : ~Running(g)'
               /\ Elements(queue.callbacks) = {}
               /\ \A i \in DOMAIN flushes : \A c \in Elements(flushes[i]) : Earned(c)'
               /\ \A c \in Elements(ran) : Earned(c)'
    BY <1>2, <1>6, <1>7, <1>8 DEF CommitInv, Running
  <1> QED
    BY <1>2, <1>3, <1>5, <1>8 DEF CommitInv

\* What a flush runs was on the queue when its transaction had committed.
LEMMA FlushesCommit == ASSUME PlaceInv, CommitInv, PlaceInv', HostFlushes \/ HostDiscards PROVE CommitInv'
  <1> HIDE DEF Callback
  <1>1. /\ TypeOK /\ Now \in Nat \ {0} /\ queue.callbacks \in Seq(Callback)
        /\ flushes \in Seq(Seq(Callback))
    BY DEF PlaceInv, TypeOK, Now
  <1>2. /\ host.at \in {"committed", "rolledBack"} /\ host' = [host EXCEPT !.at = "idle"] /\ queue' = Absent
        /\ UNCHANGED <<call, ran>>
        /\ \/ flushes' = flushes
           \/ flushes' = Append(flushes, queue.callbacks) /\ host.at = "committed"
    BY DEF HostFlushes, HostDiscards
  <1>3. host'.at = "idle" /\ host'.awaits = host.awaits /\ host'.fate = host.fate /\ Now' = Now
    BY <1>1, <1>2 DEF TypeOK, Now
  <1>4. \A c : Earned(c)' <=> Earned(c)
    BY <1>2, <1>3 DEF Earned
  <1>5. ASSUME host.awaits
        PROVE  /\ \A g \in Field : ~Running(g)'
               /\ \A i \in DOMAIN flushes' : \A c \in Elements(flushes'[i]) : Earned(c)'
               /\ \A c \in Elements(ran) : Earned(c)'
    <2>1. \A g \in Field : ~Running(g)'
      BY <1>2, <1>5 DEF CommitInv, Running
    <2>2. /\ \A i \in DOMAIN flushes : \A c \in Elements(flushes[i]) : Earned(c)
          /\ \A c \in Elements(ran) : Earned(c)
      BY <1>5 DEF CommitInv
    <2>3. ASSUME flushes' = Append(flushes, queue.callbacks), host.at = "committed",
                 NEW i \in DOMAIN flushes', NEW c \in Elements(flushes'[i])
          PROVE  Earned(c)
      <3>1. (i \in DOMAIN flushes /\ flushes'[i] = flushes[i]) \/ flushes'[i] = queue.callbacks
        BY <1>1, <2>3
      <3>2. CASE flushes'[i] = queue.callbacks
        <4>1. call[c[1]].pc = "ok" /\ call[c[1]].tx = Now
          BY <1>5, <2>3, <3>2 DEF CommitInv
        <4>2. host.fate[Now] = "committed"
          BY <2>3 DEF CommitInv
        <4>3. Now \in 1..Now
          BY <1>1
        <4> QED
          BY <4>1, <4>2, <4>3 DEF Earned
      <3> QED
        BY <2>2, <2>3, <3>1, <3>2
    <2>4. \A i \in DOMAIN flushes' : \A c \in Elements(flushes'[i]) : Earned(c)
      BY <1>2, <2>2, <2>3
    <2> QED
      BY <1>2, <1>4, <2>1, <2>2, <2>4
  <1>6. Elements(queue'.callbacks) = {}
    BY <1>2 DEF Absent, Elements
  <1> QED
    BY <1>2, <1>3, <1>5, <1>6 DEF CommitInv

LEMMA CallbackCommits ==
  ASSUME PlaceInv, CommitInv, PlaceInv', NEW k \in DOMAIN flushes, RunCallback(k)
  PROVE  CommitInv'
  <1> HIDE DEF Callback
  <1>1. /\ flushes[k] # <<>> /\ flushes[k] \in Seq(Callback) /\ flushes \in Seq(Seq(Callback))
        /\ ran \in Seq(Callback) /\ ran' = Append(ran, Head(flushes[k]))
        /\ flushes' = [flushes EXCEPT ![k] = Tail(flushes[k])]
        /\ UNCHANGED <<host, pos, call, queue, registered, dropped>>
    BY DEF PlaceInv, TypeOK, RunCallback
  <1>2. /\ Head(flushes[k]) \in Callback /\ Head(flushes[k]) \in Elements(flushes[k])
        /\ Elements(Tail(flushes[k])) \subseteq Elements(flushes[k])
    BY <1>1 DEF Elements
  <1>3. Elements(ran') = Elements(ran) \cup {Head(flushes[k])}
    BY <1>1, <1>2, ElementsAppend
  <1>4. /\ DOMAIN flushes' = DOMAIN flushes
        /\ \A i \in DOMAIN flushes : Elements(flushes'[i]) \subseteq Elements(flushes[i])
    BY <1>1, <1>2
  <1>5. (\A c : Earned(c)' <=> Earned(c)) /\ Now' = Now
    BY <1>1 DEF Earned, Now
  <1> QED
    BY <1>1, <1>2, <1>3, <1>4, <1>5 DEF CommitInv, Running

LEMMA CommitInit == Init => CommitInv
  <1> SUFFICES ASSUME Init PROVE CommitInv
    OBVIOUS
  <1>1. host.at = "open" /\ host.fate = <<"open">> /\ Now = 1
    BY DEF Init, Now
  <1>2. \A f \in Field : ~Running(f)
    BY DEF Init, Running
  <1>3. Elements(queue.callbacks) = {} /\ Elements(ran) = {} /\ DOMAIN flushes = {}
    BY DEF Init, Absent, Elements
  <1> QED
    BY <1>1, <1>2, <1>3 DEF CommitInv

LEMMA CommitStep == PlaceInv /\ CommitInv /\ PlaceInv' /\ [Next]_vars => CommitInv'
  <1> SUFFICES ASSUME PlaceInv, CommitInv, PlaceInv', [Next]_vars PROVE CommitInv'
    OBVIOUS
  <1>1. CASE UNCHANGED vars
    BY <1>1 DEF vars, CommitInv, Running, Earned, Now
  <1>2. CASE FieldStep
    BY <1>2, StartCommits, AnswerCommits, BodyStepsCommit DEF FieldStep
  <1>3. CASE Hook
    BY <1>3, BodyStepsCommit DEF Hook
  <1>4. CASE Host
    BY <1>4, SettlesCommit, FlushesCommit, BeginsCommit DEF Host
  <1>5. CASE Callbacks
    BY <1>5, CallbackCommits DEF Callbacks
  <1> QED
    BY <1>1, <1>2, <1>3, <1>4, <1>5 DEF Next, Rest

\* A caller that awaits its executions and follows the documented protocol never sees a callback
\* run for a field that failed or for a transaction that did not commit.
THEOREM OnlyCommittedRun == Spec => []OnlyCommitted
  <1>1. CommitInv => OnlyCommitted
    BY DEF CommitInv, OnlyCommitted, Earned
  <1> QED
    BY <1>1, PlaceInvariant, CommitInit, CommitStep, PTL DEF Spec

=============================================================================
