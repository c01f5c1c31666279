------------------------- MODULE SchemaBuildProofs --------------------------
(***************************************************************************)
(* The helpers read under the right policies, every field of a build is    *)
(* kept, its nested inputs are sound and its own configuration is what it  *)
(* offers: whatever the schema and the configurations are, and whatever    *)
(* was built before.                                                       *)
(*                                                                         *)
(* The register is filled before a build returns, and it may never do so:  *)
(* its invariant is of the builds that were registered, among which every  *)
(* build that returned, or is being assembled, has the place it was given. *)
(* That of the builds is of what each has made of the tables it is done    *)
(* with, and of the caches, which say for every key some configuration it  *)
(* stands for.                                                             *)
(***************************************************************************)
EXTENDS SchemaBuild, TLAPS, FiniteSetTheorems, WellFoundedInduction

\* What the register holds of a database is what was registered over it.
EntryOf(db) ==
  LET entry == registered[db]
      over == RegisteredOver(db)
  IN  /\ entry.count \in Nat
      /\ entry.count = 0 <=> over = {}
      /\ entry.count = 1 <=> \E i : over = {i}
      /\ \A i : over = {i} => entry.only = i
      /\ entry.count # 1 => entry.only = 0
      /\ entry.anyPolicies <=> \E i \in over : HasPolicies(runtimes[i].config)

\* What a build left for the helpers is its own.
Stands(b) ==
  /\ b.runtime \in DOMAIN runtimes
  /\ runtimes[b.runtime].db = b.db
  /\ runtimes[b.runtime].config = b.config

Described == {"db", "config", "phase", "runtime"}

RegisterInv ==
  /\ \E S : built \in Seq(S)
  /\ \E S : runtimes \in Seq(S)
  /\ build.phase # "none" => Described \subseteq DOMAIN build /\ build.db \in Databases
  /\ build.phase = "assemble" => Stands(build)
  /\ \A i \in DOMAIN built : Stands(built[i])
  /\ answer # None => build.phase = "none"
  /\ DOMAIN registered = Databases
  /\ \A db \in Databases : EntryOf(db)

-----------------------------------------------------------------------------
\* A nonempty set of positions has a least one.
LEMMA LeastPosition ==
  ASSUME NEW T \in SUBSET Nat, T # {}
  PROVE  /\ Min(T) \in T
         /\ \A q \in T : Min(T) <= q
<1>1. PICK m \in T : TRUE
  OBVIOUS
<1> DEFINE Intervals == {1..q : q \in {x \in T : x <= m}}
<1>2. IsFiniteSet(1..m)
  BY FS_Interval
<1>3. Intervals \subseteq SUBSET (1..m) /\ 1..m \in Intervals
  BY <1>1
<1>4. IsWellFoundedOn(StrictSubsetOrdering(1..m), SUBSET (1..m))
  BY <1>2, FS_StrictSubsetOrderingWellFounded, FS_FiniteSubsetsOfFinite
<1>5. PICK I \in Intervals : \A J \in Intervals : ~(<<J, I>> \in StrictSubsetOrdering(1..m))
  BY <1>3, <1>4, WFMin
<1>6. PICK p \in T : p <= m /\ I = 1..p
  BY <1>5
<1>7. ASSUME NEW q \in T, q < p PROVE FALSE
  <2>1. 1..q \in Intervals /\ 1..q \subseteq 1..p /\ p \in 1..p /\ p \notin 1..q
    BY <1>1, <1>6, <1>7
  <2>2. <<1..q, I>> \in StrictSubsetOrdering(1..m)
    BY <1>3, <1>6, <2>1 DEF StrictSubsetOrdering
  <2> QED BY <1>5, <2>1, <2>2
<1>8. p \in T /\ \A q \in T : p <= q
  BY <1>6, <1>7
<1> QED BY <1>8 DEF Min

\* registerBuildRuntime keeps the register.
LEMMA FinishRegisters ==
  ASSUME RegisterInv, Finish
  PROVE  RegisterInv'
<1>1. PICK S : runtimes \in Seq(S)
  BY DEF RegisterInv
<1>a. PICK n : n = Len(runtimes) + 1
  OBVIOUS
<1>b. PICK at : at = build.db
  OBVIOUS
<1>c. PICK entry : entry = [db |-> at, config |-> build.config]
  OBVIOUS
<1>2. /\ build.phase = "finish" /\ at \in Databases
      /\ build'.phase = "assemble" /\ build'.db = at /\ build'.config = build.config /\ build'.runtime = n
      /\ Described \subseteq DOMAIN build'
      /\ built' = built /\ answer' = answer
      /\ runtimes' = Append(runtimes, entry)
  BY <1>a, <1>b, <1>c DEF RegisterInv, Finish, Described
<1>3. entry.db = at /\ entry.config = build.config
  BY <1>c
<1>4. /\ DOMAIN runtimes' = DOMAIN runtimes \cup {n} /\ n \notin DOMAIN runtimes
      /\ runtimes'[n] = entry
      /\ \A i \in DOMAIN runtimes : runtimes'[i] = runtimes[i]
  BY <1>1, <1>2, <1>a
<1>5. ASSUME NEW db \in Databases, db # at PROVE EntryOf(db)'
  <2>1. registered'[db] = registered[db]
    BY <1>5, <1>b DEF Finish, RegisterInv
  <2>2. RegisteredOver(db)' = RegisteredOver(db)
    BY <1>3, <1>4, <1>5 DEF RegisteredOver
  <2>3. EntryOf(db)
    BY <1>5 DEF RegisterInv
  <2>4. (\E i \in RegisteredOver(db)' : HasPolicies(runtimes'[i].config))
        <=> (\E i \in RegisteredOver(db) : HasPolicies(runtimes[i].config))
    BY <1>4, <2>2 DEF RegisteredOver
  <2> QED BY <2>1, <2>2, <2>3, <2>4 DEF EntryOf
<1>6. EntryOf(at)'
  <2> DEFINE over == RegisteredOver(at)
  <2>1. EntryOf(at)
    BY <1>2 DEF RegisterInv
  <2>2. registered'[at] = [count |-> registered[at].count + 1,
                           only |-> IF registered[at].count = 0 THEN n ELSE 0,
                           anyPolicies |-> AnyPolicies(at, build.config)]
    BY <1>2, <1>a, <1>b DEF Finish, RegisterInv
  <2>3. over' = over \cup {n} /\ n \notin over
    BY <1>3, <1>4 DEF RegisteredOver
  <2>4. registered'[at].anyPolicies <=> \E i \in over' : HasPolicies(runtimes'[i].config)
    <3>1. (\E i \in over' : HasPolicies(runtimes'[i].config))
          <=> (\E i \in over : HasPolicies(runtimes[i].config)) \/ HasPolicies(build.config)
      BY <1>3, <1>4, <2>3 DEF RegisteredOver
    <3>2. registered'[at].anyPolicies = AnyPolicies(at, build.config)
      BY <2>2
    <3>3. registered[at].anyPolicies <=> \E i \in over : HasPolicies(runtimes[i].config)
      BY <2>1, Zenon DEF EntryOf
    <3>4. registered'[at].anyPolicies <=> registered[at].anyPolicies \/ HasPolicies(build.config)
      BY <3>2, Zenon DEF AnyPolicies
    <3> QED BY <3>1, <3>3, <3>4, Zenon
  <2>5. registered[at].count \in Nat /\ (registered[at].count = 0 <=> over = {})
    BY <2>1 DEF EntryOf
  <2>6. (\E i : over' = {i}) <=> over = {}
    BY <2>3
  <2>7. \A i : over' = {i} => i = n /\ over = {}
    BY <2>3
  <2>8. over' # {}
    BY <2>3
  <2>9. /\ registered'[at].count = registered[at].count + 1
        /\ registered'[at].only = IF registered[at].count = 0 THEN n ELSE 0
    BY <2>2
  <2>10. registered'[at].count \in Nat /\ registered'[at].count # 0
    BY <2>5, <2>9
  <2>11. registered'[at].count = 1 <=> \E i : over' = {i}
    <3>1. registered'[at].count = 1 <=> over = {}
      BY <2>5, <2>9
    <3> QED BY <2>6, <3>1, Zenon
  <2>12. \A i : over' = {i} => registered'[at].only = i
    BY <2>5, <2>7, <2>9
  <2>13. registered'[at].count # 1 => registered'[at].only = 0
    BY <2>5, <2>9
  <2> QED BY <2>4, <2>8, <2>10, <2>11, <2>12, <2>13, Zenon DEF EntryOf
<1>7. DOMAIN registered' = Databases
  BY DEF Finish, RegisterInv
<1>8. \A db \in Databases : EntryOf(db)'
  BY <1>5, <1>6
<1>9. answer' = None
  BY <1>2 DEF RegisterInv
<1>10. \E T : runtimes' \in Seq(T)
  <2>1. runtimes \in Seq(S \cup {entry})
    BY <1>1
  <2>2. runtimes' \in Seq(S \cup {entry})
    BY <1>2, <2>1
  <2> QED BY <2>2
<1>11. Stands(build)'
  BY <1>2, <1>3, <1>4 DEF Stands
<1>12. (\A i \in DOMAIN built : Stands(built[i]))'
  BY <1>2, <1>4 DEF RegisterInv, Stands
<1> QED BY <1>2, <1>7, <1>8, <1>9, <1>10, <1>11, <1>12 DEF RegisterInv

\* A step that registers nothing keeps the entries.
LEMMA SameRegister ==
  ASSUME RegisterInv, UNCHANGED <<runtimes, registered>>
  PROVE  /\ \E S : runtimes' \in Seq(S)
         /\ DOMAIN registered' = Databases
         /\ \A db \in Databases : EntryOf(db)'
<1>1. ASSUME NEW db \in Databases PROVE EntryOf(db)'
  <2>1. RegisteredOver(db)' = RegisteredOver(db)
    BY DEF RegisteredOver
  <2>2. EntryOf(db)
    BY DEF RegisterInv
  <2> QED BY <2>1, <2>2 DEF EntryOf
<1> QED BY <1>1 DEF RegisterInv

\* The build that is assembled returns, with the place it was given.
LEMMA AssembleKeeps ==
  ASSUME RegisterInv, Assemble
  PROVE  RegisterInv'
<1>1. PICK S : built \in Seq(S)
  BY DEF RegisterInv
<1>2. PICK X : /\ built' = Append(built, X)
               /\ X.db = build.db /\ X.config = build.config /\ X.runtime = build.runtime
  <2>1. build.phase = "assemble" /\ Described \subseteq DOMAIN build
    BY DEF Assemble, RegisterInv
  <2>2. PICK offers : built' = Append(built, [build EXCEPT !.phase = "built", !.offers = offers])
    BY DEF Assemble
  <2>3. LET X == [build EXCEPT !.phase = "built", !.offers = offers]
        IN  X.db = build.db /\ X.config = build.config /\ X.runtime = build.runtime
    BY <2>1 DEF Described
  <2> QED BY <2>2, <2>3
<1>3. /\ build.phase = "assemble" /\ build'.phase = "none"
      /\ UNCHANGED <<runtimes, registered>> /\ answer' = answer
  BY DEF Assemble, NoBuild
<1>4. Stands(X)
  BY <1>2, <1>3 DEF RegisterInv, Stands
<1>5. built' \in Seq(S \cup {X})
  <2>1. built \in Seq(S \cup {X})
    BY <1>1
  <2> QED BY <1>2, <2>1
<1>6. \A i \in DOMAIN built' : built'[i] = X \/ (i \in DOMAIN built /\ built'[i] = built[i])
  BY <1>1, <1>2
<1>7. (\A i \in DOMAIN built : Stands(built[i]))'
  BY <1>3, <1>4, <1>6 DEF RegisterInv, Stands
<1> QED BY <1>3, <1>5, <1>7, SameRegister DEF RegisterInv

\* A step of a build that neither registers nor returns, or of a helper.
LEMMA OtherSteps ==
  ASSUME RegisterInv, built' = built, UNCHANGED <<runtimes, registered>>,
         build'.phase # "assemble" \/ build' = build,
         build'.phase # "none" => Described \subseteq DOMAIN build' /\ build'.db \in Databases,
         answer' # None => build'.phase = "none"
  PROVE  RegisterInv'
<1>1. (\A i \in DOMAIN built : Stands(built[i]))'
  BY DEF RegisterInv, Stands
<1>2. build'.phase = "assemble" => Stands(build)'
  BY DEF RegisterInv, Stands
<1> QED BY <1>1, <1>2, SameRegister DEF RegisterInv

LEMMA RegisterInit == Init => RegisterInv
<1> SUFFICES ASSUME Init PROVE RegisterInv
  OBVIOUS
<1>1. build.phase = "none" /\ built = <<>> /\ runtimes = <<>> /\ answer = None
  BY DEF Init, NoBuild
<1>2. \A db : RegisteredOver(db) = {}
  BY <1>1 DEF RegisteredOver
<1>3. ASSUME NEW db \in Databases PROVE EntryOf(db)
  <2>1. registered[db].count = 0 /\ registered[db].only = 0 /\ registered[db].anyPolicies = FALSE
    BY DEF Init
  <2> QED BY <1>2, <2>1 DEF EntryOf
<1>4. built \in Seq({}) /\ runtimes \in Seq({})
  BY <1>1
<1> QED BY <1>1, <1>3, <1>4 DEF Init, RegisterInv

LEMMA RegisterStep == RegisterInv /\ [Next]_vars => RegisterInv'
<1> SUFFICES ASSUME RegisterInv, [Next]_vars PROVE RegisterInv'
  OBVIOUS
<1>1. ASSUME NEW db \in Databases, NEW c \in Configs, Refuse(db, c) PROVE RegisterInv'
  BY <1>1, OtherSteps DEF Refuse, RegisterInv, Idle, NoBuild
<1>2. ASSUME NEW db \in Databases, NEW c \in Configs, Prepare(db, c) PROVE RegisterInv'
  <2>1. answer' = None /\ built' = built /\ UNCHANGED <<runtimes, registered>>
    BY <1>2 DEF Prepare, Idle
  <2>2. build'.phase = "reads" /\ build'.db = db /\ Described \subseteq DOMAIN build'
    BY <1>2 DEF Prepare, Described
  <2> QED BY <2>1, <2>2, OtherSteps
<1>3. CASE AddReads
  <2>1. build.phase = "reads" /\ answer' = answer /\ built' = built /\ UNCHANGED <<runtimes, registered>>
    BY <1>3 DEF AddReads
  <2>2. \/ build' = NoBuild
        \/ build'.phase = "writes" /\ build'.db = build.db /\ Described \subseteq DOMAIN build'
    BY <1>3, <2>1 DEF AddReads, Throw, RegisterInv, Described
  <2> QED BY <2>1, <2>2, OtherSteps DEF RegisterInv, NoBuild
<1>4. CASE AddWrites
  <2>1. build.phase = "writes" /\ answer' = answer /\ built' = built /\ UNCHANGED <<runtimes, registered>>
    BY <1>4 DEF AddWrites
  <2>2. \/ build' = NoBuild
        \/ /\ build'.phase \in {"finish", "reads"} /\ build'.db = build.db
           /\ Described \subseteq DOMAIN build'
    BY <1>4, <2>1 DEF AddWrites, Throw, RegisterInv, Described
  <2> QED BY <2>1, <2>2, OtherSteps DEF RegisterInv, NoBuild
<1>5. CASE Finish
  BY <1>5, FinishRegisters
<1>6. CASE Assemble
  BY <1>6, AssembleKeeps
<1>7. CASE Abandon \/ AssemblyThrows
  <2>1. /\ build.phase # "none" /\ build'.phase = "none" /\ answer' = answer /\ built' = built
        /\ UNCHANGED <<runtimes, registered>>
    BY <1>7 DEF Abandon, AssemblyThrows, Throw, NoBuild
  <2> QED BY <2>1, OtherSteps DEF RegisterInv
<1>8. ASSUME NEW call \in Calls, Help(call) PROVE RegisterInv'
  BY <1>8, OtherSteps DEF Help, Idle, NoBuild
<1>9. CASE Return
  BY <1>9, OtherSteps DEF Return, RegisterInv
<1>10. CASE UNCHANGED vars
  BY <1>10, OtherSteps DEF vars, RegisterInv
<1> QED BY <1>1, <1>2, <1>3, <1>4, <1>5, <1>6, <1>7, <1>8, <1>9, <1>10 DEF Next

-----------------------------------------------------------------------------
\* A call whose types belong to schemas over its database names the first of those.
LEMMA FirstNamed ==
  ASSUME NEW call, DOMAIN call.types \subseteq Nat,
         \A n \in DOMAIN call.types : 1..n \subseteq DOMAIN call.types /\ n # 0,
         Reached(call) = {n \in DOMAIN call.types : call.types[n] \in SchemasOver(call.db)}
  PROVE  NamedSchema(call) = IF Reached(call) = {} THEN {} ELSE {call.types[Min(Reached(call))]}
<1> DEFINE over == SchemasOver(call.db)
           named == {i \in over : \E n \in DOMAIN call.types : call.types[n] = i}
           Leads(i) == \E n \in DOMAIN call.types :
                         call.types[n] = i /\ \A m \in 1..n - 1 : call.types[m] \notin named
<1>1. NamedSchema(call) = {i \in named : Leads(i)}
  BY Zenon DEF NamedSchema
<1>2. Reached(call) = {n \in DOMAIN call.types : call.types[n] \in named}
  OBVIOUS
<1> HIDE DEF over
<1>3. CASE Reached(call) = {}
  <2>1. named = {}
    BY <1>2, <1>3
  <2> QED BY <1>1, <1>3, <2>1
<1>4. CASE Reached(call) # {}
  <2>1. PICK p : p = Min(Reached(call))
    OBVIOUS
  <2>2. p \in Reached(call) /\ \A q \in Reached(call) : p <= q
    BY <1>2, <1>4, <2>1, LeastPosition
  <2>3. p \in DOMAIN call.types /\ call.types[p] \in named /\ p \in Nat /\ p # 0
    BY <1>2, <2>2
  <2>4. Leads(call.types[p])
    <3>1. ASSUME NEW q \in 1..p - 1 PROVE call.types[q] \notin named
      <4>1. q \in DOMAIN call.types /\ q \in Nat /\ ~(p <= q)
        BY <2>3
      <4> QED BY <1>2, <2>2, <4>1
    <3> QED BY <2>3, <3>1
  <2>5. ASSUME NEW i \in named, Leads(i) PROVE i = call.types[p]
    <3>1. PICK n \in DOMAIN call.types :
            call.types[n] = i /\ \A q \in 1..n - 1 : call.types[q] \notin named
      BY <2>5
    <3>2. n \in Reached(call) /\ n \in Nat
      BY <1>2, <3>1
    <3>3. p <= n /\ ~(p \in 1..n - 1)
      BY <2>2, <2>3, <3>1, <3>2
    <3>4. p = n
      BY <2>3, <3>2, <3>3
    <3> QED BY <3>1, <3>4
  <2> HIDE DEF Leads, named
  <2>6. {i \in named : Leads(i)} = {call.types[p]}
    BY <2>3, <2>4, <2>5
  <2> QED BY <1>1, <1>4, <2>1, <2>6
<1> QED BY <1>3, <1>4

\* What the register gives a call is what the call means.
LEMMA RuntimeIsMeant ==
  ASSUME RegisterInv, NEW call \in Calls, Help(call)
  PROVE  /\ Meant(call) = IF RuntimeFor(call) = 0 THEN {} ELSE {runtimes[RuntimeFor(call)].config}
         /\ (Meant(call) = {} /\ \E i \in RegisteredOver(call.db) : HasPolicies(runtimes[i].config))
            <=> (Reached(call) = {} /\ registered[call.db].count > 1 /\ registered[call.db].anyPolicies)
<1> DEFINE over == RegisteredOver(call.db)
           some == \E i \in over : HasPolicies(runtimes[i].config)
           entry == registered[call.db]
<1>1. PICK S, T : built \in Seq(S) /\ runtimes \in Seq(T)
  BY DEF RegisterInv
<1>2. /\ Len(built) \in Nat /\ DOMAIN built = 1..Len(built) /\ call.db \in Databases
      /\ Len(runtimes) \in Nat /\ DOMAIN runtimes = 1..Len(runtimes)
      /\ DOMAIN call.types = 1..Len(call.types) /\ Len(call.types) \in Nat
      /\ \A n \in DOMAIN call.types : call.types[n] \in Nat /\ call.types[n] <= Len(built)
  BY <1>1, SchemaBuildAssumption DEF Help
<1>3. /\ entry.count \in Nat
      /\ entry.count = 0 <=> over = {}
      /\ entry.count = 1 <=> \E i : over = {i}
      /\ \A i : over = {i} => entry.only = i
      /\ entry.count # 1 => entry.only = 0
      /\ entry.anyPolicies <=> some
  <2>1. EntryOf(call.db)
    BY <1>2 DEF RegisterInv
  <2> QED BY <2>1, Zenon DEF EntryOf
<1>4. Cardinality(over) = 1 <=> \E i : over = {i}
  <2>1. IsFiniteSet(1..Len(runtimes)) /\ over \in SUBSET (1..Len(runtimes))
    BY <1>2, FS_Interval DEF RegisteredOver
  <2>2. IsFiniteSet(over)
    BY <2>1, FS_Subset
  <2> QED BY <2>2, FS_Singleton
<1>5. Reached(call) = {n \in DOMAIN call.types : call.types[n] \in SchemasOver(call.db)}
  BY <1>2 DEF Reached, SchemasOver
<1>6. \A i \in over : i # 0
  BY <1>2 DEF RegisteredOver
<1>7. NamedSchema(call) = IF Reached(call) = {} THEN {} ELSE {call.types[Min(Reached(call))]}
  <2>1. \A n \in DOMAIN call.types : 1..n \subseteq DOMAIN call.types /\ n # 0
    BY <1>2
  <2>2. DOMAIN call.types \subseteq Nat
    BY <1>2
  <2> QED BY <1>5, <2>1, <2>2, FirstNamed
<1>8. CASE Reached(call) # {}
  <2>1. PICK r : r = call.types[Min(Reached(call))]
    OBVIOUS
  <2>2. r \in DOMAIN built
    <3>1. Reached(call) \in SUBSET Nat
      BY <1>2 DEF Reached
    <3>2. Min(Reached(call)) \in Reached(call)
      BY <1>8, <3>1, LeastPosition
    <3> QED BY <1>5, <2>1, <3>2 DEF SchemasOver
  <2>3. Meant(call) = {built[r].config}
    <3>1. NamedSchema(call) = {r}
      BY <1>7, <1>8, <2>1
    <3> QED BY <3>1 DEF Meant
  <2>4. /\ RuntimeFor(call) = built[r].runtime /\ built[r].runtime # 0
        /\ runtimes[built[r].runtime].config = built[r].config
    BY <1>2, <1>8, <2>1, <2>2 DEF RuntimeFor, RegisterInv, Stands
  <2> QED BY <1>8, <2>3, <2>4
<1>9. CASE Reached(call) = {}
  <2>1. Meant(call) = IF Cardinality(over) = 1 THEN {runtimes[i].config : i \in over} ELSE {}
    BY <1>7, <1>9 DEF Meant
  <2>2. RuntimeFor(call) = entry.only
    BY <1>9 DEF RuntimeFor
  <2> HIDE DEF over, some, entry
  <2>3. CASE entry.count = 1
    <3>1. PICK i : over = {i}
      BY <1>3, <2>3
    <3>2. Meant(call) = {runtimes[i].config} /\ RuntimeFor(call) = i /\ i # 0
      BY <1>3, <1>4, <1>6, <2>1, <2>2, <3>1
    <3> QED BY <2>3, <3>2 DEF entry
  <2>4. CASE entry.count # 1
    <3>1. Meant(call) = {} /\ RuntimeFor(call) = 0
      BY <1>3, <1>4, <2>1, <2>2, <2>4
    <3>2. some => entry.count > 1
      BY <1>3, <2>4 DEF some
    <3>3. entry.anyPolicies <=> some
      BY <1>3, Zenon
    <3>4. some <=> entry.count > 1 /\ entry.anyPolicies
      BY <3>2, <3>3, Zenon
    <3> QED BY <1>9, <3>1, <3>4, Zenon DEF some, over, entry
  <2> QED BY <2>3, <2>4
<1> QED BY <1>8, <1>9

\* A call that names no schema, and is not refused, is read under the policies of every schema
\* over its database that has any: no other build was registered there.
LEMMA NonePassedOver ==
  ASSUME RegisterInv, NEW call \in Calls, NamedSchema(call) = {},
         ~(Meant(call) = {} /\ \E i \in RegisteredOver(call.db) : HasPolicies(runtimes[i].config)),
         NEW i \in SchemasOver(call.db), HasPolicies(built[i].config)
  PROVE  Meant(call) = {built[i].config}
<1>1. /\ built[i].runtime \in RegisteredOver(call.db)
      /\ runtimes[built[i].runtime].config = built[i].config
  BY DEF SchemasOver, RegisteredOver, RegisterInv, Stands
<1>2. Cardinality(RegisteredOver(call.db)) = 1
  BY <1>1 DEF Meant
<1>3. IsFiniteSet(RegisteredOver(call.db))
  <2>1. PICK T : runtimes \in Seq(T)
    BY DEF RegisterInv
  <2>2. IsFiniteSet(1..Len(runtimes)) /\ RegisteredOver(call.db) \in SUBSET (1..Len(runtimes))
    BY <2>1, FS_Interval DEF RegisteredOver
  <2> QED BY <2>2, FS_Subset
<1>4. RegisteredOver(call.db) = {built[i].runtime}
  BY <1>1, <1>2, <1>3, FS_Singleton
<1> QED BY <1>1, <1>2, <1>4 DEF Meant

\* What a helper answers when the register is right.
LEMMA HelpAnswers ==
  ASSUME RegisterInv, NEW call \in Calls, Help(call)
  PROVE  HelperPolicies'
<1>1. /\ answer' = [call |-> call, refused |-> HelperRefuses(call),
                    applied |-> IF HelperRefuses(call) \/ RuntimeFor(call) = 0 THEN None
                                ELSE runtimes[RuntimeFor(call)].config]
      /\ built' = built /\ runtimes' = runtimes
  BY DEF Help
<1> DEFINE unclear == Meant(call) = {} /\ \E i \in RegisteredOver(call.db) : HasPolicies(runtimes[i].config)
           unscoped == ~call.context /\ \E c \in Meant(call) : HasRowScope(c)
<1>2. /\ Meant(call)' = Meant(call) /\ NamedSchema(call)' = NamedSchema(call)
      /\ SchemasOver(call.db)' = SchemasOver(call.db) /\ RegisteredOver(call.db)' = RegisteredOver(call.db)
  BY <1>1 DEF Meant, NamedSchema, SchemasOver, RegisteredOver
<1>3. HelperRefuses(call) <=> unclear \/ unscoped
  <2>1. unscoped <=> (RuntimeFor(call) # 0 /\ HasRowScope(runtimes[RuntimeFor(call)].config) /\ ~call.context)
    BY RuntimeIsMeant
  <2>2. unclear <=> (Reached(call) = {} /\ registered[call.db].count > 1 /\ registered[call.db].anyPolicies)
    BY RuntimeIsMeant, Zenon
  <2> HIDE DEF unclear, unscoped
  <2> QED BY <2>1, <2>2, Zenon DEF HelperRefuses
<1>4. HelperRefuses(call) \in BOOLEAN
  BY DEF HelperRefuses
<1>5. answer'.call = call /\ answer'.refused = HelperRefuses(call)
  BY <1>1
<1>6. answer'.refused = (unclear \/ unscoped)
  BY <1>3, <1>4, <1>5
<1>7. ~answer'.refused =>
        IF Meant(call) = {} THEN answer'.applied = None ELSE answer'.applied \in Meant(call)
  BY <1>1, RuntimeIsMeant
<1>8. ~answer'.refused /\ NamedSchema(call) = {} => \A i \in SchemasOver(call.db) :
        HasPolicies(built[i].config) => answer'.applied = built[i].config
  <2>1. ~answer'.refused => ~unclear
    BY <1>6
  <2>2. ASSUME ~unclear, NamedSchema(call) = {}, NEW i \in SchemasOver(call.db), HasPolicies(built[i].config)
        PROVE  Meant(call) = {built[i].config}
    BY <2>2, NonePassedOver
  <2> HIDE DEF unclear
  <2> QED BY <1>7, <2>1, <2>2
<1> QED BY <1>1, <1>2, <1>5, <1>6, <1>7, <1>8, Zenon DEF HelperPolicies

\* Whatever was built before, returned or thrown at any stage, and in whatever order: a helper reads
\* under the policies of the schema its types belong to, or of the only build registered, refuses
\* when it cannot tell, and never passes over those of a schema that was returned.
THEOREM HelpersReadUnderTheirPolicies == Spec => []HelperPolicies
<1>1. Init => RegisterInv /\ HelperPolicies
  BY RegisterInit DEF Init, HelperPolicies
<1>2. RegisterInv /\ HelperPolicies /\ [Next]_vars => (RegisterInv /\ HelperPolicies)'
  <2> SUFFICES ASSUME RegisterInv, HelperPolicies, [Next]_vars PROVE HelperPolicies'
    BY RegisterStep
  <2>1. CASE UNCHANGED vars
    <3>1. answer' = answer /\ built' = built /\ runtimes' = runtimes
      BY <2>1 DEF vars
    <3>2. ASSUME NEW call
          PROVE  /\ Meant(call)' = Meant(call) /\ NamedSchema(call)' = NamedSchema(call)
                 /\ SchemasOver(call.db)' = SchemasOver(call.db)
                 /\ RegisteredOver(call.db)' = RegisteredOver(call.db)
      BY <3>1 DEF Meant, NamedSchema, SchemasOver, RegisteredOver
    <3> QED BY <3>1, <3>2 DEF HelperPolicies
  <2>2. ASSUME NEW call \in Calls, Help(call) PROVE HelperPolicies'
    BY <2>2, HelpAnswers
  <2>3. CASE answer' = None
    BY <2>3 DEF HelperPolicies
  <2>4. ASSUME Next, answer' # None PROVE \E call \in Calls : Help(call)
    <3>1. answer' # answer \/ build.phase = "none"
      BY <2>4 DEF RegisterInv
    <3>2. /\ \A db \in Databases, c \in Configs : ~Refuse(db, c) /\ ~Prepare(db, c)
          /\ ~Return
      BY <2>4 DEF Refuse, Prepare, Return, Idle
    <3>3. ~AddReads /\ ~AddWrites /\ ~Finish /\ ~Assemble /\ ~Abandon /\ ~AssemblyThrows
      BY <2>4, <3>1 DEF AddReads, AddWrites, Finish, Assemble, Abandon, AssemblyThrows
    <3> QED BY <2>4, <3>2, <3>3 DEF Next
  <2> QED BY <2>1, <2>2, <2>3, <2>4
<1> QED BY <1>1, <1>2, PTL DEF Spec
-----------------------------------------------------------------------------
(* What a build has made of its configuration, and what the caches hold. *)

Configured == First \cup Later

\* A cached enum has columns, and they are those of a configuration the key stands for.
EnumsRight(cache) ==
  \A key \in DOMAIN cache : \E c \in Configured, db \in Databases, t \in Tables, kind \in EnumKinds :
    /\ key = EnumKey([db |-> db, config |-> c], t, kind)
    /\ cache[key] = EnumColumns(c, t, kind)
    /\ cache[key] # {}

\* Cached order fields are those of a table without hidden columns.
OrdersRight(cache) ==
  \A key \in DOMAIN cache : \E c \in Configured, db \in Databases, t \in Tables :
    /\ Cacheable(c, t)
    /\ key = OrderKey([db |-> db, config |-> c], t)
    /\ cache[key] = Orderable(c, t)

\* Columns offered for w as its configuration has them, but for lists of numbers to group by.
Overridable(t) == {column \in ColumnsOf(t) : Column[t][column].list}
ColumnsFor(c, w) == IF w[2] = "OrderBy" THEN Orderable(c, w[1]) ELSE EnumColumns(c, w[1], w[2])
Agrees(c, w, offered) ==
  (offered \ ColumnsFor(c, w)) \cup (ColumnsFor(c, w) \ offered)
    \subseteq IF w[2] = "GroupByColumn" THEN Overridable(w[1]) ELSE {}

\* Each of these fields is there, under its own name.
Names(c, fields, generated) ==
  \A f \in generated : FieldName(c, f) \in DOMAIN fields /\ fields[FieldName(c, f)] = f

MayUpsert(b, t) ==
  /\ "upsert" \in FeatureOf(b.config, t)
  /\ \A kind \in {"UpdateColumn"} \cup (IF Dialect[b.db] = "mysql" THEN {} ELSE {"ConflictTarget"}) :
       EnumColumns(b.config, t, kind) # {}

BuildFields == {"db", "config", "phase", "left", "queries", "mutations", "roster", "offers",
                "runtime"}

\* A build, on its way or returned, has the fields of every table it is done with.
Right(b) ==
  LET c == b.config
  IN  /\ DOMAIN b = BuildFields /\ b.db \in Databases
      /\ c \in Configured /\ ~Refuses(c)
      /\ b.left \subseteq BuiltTables(c)
      /\ b.left # {} <=> b.phase \in {"reads", "writes"}
      /\ \A t \in BuiltTables(c) \ b.left :
           /\ Names(c, b.queries, ReadFields(c, t))
           /\ Names(c, b.mutations, WriteFields(c, t, MayUpsert(b, t)))
      /\ \A w \in DOMAIN b.offers : Agrees(c, w, b.offers[w])
      /\ b.phase \in {"assemble", "built"} /\ c.transactions => b.roster = DOMAIN b.mutations
      /\ b.phase = "built" =>
           \A t \in BuiltTables(c) : HasOrderFields(c, t) => <<t, "OrderBy">> \in DOMAIN b.offers

BuildInv ==
  /\ EnumsRight(enumCache) /\ OrdersRight(orderCache)
  /\ build.phase \in {"none", "reads", "writes", "finish", "assemble"}
  /\ build.phase # "none" => Right(build)
  /\ build.phase = "writes" => Names(build.config, build.queries, ReadFields(build.config, Table))
  /\ \A i \in DOMAIN built : Right(built[i]) /\ built[i].phase = "built"

-----------------------------------------------------------------------------
\* Two builds find one enum under a key: it is of one table and one kind, and they agree on what
\* its columns are, but for lists of numbers to group by.
LEMMA KeyTellsColumns ==
  ASSUME NEW a, NEW b, a.config \in Configured, b.config \in Configured,
         NEW t \in Tables, NEW u \in Tables, NEW kind \in EnumKinds, NEW other \in EnumKinds,
         EnumKey(a, t, kind) = EnumKey(b, u, other)
  PROVE  /\ t = u /\ kind = other
         /\ kind # "GroupByColumn" => EnumColumns(a.config, t, kind) = EnumColumns(b.config, t, kind)
         /\ kind = "GroupByColumn" => EnumColumns(a.config, t, kind) \ EnumColumns(b.config, t, kind) \subseteq Overridable(t)
<1> DEFINE c == a.config
           d == b.config
<1>1. /\ TableObject(a.db, t) = TableObject(b.db, u)
      /\ EnumName(c, t, kind) = EnumName(d, u, other)
      /\ Hidden(c, t) = Hidden(d, u)
      /\ (IF kind = "UpdateColumn" THEN <<ContextColumns(c, t), Marker(c, t)>> ELSE None)
         = IF other = "UpdateColumn" THEN <<ContextColumns(d, u), Marker(d, u)>> ELSE None
  BY DEF EnumKey
<1>2. t = u
  BY <1>1 DEF TableObject
<1>3. kind = other
  BY <1>1, <1>2, KindsAssumption DEF Configured
<1>4. Visible(c, t) = Visible(d, t) /\ Orderable(c, t) = Orderable(d, t) /\ UniqueColumns(c, t) = UniqueColumns(d, t)
  <2>1. Visible(c, t) = Visible(d, t)
    BY <1>1, <1>2 DEF Visible
  <2> QED BY <2>1 DEF Orderable, UniqueColumns
<1>5. kind = "UpdateColumn" => Writable(c, t) = Writable(d, t)
  BY <1>1, <1>2, <1>3, <1>4 DEF Writable, IsWritable
<1>6. Groupable(c, t) \ Groupable(d, t) \subseteq Overridable(t)
  BY <1>4 DEF Groupable, Overridable, Orderable, Visible
<1> QED BY <1>2, <1>3, <1>4, <1>5, <1>6 DEF EnumColumns, EnumKinds

\* Where the cache is right, each of the enums asked for has the columns of the build that asks,
\* and the cache stays right.
LEMMA GeneratedRight ==
  ASSUME EnumsRight(enumCache), NEW b, b.config \in Configured, b.db \in Databases,
         NEW wanted \in SUBSET (Tables \X EnumKinds)
  PROVE  /\ EnumsRight(Generated(b, wanted))
         /\ \A w \in wanted :
              /\ w[2] # "GroupByColumn" =>
                   EnumIn(Generated(b, wanted), b, w[1], w[2]) = EnumColumns(b.config, w[1], w[2])
              /\ Agrees(b.config, w, EnumIn(Generated(b, wanted), b, w[1], w[2]))
<1> DEFINE c == b.config
           Key(w) == EnumKey(b, w[1], w[2])
           Cols(w) == EnumColumns(c, w[1], w[2])
           keys == {Key(w) : w \in {w \in wanted : Cols(w) # {}}}
           Chosen(key) == CHOOSE w \in wanted : Key(w) = key
           fresh == [key \in keys |-> Cols(Chosen(key))]
           cache == Generated(b, wanted)
<1>1. cache = Filled(enumCache, fresh)
  BY DEF Generated
<1>2. ASSUME NEW w \in wanted PROVE w[1] \in Tables /\ w[2] \in EnumKinds /\ w = <<w[1], w[2]>>
  OBVIOUS
<1>3. ASSUME NEW v \in wanted, NEW w \in wanted, Key(v) = Key(w) PROVE v = w
  <2>1. v[1] = w[1] /\ v[2] = w[2]
    BY <1>2, <1>3, KeyTellsColumns
  <2> QED BY <1>2, <2>1
<1>4. ASSUME NEW w \in wanted, Cols(w) # {} PROVE Key(w) \in keys /\ fresh[Key(w)] = Cols(w)
  <2>1. Chosen(Key(w)) = w
    BY <1>3
  <2> HIDE DEF Chosen, Key
  <2> QED BY <1>4, <2>1
<1>5. /\ DOMAIN cache = DOMAIN enumCache \cup keys
      /\ \A key \in DOMAIN enumCache : cache[key] = enumCache[key]
      /\ \A key \in keys : key \notin DOMAIN enumCache => cache[key] = fresh[key]
  <2>1. DOMAIN fresh = keys
    OBVIOUS
  <2> HIDE DEF fresh, keys, cache
  <2> QED BY <1>1, <2>1 DEF Filled, Given
<1> HIDE DEF cache, fresh
<1>6. EnumsRight(cache)
  <2>1. ASSUME NEW key \in DOMAIN enumCache
        PROVE  \E d \in Configured, db \in Databases, t \in Tables, kind \in EnumKinds :
                 /\ key = EnumKey([db |-> db, config |-> d], t, kind)
                 /\ cache[key] = EnumColumns(d, t, kind) /\ cache[key] # {}
    BY <1>5 DEF EnumsRight
  <2>2. ASSUME NEW key \in keys, key \notin DOMAIN enumCache
        PROVE  \E d \in Configured, db \in Databases, t \in Tables, kind \in EnumKinds :
                 /\ key = EnumKey([db |-> db, config |-> d], t, kind)
                 /\ cache[key] = EnumColumns(d, t, kind) /\ cache[key] # {}
    <3>1. PICK w \in wanted : key = Key(w) /\ Cols(w) # {}
      OBVIOUS
    <3>2. cache[key] = Cols(w)
      BY <1>4, <1>5, <2>2, <3>1
    <3>3. Key(w) = EnumKey([db |-> b.db, config |-> c], w[1], w[2])
      BY DEF EnumKey
    <3> QED BY <1>2, <3>1, <3>2, <3>3
  <2> QED BY <1>5, <2>1, <2>2 DEF EnumsRight
<1>7. ASSUME NEW w \in wanted
      PROVE  /\ w[2] # "GroupByColumn" => EnumIn(cache, b, w[1], w[2]) = Cols(w)
             /\ Agrees(c, w, EnumIn(cache, b, w[1], w[2]))
  <2>1. EnumIn(cache, b, w[1], w[2]) = IF Key(w) \in DOMAIN cache THEN cache[Key(w)] ELSE {}
    BY DEF EnumIn, At, Given
  <2>2. ColumnsFor(c, w) = Cols(w)
    BY <1>2 DEF ColumnsFor, EnumKinds
  <2> HIDE DEF Key, Cols, keys
  <2>3. CASE Key(w) \notin DOMAIN cache
    <3>1. Cols(w) = {}
      BY <1>4, <1>5, <2>3
    <3> QED BY <2>1, <2>2, <2>3, <3>1 DEF Agrees
  <2>4. CASE Key(w) \in DOMAIN cache
    <3>1. PICK d \in Configured, db \in Databases, t \in Tables, kind \in EnumKinds :
            Key(w) = EnumKey([db |-> db, config |-> d], t, kind) /\ cache[Key(w)] = EnumColumns(d, t, kind)
      BY <1>6, <2>4 DEF EnumsRight
    <3> DEFINE a == [db |-> db, config |-> d]
    <3>2. a.config = d
      OBVIOUS
    <3>3. EnumKey(a, t, kind) = EnumKey(b, w[1], w[2])
      BY <3>1 DEF Key
    <3>4. /\ t = w[1] /\ kind = w[2]
          /\ kind # "GroupByColumn" => EnumColumns(d, t, kind) = EnumColumns(c, t, kind)
          /\ kind = "GroupByColumn" => EnumColumns(d, t, kind) \ EnumColumns(c, t, kind) \subseteq Overridable(t)
      <4> HIDE DEF a
      <4> QED BY <1>2, <3>2, <3>3, KeyTellsColumns
    <3>5. kind = "GroupByColumn" => EnumColumns(c, t, kind) \ EnumColumns(d, t, kind) \subseteq Overridable(t)
      <4> HIDE DEF a
      <4> QED BY <1>2, <3>2, <3>3, <3>4, KeyTellsColumns
    <3> HIDE DEF a
    <3> QED BY <2>1, <2>2, <2>4, <3>1, <3>4, <3>5 DEF Agrees, Cols
  <2> QED BY <2>3, <2>4
<1> QED BY <1>6, <1>7 DEF cache

\* Without a collision every field gets its name, and none that is there loses it.
LEMMA DefinedNames ==
  ASSUME NEW c, NEW taken, NEW fields, ~Collides(c, taken, fields)
  PROVE  /\ Names(c, Defined(c, taken, fields), fields)
         /\ \A others : Names(c, taken, others) => Names(c, Defined(c, taken, fields), others)
<1> DEFINE names == {FieldName(c, f) : f \in fields}
           Named(name) == CHOOSE f \in fields : FieldName(c, f) = name
           new == [name \in names |-> Named(name)]
<1>1. Defined(c, taken, fields) = Filled(new, taken)
  BY DEF Defined
<1>2. /\ \A f \in fields : FieldName(c, f) \notin DOMAIN taken
      /\ \A f, g \in fields : FieldName(c, f) = FieldName(c, g) => f = g
  BY DEF Collides, Given
<1>3. DOMAIN new = names /\ \A f \in fields : FieldName(c, f) \in names /\ new[FieldName(c, f)] = f
  BY <1>2
<1>4. \A name \in DOMAIN taken : name \notin names
  BY <1>2
<1>5. /\ DOMAIN Filled(new, taken) = names \cup DOMAIN taken
      /\ \A name \in names : Filled(new, taken)[name] = new[name]
      /\ \A name \in DOMAIN taken : name \notin names => Filled(new, taken)[name] = taken[name]
  <2> HIDE DEF new, names
  <2> QED BY <1>3 DEF Filled, Given
<1> HIDE DEF new, names
<1> QED BY <1>1, <1>3, <1>4, <1>5 DEF Names

\* Repeating a function from a start has, up to every number of times, the values it should.
Iterates(f, n, start, step) == f[0] = start /\ \A i \in 1..n : f[i] = step[f[i - 1]]

LEMMA IterationExists ==
  ASSUME NEW S, NEW start \in S, NEW step \in [S -> S], NEW n \in Nat
  PROVE  \E f : f \in [0..n -> S] /\ Iterates(f, n, start, step)
<1> USE DEF Iterates
<1> DEFINE Bad == {m \in Nat : ~\E f \in [0..m -> S] : Iterates(f, m, start, step)}
<1>1. ASSUME Bad # {} PROVE FALSE
  <2>1. PICK m \in Bad : \A q \in Bad : m <= q
    <3>1. Bad \in SUBSET Nat
      OBVIOUS
    <3> HIDE DEF Bad
    <3> QED BY <1>1, <3>1, LeastPosition
  <2>2. m \in Nat /\ ~\E f \in [0..m -> S] : Iterates(f, m, start, step)
    OBVIOUS
  <2>3. CASE m = 0
    <3>1. [i \in 0..0 |-> start] \in [0..0 -> S] /\ Iterates([i \in 0..0 |-> start], 0, start, step)
      OBVIOUS
    <3> QED BY <2>2, <2>3, <3>1
  <2>4. CASE m # 0
    <3>1. m - 1 \in Nat /\ ~(m <= m - 1)
      BY <2>2, <2>4
    <3>2. PICK f \in [0..m - 1 -> S] : Iterates(f, m - 1, start, step)
      BY <2>1, <3>1
    <3> DEFINE g == [i \in 0..m |-> IF i = m THEN step[f[m - 1]] ELSE f[i]]
    <3>3. g \in [0..m -> S]
      <4>1. f[m - 1] \in S
        BY <3>1
      <4> QED BY <2>2, <4>1
    <3>4. g[0] = start
      BY <2>2, <2>4, <3>2
    <3>5. ASSUME NEW i \in 1..m PROVE g[i] = step[g[i - 1]]
      <4>1. i - 1 \in 0..m /\ i - 1 # m /\ i \in 0..m
        BY <2>2
      <4>2. g[i - 1] = f[i - 1]
        BY <4>1
      <4>3. CASE i = m
        BY <4>1, <4>2, <4>3
      <4>4. CASE i # m
        <5>1. i \in 1..m - 1
          BY <2>2, <4>4
        <5> QED BY <3>2, <4>1, <4>2, <4>4, <5>1
      <4> QED BY <4>3, <4>4
    <3> QED BY <2>2, <3>3, <3>4, <3>5
  <2> QED BY <2>3, <2>4
<1> QED BY <1>1

\* A table with a column to order by has order fields.
LEMMA OrderableHasFields ==
  ASSUME NEW c, NEW t \in Tables, Orderable(c, t) # {}
  PROVE  HasOrderFields(c, t)
<1> DEFINE From(u) == {Relation[u][r].target : r \in OrderRelations(c, u)}
           n == Len(TableKeys)
           S == SUBSET Tables
           step == [T \in S |-> T \cup UNION {From(u) : u \in T}]
           Recursion(f) == f = [i \in 0..n |-> IF i = 0 THEN {t}
                                  ELSE f[i - 1] \cup UNION {From(u) : u \in f[i - 1]}]
           reached == CHOOSE f : Recursion(f)
<1>1. n \in Nat
  BY BuildConfigAssumption
<1>2. \A u \in Tables : From(u) \subseteq Tables
  BY BuildConfigAssumption DEF OrderRelations, NamedRelations
<1>3. step \in [S -> S] /\ {t} \in S
  <2> HIDE DEF From
  <2> QED BY <1>2
<1>4. PICK f \in [0..n -> S] : f[0] = {t} /\ \A i \in 1..n : f[i] = step[f[i - 1]]
  <2> DEFINE start == {t}
  <2>1. start \in S
    BY <1>3
  <2> HIDE DEF S, step, n, start
  <2>2. \E f : f \in [0..n -> S] /\ Iterates(f, n, start, step)
    BY <1>1, <1>3, <2>1, IterationExists
  <2> QED BY <2>2 DEF start, Iterates
<1>5. Recursion(f)
  <2> HIDE DEF From
  <2>1. ASSUME NEW i \in 0..n, i # 0 PROVE f[i] = f[i - 1] \cup UNION {From(u) : u \in f[i - 1]}
    <3>1. i \in 1..n /\ i - 1 \in 0..n
      BY <1>1, <2>1
    <3> QED BY <1>4, <3>1
  <2> QED BY <1>4, <2>1
<1>6. Recursion(reached)
  BY <1>5
<1> HIDE DEF reached
<1>7. reached[0] = {t} /\ \A i \in 1..n : reached[i - 1] \subseteq reached[i]
  <2>1. 0 \in 0..n
    BY <1>1
  <2>2. reached[0] = {t}
    BY <1>6, <2>1
  <2>3. ASSUME NEW i \in 1..n PROVE reached[i - 1] \subseteq reached[i]
    <3>1. i \in 0..n /\ i # 0
      BY <1>1
    <3> HIDE DEF From
    <3> QED BY <1>6, <3>1
  <2> QED BY <2>2, <2>3
<1> HIDE DEF Recursion
<1>8. t \in reached[n]
  <2> DEFINE Bad == {i \in 0..n : t \notin reached[i]}
  <2>1. ASSUME Bad # {} PROVE FALSE
    <3>1. PICK i \in Bad : \A q \in Bad : i <= q
      <4>1. Bad \in SUBSET Nat
        BY <1>1
      <4> HIDE DEF Bad
      <4> QED BY <2>1, <4>1, LeastPosition
    <3>2. i # 0 /\ i \in 1..n /\ i - 1 \in 0..n
      BY <1>1, <1>7
    <3>3. i - 1 \notin Bad
      BY <1>1, <3>1, <3>2
    <3> QED BY <1>7, <3>2, <3>3
  <2> QED BY <1>1, <2>1
<1>9. HasOrderFields(c, t) <=> \E u \in reached[n] : Orderable(c, u) # {}
  BY Zenon DEF HasOrderFields, reached, Recursion
<1> QED BY <1>8, <1>9

-----------------------------------------------------------------------------
(* Nested inputs. *)

\* The statements of an input a relation keeps go to tables of the build, with their features on.
LEMMA StatementsAllowed ==
  ASSUME NEW c, NEW t \in BuiltTables(c), NEW r \in NamedRelations(c, t), NEW op \in Allowed(c, t, r),
         NEW write \in Statements(c, t, r, op)
  PROVE  write[1] \in BuiltTables(c) /\ write[2] \in FeatureOf(c, write[1])
<1> DEFINE rel == Relation[t][r]
           junction == rel.through.table
<1>1. /\ op \in PlannedOps(c, t, r)
      /\ \A required \in RequiredWrites(c, t, r, op) : ~Blocked(c, required)
  BY DEF Allowed
<1>2. t \in Tables /\ r \in RelationsOf(t) /\ rel.target \in Tables /\ (rel.through # Direct => junction \in Tables)
  BY BuildConfigAssumption DEF BuiltTables, NamedRelations
<1>3. write \in RequiredWrites(c, t, r, op)
  <2>1. CASE rel.through # Direct
    <3>1. op \in {"connect", "disconnect", "set"}
      BY <1>1, <2>1 DEF PlannedOps
    <3> DEFINE link == {"insert"} \cup (IF SoftDeletes(c, junction) THEN {"update"} ELSE {})
               kinds == (IF op \in {"disconnect", "set"} THEN {"delete"} ELSE {})
                        \cup (IF op \in {"connect", "set"} THEN {"insert"} ELSE {})
                        \cup (IF op \in {"connect", "set"} /\ SoftDeletes(c, junction) THEN {"update"} ELSE {})
               required == CASE op = "connect" -> link
                             [] op = "disconnect" -> {"delete"}
                             [] op = "set" -> {"delete"} \cup link
    <3>2. kinds \subseteq required
      BY <3>1
    <3>3. Statements(c, t, r, op) = {junction} \X kinds
      BY <2>1 DEF Statements
    <3>4. RequiredWrites(c, t, r, op) = {junction} \X required
      BY <2>1 DEF RequiredWrites
    <3> HIDE DEF kinds, required
    <3> QED BY <3>2, <3>3, <3>4
  <2>2. CASE rel.through = Direct
    <3>1. CASE FkSide(c, t, r) = "parent"
      BY <2>2, <3>1 DEF Statements, RequiredWrites
    <3>2. CASE FkSide(c, t, r) # "parent"
      <4>1. FkSide(c, t, r) = "child"
        <5>1. IsPlanned(c, t, r)
          BY DEF Allowed
        <5> QED BY <2>2, <3>2, <5>1 DEF IsPlanned, FkSide
      <4> DEFINE steals == rel.one /\ CanDetach(c, t, r)
                 kinds == (IF op = "create" THEN {"insert"} ELSE {"update"})
                          \cup (IF op \in {"create", "connect"} /\ steals THEN {"update"} ELSE {})
                 required == IF op = "create" THEN {"insert"} \cup (IF steals THEN {"update"} ELSE {})
                             ELSE {"update"}
      <4>2. kinds \subseteq required
        OBVIOUS
      <4>3. Statements(c, t, r, op) = {rel.target} \X kinds
        BY <2>2, <4>1 DEF Statements
      <4>4. RequiredWrites(c, t, r, op) = {rel.target} \X required
        BY <2>2, <4>1 DEF RequiredWrites
      <4> HIDE DEF kinds, required
      <4> QED BY <4>2, <4>3, <4>4
    <3> QED BY <3>1, <3>2
  <2> QED BY <2>1, <2>2
<1>4. ~Blocked(c, write)
  BY <1>1, <1>3
<1>5. write[1] \in Tables
  <2>1. \E kinds : Statements(c, t, r, op) = {IF rel.through # Direct THEN junction ELSE rel.target} \X kinds
    BY DEF Statements
  <2> QED BY <1>2, <2>1
<1> QED BY <1>4, <1>5 DEF Blocked, BuiltTables

\* A column an insert must have, and the create input does not ask for, comes from elsewhere.
LEMMA InsertsComplete ==
  ASSUME NEW c, NEW t \in BuiltTables(c), NEW column \in ColumnsOf(t) \ CreateRequires(c, t),
         MustBeSupplied(t, column), ~Column[t][column].owned, column \notin InsertStamps(c, t),
         <<t, column>> \notin WarnedHidden(c)
  PROVE  \E r \in NamedRelations(c, t) :
           <<t, column>> \in KeysWritten(c, t, r) /\ Offered(c, t, r, "create") # {}
<1>1. column \in Visible(c, t)
  <2> SUFFICES ASSUME column \in Hidden(c, t) PROVE FALSE
    BY DEF Visible
  <2>1. t \in DOMAIN c.excludeColumns \ c.excludeTables
    BY DEF Hidden, At, Given, BuiltTables
  <2>2. <<t, column>> \in {<<t, hidden>> : hidden \in {k \in Hidden(c, t) : MustBeSupplied(t, k)}}
    OBVIOUS
  <2> QED BY <2>1, <2>2 DEF WarnedHidden
<1>2. column \notin ContextColumns(c, t) \cup Marker(c, t)
  BY DEF InsertStamps
<1>3. column \in Relaxed(c, t)
  BY <1>1, <1>2 DEF CreateRequires, Writable, IsWritable
<1>4. PICK r \in WritableRelations(c, t) :
        /\ FkSide(c, t, r) = "parent" /\ Offered(c, t, r, "create") # {}
        /\ column = Relation[t][r].local
  BY <1>3 DEF Relaxed
<1>5. Relation[t][r].through = Direct
  BY <1>4 DEF FkSide
<1>6. <<t, column>> \in KeysWritten(c, t, r)
  BY <1>4, <1>5 DEF KeysWritten
<1> QED BY <1>4, <1>6 DEF WritableRelations

\* The same of every input of every table, which is what NestedInputsSound says of a build.
LEMMA InputsSound ==
  ASSUME NEW c, NEW t \in BuiltTables(c)
  PROVE  /\ \A r \in NamedRelations(c, t) : \A op \in Offered(c, t, r, "update") :
              /\ \A write \in Statements(c, t, r, op) :
                   write[1] \in BuiltTables(c) /\ write[2] \in FeatureOf(c, write[1])
              /\ \A key \in KeysWritten(c, t, r) : key[2] \notin ContextColumns(c, key[1])
         /\ \A column \in ColumnsOf(t) \ CreateRequires(c, t) :
              MustBeSupplied(t, column) =>
                \/ Column[t][column].owned
                \/ column \in InsertStamps(c, t)
                \/ <<t, column>> \in WarnedHidden(c)
                \/ \E r \in NamedRelations(c, t) :
                     /\ <<t, column>> \in KeysWritten(c, t, r)
                     /\ Offered(c, t, r, "create") # {}
<1>1. ASSUME NEW r \in NamedRelations(c, t), NEW op \in Offered(c, t, r, "update")
      PROVE  /\ \A write \in Statements(c, t, r, op) :
                  write[1] \in BuiltTables(c) /\ write[2] \in FeatureOf(c, write[1])
             /\ \A key \in KeysWritten(c, t, r) : key[2] \notin ContextColumns(c, key[1])
  <2>1. op \in Allowed(c, t, r)
    BY DEF Offered
  <2>2. \A key \in KeysWritten(c, t, r) : key[2] \notin ContextColumns(c, key[1])
    BY <2>1 DEF Allowed
  <2> QED BY <2>1, <2>2, StatementsAllowed
<1> QED BY <1>1, InsertsComplete

\* Whatever a build is configured for, no nested input it offers sends a write that is turned off
\* or sets a stamped column, and no insert lacks a column without a warning.
THEOREM NestedInputsAreSound == Spec => []NestedInputsSound
<1>1. NestedInputsSound
  BY InputsSound, Zenon DEF NestedInputsSound
<1> QED BY <1>1, PTL

-----------------------------------------------------------------------------
(* Limits. *)

Limit == Int \cup {Unbounded}
Bounds(policy) == policy.defaultLimit \in Limit /\ policy.maxLimit \in Limit

LEMMA FirstGivenIsLimit ==
  ASSUME NEW n \in Nat, NEW options, DOMAIN options = 1..n, NEW key,
         \A i \in 1..n : Given(key, options[i]) => options[i][key] \in Int
  PROVE  FirstGiven(key, options, Unbounded) \in Limit
<1> DEFINE given == {i \in DOMAIN options : Given(key, options[i])}
<1>1. given # {} => Min(given) \in given
  <2>1. given \in SUBSET Nat
    OBVIOUS
  <2> HIDE DEF given
  <2> QED BY <2>1, LeastPosition
<1>2. FirstGiven(key, options, Unbounded) = IF given = {} THEN Unbounded ELSE options[Min(given)][key]
  BY DEF FirstGiven
<1> QED BY <1>1, <1>2 DEF Limit

\* What the policies of a configuration come to is a limit or none.
LEMMA PoliciesBound ==
  ASSUME NEW c \in Configured, NEW t
  PROVE  Bounds(TableLimits(c, t)) /\ \A r : Bounds(RelationLimits(c, t, r))
<1> DEFINE Numbers(policy) == \A key \in {"defaultLimit", "maxLimit"} : Given(key, policy) => policy[key] \in Int
<1>1. \A policy \in PoliciesIn(c.limits) : Numbers(policy)
  BY SchemaBuildAssumption DEF Configured
<1>2. Numbers(<<>>)
  BY DEF Given
<1>3. ASSUME NEW u PROVE Bounds(TableLimits(c, u))
  <2> DEFINE options == <<At(u, c.limits.tables, <<>>), c.limits.all>>
  <2>1. Numbers(options[1]) /\ Numbers(options[2])
    <3>1. c.limits.all \in PoliciesIn(c.limits)
      BY DEF PoliciesIn
    <3>2. u \in DOMAIN c.limits.tables => c.limits.tables[u] \in PoliciesIn(c.limits)
      BY DEF PoliciesIn
    <3> HIDE DEF Numbers
    <3> QED BY <1>1, <1>2, <3>1, <3>2 DEF At, Given
  <2>2. DOMAIN options = 1..2
    OBVIOUS
  <2> HIDE DEF options
  <2>3. ASSUME NEW key \in {"defaultLimit", "maxLimit"} PROVE FirstGiven(key, options, Unbounded) \in Limit
    <3>1. \A i \in 1..2 : Given(key, options[i]) => options[i][key] \in Int
      BY <2>1
    <3> QED BY <2>2, <3>1, FirstGivenIsLimit
  <2>4. TableLimits(c, u) = Merged(options)
    BY DEF TableLimits, options
  <2> QED BY <2>3, <2>4 DEF Merged, Bounds
<1>4. ASSUME NEW r PROVE Bounds(RelationLimits(c, t, r))
  <2> DEFINE target == TableLimits(c, Relation[t][r].target)
             bounds == [key \in {k \in DOMAIN target : target[k] # Unbounded} |-> target[key]]
             own == At(r, At(t, c.limits.ofRelation, <<>>), <<>>)
             options == <<own, c.limits.relations, bounds>>
  <2>1. Bounds(target)
    BY <1>3
  <2>2. Numbers(own)
    <3>1. CASE t \in DOMAIN c.limits.ofRelation /\ r \in DOMAIN c.limits.ofRelation[t]
      <4>1. own = c.limits.ofRelation[t][r]
        BY <3>1 DEF At, Given
      <4>2. own \in PoliciesIn(c.limits)
        BY <3>1, <4>1 DEF PoliciesIn
      <4> QED BY <1>1, <4>2
    <3>2. CASE ~(t \in DOMAIN c.limits.ofRelation /\ r \in DOMAIN c.limits.ofRelation[t])
      <4>1. own = <<>>
        BY <3>2 DEF At, Given
      <4> QED BY <1>2, <4>1
    <3> QED BY <3>1, <3>2
  <2>3. Numbers(c.limits.relations)
    <3>1. c.limits.relations \in PoliciesIn(c.limits)
      BY DEF PoliciesIn
    <3> QED BY <1>1, <3>1
  <2>4. Numbers(bounds)
    BY <2>1 DEF Bounds, Limit, Given
  <2>5. DOMAIN options = 1..3 /\ options[1] = own /\ options[2] = c.limits.relations /\ options[3] = bounds
    OBVIOUS
  <2>6. RelationLimits(c, t, r) = target \/ RelationLimits(c, t, r) = Merged(options)
    BY DEF RelationLimits
  <2> HIDE DEF options, own, bounds, target
  <2>7. ASSUME NEW key \in {"defaultLimit", "maxLimit"} PROVE FirstGiven(key, options, Unbounded) \in Limit
    <3>1. \A i \in 1..3 : Given(key, options[i]) => options[i][key] \in Int
      BY <2>2, <2>3, <2>4, <2>5
    <3> QED BY <2>5, <3>1, FirstGivenIsLimit
  <2>8. Bounds(Merged(options))
    BY <2>7 DEF Merged, Bounds
  <2> QED BY <2>1, <2>6, <2>8
<1> QED BY <1>3, <1>4

\* A list runs within its policy and with the rows it is priced at.
LEMMA PageAsPriced ==
  ASSUME NEW c, NEW policy, Bounds(policy), NEW asked \in Limit
  PROVE  /\ policy.maxLimit # Unbounded =>
              PageRun(policy, asked) # Unbounded /\ PageRun(policy, asked) <= policy.maxLimit
         /\ (asked # Unbounded /\ asked > 0) \/ (asked = Unbounded /\ PageRun(policy, asked) # Unbounded) =>
              PageRun(policy, asked) = PricedRows(c, policy, asked)
<1> DEFINE default == policy.defaultLimit
           max == policy.maxLimit
<1>1. default \in Limit /\ max \in Limit /\ Unbounded \notin Int
  BY BuildConfigAssumption DEF Bounds
<1> HIDE DEF default, max
<1>2. PageRun(policy, asked) = Smaller(IF asked = Unbounded THEN default ELSE asked, max)
  BY DEF PageRun, default, max
<1>3. max # Unbounded => \A limit \in Limit : Smaller(limit, max) # Unbounded /\ Smaller(limit, max) <= max
  BY <1>1 DEF Smaller, Limit
<1>4. PricedRows(c, policy, asked)
      = Smaller(IF asked # Unbounded /\ asked > 0 THEN asked ELSE IF default # Unbounded THEN default
                ELSE IF max # Unbounded THEN max ELSE c.defaultListSize, max)
  BY DEF PricedRows, default, max
<1>5. max # Unbounded => Smaller(Unbounded, max) = max /\ Smaller(max, max) = max
  BY <1>1 DEF Smaller, Limit
<1>6. max = Unbounded => \A limit : Smaller(limit, max) = limit
  BY DEF Smaller
<1>7. asked # Unbounded /\ asked > 0 => PageRun(policy, asked) = PricedRows(c, policy, asked)
  BY <1>2, <1>4
<1>8. asked = Unbounded /\ PageRun(policy, asked) # Unbounded => PageRun(policy, asked) = PricedRows(c, policy, asked)
  BY <1>2, <1>4, <1>5, <1>6
<1> QED BY <1>1, <1>2, <1>3, <1>7, <1>8 DEF max

-----------------------------------------------------------------------------
(* A build keeps to its configuration at every step. *)

\* The next table is one of those left.
LEMMA NextTable ==
  ASSUME build.left # {}, build.left \subseteq Tables
  PROVE  Table \in build.left
<1> DEFINE places == {i \in DOMAIN TableKeys : TableKeys[i] \in build.left}
<1>1. places \in SUBSET Nat /\ places # {}
  BY BuildConfigAssumption DEF Tables, Range
<1>2. Min(places) \in places
  <2> HIDE DEF places
  <2> QED BY <1>1, LeastPosition
<1> QED BY <1>2 DEF Table

\* A build that is not refused has a table.
LEMMA SomeTable ==
  ASSUME NEW c, ~Refuses(c)
  PROVE  BuiltTables(c) # {}
<1>1. IsFiniteSet(Tables)
  <2>1. IsFiniteSet(DOMAIN TableKeys)
    BY BuildConfigAssumption, FS_Interval
  <2>2. TableKeys \in Surjection(DOMAIN TableKeys, Tables)
    BY BuildConfigAssumption DEF Surjection, Tables, Range
  <2> QED BY <2>1, <2>2, FS_Surjection
<1>2. Cardinality(Tables) \in Nat
  BY <1>1, FS_CardinalityType
<1>3. c.excludeTables \subseteq Tables /\ ~(Cardinality(c.excludeTables) >= Cardinality(Tables))
  BY DEF Refuses, BadExclusions
<1>4. c.excludeTables # Tables
  BY <1>2, <1>3
<1> QED BY <1>3, <1>4 DEF BuiltTables

\* The caches and the builds that returned are as they were.
LEMMA SameCaches ==
  ASSUME BuildInv, enumCache' = enumCache, orderCache' = orderCache, built' = built
  PROVE  /\ EnumsRight(enumCache') /\ OrdersRight(orderCache')
         /\ \A i \in DOMAIN built' : Right(built'[i]) /\ built'[i].phase = "built"
BY DEF BuildInv

\* prepareBuild begins with every table left, and enums of its own.
LEMMA PrepareKeeps ==
  ASSUME BuildInv, NEW db \in Databases, NEW c \in Configs, Prepare(db, c)
  PROVE  BuildInv'
<1> DEFINE wanted == RelationEnums(c)
           b == [db |-> db, config |-> c, phase |-> "reads", left |-> BuiltTables(c), runtime |-> 0,
                 queries |-> Empty, mutations |-> Empty, roster |-> {}, offers |-> Empty]
<1>1. /\ enumCache' = Generated(b, wanted)
      /\ build' = [b EXCEPT !.offers = OffersOf(enumCache', b, wanted)]
      /\ ~Refuses(c) /\ built' = built /\ orderCache' = orderCache
  BY DEF Prepare
<1>2. c \in Configured
  BY DEF Configs, Configured
<1>3. wanted \in SUBSET (Tables \X EnumKinds)
  BY BuildConfigAssumption DEF RelationEnums, NamedRelations, EnumKinds
<1>4. b.config = c /\ b.db = db
  OBVIOUS
<1>5. /\ EnumsRight(enumCache')
      /\ \A w \in wanted : Agrees(c, w, EnumIn(enumCache', b, w[1], w[2]))
  <2>1. EnumsRight(enumCache)
    BY DEF BuildInv
  <2> HIDE DEF b, wanted
  <2> QED BY <1>1, <1>2, <1>3, <1>4, <2>1, GeneratedRight
<1>6. /\ DOMAIN build' = BuildFields
      /\ build'.db = db /\ build'.config = c /\ build'.phase = "reads" /\ build'.left = BuiltTables(c)
      /\ build'.offers = OffersOf(enumCache', b, wanted)
  BY <1>1 DEF BuildFields
<1>7. DOMAIN build'.offers = wanted /\ \A w \in wanted : build'.offers[w] = EnumIn(enumCache', b, w[1], w[2])
  <2> HIDE DEF b, wanted
  <2> QED BY <1>6 DEF OffersOf
<1> HIDE DEF b, wanted
<1>8. Right(build')
  <2>1. \A w \in DOMAIN build'.offers : Agrees(c, w, build'.offers[w])
    BY <1>5, <1>7
  <2>2. BuiltTables(c) # {}
    BY <1>1, SomeTable
  <2> QED BY <1>1, <1>2, <1>6, <2>1, <2>2 DEF Right
<1>9. /\ OrdersRight(orderCache')
      /\ \A i \in DOMAIN built' : Right(built'[i]) /\ built'[i].phase = "built"
  BY <1>1 DEF BuildInv
<1> QED BY <1>5, <1>6, <1>8, <1>9 DEF BuildInv

\* A build that throws leaves the caches right.
LEMMA ThrowKeeps ==
  ASSUME BuildInv, Throw, EnumsRight(enumCache'), OrdersRight(orderCache'), built' = built
  PROVE  BuildInv'
<1>1. build'.phase = "none"
  BY DEF Throw, NoBuild
<1> QED BY <1>1 DEF BuildInv

\* addReadFields gives the next table its fields, or throws.
LEMMA AddReadsKeeps ==
  ASSUME BuildInv, AddReads
  PROVE  BuildInv'
<1> DEFINE c == build.config
           fields == ReadFields(c, Table)
           kinds == (IF "distinct" \in FeatureOf(c, Table) THEN {"DistinctColumn"} ELSE {})
                    \cup (IF Field(Table, "groupBy", FALSE, FALSE) \in fields THEN {"GroupByColumn"} ELSE {})
           wanted == {<<Table, kind>> : kind \in kinds}
           offers == OffersOf(enumCache', build, wanted)
<1>1. /\ build.phase = "reads" /\ Right(build)
      /\ enumCache' = Generated(build, wanted)
      /\ orderCache' = orderCache /\ built' = built
  BY DEF AddReads, BuildInv
<1>2. /\ c \in Configured /\ build.db \in Databases /\ DOMAIN build = BuildFields /\ ~Refuses(c)
      /\ build.left # {} /\ build.left \subseteq BuiltTables(c)
  BY <1>1 DEF Right
<1>3. Table \in build.left /\ Table \in Tables
  BY <1>2, NextTable DEF BuiltTables
<1>4. wanted \in SUBSET (Tables \X EnumKinds)
  <2>1. kinds \subseteq EnumKinds
    BY DEF EnumKinds
  <2> HIDE DEF kinds
  <2> QED BY <1>3, <2>1
<1>5. /\ EnumsRight(enumCache')
      /\ \A w \in wanted : Agrees(c, w, EnumIn(enumCache', build, w[1], w[2]))
  <2>1. EnumsRight(enumCache)
    BY DEF BuildInv
  <2> HIDE DEF wanted
  <2> QED BY <1>1, <1>2, <1>4, <2>1, GeneratedRight
<1>6. DOMAIN offers = wanted /\ \A w \in wanted : offers[w] = EnumIn(enumCache', build, w[1], w[2])
  <2> HIDE DEF wanted
  <2> QED BY DEF OffersOf
<1>7. CASE Collides(c, build.queries, fields)
  <2>1. Throw
    BY <1>7 DEF AddReads
  <2> QED BY <1>1, <1>5, <2>1, ThrowKeeps DEF BuildInv
<1>8. CASE ~Collides(c, build.queries, fields)
  <2>1. build' = [build EXCEPT !.phase = "writes", !.queries = Defined(c, build.queries, fields),
                               !.offers = Filled(offers, build.offers)]
    BY <1>8 DEF AddReads
  <2> HIDE DEF wanted, offers, fields
  <2>2. /\ DOMAIN build' = BuildFields
        /\ build'.db = build.db /\ build'.config = c /\ build'.phase = "writes" /\ build'.left = build.left
        /\ build'.queries = Defined(c, build.queries, fields) /\ build'.mutations = build.mutations
        /\ build'.offers = Filled(offers, build.offers)
    BY <1>2, <2>1 DEF BuildFields
  <2>3. /\ Names(c, build'.queries, fields)
        /\ \A others : Names(c, build.queries, others) => Names(c, build'.queries, others)
    BY <1>8, <2>2, DefinedNames
  <2>4. ASSUME NEW w \in DOMAIN build'.offers PROVE Agrees(c, w, build'.offers[w])
    <3>1. \A v \in DOMAIN build.offers : Agrees(c, v, build.offers[v])
      BY <1>1 DEF Right
    <3> QED BY <1>5, <1>6, <2>2, <2>4, <3>1 DEF Filled, Given
  <2>5. ASSUME NEW t \in BuiltTables(c) \ build.left
        PROVE  /\ Names(c, build'.queries, ReadFields(c, t))
               /\ Names(c, build'.mutations, WriteFields(c, t, MayUpsert(build', t)))
    <3>1. MayUpsert(build', t) = MayUpsert(build, t)
      BY <2>2 DEF MayUpsert
    <3> QED BY <1>1, <2>2, <2>3, <2>5, <3>1 DEF Right
  <2>6. Right(build')
    BY <1>2, <2>2, <2>4, <2>5 DEF Right
  <2>7. Table' = Table
    BY <2>2 DEF Table
  <2>8. Names(build'.config, build'.queries, ReadFields(build'.config, Table'))
    BY <2>2, <2>3, <2>7 DEF fields
  <2>9. OrdersRight(orderCache') /\ \A i \in DOMAIN built' : Right(built'[i]) /\ built'[i].phase = "built"
    BY <1>1 DEF BuildInv
  <2> QED BY <1>5, <2>2, <2>6, <2>8, <2>9 DEF BuildInv
<1> QED BY <1>7, <1>8

\* The generators give it its mutations, whose upserts go by the enums they were given.
LEMMA AddWritesKeeps ==
  ASSUME BuildInv, AddWrites
  PROVE  BuildInv'
<1> DEFINE c == build.config
           wanted == UpsertEnums(build, Table)
           offers == OffersOf(Generated(build, wanted), build, wanted)
           upserts == wanted # {} /\ \A w \in wanted : offers[w] # {}
           fields == WriteFields(c, Table, upserts)
<1>1. /\ build.phase = "writes" /\ Right(build)
      /\ enumCache' = Generated(build, wanted)
      /\ orderCache' = orderCache /\ built' = built
  BY DEF AddWrites, BuildInv
<1>2. /\ c \in Configured /\ build.db \in Databases /\ DOMAIN build = BuildFields /\ ~Refuses(c)
      /\ build.left # {} /\ build.left \subseteq BuiltTables(c)
  BY <1>1 DEF Right
<1>3. Table \in build.left /\ Table \in Tables
  BY <1>2, NextTable DEF BuiltTables
<1>4. wanted \in SUBSET (Tables \X EnumKinds) /\ \A w \in wanted : w[2] # "GroupByColumn"
  BY <1>3 DEF EnumKinds, UpsertEnums
<1>5. /\ EnumsRight(enumCache')
      /\ \A w \in wanted : EnumIn(enumCache', build, w[1], w[2]) = EnumColumns(c, w[1], w[2])
      /\ \A w \in wanted : Agrees(c, w, EnumIn(enumCache', build, w[1], w[2]))
  <2>1. EnumsRight(enumCache)
    BY DEF BuildInv
  <2> HIDE DEF wanted
  <2> QED BY <1>1, <1>2, <1>4, <2>1, GeneratedRight
<1>6. DOMAIN offers = wanted /\ \A w \in wanted : offers[w] = EnumIn(enumCache', build, w[1], w[2])
  <2> HIDE DEF wanted
  <2> QED BY <1>1 DEF OffersOf
<1>7. upserts = MayUpsert(build, Table)
  <2>1. upserts = (wanted # {} /\ \A w \in wanted : EnumColumns(c, w[1], w[2]) # {})
    <3> HIDE DEF wanted, offers
    <3> QED BY <1>5, <1>6
  <2> HIDE DEF upserts
  <2> DEFINE Has(kind) == EnumColumns(c, Table, kind) # {}
  <2>2. upserts = (/\ "upsert" \in FeatureOf(c, Table) /\ Has("UpdateColumn")
                   /\ Dialect[build.db] # "mysql" => Has("ConflictTarget"))
    <3>1. CASE "upsert" \notin FeatureOf(c, Table)
      BY <2>1, <3>1 DEF UpsertEnums
    <3>2. CASE "upsert" \in FeatureOf(c, Table) /\ Dialect[build.db] # "mysql" /\ Has("UpdateColumn")
      <4>1. wanted = {<<Table, "UpdateColumn">>, <<Table, "ConflictTarget">>}
        BY <3>2 DEF UpsertEnums
      <4> HIDE DEF wanted, Has
      <4>2. wanted # {} /\ ((\A w \in wanted : Has(w[2])) <=> Has("UpdateColumn") /\ Has("ConflictTarget"))
        BY <4>1
      <4>3. (\A w \in wanted : EnumColumns(c, w[1], w[2]) # {}) <=> \A w \in wanted : Has(w[2])
        BY <4>1 DEF Has
      <4> QED BY <2>1, <3>2, <4>2, <4>3
    <3>3. CASE "upsert" \in FeatureOf(c, Table) /\ ~(Dialect[build.db] # "mysql" /\ Has("UpdateColumn"))
      <4>1. wanted = {<<Table, "UpdateColumn">>}
        BY <3>3 DEF UpsertEnums
      <4> HIDE DEF wanted, Has
      <4>2. wanted # {} /\ ((\A w \in wanted : Has(w[2])) <=> Has("UpdateColumn"))
        BY <4>1
      <4>3. (\A w \in wanted : EnumColumns(c, w[1], w[2]) # {}) <=> \A w \in wanted : Has(w[2])
        BY <4>1 DEF Has
      <4> QED BY <2>1, <3>3, <4>2, <4>3
    <3> QED BY <3>1, <3>2, <3>3
  <2> QED BY <2>2 DEF MayUpsert
<1>8. CASE Collides(c, build.mutations, fields)
  <2>1. Throw
    BY <1>8 DEF AddWrites
  <2> QED BY <1>1, <1>5, <2>1, ThrowKeeps DEF BuildInv
<1>9. CASE ~Collides(c, build.mutations, fields)
  <2>1. build' = [build EXCEPT !.left = build.left \ {Table},
                               !.phase = IF build.left = {Table} THEN "finish" ELSE "reads",
                               !.mutations = Defined(c, build.mutations, fields),
                               !.offers = Filled(offers, build.offers)]
    BY <1>9 DEF AddWrites
  <2> HIDE DEF wanted, offers, fields, upserts
  <2>2. /\ DOMAIN build' = BuildFields
        /\ build'.db = build.db /\ build'.config = c /\ build'.left = build.left \ {Table}
        /\ build'.phase = IF build.left = {Table} THEN "finish" ELSE "reads"
        /\ build'.mutations = Defined(c, build.mutations, fields) /\ build'.queries = build.queries
        /\ build'.offers = Filled(offers, build.offers)
    BY <1>2, <2>1 DEF BuildFields
  <2>3. /\ Names(c, build'.mutations, fields)
        /\ \A others : Names(c, build.mutations, others) => Names(c, build'.mutations, others)
    BY <1>9, <2>2, DefinedNames
  <2>4. ASSUME NEW w \in DOMAIN build'.offers PROVE Agrees(c, w, build'.offers[w])
    <3>1. \A v \in DOMAIN build.offers : Agrees(c, v, build.offers[v])
      BY <1>1 DEF Right
    <3> QED BY <1>5, <1>6, <2>2, <2>4, <3>1 DEF Filled, Given
  <2>5. ASSUME NEW t \in BuiltTables(c) \ build'.left
        PROVE  /\ Names(c, build'.queries, ReadFields(c, t))
               /\ Names(c, build'.mutations, WriteFields(c, t, MayUpsert(build', t)))
    <3>1. MayUpsert(build', t) = MayUpsert(build, t)
      BY <2>2 DEF MayUpsert
    <3>2. CASE t = Table
      <4>1. Names(c, build.queries, ReadFields(c, Table))
        BY <1>1 DEF BuildInv
      <4>2. fields = WriteFields(c, t, MayUpsert(build', t))
        BY <1>7, <3>1, <3>2 DEF fields
      <4> QED BY <2>2, <2>3, <3>2, <4>1, <4>2
    <3>3. CASE t # Table
      <4>1. t \in BuiltTables(c) \ build.left
        BY <2>2, <3>3
      <4> QED BY <1>1, <2>2, <2>3, <3>1, <4>1 DEF Right
    <3> QED BY <3>2, <3>3
  <2>6. build'.left # {} <=> build'.phase \in {"reads", "writes"}
    BY <1>3, <2>2
  <2>7. Right(build')
    BY <1>2, <2>2, <2>4, <2>5, <2>6 DEF Right
  <2>8. OrdersRight(orderCache') /\ \A i \in DOMAIN built' : Right(built'[i]) /\ built'[i].phase = "built"
    BY <1>1 DEF BuildInv
  <2> QED BY <1>5, <2>2, <2>7, <2>8 DEF BuildInv
<1> QED BY <1>8, <1>9

\* finalizeBuild takes the roster from the mutations.
LEMMA FinishKeeps ==
  ASSUME BuildInv, Finish
  PROVE  BuildInv'
<1>1. /\ build.phase = "finish" /\ Right(build)
      /\ enumCache' = enumCache /\ orderCache' = orderCache /\ built' = built
      /\ build' = [build EXCEPT !.phase = "assemble", !.runtime = Len(runtimes) + 1,
                     !.roster = IF build.config.transactions THEN DOMAIN build.mutations ELSE {}]
  BY DEF Finish, BuildInv
<1>2. DOMAIN build = BuildFields
  BY <1>1 DEF Right
<1>3. /\ DOMAIN build' = BuildFields
      /\ build'.db = build.db /\ build'.config = build.config /\ build'.left = build.left
      /\ build'.phase = "assemble"
      /\ build'.mutations = build.mutations /\ build'.queries = build.queries
      /\ build'.offers = build.offers
      /\ build'.config.transactions => build'.roster = DOMAIN build'.mutations
  BY <1>1, <1>2 DEF BuildFields
<1>4. \A t : MayUpsert(build', t) = MayUpsert(build, t)
  BY <1>3 DEF MayUpsert
<1>5. Right(build')
  BY <1>1, <1>3, <1>4 DEF Right
<1> QED BY <1>1, <1>3, <1>5 DEF BuildInv

\* Whatever thunks of a build have run, the cache is right, and gives each of them its own.
LEMMA OrderFieldsRight ==
  ASSUME BuildInv, Right(build), NEW ran \in SUBSET Tables, \A t \in ran : Cacheable(build.config, t)
  PROVE  LET cache == Filled(orderCache, OrderFields(build, ran))
         IN  /\ OrdersRight(cache)
             /\ \A t \in ran : cache[OrderKey(build, t)] = Orderable(build.config, t)
<1> DEFINE c == build.config
           keys == {OrderKey(build, t) : t \in ran}
           fresh == OrderFields(build, ran)
           cache == Filled(orderCache, fresh)
<1>1. c \in Configured /\ build.db \in Databases
  BY DEF Right
<1>2. /\ DOMAIN cache = DOMAIN orderCache \cup keys
      /\ \A key \in DOMAIN orderCache : cache[key] = orderCache[key]
      /\ \A t \in ran : OrderKey(build, t) \notin DOMAIN orderCache =>
           cache[OrderKey(build, t)] = Orderable(c, t)
  <2>1. DOMAIN fresh = keys /\ \A t \in ran : fresh[OrderKey(build, t)] = Orderable(c, t)
    BY DEF OrderFields, OrderKey, TableObject
  <2> HIDE DEF fresh
  <2> QED BY <2>1 DEF Filled, Given
<1> HIDE DEF cache
<1>3. ASSUME NEW t \in ran PROVE cache[OrderKey(build, t)] = Orderable(c, t)
  <2>1. CASE OrderKey(build, t) \in DOMAIN orderCache
    <3>1. PICK d \in Configured, db \in Databases, u \in Tables :
            /\ Cacheable(d, u) /\ OrderKey(build, t) = OrderKey([db |-> db, config |-> d], u)
            /\ orderCache[OrderKey(build, t)] = Orderable(d, u)
      BY <2>1 DEF BuildInv, OrdersRight
    <3>2. u = t
      BY <3>1 DEF OrderKey, TableObject
    <3> QED BY <1>2, <2>1, <3>1, <3>2 DEF Cacheable, Orderable, Visible
  <2> QED BY <1>2, <2>1
<1>4. OrdersRight(cache)
  <2>1. ASSUME NEW key \in DOMAIN orderCache
        PROVE  \E d \in Configured, db \in Databases, t \in Tables :
                 Cacheable(d, t) /\ key = OrderKey([db |-> db, config |-> d], t) /\ cache[key] = Orderable(d, t)
    BY <1>2 DEF BuildInv, OrdersRight
  <2>2. ASSUME NEW key \in keys
        PROVE  \E d \in Configured, db \in Databases, t \in Tables :
                 Cacheable(d, t) /\ key = OrderKey([db |-> db, config |-> d], t) /\ cache[key] = Orderable(d, t)
    <3>1. PICK t \in ran : key = OrderKey(build, t)
      OBVIOUS
    <3>2. OrderKey(build, t) = OrderKey([db |-> build.db, config |-> c], t)
      BY DEF OrderKey
    <3> QED BY <1>1, <1>3, <3>1, <3>2
  <2> QED BY <1>2, <2>1, <2>2 DEF OrdersRight
<1> QED BY <1>3, <1>4 DEF cache

\* The order fields of a build are its own, cached or not.
LEMMA AssembleBuilds ==
  ASSUME BuildInv, Assemble, NEW S, built \in Seq(S)
  PROVE  BuildInv'
<1> DEFINE c == build.config
           ordered == OrderedTables(c)
           cacheable == {t \in ordered : Cacheable(c, t)}
           cache == Filled(orderCache, OrderFields(build, cacheable))
           fields(t) == IF t \in cacheable THEN cache[OrderKey(build, t)] ELSE Orderable(c, t)
           orders == [w \in ordered \X {"OrderBy"} |-> fields(w[1])]
           made == [build EXCEPT !.phase = "built", !.offers = Filled(orders, build.offers)]
<1>1. /\ build.phase = "assemble" /\ Right(build)
      /\ orderCache' = cache /\ enumCache' = enumCache
      /\ built' = Append(built, made) /\ build'.phase = "none"
  BY DEF Assemble, BuildInv, NoBuild
<1>2. c \in Configured /\ build.db \in Databases /\ DOMAIN build = BuildFields
  BY <1>1 DEF Right
<1>3. /\ cacheable \in SUBSET Tables
      /\ \A t \in cacheable : Cacheable(c, t)
  BY DEF OrderedTables, BuiltTables
<1>4. OrdersRight(cache) /\ \A t \in cacheable : cache[OrderKey(build, t)] = Orderable(c, t)
  <2> HIDE DEF cacheable
  <2> QED BY <1>1, <1>3, OrderFieldsRight
<1>5. OrdersRight(cache)
  BY <1>4
<1> HIDE DEF cache
<1>6. /\ DOMAIN orders = ordered \X {"OrderBy"}
      /\ \A w \in DOMAIN orders : w[2] = "OrderBy" /\ orders[w] = Orderable(c, w[1])
  <2>1. \A t \in ordered : fields(t) = Orderable(c, t)
    BY <1>4
  <2> HIDE DEF fields, ordered
  <2> QED BY <2>1
<1> HIDE DEF orders, ordered
<1>7. /\ DOMAIN made = BuildFields
      /\ made.db = build.db /\ made.config = c /\ made.left = build.left /\ made.phase = "built"
      /\ made.mutations = build.mutations /\ made.queries = build.queries /\ made.roster = build.roster
      /\ made.offers = Filled(orders, build.offers)
  BY <1>2 DEF BuildFields
<1> HIDE DEF made
<1>8. Right(made)
  <2>1. ASSUME NEW w \in DOMAIN made.offers PROVE Agrees(c, w, made.offers[w])
    <3>1. \A v \in DOMAIN build.offers : Agrees(c, v, build.offers[v])
      BY <1>1 DEF Right
    <3>2. w \in DOMAIN orders => Agrees(c, w, orders[w])
      BY <1>6 DEF Agrees, ColumnsFor
    <3> QED BY <1>7, <2>1, <3>1, <3>2 DEF Filled, Given
  <2>2. \A t : MayUpsert(made, t) = MayUpsert(build, t)
    BY <1>7 DEF MayUpsert
  <2>3. \A t \in BuiltTables(c) : HasOrderFields(c, t) => <<t, "OrderBy">> \in DOMAIN made.offers
    BY <1>6, <1>7 DEF Filled, ordered, OrderedTables
  <2> QED BY <1>1, <1>7, <2>1, <2>2, <2>3 DEF Right
<1>9. \A i \in DOMAIN built' : built'[i] = made \/ (i \in DOMAIN built /\ built'[i] = built[i])
  <2>1. built \in Seq(S \cup {made}) /\ made \in S \cup {made}
    OBVIOUS
  <2>2. built' = Append(built, made)
    BY <1>1
  <2> QED BY <2>1, <2>2
<1>10. \A i \in DOMAIN built' : Right(built'[i]) /\ built'[i].phase = "built"
  BY <1>7, <1>8, <1>9 DEF BuildInv
<1> QED BY <1>1, <1>5, <1>10 DEF BuildInv

\* GraphQLSchema throws with some of the thunks run.
LEMMA AssemblyThrowKeeps ==
  ASSUME BuildInv, AssemblyThrows
  PROVE  BuildInv'
<1>1. build.phase = "assemble" /\ Right(build) /\ Throw /\ enumCache' = enumCache /\ built' = built
  BY DEF AssemblyThrows, BuildInv
<1>2. PICK ran \in SUBSET {t \in OrderedTables(build.config) : Cacheable(build.config, t)} :
        orderCache' = Filled(orderCache, OrderFields(build, ran))
  BY DEF AssemblyThrows
<1>3. ran \in SUBSET Tables /\ \A t \in ran : Cacheable(build.config, t)
  BY <1>2 DEF OrderedTables, BuiltTables
<1>4. OrdersRight(orderCache')
  BY <1>1, <1>2, <1>3, OrderFieldsRight
<1> QED BY <1>1, <1>4, ThrowKeeps DEF BuildInv

\* A step that changes none of this.
LEMMA QuietSteps ==
  ASSUME BuildInv, UNCHANGED <<build, built, orderCache, enumCache>>
  PROVE  BuildInv'
<1>1. build' = build /\ Table' = Table
  BY DEF Table
<1> QED BY <1>1 DEF BuildInv

LEMMA BuildInit == Init => BuildInv
BY DEF Init, BuildInv, NoBuild, Empty, EnumsRight, OrdersRight

LEMMA BuildStep == RegisterInv /\ BuildInv /\ [Next]_vars => BuildInv'
<1> SUFFICES ASSUME RegisterInv, BuildInv, [Next]_vars PROVE BuildInv'
  OBVIOUS
<1>1. ASSUME NEW db \in Databases, NEW c \in Configs, Refuse(db, c) PROVE BuildInv'
  BY <1>1, QuietSteps DEF Refuse
<1>2. ASSUME NEW db \in Databases, NEW c \in Configs, Prepare(db, c) PROVE BuildInv'
  BY <1>2, PrepareKeeps
<1>3. CASE Assemble
  <2>1. PICK S : built \in Seq(S)
    BY DEF RegisterInv
  <2> QED BY <1>3, <2>1, AssembleBuilds
<1>4. ASSUME NEW call \in Calls, Help(call) PROVE BuildInv'
  BY <1>4, QuietSteps DEF Help
<1>5. CASE Return
  BY <1>5, QuietSteps DEF Return
<1>6. CASE UNCHANGED vars
  BY <1>6, QuietSteps DEF vars
<1>7. CASE Abandon
  BY <1>7, ThrowKeeps DEF Abandon, BuildInv
<1>8. CASE AssemblyThrows
  BY <1>8, AssemblyThrowKeeps
<1> QED BY <1>1, <1>2, <1>3, <1>4, <1>5, <1>6, <1>7, <1>8, AddReadsKeeps, AddWritesKeeps, FinishKeeps DEF Next

\* The caches and every build, running or returned, are right after every sequence of calls, also
\* of calls that throw.
THEOREM BuildsFollowTheirConfiguration == Spec => [](RegisterInv /\ BuildInv)
<1>1. Init => RegisterInv /\ BuildInv
  BY RegisterInit, BuildInit
<1>2. RegisterInv /\ BuildInv /\ [Next]_vars => (RegisterInv /\ BuildInv)'
  BY RegisterStep, BuildStep
<1> QED BY <1>1, <1>2, PTL DEF Spec

\* The newest build that returned.
LEMMA NewestRight ==
  ASSUME RegisterInv, BuildInv, Returned
  PROVE  Right(Newest) /\ Newest.phase = "built"
<1>1. PICK S : built \in Seq(S)
  BY DEF RegisterInv
<1>2. Len(built) \in DOMAIN built
  BY <1>1 DEF Returned
<1> QED BY <1>2 DEF BuildInv, Newest

\* A build that returned is done with every table.
LEMMA FieldsKept ==
  ASSUME RegisterInv, BuildInv
  PROVE  EveryFieldKept
<1> SUFFICES ASSUME Returned PROVE EveryFieldKept
  BY DEF EveryFieldKept
<1> DEFINE c == Newest.config
           holds(fields, f) == \E name \in DOMAIN fields : fields[name] = f
           upserts(t) == \A kind \in {"UpdateColumn"} \cup
                           (IF Dialect[Newest.db] = "mysql" THEN {} ELSE {"ConflictTarget"}) :
                             EnumColumns(c, t, kind) # {}
<1>1. /\ \A t \in BuiltTables(c) :
           /\ Names(c, Newest.queries, ReadFields(c, t))
           /\ Names(c, Newest.mutations, WriteFields(c, t, MayUpsert(Newest, t)))
      /\ c.transactions => Newest.roster = DOMAIN Newest.mutations
  BY NewestRight DEF Right
<1>2. \A t : MayUpsert(Newest, t) = ("upsert" \in FeatureOf(c, t) /\ upserts(t))
  BY DEF MayUpsert
<1>3. \A fields, generated : Names(c, fields, generated) => \A f \in generated : holds(fields, f)
  BY DEF Names
<1> HIDE DEF holds, upserts
<1>4. \A t \in BuiltTables(c) :
        /\ \A f \in ReadFields(c, t) : holds(Newest.queries, f)
        /\ \A f \in WriteFields(c, t, "upsert" \in FeatureOf(c, t) /\ upserts(t)) : holds(Newest.mutations, f)
  <2> TAKE t \in BuiltTables(c)
  <2>1. Names(c, Newest.mutations, WriteFields(c, t, "upsert" \in FeatureOf(c, t) /\ upserts(t)))
    BY <1>1, <1>2
  <2> QED BY <1>1, <1>3, <2>1
<1> QED BY <1>1, <1>4, Zenon DEF EveryFieldKept, holds, upserts

\* Whatever names a configuration makes, no field of a build replaces another.
THEOREM NoFieldIsReplaced == Spec => []EveryFieldKept
<1>1. RegisterInv /\ BuildInv => EveryFieldKept
  BY FieldsKept
<1> QED BY <1>1, BuildsFollowTheirConfiguration, PTL

\* Its offers agree with its configuration, and its policies bound what they price.
LEMMA InForce ==
  ASSUME RegisterInv, BuildInv
  PROVE  ConfigInForce
<1> SUFFICES ASSUME Returned PROVE ConfigInForce
  BY DEF ConfigInForce
<1> DEFINE c == Newest.config
           columns(w) == IF w[2] = "OrderBy" THEN Orderable(c, w[1]) ELSE EnumColumns(c, w[1], w[2])
           bounded(policy) == \A asked \in {Unbounded} \cup 0..5 :
             LimitRefused(policy, asked) \/
               LET page == PageRun(policy, asked)
               IN  /\ policy.maxLimit # Unbounded => page # Unbounded /\ page <= policy.maxLimit
                   /\ page # Unbounded /\ asked # 0 => page = PricedRows(c, policy, asked)
           overridable(t) == {column \in ColumnsOf(t) : Column[t][column].list}
<1>1. Right(Newest) /\ Newest.phase = "built" /\ c \in Configured /\ ~Refuses(c)
  BY NewestRight DEF Right
<1>2. \A w \in DOMAIN Newest.offers :
        (Newest.offers[w] \ columns(w)) \cup (columns(w) \ Newest.offers[w])
          \subseteq (IF w[2] = "GroupByColumn" THEN overridable(w[1]) ELSE {})
  <2>1. \A w \in DOMAIN Newest.offers : Agrees(c, w, Newest.offers[w])
    BY <1>1 DEF Right
  <2> QED BY <2>1 DEF Agrees, ColumnsFor, Overridable
<1>3. ASSUME NEW t \in BuiltTables(c) \cap DOMAIN c.defaultOrder, c.defaultOrder[t] # {}
      PROVE  c.defaultOrder[t] \subseteq Newest.offers[<<t, "OrderBy">>]
  <2>1. c.defaultOrder[t] \subseteq Orderable(c, t)
    BY <1>1 DEF Refuses, BadDefaultOrder, Orderable, Visible
  <2>2. HasOrderFields(c, t)
    BY <1>3, <2>1, OrderableHasFields DEF BuiltTables
  <2>3. <<t, "OrderBy">> \in DOMAIN Newest.offers
    BY <1>1, <2>2 DEF Right
  <2>4. Agrees(c, <<t, "OrderBy">>, Newest.offers[<<t, "OrderBy">>])
    BY <1>1, <2>3 DEF Right
  <2> QED BY <2>1, <2>4 DEF Agrees, ColumnsFor
<1>4. ASSUME NEW policy, Bounds(policy) PROVE bounded(policy)
  <2>1. ASSUME NEW asked \in {Unbounded} \cup 0..5
        PROVE  /\ policy.maxLimit # Unbounded =>
                    PageRun(policy, asked) # Unbounded /\ PageRun(policy, asked) <= policy.maxLimit
               /\ PageRun(policy, asked) # Unbounded /\ asked # 0 => PageRun(policy, asked) = PricedRows(c, policy, asked)
    <3>1. asked \in Limit /\ (asked # 0 => (asked # Unbounded /\ asked > 0) \/ asked = Unbounded)
      BY DEF Limit
    <3> QED BY <1>4, <2>1, <3>1, PageAsPriced
  <2> QED BY <2>1
<1>5. \A t \in BuiltTables(c) :
        bounded(TableLimits(c, t)) /\ \A r \in NamedRelations(c, t) : bounded(RelationLimits(c, t, r))
  <2> HIDE DEF bounded
  <2> QED BY <1>1, <1>4, PoliciesBound
<1> QED BY <1>2, <1>3, <1>5, Zenon DEF ConfigInForce

\* Whatever was built before over the same tables, a build offers what its own configuration
\* says, and prices its lists at what they run with.
THEOREM ConfigurationsAreInForce == Spec => []ConfigInForce
<1>1. RegisterInv /\ BuildInv => ConfigInForce
  BY InForce
<1> QED BY <1>1, BuildsFollowTheirConfiguration, PTL
=============================================================================
