----------------------------- MODULE SchemaBuild ----------------------------
(***************************************************************************)
(* buildSchema (index.ts), called again and again in one process: a build  *)
(* resolves its configuration, generates every table's fields in turn and  *)
(* assembles the schema (build-context.ts, schema-data.ts, mysql.ts).  It  *)
(* may throw at any of these, and a later build finds what it left behind: *)
(* the order fields of a table and the enums of its columns, cached, and   *)
(* the register in which selectionToWith and resolveSelection look up the  *)
(* policies of a build (build-registry.ts, selection.ts).  The register is *)
(* written before the schema is assembled, so a build that throws then is  *)
(* in it although no caller ever had its schema.                           *)
(***************************************************************************)
EXTENDS BuildConfig

CONSTANTS
  Dialect,    \* Dialect[db]: "pg", "mysql", or "sync", SQLite on a synchronous driver
  First,      \* the configurations of a first call
  Later,      \* and of the ones after it
  Calls,      \* the calls of the helpers: db, types, context
  MaxBuilds,  \* bound: how often buildSchema is called
  None        \* nothing

Databases == DOMAIN Dialect

ASSUME SchemaBuildAssumption ==
  /\ MaxBuilds \in Nat
  /\ \A call \in Calls : call.db \in Databases /\ call.types \in Seq(0..MaxBuilds)
  /\ \A c \in First \cup Later : \A policy \in PoliciesIn(c.limits), key \in {"defaultLimit", "maxLimit"} :
       Given(key, policy) => policy[key] \in Int

VARIABLES
  calls,       \* how often buildSchema has been called
  build,       \* the call that is running: db, config, phase, tables left, what it has made,
               \* its place in runtimes (0: none yet)
  built,       \* the builds that returned, in order
  orderCache,  \* orderMap: <<table object, inner order type>> to order columns
  enumCache,   \* columnEnumCache: table object, name, exclusions and variant to columns
  runtimes,    \* what registered builds left for the helpers, in order: db, config
  registered,  \* buildsByDb: count, the only one of runtimes, whether any has policies
  answer       \* what a helper did last

vars == <<calls, build, built, orderCache, enumCache, runtimes, registered, answer>>

Empty == <<>>  \* a function of nothing
NoBuild == [phase |-> "none"]

\* Builds over one dialect's tables share the table objects, and what is cached by them.
TableObject(db, t) == <<Dialect[db], t>>

-----------------------------------------------------------------------------
(* Enums of columns. *)

\* The columns of every unique set the build can name.
UniqueColumns(c, t) ==
  UNION {s \in {PrimaryKey[t]} \cup UniqueSets[t] \cup PartialSets[t] : s \subseteq Visible(c, t)}

EnumKinds == {"DistinctColumn", "GroupByColumn", "UpdateColumn", "ConflictTarget"}

EnumName(c, t, kind) == TypeName(c, Singular(c, t).upper \o kind)

\* No kind is the end of another, so a name tells which it is, whatever is put before it.
ASSUME KindsAssumption ==
  \A c, d \in First \cup Later, t \in Tables, kind, other \in EnumKinds :
    EnumName(c, t, kind) = EnumName(d, t, other) => kind = other

EnumColumns(c, t, kind) ==
  CASE kind = "DistinctColumn" -> Orderable(c, t)
    [] kind = "GroupByColumn" -> Groupable(c, t)
    [] kind = "UpdateColumn" -> Writable(c, t)
    [] kind = "ConflictTarget" -> UniqueColumns(c, t)

\* What an enum is cached under; only what an upsert may overwrite varies with the policies.
EnumKey(b, t, kind) ==
  [table |-> TableObject(b.db, t),
   name |-> EnumName(b.config, t, kind),
   hidden |-> Hidden(b.config, t),
   variant |-> IF kind = "UpdateColumn" THEN <<ContextColumns(b.config, t), Marker(b.config, t)>> ELSE None]

\* The cache once these enums were asked for. One without columns is never made.
Generated(b, wanted) ==
  LET keys == {EnumKey(b, w[1], w[2]) : w \in {w \in wanted : EnumColumns(b.config, w[1], w[2]) # {}}}
  IN  Filled(enumCache, [key \in keys |-> LET w == CHOOSE w \in wanted : EnumKey(b, w[1], w[2]) = key
                                          IN  EnumColumns(b.config, w[1], w[2])])

EnumIn(cache, b, t, kind) == At(EnumKey(b, t, kind), cache, {})

\* The enums the fields of these tables have been given.
OffersOf(cache, b, wanted) == [w \in wanted |-> EnumIn(cache, b, w[1], w[2])]

-----------------------------------------------------------------------------
(* Root fields. *)

\* addReadFields: both selects, the aggregate and, beside it, the group-by.
ReadFields(c, t) ==
  LET on == FeatureOf(c, t)
      groups == {"aggregates", "groupBy"} \subseteq on /\ EnumColumns(c, t, "GroupByColumn") # {}
  IN  {Field(t, "select", single, FALSE) : single \in BOOLEAN}
      \cup (IF "aggregates" \in on THEN {Field(t, "aggregate", TRUE, FALSE)} ELSE {})
      \cup (IF groups THEN {Field(t, "groupBy", FALSE, FALSE)} ELSE {})

\* The pairs of a plural and a Single write that a table's features give it.
Pairs(c, t, upserts) ==
  (FeatureOf(c, t) \cap {"insert", "update", "delete"})
  \cup (IF upserts THEN {"upsert"} ELSE {})
  \cup (IF SoftDeletes(c, t) /\ "update" \in FeatureOf(c, t) THEN {"restore"} ELSE {})

\* The mutations of schema-data.ts, and of mysql.ts, which differ only in when one upserts.
WriteFields(c, t, upserts) ==
  LET on == FeatureOf(c, t)
  IN  {Field(t, op, single, FALSE) : op \in Pairs(c, t, upserts), single \in BOOLEAN}
      \cup (IF {"update", "updateMany"} \subseteq on THEN {Field(t, "updateMany", FALSE, FALSE)} ELSE {})
      \cup (IF "countMutations" \in on
            THEN {Field(t, op, FALSE, TRUE) : op \in on \cap {"update", "delete"}} ELSE {})

\* Mutated form: a name given twice is taken for impossible, as the two suffixes differ.
SuffixesDiffer(c, taken, fields) == FALSE

\* defineRootField: whether one of the fields has a name that is taken, or is another's.
Collides(c, taken, fields) ==
  \/ \E f \in fields : Given(FieldName(c, f), taken)
  \/ \E f, g \in fields : f # g /\ FieldName(c, f) = FieldName(c, g)

Defined(c, taken, fields) ==
  Filled([name \in {FieldName(c, f) : f \in fields} |-> CHOOSE f \in fields : FieldName(c, f) = name], taken)

-----------------------------------------------------------------------------
(* A build. *)

Idle == build = NoBuild /\ answer = None
Table == TableKeys[Min({i \in DOMAIN TableKeys : TableKeys[i] \in build.left})]

\* The adapter's preflight: what the driver or the dialect cannot do.
PreflightRefuses(db, c) ==
  \/ c.nestedWrites /\ Dialect[db] # "pg"
  \/ Dialect[db] = "sync" /\ (c.transactions \/ HasHooks(c))

\* The call counts, and nothing else happens.
Refuse(db, c) ==
  /\ Idle /\ calls < MaxBuilds
  /\ Refuses(c) \/ PreflightRefuses(db, c)
  /\ calls' = calls + 1
  /\ UNCHANGED <<build, built, orderCache, enumCache, runtimes, registered, answer>>

\* The enums generateTableTypes asks for: the distinct argument of every to-many relation.
RelationEnums(c) ==
  IF c.depthLimit = 0 THEN {}
  ELSE UNION {{<<Relation[t][r].target, "DistinctColumn">> :
                 r \in {r \in NamedRelations(c, t) :
                          /\ ~Relation[t][r].one
                          /\ "distinct" \in FeatureOf(c, Relation[t][r].target)}} : t \in Tables}

\* prepareBuild: the tables the build covers, and their types.
Prepare(db, c) ==
  /\ Idle /\ calls < MaxBuilds
  /\ ~Refuses(c) /\ ~PreflightRefuses(db, c)
  /\ calls' = calls + 1
  /\ LET b == [db |-> db, config |-> c, phase |-> "reads",
               left |-> BuiltTables(c), runtime |-> 0,
               queries |-> Empty, mutations |-> Empty, roster |-> {}, offers |-> Empty]
     IN  /\ enumCache' = Generated(b, RelationEnums(c))
         /\ build' = [b EXCEPT !.offers = OffersOf(enumCache', b, RelationEnums(c))]
  /\ UNCHANGED <<built, orderCache, runtimes, registered, answer>>

\* The build throws: what it put in the caches stays.
Throw == build' = NoBuild

\* addReadFields, for the next table.
AddReads ==
  /\ build.phase = "reads"
  /\ LET c == build.config
         wanted == {<<Table, kind>> : kind \in
                     (IF "distinct" \in FeatureOf(c, Table) THEN {"DistinctColumn"} ELSE {})
                     \cup (IF Field(Table, "groupBy", FALSE, FALSE) \in ReadFields(c, Table)
                           THEN {"GroupByColumn"} ELSE {})}
     IN  /\ enumCache' = Generated(build, wanted)
         /\ IF Collides(c, build.queries, ReadFields(c, Table)) THEN Throw
            ELSE build' = [build EXCEPT !.phase = "writes",
                             !.queries = Defined(c, build.queries, ReadFields(c, Table)),
                             !.offers = Filled(OffersOf(enumCache', build, wanted), build.offers)]
  /\ UNCHANGED <<calls, built, orderCache, runtimes, registered, answer>>

\* generateOnConflictInput: an upsert needs columns to overwrite and, but on MySQL, a target. The
\* enum of targets is only asked for when there is one to overwrite.
UpsertEnums(b, t) ==
  IF "upsert" \notin FeatureOf(b.config, t) THEN {}
  ELSE {<<t, "UpdateColumn">>}
       \cup (IF Dialect[b.db] # "mysql" /\ EnumColumns(b.config, t, "UpdateColumn") # {}
             THEN {<<t, "ConflictTarget">>} ELSE {})

\* The rest of the table, by schema-data.ts or mysql.ts.
AddWrites ==
  /\ build.phase = "writes"
  /\ LET c == build.config
         wanted == UpsertEnums(build, Table)
         offers == OffersOf(Generated(build, wanted), build, wanted)
         upserts == wanted # {} /\ \A w \in wanted : offers[w] # {}
         fields == WriteFields(c, Table, upserts)
     IN  /\ enumCache' = Generated(build, wanted)
         /\ IF Collides(c, build.mutations, fields) THEN Throw
            ELSE build' = [build EXCEPT
                             !.left = build.left \ {Table},
                             !.phase = IF build.left = {Table} THEN "finish" ELSE "reads",
                             !.mutations = Defined(c, build.mutations, fields),
                             !.offers = Filled(offers, build.offers)]
  /\ UNCHANGED <<calls, built, orderCache, runtimes, registered, answer>>

\* hasPolicies: whether the build changes what a read returns.
HasPolicies(c) ==
  \/ HasVisibility(c)
  \/ OrdersByDefault(c) \/ DOMAIN c.scalars # {}
  \/ c.limits.all # <<>> \/ c.limits.tables # <<>> \/ c.limits.relations # <<>> \/ c.limits.ofRelation # <<>>

\* Mutated form: only the build that registers last counts.
LatestPolicies(db, c) == HasPolicies(c)

\* registerBuildRuntime: of several builds over one database, none is the one.
AnyPolicies(db, c) == registered[db].anyPolicies \/ HasPolicies(c)

\* finalizeBuild: the roster of the shared transaction, and the register.
Finish ==
  /\ build.phase = "finish"
  /\ runtimes' = Append(runtimes, [db |-> build.db, config |-> build.config])
  /\ build' = [build EXCEPT !.phase = "assemble", !.runtime = Len(runtimes) + 1,
                 !.roster = IF build.config.transactions THEN DOMAIN build.mutations ELSE {}]
  /\ registered' = [registered EXCEPT ![build.db] =
                      [count |-> registered[build.db].count + 1,
                       only |-> IF registered[build.db].count = 0 THEN Len(runtimes) + 1 ELSE 0,
                       anyPolicies |-> AnyPolicies(build.db, build.config)]]
  /\ UNCHANGED <<calls, built, orderCache, enumCache, answer>>

\* Mutated form: a build that hides columns shares the order fields too.
AlwaysCacheable(c, t) == TRUE

\* The cache of order fields is passed over, both ways, for a table with hidden columns.
Cacheable(c, t) == Hidden(c, t) = {}

OrderKey(b, t) == <<TableObject(b.db, t), TypeName(b.config, "InnerOrder")>>

OrderedTables(c) == {t \in BuiltTables(c) : HasOrderFields(c, t)}

\* The order fields of these tables, under their keys.
OrderFields(b, tables) ==
  [key \in {OrderKey(b, t) : t \in tables} |-> Orderable(b.config, key[1][2])]

\* The fields are thunks, which run when index.ts assembles the schema.
Assemble ==
  /\ build.phase = "assemble"
  /\ LET c == build.config
         ordered == OrderedTables(c)
         cacheable == {t \in ordered : Cacheable(c, t)}
         cache == Filled(orderCache, OrderFields(build, cacheable))
         fields(t) == IF t \in cacheable THEN cache[OrderKey(build, t)] ELSE Orderable(c, t)
     IN  /\ orderCache' = cache
         /\ built' = Append(built, [build EXCEPT !.phase = "built",
                       !.offers = Filled([w \in ordered \X {"OrderBy"} |-> fields(w[1])], build.offers)])
  /\ build' = NoBuild
  /\ UNCHANGED <<calls, enumCache, runtimes, registered, answer>>

\* GraphQLSchema throws: two types of the build have one name, which it sees when every thunk has
\* run, or one of the thunks does. The build stays registered, and no caller has its schema.
AssemblyThrows ==
  /\ build.phase = "assemble" /\ build.phase \in build.config.throws
  /\ LET c == build.config
     IN  \E ran \in SUBSET {t \in OrderedTables(c) : Cacheable(c, t)} :
           orderCache' = Filled(orderCache, OrderFields(build, ran))
  /\ Throw
  /\ UNCHANGED <<calls, built, enumCache, runtimes, registered, answer>>

\* Something the caller gave the build (a mapper, a describer, a predicate) throws before that.
Abandon ==
  /\ build.phase \in {"reads", "writes", "finish"} /\ build.phase \in build.config.throws
  /\ Throw
  /\ UNCHANGED <<calls, built, orderCache, enumCache, runtimes, registered, answer>>

-----------------------------------------------------------------------------
(* The helpers. *)

\* The types of the resolve info (0: none of a build) that are of a schema over the database read.
Reached(call) ==
  {i \in DOMAIN call.types : call.types[i] # 0 /\ built[call.types[i]].db = call.db}

\* runtimeFor: of the first such type, else of the only build of the database. 0: none.
RuntimeFor(call) ==
  IF Reached(call) # {} THEN built[call.types[Min(Reached(call))]].runtime ELSE registered[call.db].only

\* runtimeForDb cannot tell which build is meant, or visibilityFor has no context for a scope.
HelperRefuses(call) ==
  \/ Reached(call) = {} /\ registered[call.db].count > 1 /\ registered[call.db].anyPolicies
  \/ /\ RuntimeFor(call) # 0 /\ HasRowScope(runtimes[RuntimeFor(call)].config)
     /\ ~call.context

\* selectionToWith or resolveSelection, in a resolver of the caller's: under the policies of a
\* build, or under none.
Help(call) ==
  /\ Idle
  /\ \A i \in DOMAIN call.types : call.types[i] <= Len(built)
  /\ answer' = [call |-> call, refused |-> HelperRefuses(call),
                applied |-> IF HelperRefuses(call) \/ RuntimeFor(call) = 0 THEN None
                            ELSE runtimes[RuntimeFor(call)].config]
  /\ UNCHANGED <<calls, build, built, orderCache, enumCache, runtimes, registered>>

\* The resolver returns.
Return ==
  /\ answer # None /\ answer' = None
  /\ UNCHANGED <<calls, build, built, orderCache, enumCache, runtimes, registered>>

Configs == IF calls = 0 THEN First ELSE Later

Init ==
  /\ calls = 0 /\ build = NoBuild /\ built = <<>>
  /\ orderCache = Empty /\ enumCache = Empty
  /\ runtimes = <<>>
  /\ registered = [db \in Databases |-> [count |-> 0, only |-> 0, anyPolicies |-> FALSE]]
  /\ answer = None

Next ==
  \/ \E db \in Databases, c \in Configs : Refuse(db, c)
  \/ \E db \in Databases, c \in Configs : Prepare(db, c)
  \/ AddReads \/ AddWrites \/ Finish \/ Assemble
  \/ Abandon \/ AssemblyThrows
  \/ \E call \in Calls : Help(call)
  \/ Return

Spec == Init /\ [][Next]_vars


-----------------------------------------------------------------------------
(* Properties: of the build that returned last, and of a helper's answer. *)

Returned == Idle /\ built # <<>>
Newest == built[Len(built)]

\* What runtime.ts and execute.ts send for an operation of a relation's wrapper; a row of t
\* itself is written either way.
Statements(c, t, r, op) ==
  LET rel == Relation[t][r]
      over == IF rel.through # Direct THEN rel.through.table ELSE rel.target
      steals == rel.one /\ CanDetach(c, t, r)
      kinds ==
        IF rel.through # Direct
        THEN (IF op \in {"disconnect", "set"} THEN {"delete"} ELSE {})
             \cup (IF op \in {"connect", "set"} THEN {"insert"} ELSE {})
             \cup (IF op \in {"connect", "set"} /\ SoftDeletes(c, over) THEN {"update"} ELSE {})
        ELSE IF FkSide(c, t, r) = "parent" THEN (IF op = "create" THEN {"insert"} ELSE {})
        ELSE (IF op = "create" THEN {"insert"} ELSE {"update"})
             \cup (IF op \in {"create", "connect"} /\ steals THEN {"update"} ELSE {})
  IN  {over} \X kinds

\* No nested input sends a write its build turned off for that table or writes a column the
\* server stamps; and an insert can always be completed: a column that must be supplied and that
\* the create input leaves out is computed by the database, stamped, given by a nested create or
\* connect, or the build warned that it is hidden.
NestedInputsSound ==
  Returned =>
    LET c == Newest.config
    IN  \A t \in BuiltTables(c) :
          /\ \A r \in NamedRelations(c, t) : \A op \in Offered(c, t, r, "update") :
               /\ \A write \in Statements(c, t, r, op) :
                    write[1] \in BuiltTables(c) /\ write[2] \in FeatureOf(c, write[1])
               /\ \A key \in KeysWritten(c, t, r) : key[2] \notin ContextColumns(c, key[1])
          /\ \A column \in ColumnsOf(t) \ CreateRequires(c, t) :
               MustBeSupplied(t, column) =>
                 \/ Column[t][column].owned
                 \/ column \in InsertStamps(c, t)
                 \/ <<t, column>> \in WarnedHidden(c)
                 \/ \E r \in NamedRelations(c, t) :
                      /\ <<t, column>> \in KeysWritten(c, t, r)
                      /\ Offered(c, t, r, "create") # {}

\* Of the fields a build generates none replaces another, whatever the suffixes, prefixes and
\* nouns are: each has a name of its own, and the shared transaction of the build can name every
\* mutation it may be sent.
EveryFieldKept ==
  Returned =>
    LET c == Newest.config
        holds(fields, f) == \E name \in DOMAIN fields : fields[name] = f
        upserts(t) == \A kind \in {"UpdateColumn"} \cup
                        (IF Dialect[Newest.db] = "mysql" THEN {} ELSE {"ConflictTarget"}) :
                          EnumColumns(c, t, kind) # {}
    IN  /\ \A t \in BuiltTables(c) :
             /\ \A f \in ReadFields(c, t) : holds(Newest.queries, f)
             /\ \A f \in WriteFields(c, t, "upsert" \in FeatureOf(c, t) /\ upserts(t)) :
                  holds(Newest.mutations, f)
        /\ c.transactions => Newest.roster = DOMAIN Newest.mutations

\* A build offers what its own configuration says, whatever was built before it over the same
\* tables, returned or not: the columns to order by, group by, tell apart and overwrite, but for
\* lists of numbers to group by, whose enum is shared by builds with other overrides; and no
\* list it does not refuse runs with another limit than it is priced at or its policy allows.
ConfigInForce ==
  Returned =>
    LET c == Newest.config
        columns(w) == IF w[2] = "OrderBy" THEN Orderable(c, w[1]) ELSE EnumColumns(c, w[1], w[2])
        bounded(policy) == \A asked \in {Unbounded} \cup 0..5 :
          LimitRefused(policy, asked) \/
            LET page == PageRun(policy, asked)
            IN  /\ policy.maxLimit # Unbounded => page # Unbounded /\ page <= policy.maxLimit
                /\ page # Unbounded /\ asked # 0 => page = PricedRows(c, policy, asked)
        overridable(t) == {column \in ColumnsOf(t) : Column[t][column].list}
    IN  /\ \A w \in DOMAIN Newest.offers :
             LET wrong == (Newest.offers[w] \ columns(w)) \cup (columns(w) \ Newest.offers[w])
             IN  wrong \subseteq (IF w[2] = "GroupByColumn" THEN overridable(w[1]) ELSE {})
        /\ \A t \in BuiltTables(c) \cap DOMAIN c.defaultOrder :
             c.defaultOrder[t] # {} => c.defaultOrder[t] \subseteq Newest.offers[<<t, "OrderBy">>]
        /\ \A t \in BuiltTables(c) :
             /\ bounded(TableLimits(c, t))
             /\ \A r \in NamedRelations(c, t) : bounded(RelationLimits(c, t, r))

\* A build offers to group by the columns its own overrides make groupable, as the comment on
\* generateColumnEnum asks of every predicate that varies between builds (generateGroupByEnum).
GroupsAsConfigured ==
  Returned => \A w \in DOMAIN Newest.offers :
    w[2] = "GroupByColumn" => Newest.offers[w] = Groupable(Newest.config, w[1])

SchemasOver(db) == {i \in DOMAIN built : built[i].db = db}
RegisteredOver(db) == {i \in DOMAIN runtimes : runtimes[i].db = db}

\* The schema a call names: the first over its database that its types belong to, if there is one.
NamedSchema(call) ==
  LET named == {i \in SchemasOver(call.db) : \E n \in DOMAIN call.types : call.types[n] = i}
  IN  {i \in named : \E n \in DOMAIN call.types :
        call.types[n] = i /\ \A m \in 1..n - 1 : call.types[m] \notin named}

\* The configurations a call can mean: that of the schema it names, or of the only build that was
\* registered over the database.
Meant(call) ==
  IF NamedSchema(call) # {} THEN {built[i].config : i \in NamedSchema(call)}
  ELSE IF Cardinality(RegisteredOver(call.db)) = 1 THEN {runtimes[i].config : i \in RegisteredOver(call.db)}
  ELSE {}

\* A helper reads under the policies of the schema its types belong to. Without one it reads under
\* those of the only build registered over that database, or under none where no such build has
\* any, and refuses when there are several and one has. Builds that threw once they were registered
\* count as well: such a build can have a call refused, or read under policies nobody was given,
\* but no schema that was returned ever has its policies passed over. A row scope needs a context.
HelperPolicies ==
  answer # None =>
    LET call == answer.call
        unclear == Meant(call) = {} /\ \E i \in RegisteredOver(call.db) : HasPolicies(runtimes[i].config)
        unscoped == ~call.context /\ \E c \in Meant(call) : HasRowScope(c)
    IN  /\ answer.refused = (unclear \/ unscoped)
        /\ ~answer.refused =>
             /\ IF Meant(call) = {} THEN answer.applied = None ELSE answer.applied \in Meant(call)
             /\ NamedSchema(call) = {} => \A i \in SchemasOver(call.db) :
                  HasPolicies(built[i].config) => answer.applied = built[i].config
=============================================================================
