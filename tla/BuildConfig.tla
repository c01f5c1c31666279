----------------------------- MODULE BuildConfig ----------------------------
(***************************************************************************)
(* What one buildSchema call is asked for and what it makes of it:         *)
(* resolveBuildConfig (build-config.ts), the feature flags (features.ts),  *)
(* the policies and limits it resolves, the generated names                *)
(* (field-names.ts), the inputs each table gets (table-types.ts,           *)
(* table-inputs.ts) and the nested inputs (nested-writes/plans.ts,         *)
(* gating.ts, input-types.ts).  Pure: nothing here has state.              *)
(*                                                                         *)
(* A configuration is a record.  A key the caller leaves out is missing    *)
(* from the function that would hold it, so `??' is FirstGiven.  A flag    *)
(* is the set of tables it is on for, which a boolean and a predicate      *)
(* both are.  A scalar override counts where it makes a list groupable.    *)
(* Enum names, documentation and the names of types inside a build come to *)
(* `throws': the phases of the build in which something the caller gave    *)
(* may throw, or in which two types turn out to have one name.             *)
(***************************************************************************)
EXTENDS Integers, Sequences, FiniteSets, FiniteSetsExt, Functions

CONSTANTS
  TableKeys,   \* the schema's tables, in its order
  Column,      \* Column[t][c]: notNull, hasDefault, owned, json, flag (a boolean), list
  PrimaryKey,  \* PrimaryKey[t]: the columns of the primary key
  UniqueSets,  \* UniqueSets[t]: the other unique column sets of the whole table
  PartialSets, \* PartialSets[t]: those of its partial unique indexes
  Relation,    \* Relation[t][r]: target, one, local, foreign, through, composite, ownWhere
  Direct,      \* the `through' of a relation that has none
  Noun,        \* Noun[t]: the table key as it is, uncapitalized and capitalized
  Unbounded    \* no limit at all

Tables == Range(TableKeys)  \* excluded ones included
ColumnsOf(t) == DOMAIN Column[t]
RelationsOf(t) == DOMAIN Relation[t]

ASSUME BuildConfigAssumption ==
  /\ Unbounded \notin Int
  /\ TableKeys \in Seq(Tables)
  /\ \A t \in Tables : PrimaryKey[t] \subseteq ColumnsOf(t)
  /\ \A t \in Tables : \A r \in RelationsOf(t) :
       /\ Relation[t][r].target \in Tables
       /\ Relation[t][r].local \in ColumnsOf(t)
       /\ Relation[t][r].foreign \in ColumnsOf(Relation[t][r].target)
       /\ Relation[t][r].through # Direct => Relation[t][r].through.table \in Tables

Given(key, options) == key \in DOMAIN options
At(key, options, otherwise) == IF Given(key, options) THEN options[key] ELSE otherwise

\* options, and those of the others that have a key of their own
Filled(options, others) ==
  [key \in DOMAIN options \cup DOMAIN others |-> IF Given(key, options) THEN options[key] ELSE others[key]]

\* options[1].key ?? options[2].key ?? ... ?? otherwise
FirstGiven(key, options, otherwise) ==
  LET given == {i \in DOMAIN options : Given(key, options[i])}
  IN  IF given = {} THEN otherwise ELSE options[Min(given)][key]

-----------------------------------------------------------------------------
(* Features and exclusions. *)

DefaultFeatures ==
  {"aggregates", "groupBy", "distinct", "insert", "update", "updateMany", "delete"}

\* The flags that are on for a table.
FeatureOf(c, t) ==
  {f \in DefaultFeatures \cup DOMAIN c.features : t \in At(f, c.features, Tables)}

\* The tables the build covers, and the columns it shows.
BuiltTables(c) == Tables \ c.excludeTables
Hidden(c, t) == At(t, c.excludeColumns, {})
Visible(c, t) == ColumnsOf(t) \ Hidden(c, t)

\* Relations to and from an excluded table are gone with it.
NamedRelations(c, t) ==
  {r \in RelationsOf(t) : t \in BuiltTables(c) /\ Relation[t][r].target \in BuiltTables(c)}

-----------------------------------------------------------------------------
(* Policies. *)

ContextColumns(c, t) == At(t, c.contextValues, {})
SoftDeletes(c, t) == Given(t, c.softDelete)
Marker(c, t) == IF SoftDeletes(c, t) THEN {c.softDelete[t].column} ELSE {}

\* A NOT NULL column has no absent state: deleted must be a constant, and restoring must say
\* what it writes, which a boolean says by itself.
SoftDeleteRefused(t, marking) ==
  \/ marking.column \notin ColumnsOf(t)
  \/ LET column == Column[t][marking.column]
     IN  /\ column.notNull
         /\ \/ marking.deleted = "function"
            \/ marking.deleted = "default" /\ ~column.flag
            \/ ~marking.restored /\ ~column.flag

MustBeSupplied(t, column) == Column[t][column].notNull /\ ~Column[t][column].hasDefault

\* The columns every insert into t stamps: contextValues, and a NOT NULL marker without default.
InsertStamps(c, t) == ContextColumns(c, t) \cup {m \in Marker(c, t) : MustBeSupplied(t, m)}

IsWritable(c, t, column) ==
  /\ ~Column[t][column].owned
  /\ column \notin ContextColumns(c, t) \cup Marker(c, t)
Writable(c, t) == {column \in Visible(c, t) : IsWritable(c, t, column)}

Orderable(c, t) == {column \in Visible(c, t) : ~Column[t][column].json}

\* A list of numbers groups when a scalar override makes one value of it.
Groupable(c, t) ==
  {column \in Orderable(c, t) : Column[t][column].list => column \in At(t, c.scalars, {})}

\* What changes a read at all, in this build's policies and limits.
HasRowScope(c) == c.scope # {}
HasVisibility(c) == HasRowScope(c) \/ DOMAIN c.softDelete # {}
OrdersByDefault(c) == \E t \in DOMAIN c.defaultOrder : c.defaultOrder[t] # {}
HasHooks(c) == c.everyTableHooks # {} \/ \E t \in DOMAIN c.hooks : c.hooks[t] # {}

-----------------------------------------------------------------------------
(* Limits and what a list is priced at. *)

\* The policies named, the first one first, merged key by key; none that bounds nothing.
Merged(policies) ==
  LET default == FirstGiven("defaultLimit", policies, Unbounded)
      max == FirstGiven("maxLimit", policies, Unbounded)
  IN  [defaultLimit |-> default, maxLimit |-> max,
       clampToMax |-> /\ default # Unbounded \/ max # Unbounded
                      /\ FirstGiven("clampToMax", policies, FALSE)]

TableLimits(c, t) == Merged(<<At(t, c.limits.tables, <<>>), c.limits.all>>)

\* A relation field: its own entry, then limits.relations, then its target's policy.
RelationLimits(c, t, r) ==
  LET target == TableLimits(c, Relation[t][r].target)
      bounds == [key \in {k \in DOMAIN target : target[k] # Unbounded} |-> target[key]]
      own == At(r, At(t, c.limits.ofRelation, <<>>), <<>>)
  IN  IF c.limits.relations = <<>> /\ c.limits.ofRelation = <<>> THEN target
      ELSE Merged(<<own, c.limits.relations, bounds>>)

Smaller(limit, max) == IF max # Unbounded /\ (limit = Unbounded \/ limit > max) THEN max ELSE limit

\* The limits a list refuses, and the one it runs with, asked for this one (Unbounded: for none).
LimitRefused(policy, asked) ==
  asked # Unbounded /\ ~policy.clampToMax /\ Smaller(asked, policy.maxLimit) # asked
PageRun(policy, asked) == Smaller(IF asked = Unbounded THEN policy.defaultLimit ELSE asked, policy.maxLimit)

\* The rows listFieldComplexity charges for.
PricedRows(c, policy, asked) ==
  LET rows == IF asked # Unbounded /\ asked > 0 THEN asked
              ELSE IF policy.defaultLimit # Unbounded THEN policy.defaultLimit
              ELSE IF policy.maxLimit # Unbounded THEN policy.maxLimit
              ELSE c.defaultListSize
  IN  Smaller(rows, policy.maxLimit)

-----------------------------------------------------------------------------
(* What resolveBuildConfig refuses. *)

PoliciesIn(limits) ==
  {limits.all, limits.relations}
  \cup {limits.tables[t] : t \in DOMAIN limits.tables}
  \cup UNION {{limits.ofRelation[t][r] : r \in DOMAIN limits.ofRelation[t]} :
               t \in DOMAIN limits.ofRelation}

BadLimits(c) ==
  \/ \E policy \in PoliciesIn(c.limits), key \in {"defaultLimit", "maxLimit"} :
       Given(key, policy) /\ policy[key] < 1
  \/ \E t \in DOMAIN c.limits.tables \cup DOMAIN c.limits.ofRelation : t \notin Tables
  \/ \E t \in DOMAIN c.limits.ofRelation : \E r \in DOMAIN c.limits.ofRelation[t] :
       r \notin RelationsOf(t) \/ Relation[t][r].one

BadDefaultOrder(c) ==
  \E t \in DOMAIN c.defaultOrder :
    \/ t \notin Tables
    \/ \E column \in c.defaultOrder[t] :
         \/ column \notin ColumnsOf(t)
         \/ column \in Hidden(c, t)
         \/ Column[t][column].json

BadPolicies(c) ==
  \/ ~(c.scope \cup DOMAIN c.contextValues \cup DOMAIN c.softDelete \subseteq Tables)
  \/ \E t \in DOMAIN c.contextValues : \E column \in c.contextValues[t] : column \notin ColumnsOf(t)
  \/ \E t \in DOMAIN c.softDelete : SoftDeleteRefused(t, c.softDelete[t])

\* The every-table form names no table; a restore hook by table needs a table that restores.
BadHooks(c) ==
  \/ c.everyTableHooks # {} /\ DOMAIN c.hooks # {}
  \/ \E t \in DOMAIN c.hooks : t \notin Tables \/ ("restore" \in c.hooks[t] /\ ~SoftDeletes(c, t))

BadExclusions(c) ==
  \/ \E t \in c.excludeTables \cup DOMAIN c.excludeColumns : t \notin Tables
  \/ Cardinality(c.excludeTables) >= Cardinality(Tables)
  \/ \E t \in DOMAIN c.excludeColumns \ c.excludeTables : ~(Hidden(c, t) \subseteq ColumnsOf(t))

Mapped(c) == DOMAIN c.mapper # {}

Refuses(c) ==
  \/ BadLimits(c)
  \/ BadDefaultOrder(c)
  \/ BadPolicies(c)
  \/ BadHooks(c)
  \/ BadExclusions(c)
  \/ ~Mapped(c) /\ c.suffixes.list = c.suffixes.single
  \/ c.transactions /\ c.timeoutMs < 1
  \/ c.depthLimit # Unbounded /\ c.depthLimit < 0

\* A hidden column every insert must supply: the build says so, and goes on.
WarnedHidden(c) ==
  UNION {{<<t, column>> : column \in {k \in Hidden(c, t) : MustBeSupplied(t, k)}} :
          t \in DOMAIN c.excludeColumns \ c.excludeTables}

-----------------------------------------------------------------------------
(* Names. *)

Plural(c, t) == IF Mapped(c) THEN c.mapper[t].plural ELSE Noun[t]
Singular(c, t) == IF Mapped(c) THEN c.mapper[t].singular ELSE Noun[t]

\* With a mapper the two nouns are separation enough: only the suffix `single' is dropped.
SingleSuffix(c) == IF Mapped(c) THEN "" ELSE c.suffixes.single

\* A generated field's identity, as extensions.drizzle publishes it.
Field(t, operation, single, count) ==
  [table |-> t, operation |-> operation, single |-> single, count |-> count]

FieldName(c, f) ==
  LET plural == Plural(c, f.table)
      singular == Singular(c, f.table)
      op == f.operation
      write == IF f.count THEN plural.upper \o "Count"
               ELSE IF f.single THEN singular.upper \o SingleSuffix(c)
               ELSE plural.upper \o c.suffixes.list
  IN  CASE op = "select" -> IF f.single THEN singular.lower \o SingleSuffix(c)
                                        ELSE plural.lower \o c.suffixes.list
        [] op = "aggregate" -> plural.lower \o "Aggregate"
        [] op = "groupBy" -> plural.lower \o "GroupBy"
        [] op = "updateMany" -> c.prefixes.update \o plural.upper \o "Many"
        [] OTHER -> c.prefixes[op] \o write

\* The name a generated type gets: its default one between the build's affixes.
TypeName(c, default) == c.typePrefix \o default

-----------------------------------------------------------------------------
(* Order inputs. *)

\* A relation a list can be ordered through: to-one, unless a column has its name.
OrderRelations(c, t) == {r \in NamedRelations(c, t) : Relation[t][r].one /\ r \notin Visible(c, t)}

\* Whether t's OrderBy has a field: a column, or a to-one relation to a table that has one.
HasOrderFields(c, t) ==
  LET reached[n \in 0..Len(TableKeys)] ==
        IF n = 0 THEN {t}
        ELSE reached[n - 1] \cup
             UNION {{Relation[u][r].target : r \in OrderRelations(c, u)} : u \in reached[n - 1]}
  IN  \E u \in reached[Len(TableKeys)] : Orderable(c, u) # {}

-----------------------------------------------------------------------------
(* Nested writes. *)

\* Unique column sets are read over the columns the build shows, partial indexes included.
SingleUniques(c, t) ==
  {column \in Visible(c, t) : {column} \in {PrimaryKey[t]} \cup UniqueSets[t] \cup PartialSets[t]}

\* Which side of a key holds the reference; "neither" leaves the relation out.
FkSide(c, t, r) ==
  LET rel == Relation[t][r]
      localIsPk == PrimaryKey[t] = {rel.local}
      foreignIsPk == PrimaryKey[rel.target] = {rel.foreign}
  IN  IF ~rel.one \/ rel.through # Direct THEN "child"
      ELSE IF localIsPk THEN "child"
      ELSE IF foreignIsPk THEN "parent"
      ELSE IF rel.foreign \in SingleUniques(c, rel.target) THEN "parent"
      ELSE IF rel.local \in SingleUniques(c, t) THEN "child"
      ELSE "neither"

\* The column a relation writes, and whose it is; a junction has two.
KeysWritten(c, t, r) ==
  LET rel == Relation[t][r]
  IN  IF rel.through # Direct
      THEN {<<rel.through.table, rel.through.source>>, <<rel.through.table, rel.through.target>>}
      ELSE IF FkSide(c, t, r) = "parent" THEN {<<t, rel.local>>}
      ELSE {<<rel.target, rel.foreign>>}

CanDetach(c, t, r) ==
  Relation[t][r].through # Direct \/ \A key \in KeysWritten(c, t, r) : ~Column[key[1]][key[2]].notNull

\* No connect could fill a further column of the junction that must be supplied.
Suppliable(c, through) ==
  \A column \in ColumnsOf(through.table) \ {through.source, through.target} :
    MustBeSupplied(through.table, column) => column \in InsertStamps(c, through.table)

IsPlanned(c, t, r) ==
  LET rel == Relation[t][r]
  IN  /\ ~rel.composite
      /\ IF rel.through # Direct THEN ~rel.one /\ Suppliable(c, rel.through)
                                 ELSE FkSide(c, t, r) # "neither"

PlannedOps(c, t, r) ==
  LET rel == Relation[t][r]
      ops == IF ~CanDetach(c, t, r) THEN {"create", "connect"}
             ELSE IF rel.one THEN {"create", "connect", "disconnect"}
             ELSE {"create", "connect", "disconnect", "set"}
  IN  IF rel.through # Direct THEN {"connect", "disconnect", "set"}
      ELSE IF rel.ownWhere THEN ops \ {"create"} ELSE ops

\* Mutated form: linking a pair is only ever an insert.
InsertOnly(c, t, r, op) ==
  LET rel == Relation[t][r]
      link == IF op = "disconnect" THEN {"delete"} ELSE IF op = "set" THEN {"delete", "insert"} ELSE {"insert"}
  IN  IF rel.through # Direct THEN {rel.through.table} \X link
      ELSE IF op = "create" THEN {<<rel.target, "insert">>}
      ELSE IF FkSide(c, t, r) = "child" THEN {<<rel.target, "update">>}
      ELSE {}

\* The write features an input needs of the table it lands on.
RequiredWrites(c, t, r, op) ==
  LET rel == Relation[t][r]
      on(table, features) == {table} \X features
      link == {"insert"} \cup (IF SoftDeletes(c, rel.through.table) THEN {"update"} ELSE {})
      detaches == FkSide(c, t, r) = "child" /\ rel.one /\ CanDetach(c, t, r)
  IN  IF rel.through # Direct
      THEN on(rel.through.table, CASE op = "connect" -> link
                                   [] op = "disconnect" -> {"delete"}
                                   [] op = "set" -> {"delete"} \cup link)
      ELSE IF op = "create" THEN on(rel.target, {"insert"} \cup (IF detaches THEN {"update"} ELSE {}))
      ELSE IF FkSide(c, t, r) = "child" THEN on(rel.target, {"update"})
      ELSE {}

Blocked(c, write) == write[1] \in c.excludeTables \/ write[2] \notin FeatureOf(c, write[1])

\* The inputs a relation keeps: gateNestedWritePlans, then dropContextValueRelations.
Allowed(c, t, r) ==
  IF \/ ~c.nestedWrites
     \/ ~IsPlanned(c, t, r)
     \/ \E key \in KeysWritten(c, t, r) : key[2] \in ContextColumns(c, key[1])
  THEN {}
  ELSE {op \in PlannedOps(c, t, r) : \A write \in RequiredWrites(c, t, r, op) : ~Blocked(c, write)}

WritableRelations(c, t) == {r \in NamedRelations(c, t) : Allowed(c, t, r) # {}}

\* The operations a relation's wrapper offers: nothing is attached to a row not yet there.
Offered(c, t, r, mode) ==
  IF mode = "create" THEN Allowed(c, t, r) \cap {"create", "connect"} ELSE Allowed(c, t, r)

\* Columns of t that a nested create or connect can fill in, so that they are not required.
Relaxed(c, t) ==
  {Relation[t][r].local : r \in {r \in WritableRelations(c, t) :
      /\ FkSide(c, t, r) = "parent"
      /\ Offered(c, t, r, "create") # {}
      /\ MustBeSupplied(t, Relation[t][r].local)}}

\* The columns of t's create input that a request must give.
CreateRequires(c, t) == {column \in Writable(c, t) \ Relaxed(c, t) : MustBeSupplied(t, column)}

\* The payload of a nested create: the target's columns but the key its parent supplies.
PayloadColumns(c, t, r) ==
  LET rel == Relation[t][r]
  IN  Writable(c, rel.target) \ (IF FkSide(c, t, r) = "child" THEN {rel.foreign} ELSE {})
=============================================================================
