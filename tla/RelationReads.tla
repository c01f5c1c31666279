---------------------------- MODULE RelationReads ----------------------------
(***************************************************************************)
(* A request that lists the rows of a table `a' under a filter, and below  *)
(* each of them a relation to a table `b': what its `where' compiles to,   *)
(* and the four ways the related rows are read: loaded with their parents, *)
(* by the field's own resolver, aggregated by `<relation>Aggregate', and in *)
(* a correlated subquery of a filter.  The root fields that aggregate `b'  *)
(* and group its rows read it by the same filters and policies.            *)
(***************************************************************************)
EXTENDS Integers, FiniteSets, Sequences, SequencesExt, Aggregates

CONSTANTS
  NotGiven,   \* an argument or a declaration left out
  Builds,     \* schemas and policies
  Databases,  \* rows: [a, b: sets of rows, j: the junction's]
  Requests    \* a root field and its arguments: a list with its relation, an aggregate, groups

ASSUME RelationReadsAssumption == Null # NotGiven

VARIABLES
  build,    \* the relation, its own `where', the target's and the junction's policies
  db,       \* the tables
  request,  \* the arguments
  aliases,  \* the next alias of a subquery: one counter for a build
  pc,
  parents,  \* the rows the list returned
  eager,    \* the related rows that came with them
  field,    \* what the relation field returned, by parent
  counted,  \* what its aggregate returned, by parent
  totals    \* what a root field that aggregates returned

vars == <<build, db, request, aliases, pc, parents, eager, field, counted, totals>>

Given(argument) == argument # NotGiven
Through == build.shape = "through"
ToOne(from) == build.shape = (IF from = "a" THEN "one" ELSE "many")
Other(from) == IF from = "a" THEN "b" ELSE "a"
\* visibleColumns, each with what it holds.
TargetColumns ==
  [c \in {"id", "ref", "val", "mark"} \ build.excluded |-> IF c = "val" THEN build.val ELSE "number"]

-----------------------------------------------------------------------------
(* Filters.  A filter object holds leaves (the operators of a column, or   *)
(* the columns and relations of a table) beside AND, OR and NOT.           *)

Filter(leaves, and, or, not) == [leaves |-> leaves, and |-> and, or |-> or, not |-> not]

\* SQL's three truth values.
And3(S) == IF "F" \in S THEN "F" ELSE IF "U" \in S THEN "U" ELSE "T"
Or3(S)  == IF "T" \in S THEN "T" ELSE IF "U" \in S THEN "U" ELSE "F"
Not3(t) == CASE t = "T" -> "F" [] t = "F" -> "T" [] t = "U" -> "U"
Holds(p) == IF p THEN "T" ELSE "F"

\* One operator on a value; the operand of every operator is a set.
Compare(v, op, operand) ==
  CASE op = "isNull"    -> Holds(v = Null)
    [] op = "isNotNull" -> Holds(v # Null)
    [] v = Null         -> "U"
    [] OTHER            -> Holds(IF op \in {"eq", "inArray"} THEN v \in operand ELSE v \notin operand)

Every == [is |-> "every"]    \* MATCHES_EVERY_ROW: no condition
NoRow == [is |-> "noRow"]    \* matchesNoRow: 1 = 0
Comparison(at, column, op, operand) ==
  [is |-> "compare", at |-> at, column |-> column, op |-> op, operand |-> operand]
\* The columns of two tables are equal.
Joined(at, column, other, with) == [is |-> "join", at |-> at, column |-> column, other |-> other, with |-> with]
Negated(sql)  == [is |-> "not", of |-> sql]
IsNotTrue(sql) == [is |-> "notTrue", of |-> sql]
Drops(sqls, what) == SelectSeq(sqls, LAMBDA sql : sql.is # what)
Has(sqls, what) == Drops(sqls, what) # sqls

AllOf(sqls) ==
  CASE Has(sqls, "noRow") -> NoRow
    [] Drops(sqls, "every") = <<>> -> Every
    [] OTHER -> [is |-> "and", of |-> Drops(sqls, "every")]

\* compileBooleanBranches, OR: a branch that matches every row makes the group match every row.
AnyOf(sqls) ==
  CASE sqls = <<>> \/ Has(sqls, "every") -> Every
    [] sqls # <<>> /\ Drops(sqls, "noRow") = <<>> -> NoRow
    [] OTHER -> [is |-> "or", of |-> Drops(sqls, "noRow")]

NotOf(sql) == CASE sql.is = "every" -> NoRow [] sql.is = "noRow" -> Every [] OTHER -> Negated(sql)

\* extractFiltersColumn: one operator of a column.
OperatorSql(leaf, at) ==
  CASE leaf.op \in {"isNull", "isNotNull"} /\ leaf.operand = {} -> Every
    [] leaf.op = "inArray" /\ leaf.operand = {}    -> NoRow
    [] leaf.op = "notInArray" /\ leaf.operand = {} -> Every
    [] OTHER -> Comparison(at, leaf.column, leaf.op, leaf.operand)

-----------------------------------------------------------------------------
(* What a table's policies add to a query that reads it.                   *)

\* softDeletePredicate: by NULL, by a marker, or by a marker in a column that may be NULL.
MarkedSql(at, mode) ==
  CASE mode = "INCLUDE" -> Every
    [] mode # "INCLUDE" /\ build.soft.marker = "null" ->
         Comparison(at, "mark", IF mode = "ONLY" THEN "isNotNull" ELSE "isNull", {1})
    [] mode # "INCLUDE" /\ build.soft.marker = "flag" ->
         Comparison(at, "mark", IF mode = "ONLY" THEN "eq" ELSE "ne", {1})
    [] mode # "INCLUDE" /\ build.soft.marker = "nullableFlag" ->
         IF mode = "ONLY" THEN Comparison(at, "mark", "eq", {1})
         ELSE [is |-> "or", of |-> <<Comparison(at, "mark", "ne", {1}), Comparison(at, "mark", "isNull", {1})>>]

\* relationDeletedDefault.
RelationDefault(from) ==
  IF build.soft.hiddenIn = "root" \/ (ToOne(from) /\ build.required) THEN "INCLUDE" ELSE "EXCLUDE"

\* The relation's own `where', declared on `a', or on `b' and so written against the parent.
OwnSql(from, at, targetAt) ==
  CASE build.own = "none" -> Every
    [] build.own = "target"   -> IF from = "a" THEN Comparison(targetAt, "val", "eq", {1}) ELSE Every
    [] build.own = "reversed" -> Comparison(IF from = "a" THEN at ELSE targetAt, "val", "eq", {1})

\* buildRelationJoinCondition and buildThroughJoinConditions, from `a' to `b'.
JoinSql(a, b, via) ==
  CASE build.shape = "many" -> <<Joined(a, "id", b, "ref")>>
    [] build.shape = "one"  -> <<Joined(a, "ref", b, "id")>>
    [] Through              -> <<Joined(a, "id", via, "src"), Joined(via, "dst", b, "id")>>

\* ctx.aliases.n++.
NextAlias(n) == n + 1

RECURSIVE Compile(_, _, _, _, _)

\* bindRowVisibility's `on': soft delete, then the scope, which is compiled without policies.
WithScope(marks, scope) == [sql |-> AllOf(<<marks, scope.sql>>), n |-> scope.n]
RowPolicy(table, at, mode, n) ==
  WithScope(IF table = "b" /\ Given(build.soft.marker) THEN MarkedSql(at, mode) ELSE Every,
            IF table = "b" /\ Given(build.scope) THEN Compile(build.scope, "b", at, n, FALSE)
            ELSE [sql |-> Every, n |-> n])

\* Mutated form: NOT of the inner filter is what a row fails by.
FailsByNot(inner) == Negated(inner)
\* A row fails unless the inner condition is TRUE.
FailsBy(inner) == IsNotTrue(inner)

\* buildRelationExists: the subquery's aliases, the rows the relation shows in it, the three modes.
Via(alias) == IF Through THEN NextAlias(alias) ELSE alias
Select(table, alias, where) ==
  [is |-> "exists", table |-> table, alias |-> alias, via |-> Via(alias), where |-> where]
Shown(table, at, alias, policy, scoped) ==
  (IF table = "a" THEN JoinSql(at, alias, Via(alias)) ELSE JoinSql(alias, at, Via(alias)))
    \o <<OwnSql(table, at, alias), policy>>
    \o (IF scoped /\ Through /\ build.links THEN <<Comparison(Via(alias), "kept", "eq", {1})>> ELSE <<>>)
Quantified(mode, table, alias, shown, inner) ==
  [n |-> inner.n,
   sql |-> CASE mode = "some" -> Select(table, alias, Append(shown, inner.sql))
             [] mode = "none" -> Negated(Select(table, alias, Append(shown, inner.sql)))
             [] mode = "every" /\ inner.sql.is = "every" -> Every
             [] mode = "every" /\ inner.sql.is # "every" ->
                  Negated(Select(table, alias, Append(shown, FailsBy(inner.sql))))]
UnderPolicy(policy, mode, filter, table, at, alias, scoped) ==
  Quantified(mode, Other(table), alias, Shown(table, at, alias, policy.sql, scoped),
             Compile(filter, Other(table), alias, policy.n, scoped))
Exists(mode, filter, table, at, n, scoped) ==
  UnderPolicy(IF scoped THEN RowPolicy(Other(table), n, RelationDefault(table), NextAlias(Via(n)))
              ELSE [sql |-> Every, n |-> NextAlias(Via(n))],
              mode, filter, table, at, n, scoped)

\* extractRelationFilter: a to-one relation takes its target's filter inline.
MatchMode(leaf, table) == IF ToOne(table) THEN "some" ELSE leaf.mode

\* One leaf.
LeafSql(leaf, table, at, n, scoped) ==
  CASE leaf.is = "operator" -> [sql |-> OperatorSql(leaf, at), n |-> n]
    [] leaf.is = "column"   -> Compile(leaf.filter, table, at, n, scoped)
    [] leaf.is = "relation" -> Exists(MatchMode(leaf, table), leaf.filter, table, at, n, scoped)

\* Compiled one after the other: the leaves, then AND, NOT and OR.
Branches(filters) == [i \in DOMAIN filters |-> [is |-> "column", filter |-> filters[i]]]
InOrder(filter) == filter.leaves \o Branches(filter.and) \o Branches(filter.not) \o Branches(filter.or)
Added(done, one) == [sqls |-> Append(done.sqls, one.sql), n |-> one.n]
CompileAll(list, table, at, n, scoped) ==
  FoldLeft(LAMBDA done, leaf : Added(done, LeafSql(leaf, table, at, done.n, scoped)),
           [sqls |-> <<>>, n |-> n], list)

\* Leaves and AND are conjuncts as they are, NOT turned, OR as one group.
Combined(filter, done) ==
  LET plain   == Len(filter.leaves) + Len(filter.and)
      negated == plain + Len(filter.not)
      parts == [i \in 1..negated |-> IF i <= plain THEN done.sqls[i] ELSE NotOf(done.sqls[i])]
  IN [sql |-> AllOf(Append(parts, AnyOf(SubSeq(done.sqls, negated + 1, Len(done.sqls))))), n |-> done.n]

\* extractFilters and extractFiltersColumn.
Compile(filter, table, at, n, scoped) ==
  Combined(filter, CompileAll(InOrder(filter), table, at, n, scoped))

-----------------------------------------------------------------------------
(* What the database makes of it: `env' holds the row each alias stands for. *)

Links == IF Through THEN db.j ELSE {Null}

RECURSIVE Eval(_, _)
Eval(sql, env) ==
  CASE sql.is = "every"   -> "T"
    [] sql.is = "noRow"   -> "F"
    [] sql.is = "compare" -> Compare(env[sql.at][sql.column], sql.op, sql.operand)
    [] sql.is = "join"    ->
         LET v == env[sql.at][sql.column]
             w == env[sql.other][sql.with]
         IN IF v = Null \/ w = Null THEN "U" ELSE Holds(v = w)
    [] sql.is = "and"     -> And3({Eval(sql.of[i], env) : i \in DOMAIN sql.of})
    [] sql.is = "or"      -> Or3({Eval(sql.of[i], env) : i \in DOMAIN sql.of})
    [] sql.is = "not"     -> Not3(Eval(sql.of, env))
    [] sql.is = "notTrue" -> Holds(Eval(sql.of, env) # "T")
    [] sql.is = "exists"  ->
         LET Inside(row, link) ==
               [x \in DOMAIN env \cup {sql.alias, sql.via} |->
                  IF x = sql.alias THEN row ELSE IF x = sql.via THEN link ELSE env[x]]
         IN Holds(\E row \in db[sql.table], link \in Links :
                    \A i \in DOMAIN sql.where : Eval(sql.where[i], Inside(row, link)) = "T")

\* The table a statement reads is not aliased.
Selects(sql, row) == Eval(sql, [x \in {0} |-> row]) = "T"

Where(filter, table, n) ==
  IF Given(filter) THEN Compile(filter, table, 0, n, TRUE) ELSE [sql |-> Every, n |-> n]

-----------------------------------------------------------------------------
(* What the relation shows of its target, on the paths that read a table.   *)

ParentKey(p) == IF build.shape = "one" THEN p.ref ELSE p.id
GroupKey(row, link) ==
  CASE build.shape = "many" -> row.ref [] build.shape = "one" -> row.id [] Through -> link.src

\* relationOwnCondition: a reversed `where' asks for a parent that holds the key and passes it.
OwnCondition(row, link) ==
  CASE build.own = "none"     -> TRUE
    [] build.own = "target"   -> row.val = 1
    [] build.own = "reversed" -> \E p \in db.a : p.val = 1 /\ ParentKey(p) = GroupKey(row, link)

\* Mutated form: the junction is joined as it is.
AnyLink(link) == TRUE
\* junctionPolicy.
LinkKept(link) == Through /\ build.links => link.kept = 1

\* deleted ?? defaultDeleted.
Mode == IF Given(request.deleted) THEN request.deleted ELSE RelationDefault("a")

\* The filter asked for and then the target's policies, as one condition on the target.
TargetCondition(mode, n) ==
  LET asked  == Where(request.filter, "b", n)
      policy == RowPolicy("b", 0, mode, asked.n)
  IN [sql |-> AllOf(<<asked.sql, policy.sql>>), n |-> policy.n]
FieldCondition(n) == TargetCondition(Mode, n)

\* A root field hides what is deleted unless it is asked not to.
RootMode == IF Given(request.deleted) THEN request.deleted ELSE "EXCLUDE"
RootCondition(n) == TargetCondition(RootMode, n)

\* The rows one batched query returns for these keys, each beside the key it is grouped by.
BatchRows(keys, sql) ==
  {<<GroupKey(pair[1], pair[2]), pair[1]>> :
     pair \in {pair \in db.b \X Links :
       LET row == pair[1]
           link == pair[2]
       IN /\ Through => link.dst = row.id
          /\ GroupKey(row, link) \in keys
          /\ OwnCondition(row, link)
          /\ LinkKept(link)
          /\ Selects(sql, row)}}
RowsOf(key, rows) == {pair[2] : pair \in {pair \in rows : pair[1] = key}}

\* One parent's page, in the order of the primary key (no `orderBy' is given).
Page(rows, limit, offset) ==
  {row \in rows : LET before == Cardinality({r \in rows : r.id < row.id})
                  IN before >= offset /\ (Given(limit) => before < offset + limit)}

\* The keys a batch is asked for: a parent whose key is NULL has no related rows.
Keys == {ParentKey(p) : p \in parents} \ {Null}

\* What drizzle's `with:' loads for a parent.
Loaded(p, sql) ==
  {row \in db.b : \E link \in Links :
     /\ Through => link.dst = row.id
     /\ ParentKey(p) # Null /\ ParentKey(p) = GroupKey(row, link)
     /\ build.own = "target" => row.val = 1
     /\ build.own = "reversed" => p.val = 1
     /\ Selects(sql, row)}

\* extractRelationsParams: what leaves a relation to its field resolver.
LeftToResolver ==
  \/ ~request.eager                                    \* eagerLoadRelations
  \/ request.aliased                                   \* selected more than once
  \/ ~ToOne("a") /\ request.cursor
  \/ Through /\ build.links

-----------------------------------------------------------------------------
\* Arguments the schema accepts, rows its columns hold, before anything is resolved.
Started ==
  /\ ToOne("a") => ~Given(request.limit) /\ request.offset = 0
  /\ Given(request.deleted) => Given(build.soft.marker)
  /\ ~Through => db.j = {}
  /\ build.soft.marker \in {NotGiven, "flag"} => \A row \in db.b : row.mark # Null
  /\ \A pair \in SelectedPairs(request.fields) :
       pair # WholeRows => pair[2] \in OutputColumns(pair[1], TargetColumns)
  /\ \A h \in request.having : h.pair # WholeRows => h.pair[2] \in HavingColumns(h.pair[1], TargetColumns)
  /\ request.keys \subseteq Groupable(TargetColumns)
  /\ aliases = 1
  /\ pc = request.root
  /\ parents = {}
  /\ eager = NotGiven
  /\ field = <<>>
  /\ counted = <<>>
  /\ totals = NotGiven
Init ==
  /\ build \in Builds
  /\ db \in Databases
  /\ request \in Requests
  /\ Started

\* The list resolver, with what `with:' brings along.
ReadParents ==
  /\ pc = "list"
  /\ LET list == Where(request.where, "a", aliases)
         found == {p \in db.a : Selects(list.sql, p)}
         condition == FieldCondition(list.n)
     IN /\ parents' = found
        /\ IF LeftToResolver
           THEN aliases' = list.n /\ UNCHANGED eager
           ELSE /\ eager' = [p \in found |->
                     Page(Loaded(p, condition.sql), request.limit, request.offset)]
                /\ aliases' = condition.n
  /\ pc' = "field"
  /\ UNCHANGED <<build, db, request, field, counted, totals>>

\* The relation field's resolver for every parent: what came with it, or one batch for all.
ResolveField ==
  /\ pc = "field"
  /\ IF Given(eager)
     THEN field' = eager /\ UNCHANGED aliases
     ELSE LET condition == FieldCondition(aliases)
              rows == BatchRows(Keys, condition.sql)
          IN /\ field' = [p \in parents |-> Page(RowsOf(ParentKey(p), rows), request.limit, request.offset)]
             /\ aliases' = IF Keys = {} THEN aliases ELSE condition.n
  /\ pc' = "aggregate"
  /\ UNCHANGED <<build, db, request, parents, eager, counted, totals>>

\* <relation>Aggregate, of a to-many: the batch grouped by its keys, a parent of no group apart.
ResolveAggregate ==
  /\ pc = "aggregate"
  /\ ~ToOne("a")
  /\ LET asked == ParseAggregateRequest(request.fields)
         condition == FieldCondition(aliases)
         rows == BatchRows(Keys, condition.sql)
         Row(key) == IF RowsOf(key, rows) = {} THEN NoGroup
                     ELSE AggregateRow(asked, RowsOf(key, rows), TargetColumns, build.dialect)
     IN /\ counted' = [p \in parents |-> AssembleAggregateRow(Row(ParentKey(p)), asked)]
        /\ aliases' = IF Keys = {} \/ asked = {} THEN aliases ELSE condition.n
  /\ pc' = "done"
  /\ UNCHANGED <<build, db, request, parents, eager, field, totals>>

\* <table>Aggregate.
RootAggregate ==
  /\ pc = "totals"
  /\ LET asked == ParseAggregateRequest(request.fields)
         condition == RootCondition(aliases)
         rows == {row \in db.b : Selects(condition.sql, row)}
     IN /\ totals' = AssembleAggregateRow(AggregateRow(asked, rows, TargetColumns, build.dialect), asked)
        /\ aliases' = IF asked = {} THEN aliases ELSE condition.n
  /\ pc' = "end"
  /\ UNCHANGED <<build, db, request, parents, eager, field, counted>>

\* <table>GroupBy, refused without a column to group by.
RootGroupBy ==
  /\ pc = "groups"
  /\ LET asked == ParseAggregateRequest(request.fields)
         condition == RootCondition(aliases)
         rows == {row \in db.b : Selects(condition.sql, row)}
     IN IF request.keys = {}
        THEN UNCHANGED <<totals, aliases>>
        ELSE /\ totals' = GroupedRows(asked, rows, request.keys, request.having, TargetColumns, build.dialect)
             /\ aliases' = condition.n
  /\ pc' = "end"
  /\ UNCHANGED <<build, db, request, parents, eager, field, counted>>

Next == ReadParents \/ ResolveField \/ ResolveAggregate \/ RootAggregate \/ RootGroupBy
Spec == Init /\ [][Next]_vars

-----------------------------------------------------------------------------
(* What the arguments mean, row by row, with no SQL in between.             *)

\* Whether two rows are linked, by links that exist for this request.
Linked(a, b, scoped) ==
  CASE build.shape = "many" -> b.ref = a.id
    [] build.shape = "one"  -> a.ref = b.id
    [] Through -> \E link \in db.j : link.src = a.id /\ link.dst = b.id /\ (scoped /\ build.links => link.kept = 1)

Marked(b) == IF build.soft.marker = "null" THEN b.mark # Null ELSE b.mark = 1

RECURSIVE Truth(_, _, _, _), Shows(_, _, _, _, _)

\* Whether the relation `from' one of the two rows shows the other.
Shows(from, a, b, mode, scoped) ==
  /\ Linked(a, b, scoped)
  /\ build.own = "target" /\ from = "a" => b.val = 1
  /\ build.own = "reversed" => a.val = 1
  /\ scoped /\ from = "a" =>
       /\ Given(build.soft.marker) /\ mode # "INCLUDE" => (Marked(b) <=> mode = "ONLY")
       /\ Given(build.scope) => Truth(build.scope, "b", b, FALSE) = "T"

Related(from, row, scoped) ==
  IF from = "a" THEN {b \in db.b : Shows("a", row, b, RelationDefault("a"), scoped)}
                ELSE {a \in db.a : Shows("b", a, row, "INCLUDE", scoped)}

LeafTruth(leaf, table, row, scoped) ==
  CASE leaf.is = "operator" -> IF leaf.operand = {} THEN Holds(leaf.op # "inArray")
                               ELSE Compare(row[leaf.column], leaf.op, leaf.operand)
    [] leaf.is = "column"   -> Truth(leaf.filter, table, row, scoped)
    [] leaf.is = "relation" ->
         LET Matches(other) == Truth(leaf.filter, Other(table), other, scoped) = "T"
             others == Related(table, row, scoped)
             mode == IF ToOne(table) THEN "some" ELSE leaf.mode
         IN Holds(CASE mode = "some"  -> \E other \in others : Matches(other)
                    [] mode = "none"  -> \A other \in others : ~Matches(other)
                    [] mode = "every" -> \A other \in others : Matches(other))

\* Everything in a filter object is ANDed: its leaves, its AND list, its OR group, its NOT turned.
Truth(filter, table, row, scoped) ==
  LET Values(list) == {Truth(list[i], table, row, scoped) : i \in DOMAIN list}
  IN And3({LeafTruth(filter.leaves[i], table, row, scoped) : i \in DOMAIN filter.leaves}
            \cup Values(filter.and)
            \cup {Not3(v) : v \in Values(filter.not)}
            \cup (IF filter.or = <<>> THEN {} ELSE {Or3(Values(filter.or))}))

Passes(filter, table, row) == Given(filter) => Truth(filter, table, row, TRUE) = "T"

\* The rows a request asks the relation of one parent for, before they are paged.
Asked(p) == {b \in db.b : Shows("a", p, b, Mode, TRUE) /\ Passes(request.filter, "b", b)}

(* The list returns the rows its `where' means, NULLs and empty operands     *)
(* included, and a filter through a relation judges the rows the relation    *)
(* shows: not one hidden by its own `where', the target's scope or marker,   *)
(* or a junction row that is out of reach.  extractFilters,                  *)
(* compileBooleanBranches, buildRelationExists.                              *)
FilterMeans == pc \in {"field", "aggregate", "done"} => parents = {p \in db.a : Passes(request.where, "a", p)}

\* What an aggregate of a set of rows is: a list of the values in the order of the column.
InColumnOrder(kind) == IF kind = "enum" /\ build.dialect = "sqlite" THEN <<2, 1>> ELSE <<1, 2, 3>>
ValueOf(pair, rows) ==
  LET held == {row \in rows : row[pair[2]] # Null}
      In(order) == {i \in DOMAIN order : \E row \in held : row[pair[2]] = order[i]}
      order == InColumnOrder(TargetColumns[pair[2]])
      Sum[S \in SUBSET rows] == IF S = {} THEN 0 ELSE LET r == CHOOSE r \in S : TRUE IN r[pair[2]] + Sum[S \ {r}]
  IN CASE pair = WholeRows -> Cardinality(rows)
       [] pair[1] = "countNonNull" -> Cardinality(held)
       [] pair[1] = "countDistinct" -> Cardinality(In(<<1, 2, 3>>))
       [] pair[1] \notin {"count", "countNonNull", "countDistinct"} /\ held = {} -> Null
       [] pair[1] = "min" /\ held # {} -> order[CHOOSE i \in In(order) : \A j \in In(order) : i <= j]
       [] pair[1] = "max" /\ held # {} -> order[CHOOSE i \in In(order) : \A j \in In(order) : i >= j]
       [] pair[1] = "sum" /\ held # {} -> Sum[held]
       [] pair[1] = "avg" /\ held # {} -> <<Sum[held], Cardinality(held)>>
AggregatesOf(rows) == [pair \in SelectedPairs(request.fields) |-> ValueOf(pair, rows)]
Compared(value, h) ==
  /\ value # Null
  /\ LET n == IF h.pair[1] = "avg" THEN value[2] ELSE 1
         v == 2 * (IF h.pair[1] = "avg" THEN value[1] ELSE value)
     IN \/ h.op \in {"eq", "gte", "lte"} /\ v = h.halves * n
        \/ h.op \in {"gt", "gte", "ne"} /\ v > h.halves * n
        \/ h.op \in {"lt", "lte", "ne"} /\ v < h.halves * n

(* Whichever way a relation is read, loaded with its parents or by its       *)
(* resolver in one batch, each parent gets its own rows and page, and the    *)
(* aggregate is of those rows.  extractRelationsParams,                      *)
(* createRelationResolverFactory, createRelationAggregateFactory.            *)
PathsAgree ==
  /\ pc \in {"aggregate", "done"} =>
       field = [p \in parents |-> Page(Asked(p), request.limit, request.offset)]
  /\ pc = "done" => counted = [p \in parents |-> AggregatesOf(Asked(p))]

\* The rows of `b' a root field asks for.
AskedRows ==
  {b \in db.b : /\ Passes(request.filter, "b", b)
                /\ Given(build.soft.marker) /\ RootMode # "INCLUDE" => (Marked(b) <=> RootMode = "ONLY")
                /\ Given(build.scope) => Truth(build.scope, "b", b, FALSE) = "T"}

(* A root aggregate is of the rows its list returns for the same arguments:  *)
(* a column's minimum and maximum are the ends of that list ordered by it,   *)
(* NULL counts for no column, and of no rows there are 0 and no more.        *)
(* generateAggregate, parseAggregateRequest, assembleAggregateRow.           *)
TotalsMean == pc = "end" /\ request.root = "totals" => totals = AggregatesOf(AskedRows)

(* The groups split those rows: each is one combination of the columns       *)
(* grouped by, NULL being one more value, with the aggregates of its rows,   *)
(* and only those every comparison of `having' holds for are returned.       *)
(* generateGroupBy, buildHavingCondition.                                    *)
GroupsMean ==
  pc = "end" /\ request.root = "groups" /\ request.keys # {} =>
    LET Wanted(rows) == \A h \in request.having : Compared(ValueOf(h.pair, rows), h)
        RowsWith(g) == {b \in AskedRows : \A c \in request.keys : b[c] = g[c]}
        keys == {[c \in request.keys |-> b[c]] : b \in AskedRows}
    IN totals = {[group |-> g, totals |-> AggregatesOf(RowsWith(g))] : g \in {g \in keys : Wanted(RowsWith(g))}}
=============================================================================
