----------------------------- MODULE Aggregates -----------------------------
(***************************************************************************)
(* What aggregating a table offers and computes: which columns each        *)
(* operation takes, what a selection asks for, the SQL it becomes, and the *)
(* row of results put back together (aggregates.ts).                       *)
(***************************************************************************)
EXTENDS Integers, FiniteSets, FiniteSetsExt, Sequences, SequencesExt

CONSTANT Null   \* SQL's NULL

AggregateOps == {"avg", "sum", "min", "max", "countNonNull", "countDistinct"}
CountOps == {"countNonNull", "countDistinct"}

-----------------------------------------------------------------------------
(* What the schema offers.  A table's columns are a function from its      *)
(* visible columns to what they hold.                                      *)

NoMinMax == {"uuid", "bigBlob"}   \* equality, and no order the database aggregates by

\* classifyAggregateColumns.
AnyColumn(columns) == DOMAIN columns
Comparable(columns) == {c \in DOMAIN columns : columns[c] \notin {"boolean", "json", "list"}}
Orderable(columns) == {c \in Comparable(columns) : columns[c] \notin NoMinMax}
Numeric(columns) == {c \in Comparable(columns) : columns[c] = "number"}

\* generateAggregateTypes, and the inputs of `having', which compares numbers only.
OutputColumns(op, columns) ==
  CASE op \in {"avg", "sum"}  -> Numeric(columns)
    [] op \in {"min", "max"}  -> Orderable(columns)
    [] op = "countNonNull"    -> AnyColumn(columns)
    [] op = "countDistinct"   -> Comparable(columns)
HavingColumns(op, columns) ==
  IF op \in {"min", "max"} THEN Numeric(columns) ELSE OutputColumns(op, columns)

\* groupableColumns.
Groupable(columns) == Comparable(columns) \cup {c \in DOMAIN columns : columns[c] = "boolean"}

-----------------------------------------------------------------------------
(* Requests and their SQL.                                                 *)

WholeRows == <<"count", "*">>

\* The (operation, column) pairs of a selection: aliases of one operation add up.
SelectedPairs(fields) == UNION {{fields[i].name} \X fields[i].columns : i \in DOMAIN fields}

\* parseAggregateRequest: each pair is one expression, `count' counts whole rows.
ParseAggregateRequest(fields) ==
  {pair \in SelectedPairs(fields) : pair[1] \in AggregateOps \/ pair = WholeRows}

\* What MIN() and MAX() compare by: an ENUM of MySQL by its label, and labels sort from
\* the last declared to the first; every other value by the order of its column.
Ranked(v, kind, dialect, declared) ==
  IF kind = "enum" /\ (dialect = "sqlite" \/ (dialect = "mysql" /\ ~declared)) THEN -v ELSE v
Least(values, kind, dialect, declared) ==
  CHOOSE v \in values : \A w \in values : Ranked(v, kind, dialect, declared) <= Ranked(w, kind, dialect, declared)
Greatest(values, kind, dialect, declared) ==
  CHOOSE v \in values : \A w \in values : Ranked(v, kind, dialect, declared) >= Ranked(w, kind, dialect, declared)

\* Mutated form: an ENUM is aggregated as any column is.
AsAnyColumn(kind, dialect) == FALSE
\* orderedAggregateOf: an ENUM of MySQL is aggregated by `col + 0', its place in the declaration.
ByDeclaration(kind, dialect) == kind = "enum" /\ dialect = "mysql"

\* avgOf: averaged as doubles, so that the fraction is kept.
Average(total, n) == <<total, n>>

\* One aggregate expression over a set of rows.
Expression(pair, rows, columns, dialect) ==
  LET column == pair[2]
      present == {row \in rows : row[column] # Null}
      values == {row[column] : row \in present}
      kind == columns[column]
      total == MapThenSumSet(LAMBDA row : row[column], present)
  IN CASE pair = WholeRows -> Cardinality(rows)
       [] pair[1] = "countNonNull"  -> Cardinality(present)
       [] pair[1] = "countDistinct" -> Cardinality(values)
       [] pair[1] \in {"avg", "sum", "min", "max"} /\ values = {} -> Null
       [] pair[1] = "sum" /\ values # {} -> total
       [] pair[1] = "avg" /\ values # {} -> Average(total, Cardinality(present))
       [] pair[1] = "min" /\ values # {} -> Least(values, kind, dialect, ByDeclaration(kind, dialect))
       [] pair[1] = "max" /\ values # {} -> Greatest(values, kind, dialect, ByDeclaration(kind, dialect))

\* The row a SELECT of these expressions returns for a set of rows.
AggregateRow(asked, rows, columns, dialect) ==
  [pair \in asked |-> Expression(pair, rows, columns, dialect)]
NoGroup == <<>>   \* `{}': what stands for a group that is not there

\* assembleAggregateRow: a count that is not there is 0, any other result null.
AssembleAggregateRow(row, asked) ==
  [pair \in asked |-> CASE pair \in DOMAIN row -> row[pair]
                        [] pair \notin DOMAIN row /\ pair[1] \in CountOps \cup {"count"} -> 0
                        [] pair \notin DOMAIN row /\ pair[1] \notin CountOps \cup {"count"} -> Null]

-----------------------------------------------------------------------------
(* GROUP BY and HAVING.                                                    *)

KeyOf(row, keys) == [c \in keys |-> row[c]]
GroupRows(rows, keys) == {{r \in rows : KeyOf(r, keys) = KeyOf(row, keys)} : row \in rows}

\* havingComparisons: the operand is a Float, here in halves; NULL compares as unknown.
CompareHalves(value, op, halves) ==
  /\ value # Null
  /\ CASE op = "eq"  -> 2 * value[1] = halves * value[2]
       [] op = "ne"  -> 2 * value[1] # halves * value[2]
       [] op = "gt"  -> 2 * value[1] > halves * value[2]
       [] op = "gte" -> 2 * value[1] >= halves * value[2]
       [] op = "lt"  -> 2 * value[1] < halves * value[2]
       [] op = "lte" -> 2 * value[1] <= halves * value[2]
Fraction(pair, value) == IF value = Null \/ pair[1] = "avg" THEN value ELSE <<value, 1>>

\* Mutated form: one of the comparisons is enough.
AnyComparison(having, group, columns, dialect) ==
  having = {} \/ \E h \in having :
    CompareHalves(Fraction(h.pair, Expression(h.pair, group, columns, dialect)), h.op, h.halves)
\* buildHavingCondition: the comparisons of every entry are ANDed.
HavingHolds(having, group, columns, dialect) ==
  \A h \in having :
    CompareHalves(Fraction(h.pair, Expression(h.pair, group, columns, dialect)), h.op, h.halves)

\* What SELECT ... GROUP BY ... HAVING returns: the key columns beside the aggregates.
GroupedRows(asked, rows, keys, having, columns, dialect) ==
  {[group |-> KeyOf(CHOOSE row \in group : TRUE, keys),
    totals |-> AssembleAggregateRow(AggregateRow(asked, group, columns, dialect), asked)] :
     group \in {g \in GroupRows(rows, keys) : HavingHolds(having, g, columns, dialect)}}
=============================================================================
