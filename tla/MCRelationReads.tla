--------------------------- MODULE MCRelationReads ---------------------------
(* Instances of RelationReads: three rows of `a', two or three of `b', and the links. *)
EXTENDS RelationReads

CONSTANT ReversedToOne   \* whether a to-one relation may inherit the `where' of its reverse

All == Filter(<<>>, <<>>, <<>>, <<>>)
Op(column, op, operand) == [is |-> "operator", column |-> column, op |-> op, operand |-> operand]
Rel(mode, filter) == [is |-> "relation", mode |-> mode, filter |-> filter]
Only(leaf) == Filter(<<leaf>>, <<>>, <<>>, <<>>)
Not(filter) == Filter(<<>>, <<>>, <<>>, <<filter>>)
AnyOfThese(filters) == Filter(<<>>, <<>>, filters, <<>>)

IsOne   == Only(Op("val", "eq", {1}))
IsntOne == Only(Op("val", "ne", {1}))
OnColumn(filter) == Only([is |-> "column", filter |-> filter])
Among(S)  == Only(Op("val", "inArray", S))
Outside(S) == Only(Op("val", "notInArray", S))

TargetFilters == {All, IsOne, Not(IsOne), Among({}), Not(Among({})), Outside({}), Not(Outside({})),
                  AnyOfThese(<<IsntOne, Among({})>>), Not(AnyOfThese(<<IsOne, All>>)),
                  Filter(<<Op("val", "isNotNull", {})>>, <<IsntOne>>, <<Among({1}), Outside({1})>>, <<>>),
                  OnColumn(Filter(<<Op("val", "isNull", {})>>, <<>>, <<IsOne, Outside({2})>>, <<IsntOne>>))}
Listings ==
  {Only(Rel(mode, filter)) : mode \in {"some", "none", "every"}, filter \in TargetFilters}
    \cup {Not(Only(Rel("every", filter))) : filter \in {All, IsOne, Among({})}}
    \cup {AnyOfThese(<<IsOne, Only(Rel("none", IsOne))>>)}
    \cup {Only(Rel(mode, Only(Rel("some", filter)))) :
            mode \in {"some", "every"}, filter \in {IsOne, Only(Rel("some", IsOne))}}

MCBuilds ==
  {[shape |-> shape, required |-> required, own |-> own, soft |-> soft, scope |-> scope, links |-> links,
    dialect |-> "pg", val |-> "number", excluded |-> {}] :
     shape \in {"many", "one", "through"}, required \in BOOLEAN, own \in {"none", "target", "reversed"},
     soft \in {[marker |-> NotGiven, hiddenIn |-> "all"]}
                \cup [marker : {"null", "flag", "nullableFlag"}, hiddenIn : {"all", "root"}],
     scope \in {NotGiven, Among({1}), Only(Rel("some", IsOne))}, links \in BOOLEAN}
Offered(b) ==
  /\ b.required => b.shape = "one"
  /\ b.links => b.shape = "through"
  \* Policies on the target are looked at apart from the relation's own `where'.
  /\ b.own # "none" => b.soft.marker = NotGiven
  /\ b.soft.hiddenIn = "root" => b.soft.marker = "null" /\ b.scope = NotGiven
  /\ b.scope # NotGiven => b.soft.marker # "flag"
  \* Only the batch of a to-one relation can mix parents its `where' tells apart.
  /\ b.shape = "one" /\ b.own = "reversed" => ReversedToOne
\* Schemas whose `val' is aggregated as something else, or by another dialect.
Plain(shape, soft, scope, dialect, kind) ==
  [shape |-> shape, required |-> FALSE, own |-> "none", links |-> FALSE, scope |-> scope,
   soft |-> [marker |-> soft, hiddenIn |-> "all"], dialect |-> dialect, val |-> kind,
   excluded |-> IF kind = "uuid" THEN {"mark"} ELSE {}]
Aggregated ==
  {Plain("many", soft, scope, "mysql", "number") : soft \in {NotGiven, "null"}, scope \in {NotGiven, Only(Rel("some", IsOne))}}
    \cup {Plain(shape, "null", NotGiven, dialect, "enum") : shape \in {"many", "through"}, dialect \in {"pg", "mysql", "sqlite"}}
    \cup {Plain("many", NotGiven, NotGiven, "pg", kind) : kind \in {"uuid", "boolean", "json"}}
BuildsOffered == {b \in MCBuilds : Offered(b)} \cup Aggregated

AllRows == {[id |-> 1, ref |-> 1, val |-> 1], [id |-> 2, ref |-> 1, val |-> 2], [id |-> 3, ref |-> Null, val |-> 1]}
Links3 == {{}, {[src |-> 1, dst |-> 1, kept |-> 1], [src |-> 1, dst |-> 2, kept |-> 2], [src |-> 2, dst |-> 1, kept |-> 2]}}
Pairs ==
  {[a |-> AllRows,
    b |-> {[id |-> 1, ref |-> ref, val |-> val, mark |-> mark], [id |-> 2, ref |-> 1, val |-> 1, mark |-> 2]},
    j |-> links] : ref \in {1, 2}, val \in {1, 2, Null}, mark \in {Null, 1, 2}, links \in Links3}
\* Three rows to aggregate and group, and none.
Triples ==
  {[a |-> AllRows,
    b |-> {[id |-> 1, ref |-> 1, val |-> v, mark |-> m], [id |-> 2, ref |-> 1, val |-> w, mark |-> Null],
           [id |-> 3, ref |-> 2, val |-> x, mark |-> n]},
    j |-> {}] : v \in {1, 2, Null}, w \in {1, 2}, x \in {1, Null}, m \in {Null, 1}, n \in {Null, 1}}
    \cup {[a |-> AllRows, b |-> {}, j |-> {}]}
MCDatabases == Pairs \cup Triples

\* Aggregates: one, all, two under aliases of one operation, and none.
Field(op, columns) == [name |-> op, columns |-> columns]
CountOnly == <<Field("count", {"*"})>>
Several == {<<Field("avg", {"val"}), Field("sum", {"val"}), Field("count", {"*"})>>,
            <<Field("min", {"val"}), Field("countDistinct", {"val"})>>,
            <<Field("max", {"val"}), Field("countNonNull", {"val"})>>,
            <<Field("min", {"id"}), Field("count", {"*"}), Field("min", {"val"})>>,
            <<Field("countNonNull", {"val", "mark"}), Field("countDistinct", {"mark"})>>}
Compares(op, column, how, halves) == [pair |-> <<op, column>>, op |-> how, halves |-> halves]
Havings == {{}, {Compares("count", "*", "gt", 3)},
            {Compares("sum", "val", "gte", 3), Compares("count", "*", "lt", 5)},
            {Compares("avg", "val", "eq", 3), Compares("min", "val", "ne", 4)},
            {Compares("countNonNull", "val", "lte", 1), Compares("countDistinct", "mark", "ne", 0)}}

\* `how' the field is selected: once, under two aliases, or with its cursors.
Request(where, filter, deleted, limit, offset, with, how) ==
  [root |-> "list", where |-> where, filter |-> filter, deleted |-> deleted, limit |-> limit, offset |-> offset,
   eager |-> with, aliased |-> how = "aliased", cursor |-> how = "cursor",
   fields |-> CountOnly, keys |-> {}, having |-> {}]
Aggregate(root, filter, deleted, fields, keys, having) ==
  [Request(NotGiven, filter, deleted, NotGiven, 0, TRUE, "once") EXCEPT
     !.root = root, !.fields = fields, !.keys = keys, !.having = having]
Listed ==
  {Request(where, NotGiven, NotGiven, NotGiven, 0, TRUE, "once") : where \in Listings}
    \cup {Request(NotGiven, filter, deleted, NotGiven, 0, with, "once") :
            filter \in {NotGiven, IsOne, Not(IsOne)}, deleted \in {NotGiven, "INCLUDE", "ONLY"}, with \in BOOLEAN}
    \cup {Request(NotGiven, NotGiven, NotGiven, limit, offset, TRUE, how) :
            limit \in {NotGiven, 1}, offset \in {0, 1}, how \in {"once", "aliased", "cursor"}}
Totals ==
  {Aggregate(root, filter, deleted, fields, {}, {}) :
     root \in {"list", "totals"}, filter \in {NotGiven, IsntOne}, deleted \in {NotGiven, "INCLUDE"},
     fields \in Several \cup {<<>>}}
Groups ==
  {Aggregate("groups", filter, NotGiven, fields, keys, having) :
     filter \in {NotGiven, IsntOne}, fields \in Several \cup {CountOnly},
     keys \in {{}, {"val"}, {"mark"}, {"ref", "mark"}}, having \in Havings}
MCRequests == Listed \cup Totals \cup Groups

\* Lists over the pairs of rows, aggregates over the schemas and rows that tell them apart.
MCInit ==
  /\ \/ build \in MCBuilds /\ Offered(build) /\ request \in Listed /\ db \in Pairs
     \/ build \in Aggregated /\ request \in Totals /\ db \in MCDatabases
     \/ build \in Aggregated /\ request \in Groups /\ db \in Triples
  /\ Started
MCSpec == MCInit /\ [][Next]_vars
=============================================================================
