---------------------------- MODULE MCSchemaBuild ---------------------------
(***************************************************************************)
(* Four tables: users and posts with a required and an optional reference, *)
(* tags with an optional unique owner, and a junction that soft-deletes.   *)
(* A first call takes one of the configurations below, each of which is    *)
(* the plain one changed in one respect or two, and a second call one that *)
(* meets what the first left behind.                                       *)
(***************************************************************************)
EXTENDS SchemaBuild, TLC

-----------------------------------------------------------------------------
(* The schema. *)

MCTableKeys == <<"users", "posts", "links", "tags">>

\* A column that an insert must be given, one it may be, a key the database fills in, JSON; a slug
\* is computed, and required.
Plain == [notNull |-> TRUE, hasDefault |-> FALSE, owned |-> FALSE, json |-> FALSE,
          flag |-> FALSE, list |-> FALSE]
Optional == [Plain EXCEPT !.notNull = FALSE]
Serial == [Plain EXCEPT !.hasDefault = TRUE, !.owned = TRUE]
Json == [Plain EXCEPT !.json = TRUE]

MCColumn ==
  ("users" :> [id |-> [Plain EXCEPT !.hasDefault = TRUE], team |-> Plain, avatar |-> Json,
               scores |-> [Optional EXCEPT !.list = TRUE]])
  @@ ("posts" :> [id |-> Serial, title |-> Plain, authorId |-> Plain, editorId |-> Optional,
               slug |-> [Plain EXCEPT !.owned = TRUE]])
  @@ ("links" :> [userId |-> Plain, tagId |-> Plain, gone |-> Optional, live |-> [Plain EXCEPT !.flag = TRUE]])
  @@ ("tags" :> [id |-> Plain, label |-> Plain, ownerId |-> Optional])

MCPrimaryKey == ("users" :> {"id"}) @@ ("posts" :> {"id"}) @@ ("links" :> {"userId", "tagId"}) @@ ("tags" :> {"id"})
MCUniqueSets == ("users" :> {}) @@ ("posts" :> {}) @@ ("links" :> {}) @@ ("tags" :> {{"ownerId"}})
MCPartialSets == ("users" :> {}) @@ ("posts" :> {{"title"}}) @@ ("links" :> {}) @@ ("tags" :> {})

One(target, local, foreign) ==
  [target |-> target, one |-> TRUE, local |-> local, foreign |-> foreign, through |-> Direct,
   composite |-> FALSE, ownWhere |-> FALSE]
Many(target, local, foreign) == [One(target, local, foreign) EXCEPT !.one = FALSE]
Through(target, source, reached) ==
  [Many(target, "id", "id") EXCEPT !.through = [table |-> "links", source |-> source, target |-> reached]]

MCRelation ==
  ("users" :> [posts |-> Many("posts", "id", "authorId"), edited |-> Many("posts", "id", "editorId"),
               drafts |-> [Many("posts", "id", "editorId") EXCEPT !.ownWhere = TRUE],
               badge |-> One("tags", "id", "ownerId"), tags |-> Through("tags", "userId", "tagId"),
               team |-> One("tags", "team", "label")])
  @@ ("posts" :> [author |-> One("users", "authorId", "id"), editor |-> One("users", "editorId", "id"),
                  same |-> [Many("posts", "id", "editorId") EXCEPT !.composite = TRUE]])
  @@ ("links" :> <<>>)
  @@ ("tags" :> [owner |-> One("users", "ownerId", "id"), users |-> Through("users", "tagId", "userId")])

Nouns(lower, upper) == [lower |-> lower, upper |-> upper]
MCNoun == ("users" :> Nouns("users", "Users")) @@ ("posts" :> Nouns("posts", "Posts"))
          @@ ("links" :> Nouns("links", "Links")) @@ ("tags" :> Nouns("tags", "Tags"))

-----------------------------------------------------------------------------
(* Configurations. *)

Simple ==
  [features |-> <<>>, nestedWrites |-> FALSE, excludeTables |-> {}, excludeColumns |-> <<>>,
   contextValues |-> <<>>, scope |-> {}, softDelete |-> <<>>, everyTableHooks |-> {}, hooks |-> <<>>,
   defaultOrder |-> <<>>,
   limits |-> [all |-> <<>>, tables |-> <<>>, relations |-> <<>>, ofRelation |-> <<>>],
   defaultListSize |-> 3, transactions |-> FALSE, timeoutMs |-> 1000, depthLimit |-> Unbounded,
   scalars |-> <<>>, prefixes |-> [insert |-> "insertInto", delete |-> "deleteFrom", update |-> "update",
                 upsert |-> "upsertInto", restore |-> "restore"],
   suffixes |-> [list |-> "", single |-> "Single"], mapper |-> <<>>, typePrefix |-> "",
   throws |-> {}]

Upserting == [Simple EXCEPT !.features = [upsert |-> {"users", "tags", "posts"}, countMutations |-> Tables]]
Nesting == [Simple EXCEPT !.nestedWrites = TRUE]
Deletes(t, column, deleted) == t :> [column |-> column, deleted |-> deleted, restored |-> FALSE]
Marked == Deletes("links", "gone", "default")
FlagMarked == "links" :> [column |-> "live", deleted |-> "default", restored |-> TRUE]

\* Nouns for every table, with users under the first two and the rest under the table keys.
Mapper(singular, plural) ==
  [t \in Tables |-> IF t = "users" THEN [singular |-> singular, plural |-> plural]
                    ELSE [singular |-> Noun[t], plural |-> Noun[t]]]
Apart == Mapper(Nouns("user", "User"), Nouns("users", "Users"))

On(feature, tables) == [f \in {feature} |-> tables]
WithLimits(limits) == [Simple EXCEPT !.limits = limits]
All(policy) == [Simple.limits EXCEPT !.all = policy]

\* Refused, one for each of the checks, or let through by the check beside it.
Checked ==
  {WithLimits(All([maxLimit |-> 0])),
   WithLimits([Simple.limits EXCEPT !.tables = "nowhere" :> [maxLimit |-> 2]]),
   WithLimits([Simple.limits EXCEPT !.ofRelation = "users" :> ("badge" :> [maxLimit |-> 2])]),
   [Simple EXCEPT !.defaultOrder = "users" :> {"avatar"}],
   [Simple EXCEPT !.defaultOrder = "users" :> {"team"}, !.excludeColumns = "users" :> {"team"}],
   [Simple EXCEPT !.contextValues = "users" :> {"nowhere"}],
   [Simple EXCEPT !.softDelete = Deletes("posts", "title", "function")],
   [Simple EXCEPT !.hooks = "posts" :> {"restore"}],
   [Simple EXCEPT !.everyTableHooks = {"insert"}, !.hooks = "posts" :> {"insert"}],
   [Simple EXCEPT !.excludeTables = Tables],
   [Simple EXCEPT !.suffixes.list = "Single"],
   [Simple EXCEPT !.transactions = TRUE, !.timeoutMs = 0],
   [Simple EXCEPT !.depthLimit = -1]}

Read ==
  {Simple, Upserting,
   [Simple EXCEPT !.features = On("distinct", {})],
   [Simple EXCEPT !.features = On("aggregates", {"users"}), !.depthLimit = 0],
   [Simple EXCEPT !.excludeColumns = "users" :> {"team"}],
   [Simple EXCEPT !.excludeColumns = "tags" :> {"ownerId"}, !.excludeTables = {"links"}],
   [Upserting EXCEPT !.contextValues = "users" :> {"team"}],
   [Upserting EXCEPT !.contextValues = "users" :> {"team", "avatar", "id"}],
   [Simple EXCEPT !.scope = {"users"}],
   [Simple EXCEPT !.scalars = "users" :> {"scores"}],
   [Simple EXCEPT !.defaultOrder = "posts" :> {"title"}],
   [Simple EXCEPT !.hooks = "posts" :> {"insert"}, !.transactions = TRUE],
   WithLimits(All([maxLimit |-> 4])),
   WithLimits(All([defaultLimit |-> 3, maxLimit |-> 2, clampToMax |-> TRUE])),
   WithLimits([all |-> [defaultLimit |-> 2], tables |-> "posts" :> [maxLimit |-> 1],
               relations |-> [clampToMax |-> TRUE],
               ofRelation |-> "users" :> ("posts" :> [maxLimit |-> 4])])}

Named ==
  {[Simple EXCEPT !.typePrefix = "My"],
   [Simple EXCEPT !.suffixes.list = "Aggregate"],
   [Simple EXCEPT !.suffixes.list = "Many"],
   [Upserting EXCEPT !.suffixes.list = "Count"],
   [Simple EXCEPT !.prefixes.delete = "update"],
   [Simple EXCEPT !.mapper = Apart],
   [Simple EXCEPT !.mapper = Mapper(Noun["users"], Noun["users"])],
   [Simple EXCEPT !.mapper = Mapper(Noun["posts"], Nouns("people", "People"))]}

Nested ==
  {Nesting,
   [Nesting EXCEPT !.softDelete = Marked],
   [Nesting EXCEPT !.softDelete = FlagMarked],
   [Nesting EXCEPT !.softDelete = Marked, !.features = On("update", {"users", "posts"})],
   [Nesting EXCEPT !.features = On("delete", {"users"})],
   [Nesting EXCEPT !.features = On("insert", {"users", "posts"})],
   [Nesting EXCEPT !.features = On("update", {"users"})],
   [Nesting EXCEPT !.features = On("insert", {"posts"}), !.excludeColumns = "posts" :> {"authorId"}],
   [Nesting EXCEPT !.contextValues = "posts" :> {"authorId"}],
   [Nesting EXCEPT !.contextValues = "links" :> {"tagId", "live"}],
   [Nesting EXCEPT !.contextValues = "links" :> {"live"}],
   [Nesting EXCEPT !.excludeTables = {"links"}],
   [Nesting EXCEPT !.excludeTables = {"tags"}, !.transactions = TRUE]}

\* What may throw before the build is registered, and after it: two tables are enough for some of
\* the thunks to have run, and others not.
Throwing ==
  {[Upserting EXCEPT !.contextValues = "users" :> {"team"}, !.throws = {"reads", "writes", "finish"}]}
  \cup {[c EXCEPT !.excludeTables = {"links", "tags"}, !.throws = {"assemble"}] :
          c \in {[Simple EXCEPT !.scope = {"users"}], [Simple EXCEPT !.excludeColumns = "users" :> {"team"}]}}

MCFirst == Checked \cup Read \cup Named \cup Nested \cup Throwing

\* What can meet the caches and the register of a first call.
MCLater ==
  {Simple, Upserting,
   [Simple EXCEPT !.excludeColumns = "users" :> {"team"}],
   [Upserting EXCEPT !.contextValues = "users" :> {"team"}],
   [Simple EXCEPT !.suffixes.list = "Many"],
   [Simple EXCEPT !.scope = {"users"}],
   [Simple EXCEPT !.scope = {"users"}, !.excludeTables = {"links", "tags"}, !.throws = {"assemble"}],
   [Simple EXCEPT !.scalars = "users" :> {"scores"}]}

-----------------------------------------------------------------------------
(* The databases, and what a helper is called with. *)

MCDialect == ("main" :> "pg") @@ ("replica" :> "pg") @@ ("shop" :> "mysql") @@ ("local" :> "sync")

MCCalls ==
  {[db |-> db, types |-> types, context |-> context] :
     db \in {"main", "replica"}, types \in {<<>>, <<1>>, <<0, 2>>, <<2, 1>>}, context \in BOOLEAN}
=============================================================================
