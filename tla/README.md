# Verification of drizzle-graphql

TLA+ models of drizzle-graphql, model-checked with TLC, and theorems about them checked by
TLAPS. The library reads a Drizzle schema and generates a GraphQL schema whose resolvers compile
arguments to SQL. Most of its difficulty is in what the resolvers do together at run time: they run
under an executor (graphql-js) that calls them one field at a time, on a database that other
requests write, around hooks and callbacks of the consumer. The rest is in building the schema:
what is offered has to follow one configuration through many options that meet each other, and
what earlier builds of the process left behind. Both are modelled. Paths below are relative to `src/`, the repository's root.

- [The system](#the-system)
- [Modules](#modules)
- [Runs](#runs)
- [What is proved](#what-is-proved)
- [Where the code and its documentation disagree](#where-the-code-and-its-documentation-disagree)
- [Fairness](#fairness)
- [What is not modelled](#what-is-not-modelled)
- [Plan](#plan)

## The system

`buildSchema` (`src/index.ts`) walks the Drizzle tables once and returns a schema whose resolvers
are closures over *build state* (registries, naming, policies, the dialect). Everything below is
*request state*: it hangs on an execution, on the caller's context object, or on the database.

| component | source (`src/util/...`) | state it keeps | operations |
| --- | --- | --- | --- |
| mutation transactions | `builders/common/transactions.ts`, `common/write-scaffold.ts`, `execution.ts` | `MutationTxCtx.states` by execution key; per shared transaction the completion count, the latch, `aborted`, `timedOut`, the timer, the collected callbacks | `runMutation`, `runOnSharedTx`, `runAsOwnUnit`, `bumpTimer`, `abort`, cleanup |
| executor resolution | `common/executor.ts` | the transaction an execution has published | `resolveExecutor`, publish and withdraw |
| onCommit queues | `common/commit-callbacks.ts` | a queue per commit unit; `callerQueues` by context object | `queueCommitCallback`, stages (`keep`, `drop`), `runCommitCallbacks`, `discardCommitCallbacks` |
| schema builds | `src/index.ts`, `build-config.ts`, `features.ts`, `builders/build-context.ts`, `builders/schema-data.ts`, `mysql.ts`, `common/field-names.ts`, `table-types.ts`, `table-inputs.ts`, `root-fields.ts`, `nested-writes/plans.ts`, `gating.ts`, `input-types.ts` | the build that runs; `orderMap` and `columnEnumCache`, which outlive it | `buildSchema`: resolve the configuration, preflight, prepare, each table's reads and writes, finalize, assemble |
| helpers of the caller's resolvers | `selection.ts`, `common/build-registry.ts` | the builds registered for a database and for a type | `selectionToWith`, `resolveSelection`, `registerBuildRuntime` |
| root field collection | `transactions.ts`, `graphql-variables.ts` | none | `collectRootMutationKeys` |
| batch loader and field memo | `batch-loader/index.ts` | loaders and memo by execution; queue and `scheduled` flag of each loader | `load`, `dispatch`, `getOrCreateRequestValue` |
| relation fields | `common/relation-resolvers.ts`, `common/relation-params.ts`, `common/relations.ts` | `columnCollations` (asked of MySQL once) | eager loading; the batch function: chunks, collation match, grouping |
| aggregates | `builders/aggregates.ts` | none | the aggregate of a relation and of a table, group by |
| nested writes: entry, key on the parent | `builders/nested-writes/entry.ts`, `runtime.ts` | rows written so far in the transaction; a savepoint per entry | `writeNestedEntry`, `applyParentSide`, `checkParentSide` |
| nested writes: key on the target | `nested-writes/runtime.ts`, `hook-steps.ts`, `plans.ts`, `ops.ts` | the target table, as the transaction sees it | `applyForeignKeyOps`, `detachAll`, hook steps |
| nested writes: many-to-many | `nested-writes/runtime.ts` | the junction table | `applyThroughOps` |
| list reads | `builders/select.ts`, `common/select-runtime.ts`, `order-by.ts`, `limits.ts`, `distinct.ts`, `keys.ts` | none | `runRelationalSelect` |
| cursors | `common/cursor.ts`, `cursor-value-formats.ts` | what a client holds: the cursor | `encodeCursor`, `decodeCursor`, `buildCursorCondition` |
| root-table mutations | `builders/write-resolvers.ts`, `update-many.ts`, `common/mutation-helpers.ts`, `conflict.ts`, `builders/mysql.ts`, `pg.ts`, `sqlite.ts` | the table | insert, upsert, update, updateMany, delete, restore; the single-match check; MySQL's detour through keys |
| filters | `common/filters.ts`, `common/relation-filters.ts` | the alias counter of a build | `extractFilters`, `compileBooleanBranches`, `buildRelationExists` |
| policies | `common/policies.ts` | none | scope, soft delete |
| type naming | `common/type-names.ts`, `common/type-cache.ts`, `type-naming.ts` | the build's maps | build-time |
| scalars and formats | `scalars`, `type-converter`, `data-mappers` | none | conversions |

How they meet. A call of `buildSchema` turns a configuration into root fields and inputs; the caches
it fills are read by the next call, and what it registers by the helpers that a caller's own
resolvers use. After that the closures are called. A root mutation field's resolver calls `runMutation`, which decides on the commit
unit: the transaction all root fields of the execution share, a transaction of the field's own, no
transaction, or the caller's executor. It runs the *body* with an executor and a stage for
callbacks. The body writes the row through the nested writes, which run statements and hooks in a
fixed order. While the field's selection is resolved, relation fields queue on batch loaders, and
read through whatever executor their execution has published. Callbacks wait in the stage, then in
the unit's queue, and run after its commit. Reads go through `runRelationalSelect` and keep no
state between pages: a client's cursor is the only memory of where it was.

What is hard, and what makes each part correct:

- *Mutation transactions.* No component knows when a request ends. The commit is decided by
  counting completed fields, the rollback by the first failure or an inactivity timer; the timer
  races the next field, BEGIN and COMMIT may fail, and the host may stop calling resolvers.
  Correct: the fields of a request become durable together or not at all; the answers and callbacks
  agree with what became durable; the transaction is never leaked; nobody waits for ever.
- *onCommit queues.* The caller owns the commit, several executions share its context, and a
  savepoint can roll back inside a field that succeeds. Correct: an accepted callback is run or
  dropped exactly once, after the commit of the transaction it belongs to.
- *Batch loader.* Calls of several fields and executions meet in one microtask queue; keys are
  chunked, and matched under a collation the database is asked for while others wait. Correct:
  every field gets what a query of its own would have returned; every call is settled once.
- *Nested writes.* Statements are built before they run and reach other rows when they do; a filter
  may read what an earlier statement wrote; rows may be hidden from the request. Correct: the rows
  end where the input says, hidden rows stay, no orphan is left, hooks are told of every write.
- *Root-table mutations.* A Single write checks and then writes; an upsert is cut into statements;
  each dialect can do less than the next. Correct: what the arguments say happens to exactly the
  rows in sight, by all statements or by none, and a Single write writes the row it found.
- *Filters and relation reads.* SQL has three truth values, a subquery may shadow the row it is
  compared with, and the rows of one relation are selected by four pieces of code. Correct: a list
  returns what its `where` means, and every path gives a parent the same related rows.
- *Aggregates.* They read by the filters and policies of a list and must be of its rows; NULLs, no
  rows at all and an ENUM's order each have an answer of their own. Correct: an aggregate, a group
  and `having` are what the returned rows say.
- *Schema builds.* Features, exclusions, policies and names are declared apart and meet in each
  table's fields; nested inputs are closed by a table kept beside the code that sends the
  statements; caches keyed by table outlive the build that filled them, and a build may throw.
  Correct: every input can be served without a write the build turned off, no field replaces
  another, each build offers what its own configuration says, and a helper reads under the
  policies of the right build or refuses.
- *List reads and cursors.* Rows change between two pages, ties come back in any order, NULLs sort
  differently per dialect, and a JS value cannot hold every database value. Correct: an untouched
  row is read exactly once.

`PROJECT.json` lists every hazard at its line with the properties aimed at it.

## Modules

Every module names its constants and bounds at the top; definitions keep the names of the code
where they can, and a comment names the function an action is. `Mutated form` marks an operator
that is never used: it is a plausible bug of the definition after it, with which the run must fail.

**AtomicCommit** is the abstract specification of what a commit unit promises: units (a shared
transaction, or one field) are open, then committed or aborted for good, and a callback is
delivered only once its unit has committed.

**MutationTx** (`transactions.ts`, with the parts of `executor.ts`, `write-scaffold.ts` and
`commit-callbacks.ts` it drives). An action runs from one `await` of the code to the next.
`OpenShared` is the first field of a sharing execution up to `await state.ready`, `JoinShared` a
later one (or the fail-fast branch), `ReadyResumes` what follows the await, `SharedReturns` and
`SharedThrows` the two ends of the body, `CommitResumes` and `UnwindResumes` what follows
`await state.settled`. `StartOwn`/`Own...` are `runAsOwnUnit`. `Shared{Begins,Commits,...}` are the
driver, `TimerFires` the inactivity timer, `HookRegisters` the consumer's hook (which may keep its
payload and call it late), `HostStops` a host that gives up. `doc` is what
`collectRootMutationKeys` classifies: plain, hooked and nested fields, library fields whose
arguments do not coerce, foreign fields. `KeepsPromise` is `AtomicCommit` under a refinement
mapping: the fate of a unit is the state of its transaction or the durability of its field.

**CallerCommit** is the queue on a context object under an executor of the caller's: stages of
fields and savepoints, the caller's sequence of transactions, `runCommitCallbacks` and
`discardCommitCallbacks`. The caller may await its executions before it commits, or not; the
properties that need it say so (`host.awaits`).

**BatchLoader** is `load`, `dispatch`, the memo and the batch function: `Resolve` queues a call,
`Dispatch` is the microtask, `Query`/`QueryFails` one chunk, `AskCollation` and
`CollationArrives`/`CollationFails` the shared lookup, `Group` and `Answer` the distribution.

**NestedChildren** is a relation whose foreign key is on the target. `Statements` is the program
`applyForeignKeyOps` runs for an input; `RunDetach`, `RunAttach`, `RunCreate` run one statement
each, against the table as it then is; `Passes` and `Fails` are the checks. `Registered` is what
`registerChildSteps` announces to the hooks, and `seen` what they are told.

**NestedEntry** is a batch of parent writes with an operation on a relation whose key is on the
parent: the target first (`Create`, `Connect`, `Disconnect`), then the parent's statement on any
of its branches, then the check of what it returned, or the savepoint's rollback.

**JunctionLinks** is `applyThroughOps` run by concurrent requests, each in its own transaction, on
a READ COMMITTED database. A junction row belongs to the requests (`ours`) or to another owner that
the junction's scope hides; where it soft-deletes, an unlinked row is `marked`. `Statements` is the
program of an input: `Unlink` for `set` and `disconnect`, then per chunk of parents `Read`,
`Restore` (soft delete only) and `Insert`. A statement sees `View`, what is committed and what its
transaction wrote, and waits for rows and keys an open transaction holds. `Commit` publishes, and
notes in `touched`, for the other requests that run, which pairs it changed; `Refused` is the
unique key turning an insert down, `Fails` any other failure. Whether the junction has that key and
whether it soft-deletes is chosen in `Init`.

**NestedWrites** puts the three together as the plan of a relation does: `side` says whether the
reference is on the parent (`NestedEntry`), on the target (`NestedChildren`) or in a junction
(`JunctionLinks`). One relation is written at a time; the state of the other two lies idle.

**RowWrites** is one root-table mutation, from its arguments to its last statement, on one of the
three dialects. `layout` holds the keys of the table, `soft` whether it soft-deletes, `request` the
arguments. `Check` is the part before the hooks, `FindSingle` and `RefuseMany` the query of
`narrowToSingleMatch`, `Resolve` the query of `mysqlWriteFilter` (MySQL does not accept a filter
that reads the table it writes), `Run` and `StatementFails` a statement, `Return...` the answer,
`Fails` a hook or a read that throws. `Batches` is the conflict plan of an upsert, `InsertRow` the
database's part in it. The request's scope selects the rows that carry its stamp (`by`). `Edit` is
another client under READ COMMITTED; SQLite has one writer. What a `before` hook writes is in the
table the request starts from. `without` is the table had the request not run, the measure of every
property: a row changed by both sides is locked by the first.

**KeysetPages** is a client that pages through a list while rows are inserted, changed, deleted or
moved in and out of what it reads. It holds the ordering with its tiebreak (`Tied`), the limit
policy, `distinct`, the cursor (`CursorOf`, `Decodes`), the condition a cursor compiles to in both
forms (`AfterCursor`, `RowValue`), and the refusals. The database is free where SQL is: a page is
any choice of first rows, ties in any order. Rows are what the request's `where` and scope select.
A value is what the column sorts by; an ENUM's labels sort the other way than its positions; a
rounded column's JS form loses the lowest bit.

**RelationReads** is a request that lists a table `a` under a `where` and reads a relation to a
table `b` below every row. `Compile` is `extractFilters` with everything it calls: the boolean
branches (`AllOf`, `AnyOf`, `NotOf`), one column operator (`OperatorSql`), a relation filter
(`Exists`) with its aliases, the relation's own `where` (`OwnSql`), the target's and the junction's
policies (`RowPolicy`). It returns SQL as a tree and the next alias; `Eval` is the database, with the
rows each alias stands for, and knows nothing of filters. `ReadParents` is the list with what
drizzle's `with:` brings along unless `LeftToResolver`; `ResolveField` the relation's resolver, which
takes what came with the parents or reads one batch for all of them; `ResolveAggregate` its
aggregate, grouped by the key of the batch; `RootAggregate` and `RootGroupBy` the two root fields.
The module states what is meant separately: `Truth` evaluates a filter object on a row with no SQL
in between, `Shows` says which rows a relation shows, `AggregatesOf` what a set of rows adds up to. A table has a key, a reference, one value
that may be NULL and a deletion mark; a relation has no `orderBy`, `after` or `distinct` of its own
(`KeysetPages` has a list's), and a pair of rows is linked once.

**Aggregates** is the part of `aggregates.ts` that `RelationReads` runs on rows: the columns each
operation offers (`OutputColumns`, `HavingColumns`, `Groupable`), the pairs a selection asks for,
one SQL expression (`Expression`, with MySQL's detour for an ENUM), the row put back together
(`AssembleAggregateRow`), `having` and the groups. An average is a pair of a sum and a count, an
operand of `having` a number of halves.

**BuildConfig** is what a configuration amounts to, as operators on a record: the flags, exclusions,
policies, limits (`PageRun`) and prices (`PricedRows`); what `resolveBuildConfig` refuses
(`Refuses`, a conjunct per group of checks); the generated field names; the columns each input
takes and requires; and nested inputs, from the side that holds the key (`FkSide`) over what is
planned (`PlannedOps`) to what is gated away (`RequiredWrites`, `Allowed`). A key the caller leaves
out is not in the function, so `??` is `FirstGiven`.

**SchemaBuild** is `buildSchema` called again and again over several databases of one process.
`Refuse` is a call that throws before it has done anything, `Prepare` the table types, `AddReads`
and `AddWrites` one table's root fields each (either may throw at a name that is taken, and leave
the caches filled), `Finish` the register, `Assemble` the thunks that `index.ts` sets off. A
configuration's `throws` names the stages at which something else in it throws, a mapper, a
describer or two types of one name: `Abandon` before the register is written, `AssemblyThrows` after
it, when some of the thunks have run. `runtimes` holds what each registered build left for the
helpers, the ones whose assembly threw included, since `registerBuildRuntime` runs before
`new GraphQLSchema` and nothing takes a build out again. `Help` and `Return` are a resolver of the caller's that calls `selectionToWith` or `resolveSelection`.
`orderCache` and `enumCache` are keyed as the code keys them, by table object (`TableObject`:
builds over one dialect's tables share them), name, exclusions and variant.

**...Proofs** hold the theorems, **MC...** the constants of the runs.

## Runs

| run | instance | shows |
| --- | --- | --- |
| `mutation_requests` | one execution, with every document of up to three fields of the kinds, or two handed one context object with documents of two; two callbacks per field; BEGIN and COMMIT may fail | atomicity, truthful answers, callbacks after the commit, refinement of `AtomicCommit`, executions handed one context do not disturb each other, each has settled its own when it is answered, no leak, no wait for ever |
| `mutation_begin` | the same; *fails* | after a failed BEGIN a second transaction outlives the request |
| `caller_queue` | two executions, three fields, one savepoint, two transactions of the caller's, two callbacks | one place per callback, only committed ones run, every callback ends |
| `batch_rows` | five calls of two executions, three keys two of which fold together, chunks of one key | every call answered with its own rows, accounted for, settled |
| `nested_writes` | by a key on the parent: two entries over two stored rows, three targets (one hidden by the relation, one by the scope). By a key on the target: three target rows (one hidden), three parents, none, one or two of them written, every plan and input. By a junction: two requests, two parents written at once, in two chunks or one alone; three targets (one hidden), inputs that meet on a target, links of another owner and marked ones, with and without the unique key, with and without soft delete | no orphan, rows hold what was asked, hidden keys stay; the documented outcome, one row per to-one, each pair serializable between two requests, hooks see all writes |
| `nested_connect` | filters that read the key; *fails* | a to-one connect that detaches the row it was to attach |
| `row_writes` | five places for rows, two filled at first, one write of another client's; six layouts of keys, three dialects, soft delete or not, in a transaction or not; one to two rows or statements per request | an undisturbed request does what its arguments say; hidden rows and stamps stay; a Single write writes the row it found; an error leaves no part of a request and no success without its rows |
| `pages_edits` | three rows, a composite key and a nullable rounded column with ties, eight orderings, seven limit policies, three dialects, with and without a key or `distinct`, two writes | by cursor an untouched row is read exactly once; offset pages tile an unchanged list |
| `relation_paths` | three parents, two of which share a key and one has none; two targets; a to-one, a to-many and a many-to-many; no `where` of the relation's own, one, or one inherited from its reverse; three kinds of marker, a scope that is a filter, with or without a relation in it; a policy on the junction; forty-one filters, nested up to three relations deep; pages, `deleted`, aliases, cursors, eager or not; a value that is a number, an ENUM, a boolean or only comparable, hidden columns, groups by no column, one or two, `having` over each operation | the list returns what its `where` means; loaded, resolved or aggregated, a parent has the same rows; root aggregates and groups are of the rows the list returns |
| `relation_reversed` | the same, with a to-one that inherits a `where`; *fails* | a batch shows a row to a parent the `where` excludes, because another parent with the same key passes |
| `schema_builds` | four tables (a required and an optional reference, a unique one, a junction that may soft-delete); two PostgreSQL databases, a MySQL one and a synchronous SQLite; a first build with one of fifty-two configurations, three of which throw at a stage, a second with one of eight, one of which throws when it is assembled; a helper called in between or after, with no schema's types, one's or two's | nested inputs send no write the build turned off and can be completed; no field replaces another; a build offers what its configuration says whatever was built before; a helper reads under the right policies or refuses, builds that threw after they were registered counted |
| `schema_groups` | the same; *fails* | a build that takes over the enum of an earlier one offers to group by its columns |

Why the bounds are enough. Two fields are the smallest request that shares a transaction, three
give a field between the first and the last; a second execution is all that state keyed wrongly
needs. Two callbacks tell an order. Two transactions of the caller tell a flush too early from one
too late. Two keys that fold together and a third, with chunks of one, give every split of a batch.
Two parents are what a batch can get wrong that one cannot; two entries, an entry that undoes
itself beside one that stays. Two requests and two copies of a pair are the smallest race for a
link; the inputs of a request meet the other's on a target, or on none. Five places let a
table of two rows take two inserted by the request and one by another client; the two rows may agree on a
key, hold NULL in it, be marked or be another owner's. Three rows give a page with a row before and after it; two writes
move the row a cursor stands at and put another in its place. Two
parents with one key and one with NULL are what a batch can confuse; two targets tell `some` from
`every`, and a page from the next; a filter that goes through a relation and back nests two
aliases of one table. Two builds
are what a cache or a register can mix up, and a third adds nothing the second did not leave; a
configuration is the plain one changed in one respect or two, because the options meet in pairs:
one for each refusal, for each flag a nested write needs, for each way two names collide.
Two databases of one dialect share table objects, the other two do not. A build that throws in
its assembly has two tables, so that one's thunk may have run and the other's not; before or after a
build that returns, it is one registered build too many. `MaxBuilds`,
`MaxCallbacks`, `MaxTx`, `MaxCreate`,
`Batch`, `Copy` and `MaxEdits` are the only caps, each in a guard or a set. What the bounds leave open
for safety, the theorems below close for all of `MutationTx`, `CallerCommit`, `BatchLoader`,
`NestedEntry`, `KeysetPages`, `NestedWrites` and `SchemaBuild`, and for part of `RowWrites`.
`KeysetPages` is checked up to a permutation of the rows: the module names none. Each passing property has a mutated definition
that breaks it, in `PROJECT.json` "mutants".

## What is proved

For every value of the constants that satisfies the assumptions named in the modules (finite sets
where they are counted, null markers that are not values, an `orderBy` with one entry per column),
and of the caps, which the proofs leave open:

**MutationTxProofs.** `TypeCorrect`, `SharedRequestAtomic` (`AllOrNothing`) and
`SharedFailureUndoesAll` (`FailureUndoesAll`), for any number of executions and any documents.
Atomicity is not inductive: that the count is right says nothing without what it counts. The
strengthening is `AtomicInv`: per execution, `AtField` (no later
field was answered), `OneDiscipline` (all its fields share, or none), `Undisturbed` (no body runs
under an armed timer, after an abort or after the latch), `Backed` (every completion counted is a
field that succeeded and whose write the open transaction holds; a released latch means all of
them) and `Decided` (nothing durable before the commit, everything after, and a successful request
does not open a second transaction). `AtomicStep` goes through the actions one by one.

**MutationTxPromiseProofs** goes on from there to what a client is told: `AnsweredIsSettled`
(`SettledUnlessRefused`), `OwnWritesAreSeen` (`ReadsSeeOwnWrites`), `OkIsDurable`
(`OkMeansDurable`) and `ProtocolKeepsPromise` (`KeepsPromise`, the refinement of `AtomicCommit`,
step by step). `AtomicInv` says that what was counted did succeed; these need the converse. The
second invariant, `PromiseInv`, adds per execution that the count misses no field that succeeded and
a transaction that is not over still waits for one (`Counted`), that only a transaction that did
begin is aborted, and the field that commits is never too late (`Dropped`), and where each callback
is: in the queue of the running field (`Queued`), handed to the transaction (`Handed`), about to run
in order (`Running`), or run, with its write durable (`RanShared`, `RanOwn`). In the refinement an
answer gives up at most the unit of its own field, and `DeliverStep` is where the order of the
callbacks is used. A run has finitely many documents; for the proof, `LengthAssumption` says that
there is a longest one.

**CallerCommitProofs.** `PlaceInvariant`, `NoneLostNoneTwice` (`OnePlace`), `OnlyCommittedRun`
(`OnlyCommitted`). `OnePlace` counts: how often a callback occurs in the stage of its field, in its
savepoint's, in the queue, in a flush and in what ran, plus one if it was dropped. `PlaceInv` says
that the sum is one for what was registered and zero for everything else; the latter is what a new
registration needs, with `Numbered` (its number is new). Each step then moves occurrences from one
sequence to another, which the lemmas on `Occurrences` (of a concatenation, a tail, an append) add
up. `CommitInv` is about a caller that awaits: a field only runs on the transaction that is open, the
queue only holds callbacks of it, and whatever is flushed has committed.

**BatchLoaderProofs.** `TypeCorrect`, `AnswersAreOwn` (`OwnAnswer`), `LoadsAreAccounted`. The
strengthening says that the memo holds what its own field asks for, a batch holds calls of its own
loader, and a dispatch has found every key it no longer has to read. Termination of the chunks is
left to TLC.

**NestedWritesProofs.** `TypeCorrect`, `OrphanFree`, `RowsRight`, `HiddenKept`, `HooksMirrored`
(`HooksMirror`), `OneRowEach` (`OneIsOne`), `RowsEndAsAsked` (`ChildrenAsAsked`),
`LinksEndAsAsked` (`LinksAsAsked`, a property of steps) and `PairsEndInSomeOrder`
(`PairsSerializable`), of the composed specification. Its
invariant is one for each place a key can be:

- On the parent (`IInv`): the patch is what the entry's operation made, what an update wrote is the
  patch or a hidden key, and a created row belongs to an entry that returned something or is still
  being written.
- On the target, for the hooks (`HooksInv`): what was written is what the steps collected, and every
  statement still to run that writes has a registered step. The second half is the point:
  `StatementsTold` goes through the whole program of an input and finds the step of each statement,
  `StatementsCalled` goes back from each step to a statement. For the to-one (`ToOneInv`): the
  parents still hold what they held and the program has not begun to write (`Untouched`, `OneFound`),
  or room was made (`RoomMade`), or the room is filled (`RoomFilled`, `OneAttached`), or nothing
  comes (`NoneComes`). `FoundStays` is where the filter must not read the key: the row a connect
  matched stays the only one through the detach that makes room for it.
- On the target, for the outcome (`AskedInv`): from any point of the program, its rest leads every
  row from where it is to where the input says (`Leads`). The last statement that puts a row
  somewhere decides, and whatever may clear it after that; a detach clears by the key a row has by
  then, so where it leads depends on the point it starts from. The outcome is for every batch,
  the empty one included, which a create then adds nothing for: the code skips the statements when
  no parent was written (runtime.ts:964), and so does `Begin`.
- In a junction, for the hooks (`ToldInv`): per request, what its transaction wrote is what its
  steps collected, and what it has still to run is told of, whatever the others do.
- In a junction, for the outcome (`PairInv`): per request and pair, the last statement that covers
  the pair decides (`Will`); an unlink leaves no row of it, a read leaves it to the restore or the
  insert that follow (`InOrder`) to add what was missing. `ProgramLinks` finds, for every pair and
  through every chunk of the parents, which of `set`, `disconnect` and `connect` is the last to
  cover it. The others may commit between any two statements, so all this is said of the pairs they
  have not changed since the request began (`touched`). Comparing the whole table with what it was
  at the beginning, as the property did at first, is not enough: a second request may change a pair
  and a third change it back in between. Two requests do not show it; the proof asked for it.
- In a junction, for the order (`OrderInv`): an input either leaves a pair alone (`Silent`) or
  decides it whatever it was (`Decides`), so an order is right for a pair as soon as its last
  request is. A pair is as it was, or as one of the requests that committed decides it (`Settled`).
  A commit keeps that: it leaves the pair as its input decides or as it finds it committed, and
  what it has still to do for the pair is said so that others may commit in between (`Decided`). One
  case is delicate: a connect finds a link there, writes nothing, and another request takes it away
  and commits; then the other counts as the last. That would be wrong if the first had itself taken
  a committed link of the pair away before (its `set`), for its commit would unlink what a connect
  asked for; but two open transactions never both do so (`OneRemoves`): an unlink takes every link
  of a pair it can see, and waits for a row that another has written (`Apart`). That there is an order
  with a given request last takes `Request` to be finite; rows and pairs may be any number.

A program is a list of lists put end to end by a recursive function of the library (`FlattenSeq`);
that it holds what the lists hold (`FlatType`) is again an argument by the least position where it
would not. What an order of requests comes to is a fold of the library, again recursive: `FoldRuns`
opens it, finds that the function it chooses exists, and gives the proofs the sequence of its
intermediate values.

**KeysetPagesProofs.** `PredicateExact`: the condition a cursor compiles to is the ORDER BY's
strict order, for every ordering, null placement and dialect, in both forms. On it,
`ReadsNoRowTwice` (`NoRepeat`) and `ReadsEveryRow` (`NoSkip`), for tables of any size and any
number of writes. The order is transitive (`BeforeTransitive`) and total on rows with different
primary keys (`BeforeTotal`, which is what the tiebreak is for). The invariant is `Positioned`: no
row that was read and left alone is after the cursor, and every untouched row still unread is.
`LastPageIsAll` is why a short page may be taken for the end. `OffsetPagesTileList`
(`OffsetPagesTile`) rests on `TilePart`: what was read of a table nobody wrote is the beginning of
its list, as many rows as were counted. Two beginnings of one size are the same (`OneBeginning`),
which is what makes the rows an `offset` skips the rows that were read, whatever order the database
takes ties in: the tiebreak leaves none.

**RowWritesProofs.** `HiddenRowsStay` (`HiddenKept`), `SingleWritesItsRow` (`SingleWritesFound`), for
tables of any size, any layout of keys and any writes of the other client. `WriteInv` measures the
table against `without`, the table had the request not run: a place it did not write is as it would
be; a place it wrote was empty or holds a row it may reach; no row changes its owner, nor its marker
except by `delete` and `restore` (`Kept`). MySQL's upsert is the exception the code has: its
statement reaches the row its values run into, whoever it belongs to (`RunsInto`). A Single form
checks before its only statement (`Checked`), and the row it found keeps its key when another client
writes, which needs a primary key that is NOT NULL. A statement that inserts several rows is a
recursive function of their number; that it keeps what one row keeps is an argument by the least
row that would not (`InsertedKeeps`), for there is no induction to cite. The assumptions: a request
sets neither the marker nor the stamp (`isWritableColumn`), a Single update is one statement, key
columns are NOT NULL (a composite key of SQLite declared without it is left out).

**SchemaBuildProofs.** `HelpersReadUnderTheirPolicies` (`HelperPolicies`), for every schema, any
configurations and any sequence of builds and calls. The register is written before the schema is
assembled, and a build may throw then, so the strengthening, `RegisterInv`, speaks of the registered
builds (`runtimes`) and not of the returned ones: per database the entry counts them, names the one
when there is exactly one, and says whether any has policies; and a build that returned, or is being
assembled, is the one registered at the place it was given (`Stands`). `RuntimeIsMeant` then ties
what the register gives a call to the builds the call may mean, and `NonePassedOver` shows that a
call that names no schema never passes over the policies of one that returned. That a call of several
types means the first of them (`FirstNamed`) rests on `LeastPosition`, by well-founded induction on
intervals.

Three more of what a build makes. `NoFieldIsReplaced` (`EveryFieldKept`) and
`ConfigurationsAreInForce` (`ConfigInForce`) rest on `BuildInv`, which holds of every build, running
or returned, and between builds of the caches: a table the build is done with has each of its fields
under the name it was given (`Right`), and a cached enum has columns, those of some configuration
its key stands for (`EnumsRight`), so that an emptiness the key hides cannot turn an upsert on or
off. The lemma the caches turn on is `KeyTellsColumns`: two configurations that share a key agree on
the columns, but for lists of numbers to group by, where they do not (`schema_groups`). It needs an
assumption, `KindsAssumption`: no kind is the end of another, so names tell kinds apart. That a
default order is always among what a build orders by goes through the recursion of `hasOrderFields`,
whose values exist by `IterationExists`. Limits are integers, as the code asks of them.
`NestedInputsAreSound` (`NestedInputsSound`) needs no invariant: it compares the table of writes
that gates an input (`RequiredWrites`) with the statements the runtime sends (`Statements`), and
follows a column that an insert needs through the four ways it can be left out of the create input.

Only model-checked:

- everything temporal under fairness (`SharedTxSettles`, `ExecutionEnds`, `EveryCallbackEnds`,
  `EveryLoadSettles`): out of TLAPS' reach, as ENABLED is;
- `OutcomeAsAsked` of `RowWrites`, whose reference folds over the rows of a request, and all of
  `RelationReads`, where compiling a filter is recursive: what a recursive definition computes for
  every input takes induction over data, which the installed provers cannot do.

## Where the code and its documentation disagree

The four runs that fail by design; `PROJECT.json` "findings" quotes the lines.

1. `mutation_begin`: BEGIN fails for the first field. Cleanup forgets the entry because nothing set
   `aborted`, so the next field opens another shared transaction that waits for a count no field
   can complete: it answers success and stays open until the timer rolls it back.
2. `nested_connect`: a to-one connect whose filter reads the foreign key detaches the row it
   matched and then no longer matches it. The other way round, a filter that asks for a NULL key
   matches one row when it is counted, and after the detach also the row the parent held: both are
   attached, where the comment at `nested-writes/runtime.ts:604-607` says a to-one holds one row and
   detaches the others for that. So `OneIsOne` and `ChildrenAsAsked` speak of inputs that do not read
   the key (`ReadsKey`).
3. `relation_reversed`: a to-one relation that inherits the `where` of its reverse. The batched
   resolver asks that some parent holding the key passes it (`relations.ts:670`), so a parent that
   fails it shows the row when another parent of the same key passes; loaded with its parents, or
   in a filter, each parent is judged by itself.
4. `schema_groups`: the enum of the columns to group by is cached by table, name and exclusions
   (`aggregates.ts:799-815`), but which columns it holds also depends on a build's scalar overrides.
   `column-enums.ts:30-34` asks a predicate that varies between builds to name its variant. The
   second build offers a column it cannot group by, or withholds one it can. `ConfigInForce` leaves
   out exactly these columns.

Others were met on the way and have no run:

- Where the key is on the parent, a detach is kept from rows the relation's own `where` hides
  (`runtime.ts:427-430`), but not from rows out of the request's scope or marked as deleted, which
  `README.md:365`, `:563` and `:2089` promise. In `NestedEntry`, `HiddenStays` with `ScopeHidden`
  for `Hidden` does not hold.
- The comment at `nested-writes/runtime.ts:250-253` says that sharing the transaction keeps another
  writer from slipping a duplicate link in between the read of `connect` and its insert. Under READ
  COMMITTED nothing does but a unique key over the pair, and with one the second request is
  refused. `JunctionLinks` has both outcomes.
- Under a caller's executor, callbacks run in the order their fields complete
  (`commit-callbacks.ts:75`), where the comment at `:187` says in the order they were registered.
- `README.md:705` says that MySQL's upsert revives a marked row it hits; the marker is never among
  the columns it sets (`conflict.ts:249`, `policies.ts:466-483`), so the row is updated and stays
  marked, which is what `HiddenKept` says of it.
- `filters.ts:305-309` says that a filter that matches every row is never spelled as an always-true
  predicate, which is how a write that requires a `where` recognises one. A relation filter can
  spell one: `{ posts: { none: { id: { inArray: [] } } } }` compiles to
  `not exists (select 1 ... where ... 1 = 0)`, since `buildRelationExists` builds its condition
  with drizzle's `and`, which keeps no mark.

- `README.md:3199-3203` says that over a database with exactly one build, a call with a parsed tree
  reads under that build's policies, and with several is refused. A build counts once it is
  registered (`build-context.ts:805`), before `new GraphQLSchema` (`index.ts:183`), which throws when
  two types have one name (`README.md:864`). So after a retry the only schema a caller has is one of
  two, and a call is refused although nothing is ambiguous, if either has policies; with no retry, it reads under the policies of a schema nobody was given. `HelperPolicies`
  counts registered builds, as the code does, and says besides that the policies of a schema that was
  returned are never passed over.
- The names of the types a build shares between tables are looked up by the resolved name alone
  (`type-names.ts:132-155`), as its comment says; two kinds that a `typeNameMapper` gives one name
  get one type, whichever was asked for first.
- `build-config.ts:472-474` warns that the inserts of a table with a hidden required column "can
  never succeed". They can where `contextValues` stamps the column or where a nested create or
  connect fills it in, which `NestedInputsSound` does not count as missing. Nor does the warning, or
  `buildThroughPlan` of a junction (`plans.ts:299-305`), leave out a NOT NULL column that the database
  computes (`generatedAlwaysAs`, as in `tests/generated-columns.test.ts:32`).
- A to-one relation whose two join columns are both unique and neither a primary key is given to
  the parent from either end (`plans.ts:470-478`), and hiding a unique column changes the side
  (`SingleUniques` is over the visible columns). `FkSide` is as the code has it.

## Fairness

Weak fairness only, of steps nothing outside the process can hold up for ever: the driver answers a
statement, BEGIN or COMMIT; a microtask runs; a promise continuation runs; a consumer's hook,
callback or body returns or throws; a timer that stays armed fires; the host goes on with the
document *or* drops it (`HostStops`), so nothing depends on the host finishing. No success is
assumed: the fair disjunctions include the failing answers. A consumer whose hook never returns is
outside: then the library holds the transaction, as its README says. With `timeoutMs: Infinity`
(`TimerFinite = FALSE`) a host that stops leaks the transaction by configuration, so
`SharedTxSettles` is checked with a finite timer. `KeysetPages`, `NestedChildren`, `NestedEntry`,
`JunctionLinks`, `RowWrites`, `RelationReads` and `SchemaBuild` have safety only: a client may stop,
their statements are finitely many, and a build runs to its end without waiting.

## What is not modelled

- Of schema generation: the GraphQL types themselves and their names inside a build, descriptions,
  documentation options, the complexity of a selection beyond the price of one list, printing and
  entity files; `types.ts` and `type-naming.ts`, which are types of TypeScript and run nowhere.
- `collectRootMutationKeys`' walk through fragments, aliases and directives: its result is the
  input `doc` of `MutationTx`.
- Scalars and value conversions, except what a cursor carries: pure functions of one value.
- Compiling `where`, outside `RelationReads`: its result enters the other models as the set of rows
  selected, and, in `NestedChildren`, whether it reads the foreign key. `RelationReads` keeps
  equality, membership and the null tests of the operators; those on strings, JSON and arrays are
  one comparison each.
- A relation's `orderBy`, `after` and `distinct`;
  relations over composite keys.
- The count a counting mutation returns; the rest of it is the plural statement of `RowWrites`.
- The grammars a forged cursor's values are checked against; `Decodes` keeps the ordering and the
  NULLs.
- Drivers and databases, beyond what the code relies on: a transaction is atomic, a statement sees
  the transaction's writes, a savepoint undoes what came after it.
- Isolation between two requests' writes outside the junction table: a to-one connect checks that
  its row is the only one and then writes. `JunctionLinks` shows each pair serializable, not each
  request: two `set`s of several targets may interleave pair by pair.

## Plan

In order, done first. Runs are kept few; related questions share one.

1. `MutationTx` with `AtomicCommit` and proofs (done).
2. `CallerCommit` and proofs (done).
3. `BatchLoader` and proofs (done).
4. `NestedChildren` and `NestedEntry` (done).
5. `KeysetPages` and proofs (done). Left: relation fields that page within each parent.
6. `JunctionLinks`, `NestedWrites` and proofs (done).
7. `RowWrites` and proofs (done).
8. `RelationReads` and `Aggregates` (done). Left: the order and cursors of a relation's pages,
   distinct within a parent.
9. `BuildConfig`, `SchemaBuild` and proofs (done). Left: the names of the types inside a build.
10. `RootKeys`: `collectRootMutationKeys` against a reference definition of the root fields
   graphql-js will call, over bounded documents with fragments, aliases and directives; its result
   is the classification `MutationTx` takes as input.
