----------------------------- MODULE MCRowWrites -----------------------------
EXTENDS RowWrites

\* The keys of a table: a primary key beside a unique one, a NOT NULL unique key alone, a
\* nullable one, two nullable ones, a partial one.
Whole(columns) == [columns |-> columns, partial |-> FALSE]
Partial(columns) == [columns |-> columns, partial |-> TRUE]
SomeLayouts ==
  {[primary |-> {"id"}, unique |-> <<Whole({"alt"})>>,   notNull |-> {}],
   [primary |-> {"id"}, unique |-> <<Partial({"alt"})>>, notNull |-> {}],
   [primary |-> {},     unique |-> <<Whole({"alt"})>>,   notNull |-> {"alt"}],
   [primary |-> {},     unique |-> <<Whole({"alt"})>>,   notNull |-> {}],
   [primary |-> {},     unique |-> <<Whole({"alt"}), Whole({"val"})>>, notNull |-> {}],
   [primary |-> {},     unique |-> <<Partial({"alt"})>>, notNull |-> {}]}

\* Filters: none, one that matches every row, one on `val'.
Where(val) == [every |-> FALSE, val |-> val]
Everything == [every |-> TRUE, val |-> 0]

Insert(values, skip) == [kind |-> "insert", values |-> values, skip |-> skip, action |-> "NOTHING", single |-> FALSE]
Upsert(values, columns, action, update, where) ==
  [kind |-> "upsert", values |-> values, target |-> columns, action |-> action, update |-> update,
   where |-> where, single |-> FALSE]
Update(updates, single, readsItself) ==
  [kind |-> "update", updates |-> updates, single |-> single, readsItself |-> readsItself,
   requireWhere |-> readsItself]
Other(kind, where, single, readsItself) ==
  [kind |-> kind, where |-> where, single |-> single, readsItself |-> readsItself,
   requireWhere |-> FALSE]

SomeInserts ==
  {Insert(<<>>, FALSE), Insert(<<[alt |-> 2], [id |-> 1, alt |-> 3, val |-> 1]>>, FALSE),
   Insert(<<[alt |-> 2, by |-> "other"], [alt |-> 2, val |-> 1]>>, TRUE)}

SomeValues ==
  {<<[id |-> 1, val |-> 1]>>, <<[id |-> 1, alt |-> 2]>>, <<[id |-> 1, alt |-> 1], [id |-> 2, alt |-> 3, val |-> 1]>>,
   <<[alt |-> 1, val |-> 1], [alt |-> 2]>>, <<[id |-> 3, alt |-> 3], [id |-> 3, alt |-> 3, val |-> 1]>>}
SomeUpserts ==
  {Upsert(v, t, "UPDATE", NotGiven, NotGiven) : v \in SomeValues, t \in {NotGiven, {"alt"}}}
  \cup {Upsert(v, NotGiven, "NOTHING", NotGiven, NotGiven) : v \in SomeValues}
  \cup {Upsert(v, NotGiven, "UPDATE", {"val"}, Where(0)) : v \in SomeValues}
  \cup {Upsert(v, NotGiven, "UPDATE", {"by"}, NotGiven) : v \in SomeValues}
  \cup {Upsert(v, NotGiven, "UPDATE", {"id"}, NotGiven) : v \in SomeValues}

Set(where, set) == [where |-> where, set |-> set]
SomeUpdates ==
  {<<>>, <<Set(Where(0), [val |-> 1])>>, <<Set(Where(0), [by |-> "other"])>>,
   <<Set(Everything, [val |-> 1, by |-> "other"])>>,
   <<Set(Where(0), [val |-> 1]), Set(Where(1), [alt |-> 2])>>}
SomeRequests ==
  SomeInserts \cup SomeUpserts
  \cup {Update(u, FALSE, r) : u \in SomeUpdates, r \in BOOLEAN}
  \cup {Update(u, TRUE, r) : u \in {v \in SomeUpdates : Len(v) = 1}, r \in BOOLEAN}
  \cup {Other(k, w, s, r) : k \in {"delete", "restore", "purge"}, w \in {NotGiven, Where(0)},
                            s \in BOOLEAN, r \in BOOLEAN}

\* Two rows at first; a third may come, and the first may go or change.
Held(id, alt, val, by, marked) == [id |-> id, alt |-> alt, val |-> val, by |-> by, marked |-> marked]
With(first, second) == [s \in Slot |-> IF s = 1 THEN first ELSE IF s = 2 THEN second ELSE Absent]
SomeTables ==
  {With(Held(1, alt, 0, "me", marked), second) :
     alt \in {1, Null}, marked \in BOOLEAN,
     second \in {Held(2, 2, 0, "me", FALSE), Held(2, Null, 1, "me", TRUE), Held(2, 1, 0, "other", FALSE),
                 Held(2, 1, 1, "me", FALSE)}}
SomeElsewhere ==
  {<<1, Absent>>, <<1, Held(1, 3, 0, "me", FALSE)>>, <<3, Held(3, 1, 0, "me", TRUE)>>,
   <<3, Held(3, Null, 0, "me", FALSE)>>, <<2, Held(2, 2, 0, "me", FALSE)>>}
=============================================================================
