------------------------- MODULE BatchLoaderProofs --------------------------
(***************************************************************************)
(* OwnAnswer and LoadsAccounted for every set of executions, calls, keys   *)
(* and rows, every collation and every chunk size.                         *)
(***************************************************************************)
EXTENDS BatchLoader, TLAPS

OwnLoader(c) == <<ExecutionOf[c], ArgsOf[ExecutionOf[c]][NodesOf[c]]>>

\* The memo holds what its own field asks for.
MemoRight == \A e \in Execution, n \in Nodes : memo[<<e, n>>] \in {NoArgs, ArgsOf[e][n]}

\* A batch holds calls of its own loader, none of them with a NULL key.
QueuedRight ==
  \A l \in Loaders : \A c \in loader[l].batch : OwnLoader(c) = l /\ KeyOf[c] # NoKey

\* A dispatch has found every key it no longer has to read, and holds the rows of its chunk.
FlightRight(d) ==
  /\ \A c \in d.calls : OwnLoader(c) = d.l /\ KeyOf[c] # NoKey
  /\ \A c \in d.calls : KeyOf[c] \in d.todo \/ d.found[KeyOf[c]] = Matched(d.l, {KeyOf[c]})
  /\ d.chunk \subseteq d.todo
  /\ d.pc # "reading" => d.rows = Matched(d.l, d.chunk)

FlightsRight == \A d \in flights : FlightRight(d)

IInv == TypeOK /\ MemoRight /\ QueuedRight /\ FlightsRight /\ OwnAnswer /\ LoadsAccounted

\* A call's own loader is one of the loaders, and its key, unless NULL, is a key (getOrCreateLoader).
LEMMA OwnLoaderType ==
  ASSUME NEW c \in Call
  PROVE  /\ OwnLoader(c) \in Loaders
         /\ ExecutionOf[c] \in Execution /\ NodesOf[c] \in Nodes
         /\ ArgsOf[ExecutionOf[c]][NodesOf[c]] \in Args
         /\ KeyOf[c] # NoKey => KeyOf[c] \in Key
BY CallAssumption, DataAssumption DEF OwnLoader, Loaders

\* With a right memo, a call queues on its own loader (getOrCreateRequestValue).
LEMMA LoaderRight ==
  ASSUME TypeOK, MemoRight, NEW c \in Call
  PROVE  LoaderOf(c) = OwnLoader(c) /\ RequestValue(c) = ArgsOf[ExecutionOf[c]][NodesOf[c]]
BY OwnLoaderType DEF TypeOK, MemoRight, LoaderOf, OwnLoader, RequestValue, Field

\* What a query of the parent's own returns, in terms of its loader and key (relatedRowParents).
LEMMA OwnMatched ==
  ASSUME NEW c \in Call, KeyOf[c] # NoKey
  PROVE  OwnRows(c) = Matched(OwnLoader(c), {KeyOf[c]})
BY DEF OwnRows, Matched, OwnLoader, Visible

\* The rows matched are rows of the table.
LEMMA MatchedType ==
  ASSUME NEW l \in Loaders, NEW keys
  PROVE  Matched(l, keys) \in SUBSET Row
<1>1. PICK e \in Execution, a \in Args : l = <<e, a>>
  BY DEF Loaders
<1>2. Visible(l) \in SUBSET Row
  BY <1>1, DataAssumption DEF Visible
<1> QED BY <1>2 DEF Matched

\* Of the rows of a chunk, those of one of its keys are the rows a query for that key alone returns.
LEMMA ChunkRows ==
  ASSUME NEW d, NEW k \in d.chunk, d.rows = Matched(d.l, d.chunk)
  PROVE  RowsOf(d, k) = Matched(d.l, {k})
BY DEF RowsOf, Matched

-----------------------------------------------------------------------------

\* The initial states satisfy the invariant.
LEMMA InitInv == Init => IInv
<1> SUFFICES ASSUME Init PROVE IInv
  OBVIOUS
<1>1. TypeOK
  BY DEF Init, TypeOK, Loaders
<1>2. MemoRight /\ QueuedRight /\ FlightsRight /\ OwnAnswer
  BY DEF Init, MemoRight, QueuedRight, FlightsRight, OwnAnswer
<1>3. LoadsAccounted
  BY DEF Init, LoadsAccounted, Queued, Flying
<1> QED BY <1>1, <1>2, <1>3 DEF IInv

\* A NULL key is answered with no rows.
LEMMA ResolveEmptyInv == ASSUME IInv, NEW c \in Call, ResolveEmpty(c) PROVE IInv'
<1> USE DEF IInv
<1>1. Empty \in [Call -> SUBSET Row] /\ Empty[c] = {}
  BY DEF Empty
<1>2. /\ call' \in [Call -> [pc : {"new", "loading", "resolved", "rejected"}, rows : SUBSET Row]]
      /\ call'[c].pc = "resolved" /\ call'[c].rows = {}
      /\ \A x \in Call \ {c} : call'[x] = call[x]
  <2>1. call' = Settle({c}, "resolved", Empty)
    BY DEF ResolveEmpty
  <2> QED BY <1>1, <2>1 DEF Settle, TypeOK
<1>3. TypeOK'
  BY <1>2 DEF ResolveEmpty, TypeOK
<1>4. MemoRight' /\ QueuedRight' /\ FlightsRight'
  BY DEF ResolveEmpty, MemoRight, QueuedRight, FlightsRight
<1>5. OwnAnswer'
  BY <1>2 DEF ResolveEmpty, OwnAnswer, OwnRows
<1>6. LoadsAccounted'
  BY <1>2 DEF ResolveEmpty, LoadsAccounted, Queued, Flying
<1> QED BY <1>3, <1>4, <1>5, <1>6

\* A load queues on its own loader.
LEMMA ResolveInv == ASSUME IInv, NEW c \in Call, Resolve(c) PROVE IInv'
<1> USE DEF IInv
<1>1. LoaderOf(c) = OwnLoader(c) /\ RequestValue(c) = ArgsOf[ExecutionOf[c]][NodesOf[c]]
  BY LoaderRight
<1> DEFINE l == OwnLoader(c)
<1>2. l \in Loaders /\ ExecutionOf[c] \in Execution /\ NodesOf[c] \in Nodes /\ RequestValue(c) \in Args
  BY <1>1, OwnLoaderType
<1> HIDE DEF l
<1>3. /\ call' \in [Call -> [pc : {"new", "loading", "resolved", "rejected"}, rows : SUBSET Row]]
      /\ call'[c].pc = "loading" /\ call'[c].rows = call[c].rows
      /\ \A x \in Call \ {c} : call'[x] = call[x]
  BY DEF Resolve, TypeOK
<1>4. /\ loader' \in [Loaders -> [batch : SUBSET Call, scheduled : BOOLEAN]]
      /\ loader'[l].batch = loader[l].batch \cup {c}
      /\ \A x \in Loaders \ {l} : loader'[x] = loader[x]
  <2>1. loader' = [loader EXCEPT ![l] = [batch |-> loader[l].batch \cup {c}, scheduled |-> TRUE]]
    BY <1>1 DEF Resolve, l
  <2>2. loader \in [Loaders -> [batch : SUBSET Call, scheduled : BOOLEAN]]
    BY DEF TypeOK
  <2>3. [batch |-> loader[l].batch \cup {c}, scheduled |-> TRUE] \in [batch : SUBSET Call, scheduled : BOOLEAN]
    BY <2>2, <1>2
  <2> QED BY <2>1, <2>2, <2>3, <1>2
<1>5. memo' = [memo EXCEPT ![<<ExecutionOf[c], NodesOf[c]>>] = ArgsOf[ExecutionOf[c]][NodesOf[c]]]
  BY <1>1 DEF Resolve, Field
<1>6. UNCHANGED <<flights, collation>>
  BY DEF Resolve
<1>7. TypeOK'
  BY <1>1, <1>2, <1>3, <1>4, <1>5, <1>6 DEF TypeOK
<1>8. MemoRight'
  BY <1>2, <1>5 DEF MemoRight, TypeOK
<1>9. QueuedRight'
  BY <1>2, <1>4 DEF QueuedRight, Resolve, l
<1>10. FlightsRight' /\ OwnAnswer'
  BY <1>3, <1>6 DEF FlightsRight, OwnAnswer
<1>11. LoadsAccounted'
  <2>1. ~Queued(c) /\ ~Flying(c)
    BY DEF Resolve, LoadsAccounted
  <2>2. \A x \in Call \ {c} : \A k \in Loaders : x \in loader'[k].batch <=> x \in loader[k].batch
    BY <1>4
  <2>3. \A k \in Loaders : c \in loader'[k].batch <=> k = l
    BY <2>1, <1>4, <1>2 DEF Queued
  <2>4. /\ Queued(c)' /\ ~Flying(c)'
        /\ \A x \in Call \ {c} : (Queued(x)' <=> Queued(x)) /\ (Flying(x)' <=> Flying(x))
    BY <2>1, <2>2, <2>3, <1>2, <1>6 DEF Queued, Flying
  <2> QED BY <2>2, <2>3, <2>4, <1>3, <1>6 DEF LoadsAccounted, Flying
<1> QED BY <1>7, <1>8, <1>9, <1>10, <1>11

\* The dispatched batch is a right flight of the same calls, and leaves the loader.
LEMMA DispatchInv == ASSUME IInv, NEW l \in Loaders, Dispatch(l) PROVE IInv'
<1> USE DEF IInv
<1> DEFINE new == Flight(l, loader[l].batch)
<1>1. loader[l].batch \in SUBSET Call
  BY DEF TypeOK
<1>2. new.l = l /\ new.calls = loader[l].batch /\ new.chunk = {} /\ new.pc = "reading"
      /\ new.todo = {KeyOf[c] : c \in loader[l].batch}
  BY DEF Flight
<1>3. new.todo \in SUBSET Key
  BY <1>1, <1>2, OwnLoaderType DEF QueuedRight
<1>4. new \in Flights
  BY <1>1, <1>3 DEF Flight, Flights
<1>5. FlightRight(new)
  BY <1>2 DEF FlightRight, QueuedRight
<1>6. flights' = flights \cup {new}
  BY DEF Dispatch
<1> HIDE DEF new
<1>7. /\ loader' \in [Loaders -> [batch : SUBSET Call, scheduled : BOOLEAN]]
      /\ loader'[l].batch = {}
      /\ \A x \in Loaders \ {l} : loader'[x] = loader[x]
  <2>1. loader \in [Loaders -> [batch : SUBSET Call, scheduled : BOOLEAN]]
    BY DEF TypeOK
  <2>2. [batch |-> {}, scheduled |-> FALSE] \in [batch : SUBSET Call, scheduled : BOOLEAN]
    OBVIOUS
  <2> QED BY <2>1, <2>2 DEF Dispatch
<1>8. UNCHANGED <<call, memo, collation>>
  BY DEF Dispatch
<1>9. TypeOK'
  BY <1>4, <1>6, <1>7, <1>8 DEF TypeOK
<1>10. MemoRight' /\ QueuedRight' /\ FlightsRight' /\ OwnAnswer'
  BY <1>5, <1>6, <1>7, <1>8 DEF MemoRight, QueuedRight, FlightsRight, OwnAnswer
<1>11. LoadsAccounted'
  <2> SUFFICES ASSUME NEW c \in Call
               PROVE  /\ call[c].pc = "loading" <=> Queued(c)' \/ Flying(c)'
                      /\ ~(Queued(c)' /\ Flying(c)')
                      /\ \A l1, l2 \in Loaders : c \in loader'[l1].batch \cap loader'[l2].batch => l1 = l2
                      /\ \A d1, d2 \in flights' : c \in d1.calls \cap d2.calls => d1 = d2
    BY <1>8 DEF LoadsAccounted
  <2>1. CASE c \in loader[l].batch
    <3>1. Queued(c) /\ ~Flying(c) /\ call[c].pc = "loading" /\ \A x \in Loaders : c \in loader[x].batch => x = l
      BY <2>1 DEF LoadsAccounted, Queued
    <3>2. ~Queued(c)' /\ \A x \in Loaders : c \notin loader'[x].batch
      BY <3>1, <1>7 DEF Queued
    <3>3. Flying(c)' /\ \A d \in flights' : c \in d.calls => d = new
      BY <2>1, <3>1, <1>2, <1>6 DEF Flying
    <3> QED BY <3>1, <3>2, <3>3
  <2>2. CASE c \notin loader[l].batch
    <3>1. \A x \in Loaders : c \in loader'[x].batch <=> c \in loader[x].batch
      BY <2>2, <1>7
    <3>2. \A d \in flights' : c \in d.calls => d \in flights
      BY <2>2, <1>2, <1>6
    <3>3. (Queued(c)' <=> Queued(c)) /\ (Flying(c)' <=> Flying(c))
      BY <3>1, <3>2, <1>6 DEF Queued, Flying
    <3> QED BY <3>1, <3>2, <3>3 DEF LoadsAccounted
  <2> QED BY <2>1, <2>2
<1> QED BY <1>9, <1>10, <1>11

\* A dispatch that moves on, with the same calls, to a right state.
LEMMA BecomesInv ==
  ASSUME IInv, NEW d \in flights, NEW next \in Flights, Becomes(d, next), next.calls = d.calls,
         FlightRight(next), UNCHANGED <<call, memo, loader>>, collation' \in {"unknown", "asking", "known"}
  PROVE  IInv'
<1> USE DEF IInv
<1>1. flights' = (flights \ {d}) \cup {next}
  BY DEF Becomes
<1>2. TypeOK'
  BY <1>1 DEF TypeOK
<1>3. MemoRight' /\ QueuedRight' /\ FlightsRight' /\ OwnAnswer'
  BY <1>1 DEF MemoRight, QueuedRight, FlightsRight, OwnAnswer
<1>4. \A c \in Call : (Queued(c)' <=> Queued(c)) /\ (Flying(c)' <=> Flying(c))
  BY <1>1 DEF Queued, Flying
<1>5. ASSUME NEW c \in Call, NEW d1 \in flights', NEW d2 \in flights', c \in d1.calls \cap d2.calls
      PROVE  d1 = d2
  BY <1>1, <1>5 DEF LoadsAccounted
<1>6. LoadsAccounted'
  BY <1>4, <1>5 DEF LoadsAccounted
<1> QED BY <1>2, <1>3, <1>6

\* A query's rows are those of its chunk, and leave what is still to be read alone.
LEMMA QueryInv == ASSUME IInv, NEW d \in flights, Query(d) PROVE IInv'
<1>1. d \in Flights /\ FlightRight(d)
  BY DEF IInv, TypeOK, FlightsRight
<1>2. PICK chunk \in SUBSET d.todo :
        Becomes(d, [d EXCEPT !.pc = "rows", !.chunk = chunk, !.rows = Matched(d.l, chunk)])
  BY DEF Query
<1> DEFINE next == [d EXCEPT !.pc = "rows", !.chunk = chunk, !.rows = Matched(d.l, chunk)]
<1>3. d.l \in Loaders /\ d.todo \in SUBSET Key
  BY <1>1 DEF Flights
<1>4. Matched(d.l, chunk) \in SUBSET Row
  BY <1>3, MatchedType
<1>5. next \in Flights /\ next.calls = d.calls /\ next.l = d.l /\ next.todo = d.todo
      /\ next.found = d.found /\ next.chunk = chunk /\ next.rows = Matched(d.l, chunk)
  BY <1>1, <1>3, <1>4 DEF Flights
<1> HIDE DEF next
<1>6. FlightRight(next)
  BY <1>1, <1>5 DEF FlightRight
<1>7. Becomes(d, next)
  BY <1>2 DEF next
<1>8. UNCHANGED <<call, memo, loader>> /\ collation' \in {"unknown", "asking", "known"}
  BY DEF Query, IInv, TypeOK
<1> QED BY <1>5, <1>6, <1>7, <1>8, BecomesInv

\* Waiting for the collation changes nothing a flight has read.
LEMMA AskCollationInv == ASSUME IInv, NEW d \in flights, AskCollation(d) PROVE IInv'
<1>1. d \in Flights /\ FlightRight(d) /\ d.pc = "rows"
  BY DEF IInv, TypeOK, FlightsRight, AskCollation
<1> DEFINE next == [d EXCEPT !.pc = "waiting"]
<1>2. next \in Flights /\ next.calls = d.calls /\ next.l = d.l /\ next.todo = d.todo
      /\ next.found = d.found /\ next.chunk = d.chunk /\ next.rows = d.rows
  BY <1>1 DEF Flights
<1>3. Becomes(d, next) /\ UNCHANGED <<call, memo, loader>> /\ collation' \in {"unknown", "asking", "known"}
  BY DEF AskCollation, IInv, TypeOK
<1> HIDE DEF next
<1>4. FlightRight(next)
  BY <1>1, <1>2 DEF FlightRight
<1> QED BY <1>2, <1>3, <1>4, BecomesInv

\* Grouping gives every key of the chunk the rows a query for that key alone returns.
LEMMA GroupInv == ASSUME IInv, NEW d \in flights, Group(d) PROVE IInv'
<1>1. d \in Flights /\ FlightRight(d) /\ d.pc = "waiting"
  BY DEF IInv, TypeOK, FlightsRight, Group
<1> DEFINE found == [k \in Key |-> IF k \in d.chunk THEN RowsOf(d, k) ELSE d.found[k]]
           next == [d EXCEPT !.pc = "reading", !.todo = d.todo \ d.chunk, !.chunk = {}, !.rows = {},
                             !.found = found]
<1>2. d.rows \in SUBSET Row /\ d.found \in [Key -> SUBSET Row] /\ d.todo \in SUBSET Key
  BY <1>1 DEF Flights
<1>3. found \in [Key -> SUBSET Row]
  BY <1>2 DEF RowsOf
<1>4. \A k \in Key : found[k] = IF k \in d.chunk THEN RowsOf(d, k) ELSE d.found[k]
  OBVIOUS
<1> HIDE DEF found
<1>5. next \in Flights /\ next.calls = d.calls /\ next.l = d.l /\ next.todo = d.todo \ d.chunk
      /\ next.found = found /\ next.chunk = {} /\ next.rows = {} /\ next.pc = "reading"
  BY <1>1, <1>2, <1>3 DEF Flights
<1>6. Becomes(d, next) /\ UNCHANGED <<call, memo, loader>> /\ collation' \in {"unknown", "asking", "known"}
  BY DEF Group, found, IInv, TypeOK
<1> HIDE DEF next
<1>7. ASSUME NEW c \in d.calls
      PROVE  KeyOf[c] \in d.todo \ d.chunk \/ found[KeyOf[c]] = Matched(d.l, {KeyOf[c]})
  <2>1. c \in Call /\ KeyOf[c] \in Key
    BY <1>1, OwnLoaderType DEF Flights, FlightRight
  <2>2. CASE KeyOf[c] \in d.chunk
    BY <2>1, <2>2, <1>1, <1>4, ChunkRows DEF FlightRight
  <2>3. CASE KeyOf[c] \notin d.chunk
    BY <2>1, <2>3, <1>1, <1>4 DEF FlightRight
  <2> QED BY <2>2, <2>3
<1>8. FlightRight(next)
  BY <1>1, <1>5, <1>7 DEF FlightRight
<1> QED BY <1>5, <1>6, <1>8, BecomesInv

\* Flights that settle all their calls, answered ones with their own rows, and end.
LEMMA EndInv ==
  ASSUME IInv, NEW gone \in SUBSET flights, NEW how \in {"resolved", "rejected"}, NEW rowsOf \in [Call -> SUBSET Row],
         flights' = flights \ gone, call' = Settle(UNION {d.calls : d \in gone}, how, rowsOf),
         how = "resolved" => \A d \in gone : \A c \in d.calls : rowsOf[c] = OwnRows(c),
         UNCHANGED <<memo, loader>>, collation' \in {"unknown", "asking", "known"}
  PROVE  IInv'
<1> USE DEF IInv
<1> DEFINE calls == UNION {d.calls : d \in gone}
<1>1. calls \in SUBSET Call
  BY DEF TypeOK, Flights
<1>2. \A c \in calls : \E d \in gone : c \in d.calls
  OBVIOUS
<1>3. \A d \in gone : d.calls \subseteq calls
  OBVIOUS
<1> HIDE DEF calls
<1>4. /\ call' \in [Call -> [pc : {"new", "loading", "resolved", "rejected"}, rows : SUBSET Row]]
      /\ \A c \in calls : call'[c].pc = how /\ call'[c].rows = rowsOf[c]
      /\ \A c \in Call \ calls : call'[c] = call[c]
  <2>1. call' = Settle(calls, how, rowsOf)
    BY DEF calls
  <2> QED BY <1>1, <2>1 DEF Settle, TypeOK
<1>5. TypeOK'
  BY <1>4 DEF TypeOK
<1>6. MemoRight' /\ QueuedRight' /\ FlightsRight'
  BY DEF MemoRight, QueuedRight, FlightsRight
<1>7. OwnAnswer'
  <2> SUFFICES ASSUME NEW c \in Call, call'[c].pc = "resolved" PROVE call'[c].rows = OwnRows(c)
    BY DEF OwnAnswer, OwnRows
  <2>1. CASE c \in calls
    BY <2>1, <1>2, <1>4
  <2>2. CASE c \notin calls
    BY <2>2, <1>4 DEF OwnAnswer
  <2> QED BY <2>1, <2>2
<1>8. LoadsAccounted'
  <2>1. \A c \in Call : Queued(c)' <=> Queued(c)
    BY DEF Queued
  <2>2. \A c \in calls : ~Queued(c) /\ ~Flying(c)' /\ call'[c].pc # "loading"
    <3> SUFFICES ASSUME NEW c \in calls PROVE ~Queued(c) /\ ~Flying(c)' /\ call'[c].pc # "loading"
      OBVIOUS
    <3>1. PICK d \in gone : c \in d.calls
      BY <1>2
    <3>2. c \in Call /\ Flying(c) /\ \A x \in flights : c \in x.calls => x = d
      BY <3>1, <1>1 DEF LoadsAccounted, Flying
    <3> QED BY <3>1, <3>2, <1>4 DEF LoadsAccounted, Flying
  <2>3. \A c \in Call \ calls : (Flying(c)' <=> Flying(c)) /\ call'[c] = call[c]
    BY <1>3, <1>4 DEF Flying
  <2> QED BY <2>1, <2>2, <2>3, <1>1 DEF LoadsAccounted
<1> QED BY <1>5, <1>6, <1>7, <1>8

\* A call of a flight that has read everything gets its own rows.
LEMMA AnswerInv == ASSUME IInv, NEW d \in flights, Answer(d) PROVE IInv'
<1> DEFINE rowsOf == [c \in Call |-> IF KeyOf[c] \in Key THEN d.found[KeyOf[c]] ELSE {}]
<1>1. d \in Flights /\ FlightRight(d) /\ d.todo = {}
  BY DEF IInv, TypeOK, FlightsRight, Answer
<1>2. rowsOf \in [Call -> SUBSET Row]
  BY <1>1 DEF Flights
<1>3. \A c \in d.calls : rowsOf[c] = OwnRows(c)
  <2> SUFFICES ASSUME NEW c \in d.calls PROVE rowsOf[c] = OwnRows(c)
    OBVIOUS
  <2>1. c \in Call /\ KeyOf[c] # NoKey /\ KeyOf[c] \in Key
    BY <1>1, OwnLoaderType DEF Flights, FlightRight
  <2>2. d.found[KeyOf[c]] = Matched(OwnLoader(c), {KeyOf[c]})
    BY <1>1 DEF FlightRight
  <2> QED BY <2>1, <2>2, OwnMatched
<1>4. call' = Settle(UNION {x.calls : x \in {d}}, "resolved", rowsOf)
  <2>1. UNION {x.calls : x \in {d}} = d.calls
    OBVIOUS
  <2> QED BY <2>1 DEF Answer
<1>5. flights' = flights \ {d} /\ UNCHANGED <<memo, loader>> /\ collation' \in {"unknown", "asking", "known"}
  BY DEF Answer, IInv, TypeOK
<1> HIDE DEF rowsOf
<1>6. {d} \in SUBSET flights /\ \A x \in {d} : \A c \in x.calls : rowsOf[c] = OwnRows(c)
  BY <1>3
<1> QED BY <1>2, <1>4, <1>5, <1>6, EndInv

\* A failed query rejects the calls of its flight.
LEMMA QueryFailsInv == ASSUME IInv, NEW d \in flights, QueryFails(d) PROVE IInv'
<1>1. Empty \in [Call -> SUBSET Row]
  BY DEF Empty
<1>2. call' = Settle(UNION {x.calls : x \in {d}}, "rejected", Empty)
  <2>1. UNION {x.calls : x \in {d}} = d.calls
    OBVIOUS
  <2> QED BY <2>1 DEF QueryFails
<1>3. flights' = flights \ {d} /\ UNCHANGED <<memo, loader>> /\ collation' \in {"unknown", "asking", "known"}
  BY DEF QueryFails, IInv, TypeOK
<1> QED BY <1>1, <1>2, <1>3, EndInv

\* A failed lookup rejects the calls of every flight that waits on it.
LEMMA CollationFailsInv == ASSUME IInv, CollationFails PROVE IInv'
<1> DEFINE gone == flights \ flights'
<1>1. Empty \in [Call -> SUBSET Row]
  BY DEF Empty
<1>2. gone \in SUBSET flights /\ flights' = flights \ gone
  BY DEF CollationFails
<1>3. call' = Settle(UNION {d.calls : d \in gone}, "rejected", Empty) /\ UNCHANGED <<memo, loader>>
      /\ collation' \in {"unknown", "asking", "known"}
  BY DEF CollationFails
<1> HIDE DEF gone
<1> QED BY <1>1, <1>2, <1>3, EndInv

\* Every step keeps the invariant.
LEMMA NextInv == IInv /\ [Next]_vars => IInv'
<1> SUFFICES ASSUME IInv, [Next]_vars PROVE IInv'
  OBVIOUS
<1>1. ASSUME NEW c \in Call, ResolveEmpty(c) PROVE IInv'
  BY <1>1, ResolveEmptyInv
<1>2. ASSUME NEW c \in Call, Resolve(c) PROVE IInv'
  BY <1>2, ResolveInv
<1>3. ASSUME NEW l \in Loaders, Dispatch(l) PROVE IInv'
  BY <1>3, DispatchInv
<1>4. ASSUME NEW d \in flights, Advance(d) PROVE IInv'
  BY <1>4, QueryInv, QueryFailsInv, AskCollationInv, GroupInv, AnswerInv DEF Advance
<1>5. CASE CollationArrives
  BY <1>5 DEF CollationArrives, IInv, TypeOK, MemoRight, QueuedRight, FlightsRight, OwnAnswer,
              LoadsAccounted, Queued, Flying
<1>6. CASE CollationFails
  BY <1>6, CollationFailsInv
<1>7. CASE UNCHANGED vars
  BY <1>7 DEF vars, IInv, TypeOK, MemoRight, QueuedRight, FlightsRight, OwnAnswer,
              LoadsAccounted, Queued, Flying
<1> QED BY <1>1, <1>2, <1>3, <1>4, <1>5, <1>6, <1>7 DEF Next

\* The inductive invariant holds of every reachable state.
THEOREM Invariance == Spec => []IInv
BY InitInv, NextInv, PTL DEF Spec

\* Every variable keeps its values (util/batch-loader/index.ts).
THEOREM TypeCorrect == Spec => []TypeOK
<1>1. IInv => TypeOK
  BY DEF IInv
<1> QED BY <1>1, Invariance, PTL

\* However the fields of an execution are batched, chunked and matched under the collation, a
\* resolved field holds what a query of its own would have read (relation-resolvers.ts resolve).
THEOREM AnswersAreOwn == Spec => []OwnAnswer
<1>1. IInv => OwnAnswer
  BY DEF IInv
<1> QED BY <1>1, Invariance, PTL

\* No load is lost, dispatched twice or settled twice (BatchLoader.load and dispatch).
THEOREM LoadsAreAccounted == Spec => []LoadsAccounted
<1>1. IInv => LoadsAccounted
  BY DEF IInv
<1> QED BY <1>1, Invariance, PTL
=============================================================================
