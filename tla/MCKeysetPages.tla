--------------------------- MODULE MCKeysetPages ----------------------------
(* Three rows with a nullable, rounded column, a composite primary key and ties. *)
EXTENDS KeysetPages, TLC

CONSTANTS rowA, rowB, rowC

MCRow == {rowA, rowB, rowC}
MCColumn == {"score", "shelf", "place"}
MCPrimaryKey == <<"shelf", "place">>

Holds(score, shelf, place) == "score" :> score @@ "shelf" :> shelf @@ "place" :> place
MCContents == {Holds(2, 1, 1), Holds(3, 1, 2), Holds(Null, 2, 1), Holds(3, 2, 1)}
AllTied == [r \in MCRow |-> 1]

By(col, dir, nulls) == [col |-> col, dir |-> dir, nulls |-> nulls, by |-> "value"]
ByPlace == <<By("place", "desc", "native")>>
MCOrderings == {
  Omitted,
  <<>>,
  ByPlace,
  <<By("score", "asc", "native")>>,
  <<By("score", "desc", "native")>>,
  <<By("score", "asc", "first")>>,
  <<By("shelf", "desc", "native"), By("score", "desc", "last")>>,
  <<[By("place", "asc", "native") EXCEPT !.by = "elsewhere"]>> }

Asks(limit, default, max, clamp) ==
  [limit |-> limit, defaultLimit |-> default, maxLimit |-> max, clamp |-> clamp]
MCRequests == { Asks(1, Unlimited, Unlimited, FALSE), Asks(2, Unlimited, 2, FALSE), Asks(2, Unlimited, 1, FALSE),
                Asks(2, 1, 1, TRUE), Asks(Unlimited, Unlimited, 1, FALSE), Asks(Unlimited, 2, Unlimited, FALSE),
                Asks(Unlimited, Unlimited, Unlimited, FALSE) }
MCDistincts == {{}, {"score"}}
MCSymmetry == Permutations(MCRow)
=============================================================================
