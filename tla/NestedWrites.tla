---------------------------- MODULE NestedWrites ----------------------------
(***************************************************************************)
(* The nested operations of one relation.  Its plan says where the         *)
(* reference is: on the written row, so that the target comes first        *)
(* (NestedEntry), on the target (NestedChildren), or in the rows of a      *)
(* junction (JunctionLinks), which several requests may write at a time.   *)
(***************************************************************************)
EXTENDS NestedEntry, Sequences

CONSTANTS
  Parent, NoHolder, Nowhere, AnyHolder, Row, HiddenRow, Batches, Lists, NotGiven, MaxCreate, \* of NestedChildren
  Request, Source, LinkTarget, HiddenTarget, Inputs, Splits, Copy, Tables                    \* of JunctionLinks

VARIABLES
  side,     \* where the plan keeps the reference: on the parent, the child or a junction
  plan, input, parents, key, saved, todo, seen, wrote, matched, step,              \* of NestedChildren
  marks, keyed, origin, table, touched, inputs, chunks, rest, own, missing, told, at \* of JunctionLinks

C == INSTANCE NestedChildren WITH Hidden <- HiddenRow, op <- input, pc <- step
J == INSTANCE JunctionLinks WITH
       Target <- LinkTarget, Hidden <- HiddenTarget,
       db <- table, op <- inputs, todo <- rest, seen <- told, pc <- at

ASSUME PlansAssumption == C!ChildrenAssumption /\ J!JunctionAssumption

childVars == <<plan, input, parents, key, saved, todo, seen, wrote, matched, step>>
linkVars == <<marks, keyed, origin, table, touched, inputs, chunks, rest, own, missing, told, at>>
allVars == <<side, vars, childVars, linkVars>>

\* What the other kinds of plan leave alone.
NoEntry ==
  /\ mode = "insert" /\ hasWhere = FALSE /\ keyListed = FALSE
  /\ op = [e \in Entry |-> [do |-> "none", filter |-> {}]]
  /\ first = [r \in ParentRow |-> IF r \in Stored THEN NoKey ELSE Absent] /\ held = first
  /\ targets = {} /\ i = 1 /\ patch = NoKey /\ rows = {} /\ written = [e \in Entry |-> {}] /\ pc = "done"
NoChildren ==
  /\ plan = NotGiven /\ input = NotGiven /\ parents = <<>> /\ key = << >> /\ saved = << >>
  /\ todo = <<>> /\ seen = << >> /\ wrote = {} /\ matched = {} /\ step = "idle"
NoLinks ==
  /\ marks = FALSE /\ keyed = FALSE /\ origin = << >> /\ table = << >> /\ touched = << >>
  /\ inputs = << >> /\ chunks = << >> /\ rest = << >> /\ own = << >> /\ missing = << >>
  /\ told = << >> /\ at = [q \in Request |-> "idle"]

\* writeNestedEntry, and applyChildSide, in which the plan's junction decides.
WritesParent == side = "parent" /\ Next /\ UNCHANGED <<side, childVars, linkVars>>
WritesChildren == side = "child" /\ C!Next /\ UNCHANGED <<side, vars, linkVars>>
WritesLinks == side = "junction" /\ J!Next /\ UNCHANGED <<side, vars, childVars>>

NestedInit ==
  \/ side = "parent" /\ Init /\ NoChildren /\ NoLinks
  \/ side = "child" /\ C!Init /\ NoEntry /\ NoLinks
  \/ side = "junction" /\ J!Init /\ NoEntry /\ NoChildren
NestedNext == WritesParent \/ WritesChildren \/ WritesLinks
NestedSpec == NestedInit /\ [][NestedNext]_allVars

-----------------------------------------------------------------------------
\* A nested write to rows that hold the key leaves every one of them where its input says, rows out
\* of the request's reach included (applyForeignKeyOps; NestedChildren).
ChildrenAsAsked == side = "child" => C!OutcomeAsAsked

\* A to-one relation whose input does not read the key shows at most one row for each written
\* parent (applyForeignKeyOps; NestedChildren).
OneIsOne == side = "child" => C!ToOneHoldsOne

\* A write through a junction leaves every pair that no other request changed meanwhile linked exactly
\* if its input says so, in one row if it adds any, and what it cannot see alone (applyThroughOps;
\* JunctionLinks).
LinksAsAsked == J!OutcomeAsAsked

\* However the statements of several requests fall between one another, each pair ends as some order
\* of those that committed would have left it (applyThroughOps; JunctionLinks).
PairsSerializable == side = "junction" => J!PairsSerializable

\* Whichever of the two runs, its hooks are told of every row its statements wrote, and of no input
\* that ran none (registerChildSteps mirrors applyForeignKeyOps and applyThroughOps).
HooksMirror == (side = "child" => C!HooksMirrorStatements) /\ (side = "junction" => J!HooksToldOfLinks)

\* What the statements of the other two kinds of plan keep.
SideInv == (side = "child" => C!ChildInv) /\ (side = "junction" => J!LinkInv)
=============================================================================
