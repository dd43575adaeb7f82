----------------------------- MODULE MCCutover -----------------------------
(* Instances of Cutover for TLC. *)
EXTENDS Cutover

CONSTANTS c1, c2, fund, drawA, drawB, cash, equity, due, sales, thirdCode,
          june, half, july, o1, x1

Run(o, reconcile) == [op |-> "run", operation |-> o, reconcile |-> reconcile]
Intent(o, authority) == [op |-> "intent", operation |-> o, authority |-> authority]
Moving(op) == [op |-> op]
Posting(op, e, o) == [op |-> op, entity |-> e, order |-> o]
Period(op, e, p) == [op |-> op, entity |-> e, period |-> p]
Configuring(e, engine) == [op |-> "configure entity", entity |-> e, engine |-> engine,
                           posting |-> TRUE]
Profiling(e, a, b) == [op |-> "configure revenue", entity |-> e, receivable |-> a, revenue |-> b]
Opening(a, type) == [op |-> "create account", account |-> a, type |-> type]
Journalling(x, lines) == [op |-> "post journal", reference |-> x, lines |-> lines]

(* One unit was paid in; two operations would each draw it.                *)
InAndOut == fund :> (cash :> 1 @@ equity :> -1)
            @@ drawA :> (cash :> -1 @@ equity :> 1) @@ drawB :> (cash :> -1 @@ equity :> 1)

NotThere == [status |-> "absent"]

(* One of the two is there to be drawn, the other is still to come.        *)
OneToCome == fund :> NewOperation("reconciled", "postgresql")
             @@ drawA :> NewOperation("intent", "postgresql") @@ drawB :> NotThere

NoneLeft == fund :> NewOperation("reconciled", "postgresql") @@ drawA :> NotThere @@ drawB :> NotThere

TwoIntents == fund :> NewOperation("reconciled", "postgresql")
              @@ drawA :> NewOperation("intent", "postgresql")
              @@ drawB :> NewOperation("intent", "postgresql")

Moves == {Run(drawA, FALSE), Run(drawA, TRUE), Run(drawB, FALSE), Intent(drawB, "none"),
          Moving("prepare"), Moving("approve"), Moving("activate")}

(* Two entities may post to June, another is still to be configured.       *)
Days == june :> 1..2 @@ half :> 2..3 @@ july :> 3..4
OneTotal == o1 :> 5
ToPost(e) == ProfileRow(e) :> [status |-> "configured", receivable |-> due, revenue |-> sales]
             @@ PeriodRow(e, june) :> [status |-> "open"]
TheBooks ==
  ToPost("entity") @@ ToPost("second") @@ ConfigurationOf("second") :> Configured("postgresql", TRUE)
  @@ AccountCodeRow(due) :> [status |-> "asset"] @@ AccountCodeRow(sales) :> [status |-> "revenue"]

(* Revenue is posted and reversed while its period is closed, its order    *)
(* cancelled or a manual journal takes its reference.                      *)
Postings ==
  {Posting("post revenue", "entity", o1), Posting("reverse revenue", "entity", o1),
   Posting("post revenue", "second", o1),
   Period("close period", "entity", june), Period("close period", "entity", july),
   [op |-> "cancel order", order |-> o1],
   Journalling(RevenueReference("entity", o1), <<Debit(due, 4), Credit(sales, 4)>>),
   Journalling(ReversalReference("entity", o1), <<Debit(sales, 5), Credit(due, 5)>>)}

(* The other entity is set up, with what is missing and what is there      *)
(* already, to post revenue of the same order.                             *)
SettingUp ==
  {Configuring("other", "postgresql"), Configuring("other", "tigerbeetle"),
   Configuring("nobody", "postgresql"), Profiling("other", due, sales), Profiling("other", sales, due),
   Profiling("other", due, thirdCode), Opening(thirdCode, "revenue"), Period("open period", "other", june),
   Period("open period", "other", half), Period("open period", "other", july),
   Period("open period", "nobody", july),
   Posting("post revenue", "other", o1)}

Journals ==
  {Journalling(x1, <<Debit(due, 1), Credit(sales, 1)>>), Journalling(x1, <<Credit(sales, 1), Debit(due, 1)>>),
   Journalling(x1, <<Debit(due, 1), Credit(thirdCode, 1)>>), Journalling(x1, <<Debit(due, 1), Credit(sales, 2)>>),
   Journalling(x1, <<Debit(due, 1)>>), Opening(thirdCode, "revenue")}

(* What is asked of an entity that may have been moved.                    *)
Aftermath ==
  {Moving("prepare"), Moving("approve"), Moving("activate"), Run(drawB, FALSE),
   Intent(drawB, "none"), Intent(drawB, "postgresql"), Posting("post revenue", "entity", o1),
   Journalling(x1, <<Debit(due, 1), Credit(sales, 1)>>)}

Scene(asked, operations) == [asked |-> asked, operations |-> operations]

MoveScenes == {Scene(asked, OneToCome) : asked \in {Moves, Postings, SettingUp, Journals}}
              \cup {Scene(Aftermath, NoneLeft)}

Draws == {Run(drawA, FALSE), Run(drawB, FALSE)}

DrawScenes == {Scene(Draws, TwoIntents)}

AllMoves == UNION {scene.asked : scene \in MoveScenes}

AnyClient == Permutations(Clients)
=============================================================================
