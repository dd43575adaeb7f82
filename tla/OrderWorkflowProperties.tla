---------------------- MODULE OrderWorkflowProperties ----------------------
(***************************************************************************)
(* What holds of orders, whatever calls run at once, are repeated, or are  *)
(* cut off.                                                                *)
(***************************************************************************)
EXTENDS OrderWorkflow, InventoryProperties

Order(o) == db[OrderRow(o)].status
Revenue(o) == Present(JournalRow("revenue", o))
Reversal(o) == Present(JournalRow("reversal", o))
Succeeded(type, o) == {k \in WorkflowKeys : LET run == db[RunRow(type, k)] IN
                         run.status = "succeeded" /\ run.input.order = o}

(* Statuses of the reservations that were made for an order's lines.       *)
LinesStock(o) == IF Succeeded("confirmOrder", o) = {} THEN {}
             ELSE {db[ReservationRow(k)].status :
                     k \in Range(Reservations(o, TheConfirmation(o)))}

Fate(o) ==
  CASE Order(o) = "draft" /\ LinesStock(o) = {} /\ ~Revenue(o) -> "draft"
    [] Order(o) = "confirmed" /\ LinesStock(o) = {"active"} /\ Revenue(o) /\ ~Reversal(o) ->
         "confirmed"
    [] Order(o) = "confirmed" /\ LinesStock(o) = {"fulfilled"} /\ Revenue(o) /\ ~Reversal(o) ->
         "fulfilled"
    [] Order(o) = "cancelled" /\ LinesStock(o) = {"released"} /\ Revenue(o) /\ Reversal(o) ->
         "cancelled"
    [] OTHER -> "torn"

Lifecycle == INSTANCE OrderLifecycle WITH fate <- [o \in Orders |-> Fate(o)]

\* Confirming, cancelling and fulfilling are one step each of the order, its
\* reservations and its revenue, through every interleaving, failure and retry
\* of the workflow's calls (ADR-0033, order and inventory lifecycle).
KeepsLifecycle == Lifecycle!Spec

\* Every committed row has the shape that its table gives it, and no run is
\* committed before it has succeeded.
OrderTypeOK ==
  /\ DOMAIN db = StockRows \cup OrderRows
  /\ Types(StockRows)
  /\ \A r \in RunRows : db[r].status \in {Absent, "succeeded"}
  /\ \A o \in Orders : Order(o) \in {"draft", "confirmed", "cancelled"}
  /\ calls \in 0..MaxCalls

\* An order has one confirmation and ends in one way, also when Sales and
\* Inventory are called directly: the lock on the confirmation's run and the
\* state of the reservations stop the second of two runs.
OneOutcome ==
  \A o \in Orders :
    /\ \A type \in Workflows : Cardinality(Succeeded(type, o)) <= 1
    /\ Succeeded("cancelOrder", o) = {} \/ Succeeded("fulfillOrder", o) = {}

\* Revenue is posted for a confirmed order and reversed for a cancelled one, and
\* a run that succeeded has left both its stock and its journal.
RevenueFollowsOrder ==
  \A o \in Orders :
    /\ Revenue(o) <=> Succeeded("confirmOrder", o) # {}
    /\ Reversal(o) <=> Succeeded("cancelOrder", o) # {}
    /\ Revenue(o) => Order(o) # "draft"
    /\ Reversal(o) => Order(o) = "cancelled" /\ LinesStock(o) = {"released"}
    /\ Succeeded("fulfillOrder", o) # {} => LinesStock(o) = {"fulfilled"}

\* A workflow request that was answered with success is never refused when it is
\* asked again: a caller whose answer was lost gets the same result.
AnswersAreStable ==
  [][\A q \in Requests : q.op \in Workflows /\ "ok" \in answers[q] =>
       answers'[q] \subseteq answers[q] \cup {"unknown"}]_sessionVars

\* Who was told that a workflow call succeeded has a succeeded run of the call's
\* own input: a key that was used for another order is never answered with that
\* order's result.
AnswersAreOwn ==
  \A q \in Requests : q.op \in Workflows /\ "ok" \in answers[q] =>
    LET run == db[RunRow(q.op, q.key)] IN
    run.status = "succeeded" /\ run.input = Input(q)

\* What every call can rely on, as one invariant.
OrderInv == OrderTypeOK /\ AnswersAreOwn
=============================================================================
