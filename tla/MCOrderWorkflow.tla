-------------------------- MODULE MCOrderWorkflow --------------------------
(* Instances of OrderWorkflow for TLC. *)
EXTENDS OrderWorkflowProperties

CONSTANTS c1, c2, w1, i1, i2, o1, o2, ka, kb, alice, bob, r1, k1

Confirming(o, k, a) == [op |-> "confirmOrder", order |-> o, key |-> k, warehouse |-> w1,
                        actor |-> a]
Cancelling(o, k)    == [op |-> "cancelOrder", order |-> o, key |-> k, actor |-> alice]
Fulfilling(o, k)    == [op |-> "fulfillOrder", order |-> o, key |-> k, actor |-> alice]
Sales(op, o, k)     == [op |-> op, order |-> o, key |-> k]
Directly(op, k, n)  == [op |-> op, key |-> <<k, n>>]
Close               == [op |-> "close"]
InStock(q)          == [warehouse |-> w1, item |-> i1, quantity |-> q]

LineKeys == WorkflowKeys \X {1, 2}
DirectKeys == LineKeys \cup {r1}

(* Two orders that want the last three units of two items, in opposite     *)
(* orders, or one order of one item.                                       *)
Opposite == o1 :> <<[item |-> i1, quantity |-> 2], [item |-> i2, quantity |-> 1]>>
            @@ o2 :> <<[item |-> i2, quantity |-> 1], [item |-> i1, quantity |-> 2]>>
OneLine  == [o \in Orders |-> <<[item |-> i1, quantity |-> 2]>>]
ThreeEach == [b \in Balances |-> 3]

OrderCalls ==
  {Confirming(o1, ka, alice), Confirming(o1, kb, alice), Confirming(o2, ka, alice),
   Cancelling(o1, ka), Cancelling(o1, kb), Fulfilling(o1, ka), Fulfilling(o2, ka), Close}

(* Sales and Inventory called beside the workflows: of the three units on  *)
(* hand the order takes two, a reservation two, and a correction one; one  *)
(* is received.                                                            *)
DirectCalls ==
  {Confirming(o1, ka, alice), Confirming(o1, ka, bob), Cancelling(o1, ka), Fulfilling(o1, ka),
   Sales("salesConfirm", o1, ka), Sales("salesCancel", o1, ka),
   Directly("release", ka, 1), Directly("fulfill", ka, 1),
   [op |-> "reserve", key |-> r1, entity |-> FALSE] @@ InStock(2),
   [op |-> "reserve", key |-> r1, entity |-> FALSE] @@ InStock(1),
   [op |-> "adjust", key |-> k1] @@ InStock(-1), [op |-> "receive"] @@ InStock(1)}
=============================================================================
