---------------------------- MODULE MCInventory ----------------------------
(* Instances of Inventory for TLC. *)
EXTENDS InventoryProperties

CONSTANTS c1, c2, w1, w2, i1, r1, k1, t1, t2

In(w, q) == [warehouse |-> w, item |-> i1, quantity |-> q]

Adjusting(k, w, q) == [op |-> "adjust", key |-> k] @@ In(w, q)
Reserving(k, w, q, entity) == [op |-> "reserve", key |-> k, entity |-> entity] @@ In(w, q)
Transfer(op, t)    == [op |-> op, transfer |-> t]
Drafting(t, w, v)  == [op |-> "draft", transfer |-> t, from |-> w, to |-> v,
                       lines |-> <<[item |-> i1, quantity |-> 2]>>]

(* A transfer to a warehouse without stock, against a reservation, a draft *)
(* the other way that locks the warehouses in the opposite order, and      *)
(* corrections of one key here and there.                                  *)
TransferCalls ==
  {Drafting(t1, w1, w2), Transfer("confirm", t1), Transfer("complete", t1),
   Drafting(t2, w2, w1), Reserving(r1, w1, 3, TRUE),
   [op |-> "fulfill", key |-> r1],
   Adjusting(k1, w1, -2), Adjusting(k1, w2, 1)}

StockOf(n) == [b \in Balances |-> IF b[1] = w1 THEN n ELSE 0]
FourUnits == StockOf(4)
=============================================================================
