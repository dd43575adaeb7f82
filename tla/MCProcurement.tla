--------------------------- MODULE MCProcurement ---------------------------
(* An instance of Procurement, with the mail that follows, for TLC. *)
EXTENDS Communication

CONSTANTS c1, c2, w1, i1, i2, s1, p1, p2, p3, ka, kb, ra, rb

Line(i, n) == [item |-> i, quantity |-> n]

(* Two orders of the same items, and one that is created.                  *)
TheLines == p3 :> <<Line(i1, 1)>> @@ p1 :> <<Line(i1, 2), Line(i2, 1)>> @@ p2 :> <<Line(i2, 1)>>

Purchase(op, p, k) == [op |-> op, purchase |-> p, key |-> k]
Receiving(p, k, lines) == [op |-> "receive purchase", purchase |-> p, key |-> k,
                           warehouse |-> w1, lines |-> lines]

(* Deliveries that fit one after the other, that exceed the order together,*)
(* and that reuse a key for another order with other lines.                *)
PurchaseCalls ==
  {[op |-> "create account", supplier |-> s1],
   [op |-> "create purchase", supplier |-> s1, purchase |-> p3],
   Purchase("confirm purchase", p1, ka), Purchase("confirm purchase", p1, kb),
   Purchase("confirm purchase", p2, ka), Purchase("cancel purchase", p1, ka),
   Receiving(p1, ra, 1 :> 2 @@ 2 :> 1), Receiving(p1, rb, 1 :> 1),
   Receiving(p2, ra, 1 :> 1)}

Notifying(k) == [op |-> "notify", key |-> k]
Mailing(op, n) == [op |-> op, number |-> n]

(* The mail of a confirmation, asked for by any number of calls.           *)
MailCalls == {Notifying(ka), Mailing("deliver", 1), Mailing("retry", 1)}

AllCalls == PurchaseCalls \cup MailCalls

AnyClient == Permutations(Clients)

NoStock == [b \in Balances |-> 0]
=============================================================================
