------------------------- MODULE ProcurementMemory -------------------------
(***************************************************************************)
(* Purchase orders as the memory adapter of procurement keeps them         *)
(* (modules/procurement/src/memory.ts): every operation happens at once.   *)
(* This is what Procurement, on PostgreSQL, promises.                      *)
(*                                                                         *)
(* An answer is given when an operation happens, or is lost; and a call    *)
(* may fail without having happened.  A refusal states a reason that holds *)
(* then; when there are two, which one is left open.  A delivery is taken  *)
(* whole or not at all; the memory adapter puts the first lines of one     *)
(* that exceeds its order on stock before it finds out, which is not       *)
(* promised here.                                                          *)
(***************************************************************************)
EXTENDS Integers, FiniteSetsExt

CONSTANTS Requests,
          Ordered,             \* for each order, the item and quantity of its lines
          Drafts,              \* the orders that exist at first
          InitialStock, Unstored

VARIABLES accounts,            \* for each supplier, whether there is one
          orders,              \* their status, and the key that confirmed them
          announced,           \* for each key, the order whose confirmation it announced
          storedReceipts,
          receivedQuantities,  \* of each line of each order
          onHand,
          answers              \* what each request was answered

stored == <<accounts, orders, announced, storedReceipts, receivedQuantities, onHand>>
memoryVars == <<stored, answers>>

CreateSupplierAccount(q) ==
  /\ accounts[q.supplier] = Unstored
  /\ accounts' = [accounts EXCEPT ![q.supplier] = [status |-> "open"]]
  /\ UNCHANGED <<orders, announced, storedReceipts, receivedQuantities, onHand>>

CreatePurchaseOrder(q) ==
  /\ accounts[q.supplier] # Unstored /\ orders[q.purchase] = Unstored
  /\ orders' = [orders EXCEPT ![q.purchase] = [status |-> "draft"]]
  /\ UNCHANGED <<accounts, announced, storedReceipts, receivedQuantities, onHand>>

ConfirmPurchaseOrder(q) ==
  \/ orders[q.purchase] = [status |-> "confirmed", key |-> q.key] /\ UNCHANGED stored
  \/ /\ orders[q.purchase].status = "draft" /\ announced[q.key] = Unstored
     /\ orders' = [orders EXCEPT ![q.purchase] = [status |-> "confirmed", key |-> q.key]]
     /\ announced' = [announced EXCEPT ![q.key] =
                        [status |-> "recorded", purchase |-> q.purchase]]
     /\ UNCHANGED <<accounts, storedReceipts, receivedQuantities, onHand>>

HasReceipts(p) ==
  \E k \in DOMAIN storedReceipts : /\ storedReceipts[k] # Unstored
                                   /\ storedReceipts[k].purchase = p

CancelPurchaseOrder(q) ==
  \/ orders[q.purchase].status = "cancelled" /\ UNCHANGED stored
  \/ /\ orders[q.purchase].status = "confirmed" /\ ~HasReceipts(q.purchase)
     /\ orders' = [orders EXCEPT ![q.purchase].status = "cancelled"]
     /\ UNCHANGED <<accounts, announced, storedReceipts, receivedQuantities, onHand>>

Receipt(q) == [status |-> "recorded", purchase |-> q.purchase,
               warehouse |-> q.warehouse, lines |-> q.lines]

Fits(q) ==
  \A line \in DOMAIN q.lines :
    receivedQuantities[q.purchase][line] + q.lines[line] <= Ordered[q.purchase][line].quantity

(* What a delivery brings of an item. *)
Delivered(q, item) ==
  MapThenSumSet(LAMBDA line : q.lines[line],
                {line \in DOMAIN q.lines : Ordered[q.purchase][line].item = item})

ReceivePurchaseOrder(q) ==
  \/ storedReceipts[q.key] = Receipt(q) /\ UNCHANGED stored
  \/ /\ storedReceipts[q.key] = Unstored
     /\ orders[q.purchase].status = "confirmed" /\ Fits(q)
     /\ storedReceipts' = [storedReceipts EXCEPT ![q.key] = Receipt(q)]
     /\ receivedQuantities' = [receivedQuantities EXCEPT ![q.purchase] =
          [line \in DOMAIN @ |-> IF line \in DOMAIN q.lines THEN @[line] + q.lines[line]
                                 ELSE @[line]]]
     /\ onHand' = [b \in DOMAIN onHand |->
          IF b[1] = q.warehouse THEN onHand[b] + Delivered(q, b[2]) ELSE onHand[b]]
     /\ UNCHANGED <<accounts, orders, announced>>

Happens(q) ==
  \/ q.op = "create account" /\ CreateSupplierAccount(q)
  \/ q.op = "create purchase" /\ CreatePurchaseOrder(q)
  \/ q.op = "confirm purchase" /\ ConfirmPurchaseOrder(q)
  \/ q.op = "cancel purchase" /\ CancelPurchaseOrder(q)
  \/ q.op = "receive purchase" /\ ReceivePurchaseOrder(q)

(* Why an operation is refused. *)
Conflict(q) ==
  CASE q.op = "confirm purchase" ->
         LET order == orders[q.purchase] IN
         \/ order.status = "confirmed" /\ order.key # q.key
         \/ order.status = "draft" /\ announced[q.key] # Unstored
    [] q.op = "receive purchase" -> storedReceipts[q.key] \notin {Unstored, Receipt(q)}
    [] OTHER -> FALSE

InvalidState(q) ==
  CASE q.op = "confirm purchase" -> orders[q.purchase].status = "cancelled"
    [] q.op = "cancel purchase" -> orders[q.purchase].status = "draft"
    [] q.op = "receive purchase" -> orders[q.purchase].status # "confirmed"
    [] OTHER -> FALSE

Refusals(q) ==
  {"unknown"}
  \cup (IF q.op = "create account" /\ accounts[q.supplier] # Unstored THEN {"exists"} ELSE {})
  \cup (IF q.op = "create purchase" /\ accounts[q.supplier] = Unstored THEN {"no account"} ELSE {})
  \cup (IF Conflict(q) THEN {"conflict"} ELSE {})
  \cup (IF InvalidState(q) THEN {"invalid"} ELSE {})
  \cup (IF q.op = "cancel purchase" /\ HasReceipts(q.purchase) THEN {"has receipts"} ELSE {})
  \cup (IF q.op = "receive purchase" /\ ~Fits(q) THEN {"exceeded"} ELSE {})

Init ==
  /\ \A s \in DOMAIN accounts : accounts[s] = Unstored
  /\ \A p \in DOMAIN orders : orders[p] = IF p \in Drafts THEN [status |-> "draft"] ELSE Unstored
  /\ \A k \in DOMAIN announced : announced[k] = Unstored
  /\ \A k \in DOMAIN storedReceipts : storedReceipts[k] = Unstored
  /\ receivedQuantities = [p \in DOMAIN Ordered |-> [line \in DOMAIN Ordered[p] |-> 0]]
  /\ onHand = InitialStock
  /\ answers = [q \in Requests |-> {}]

Outcomes == {"ok", "unknown", "exists", "no account", "conflict", "invalid",
             "has receipts", "exceeded"}

Next ==
  \E q \in Requests, answer \in Outcomes :
    /\ answers' = [answers EXCEPT ![q] = @ \cup {answer}]
    /\ \/ answer \in {"ok", "unknown"} /\ Happens(q)
       \/ answer \in Refusals(q) /\ UNCHANGED stored

Spec == Init /\ [][Next]_memoryVars
=============================================================================
