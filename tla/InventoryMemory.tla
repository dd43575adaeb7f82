-------------------------- MODULE InventoryMemory --------------------------
(***************************************************************************)
(* The inventory as its memory adapter keeps it                            *)
(* (modules/inventory/src/memory.ts): every operation happens at once.     *)
(* The PostgreSQL adapter is meant to do the same, so this is what         *)
(* Inventory promises.                                                     *)
(*                                                                         *)
(* An answer is given when an operation happens, or is lost; and a call    *)
(* may fail without having happened.  A refusal states a reason that holds *)
(* then; when there are two, which one is left open.                       *)
(***************************************************************************)
EXTENDS Integers, Sequences, FiniteSets

CONSTANTS Requests, InitialBalances, Unstored

VARIABLES balances, storedReservations, storedCorrections, storedTransfers,
          answers  \* what each request was answered

stored == <<storedReservations, storedCorrections, storedTransfers>>
memoryVars == <<balances, stored, answers>>

Place(q) == <<q.warehouse, q.item>>
Same(row, q) ==
  row.warehouse = q.warehouse /\ row.item = q.item /\ row.quantity = q.quantity
Record(q, status) ==
  [status |-> status, warehouse |-> q.warehouse, item |-> q.item, quantity |-> q.quantity]

Free(b) == balances[b].onHand - balances[b].reserved
Moved(b, onHand, reserved) ==
  [balances EXCEPT ![b] = [onHand |-> @.onHand + onHand, reserved |-> @.reserved + reserved]]

ReceiveStock(q) ==
  balances' = Moved(Place(q), q.quantity, 0) /\ UNCHANGED stored

AdjustStock(q) ==
  LET existing == storedCorrections[q.key] IN
  \/ existing # Unstored /\ Same(existing, q) /\ UNCHANGED <<balances, stored>>
  \/ /\ existing = Unstored
     /\ Free(Place(q)) + q.quantity >= 0
     /\ balances' = Moved(Place(q), q.quantity, 0)
     /\ storedCorrections' = [storedCorrections EXCEPT ![q.key] = Record(q, "recorded")]
     /\ UNCHANGED <<storedReservations, storedTransfers>>

ReserveStock(q) ==
  LET existing == storedReservations[q.key] IN
  \/ existing # Unstored /\ Same(existing, q) /\ UNCHANGED <<balances, stored>>
  \/ /\ existing = Unstored
     /\ Free(Place(q)) >= q.quantity
     /\ balances' = Moved(Place(q), 0, q.quantity)
     /\ storedReservations' = [storedReservations EXCEPT ![q.key] = Record(q, "active")]
     /\ UNCHANGED <<storedCorrections, storedTransfers>>

Ended(q, status, onHand) ==
  LET reservation == storedReservations[q.key] IN
  \/ reservation.status = status /\ UNCHANGED <<balances, stored>>
  \/ /\ reservation.status = "active"
     /\ balances' = Moved(Place(reservation), onHand, -reservation.quantity)
     /\ storedReservations' = [storedReservations EXCEPT ![q.key].status = status]
     /\ UNCHANGED <<storedCorrections, storedTransfers>>

ReleaseReservation(q) == Ended(q, "released", 0)
FulfillReservation(q) == Ended(q, "fulfilled", -storedReservations[q.key].quantity)

CreateTransfer(q) ==
  /\ q.from # q.to /\ storedTransfers[q.transfer] = Unstored
  /\ storedTransfers' = [storedTransfers EXCEPT ![q.transfer] =
       [status |-> "draft", from |-> q.from, to |-> q.to, lines |-> q.lines]]
  /\ UNCHANGED <<balances, storedReservations, storedCorrections>>

(* The lines of a transfer are of different items. *)
LineOf(transfer, item) == {n \in DOMAIN transfer.lines : transfer.lines[n].item = item}
QuantityOf(transfer, item) ==
  IF LineOf(transfer, item) = {} THEN 0
  ELSE transfer.lines[CHOOSE n \in LineOf(transfer, item) : TRUE].quantity

Covered(transfer) ==
  \A n \in DOMAIN transfer.lines :
    Free(<<transfer.from, transfer.lines[n].item>>) >= transfer.lines[n].quantity

Carried(transfer, warehouse, sign) ==
  [b \in DOMAIN balances |->
     IF b[1] # warehouse THEN balances[b]
     ELSE [balances[b] EXCEPT !.onHand = @ + sign * QuantityOf(transfer, b[2])]]

ConfirmTransfer(q) ==
  LET transfer == storedTransfers[q.transfer] IN
  \/ transfer.status \in {"confirmed", "completed"} /\ UNCHANGED <<balances, stored>>
  \/ /\ transfer.status = "draft" /\ Covered(transfer)
     /\ balances' = Carried(transfer, transfer.from, -1)
     /\ storedTransfers' = [storedTransfers EXCEPT ![q.transfer].status = "confirmed"]
     /\ UNCHANGED <<storedReservations, storedCorrections>>

CompleteTransfer(q) ==
  LET transfer == storedTransfers[q.transfer] IN
  \/ transfer.status = "completed" /\ UNCHANGED <<balances, stored>>
  \/ /\ transfer.status = "confirmed"
     /\ balances' = Carried(transfer, transfer.to, 1)
     /\ storedTransfers' = [storedTransfers EXCEPT ![q.transfer].status = "completed"]
     /\ UNCHANGED <<storedReservations, storedCorrections>>

Happens(q) ==
  \/ q.op = "receive" /\ ReceiveStock(q)
  \/ q.op = "adjust" /\ AdjustStock(q)
  \/ q.op = "reserve" /\ ReserveStock(q)
  \/ q.op = "release" /\ ReleaseReservation(q)
  \/ q.op = "fulfill" /\ FulfillReservation(q)
  \/ q.op = "draft" /\ CreateTransfer(q)
  \/ q.op = "confirm" /\ ConfirmTransfer(q)
  \/ q.op = "complete" /\ CompleteTransfer(q)

(* Why an operation is refused. *)
Conflict(q) ==
  LET existing == IF q.op = "adjust" THEN storedCorrections[q.key] ELSE storedReservations[q.key]
  IN  q.op \in {"adjust", "reserve"} /\ existing # Unstored /\ ~Same(existing, q)

Unavailable(q) ==
  CASE q.op = "adjust" -> Free(Place(q)) + q.quantity < 0
    [] q.op = "reserve" -> Free(Place(q)) < q.quantity
    [] q.op = "confirm" -> storedTransfers[q.transfer].status = "draft"
                           /\ ~Covered(storedTransfers[q.transfer])
    [] OTHER -> FALSE

Missing(q) ==
  CASE q.op \in {"release", "fulfill"} -> storedReservations[q.key] = Unstored
    [] q.op \in {"confirm", "complete"} -> storedTransfers[q.transfer] = Unstored
    [] OTHER -> FALSE

InvalidState(q) ==
  CASE q.op = "release" -> storedReservations[q.key].status = "fulfilled"
    [] q.op = "fulfill" -> storedReservations[q.key].status = "released"
    [] q.op = "complete" -> storedTransfers[q.transfer].status = "draft"
    [] OTHER -> FALSE

Refusals(q) ==
  {"unknown"} \cup (IF Conflict(q) THEN {"conflict"} ELSE {})
              \cup (IF Unavailable(q) THEN {"unavailable"} ELSE {})
              \cup (IF Missing(q) THEN {"missing"} ELSE {})
              \cup (IF InvalidState(q) THEN {"invalid"} ELSE {})

Init ==
  /\ balances = InitialBalances
  /\ \A r \in DOMAIN storedReservations : storedReservations[r] = Unstored
  /\ \A r \in DOMAIN storedCorrections : storedCorrections[r] = Unstored
  /\ \A r \in DOMAIN storedTransfers : storedTransfers[r] = Unstored
  /\ answers = [q \in Requests |-> {}]

Outcomes == {"ok", "unknown", "conflict", "unavailable", "missing", "invalid"}

Next ==
  \E q \in Requests, answer \in Outcomes :
    /\ answers' = [answers EXCEPT ![q] = @ \cup {answer}]
    /\ \/ answer \in {"ok", "unknown"} /\ Happens(q)
       \/ answer \in Refusals(q) /\ UNCHANGED <<balances, stored>>

Spec == Init /\ [][Next]_memoryVars
=============================================================================
