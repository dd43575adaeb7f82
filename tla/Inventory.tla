----------------------------- MODULE Inventory -----------------------------
(***************************************************************************)
(* Stock balances, reservations, corrections and transfers                 *)
(* (modules/inventory/src/postgres.ts), statement by statement.            *)
(*                                                                         *)
(* A reservation or a correction is identified by its idempotency key; a   *)
(* reservation's generated id stands for the same thing.  The movements    *)
(* that every operation inserts while it holds the balance are facts about *)
(* the other rows: the receipts of a balance are added up in "received",   *)
(* the others are determined by reservations, corrections and transfers.   *)
(***************************************************************************)
EXTENDS Sessions, FiniteSetsExt

CONSTANTS Warehouses, Items,
          Keys,        \* idempotency keys of reservations
          Corrections, \* idempotency keys of corrections
          Transfers,
          Stock        \* on hand at first, for each warehouse and item

Balances == Warehouses \X Items

BalanceRow(w, i) == <<"balance", w, i>>
ReservationRow(k) == <<"reservation", k>>
CorrectionRow(k) == <<"correction", k>>
TransferRow(t) == <<"transfer", t>>
WarehouseRow(w) == <<"warehouse", w>>
ItemRow(i) == <<"item", i>>

StockRows == {BalanceRow(b[1], b[2]) : b \in Balances}
             \cup {ReservationRow(k) : k \in Keys}
             \cup {CorrectionRow(k) : k \in Corrections}
             \cup {TransferRow(t) : t \in Transfers}

InitialStock ==
  [r \in StockRows |->
     IF r[1] = "balance"
     THEN LET n == Stock[<<r[2], r[3]>>]
          IN  [status |-> IF n = 0 THEN Absent ELSE "stocked",
               onHand |-> n, reserved |-> 0, received |-> n]
     ELSE [status |-> Absent]]

InventoryOps == {"receive", "adjust", "reserve", "release", "fulfill",
                 "draft", "confirm", "complete"}

(* What is asked of Inventory (its contract): quantities are positive, but *)
(* those of corrections, and every transfer has an id of its own.          *)
Quantities == Nat \ {0}
StockLine == [item : Items, quantity : Quantities]

InventoryCall(q) ==
  /\ q.op \in {"receive", "adjust", "reserve"} => q.warehouse \in Warehouses /\ q.item \in Items
  /\ q.op \in {"receive", "reserve"} => q.quantity \in Quantities
  /\ q.op = "adjust" => q.key \in Corrections /\ q.quantity \in Int
  /\ q.op = "reserve" => q.entity \in BOOLEAN
  /\ q.op \in {"reserve", "release", "fulfill"} => q.key \in Keys
  /\ q.op \in {"draft", "confirm", "complete"} => q.transfer \in Transfers
  /\ q.op = "draft" => /\ {"op", "transfer", "from", "to", "lines"} \subseteq DOMAIN q
                       /\ {q.from, q.to} \subseteq Warehouses /\ q.lines \in Seq(StockLine)

ASSUME InventoryAssumption ==
  /\ \A q \in Requests : InventoryCall(q)
  /\ \A p, q \in Requests : p.op = "draft" /\ q.op = "draft" /\ p.transfer = q.transfer => p = q
  /\ Stock \in [Balances -> Nat] /\ MaxCalls \in Nat
  /\ NoRow \notin StockRows /\ NoCall \notin Requests

Direct(c) == session[c].call.op \in InventoryOps

(* The input of the inventory call that client c is in: its own, or the    *)
(* next one of the workflow that it is part of.                            *)
Arg(c) == Head(session[c].todo)
At(c, op) == session[c].todo # <<>> /\ Arg(c).op = op
Balance(c) == BalanceRow(Arg(c).warehouse, Arg(c).item)

(* The first statement for input a, and its row; the inputs of other       *)
(* services name both.                                                     *)
First(a) ==
  CASE a.op = "receive" -> <<"warehouse", WarehouseRow(a.warehouse)>>
    [] a.op = "adjust"  -> <<"find", CorrectionRow(a.key)>>
    [] a.op = "reserve" -> IF a.entity THEN <<"warehouse", WarehouseRow(a.warehouse)>>
                           ELSE <<"find", ReservationRow(a.key)>>
    [] a.op \in {"release", "fulfill"} -> <<"reservation", ReservationRow(a.key)>>
    [] a.op = "draft" -> <<"warehouse", WarehouseRow(a.from)>>
    [] a.op = "item" -> <<"item", ItemRow(a.item)>>
    [] a.op = "insert" -> <<"insert", TransferRow(a.transfer)>>
    [] a.op \in {"confirm", "complete"} -> <<"transfer", TransferRow(a.transfer)>>
    [] a.op \in {"ship", "arrive"} -> <<"balance", BalanceRow(a.warehouse, a.item)>>
    [] OTHER -> <<a.at, a.row>>

(* The statements write w and go on with the inputs that follow. *)
Continues(c, w, inputs) ==
  IF inputs = <<>> THEN Proceed(c, w, "done", NoRow, <<>>)
  ELSE Proceed(c, w, First(Head(inputs))[1], First(Head(inputs))[2], inputs)
Returns(c, w) == Continues(c, w, Tail(session[c].todo))

(* A transfer's id is new: who asks again for a draft is given another.    *)
NewDraft(q) == q.op = "draft" => /\ ~Present(TransferRow(q.transfer))
                                 /\ \A d \in Clients : session[d].call # q

(* SELECT FOR UPDATE of both warehouses has no ORDER BY: either is first.  *)
Call(c, q) ==
  /\ q.op \in InventoryOps
  /\ NewDraft(q)
  /\ \/ Begin(c, q, First(q)[1], First(q)[2], <<q>>)
     \/ q.op = "draft" /\ Begin(c, q, "warehouse", WarehouseRow(q.to), <<q>>)

SameFact(row, a) == row.warehouse = a.warehouse /\ row.item = a.item
                    /\ row.quantity = a.quantity
Fact(a, status) == [status |-> status, warehouse |-> a.warehouse, item |-> a.item,
                    quantity |-> a.quantity]

(* Mutant: what was recorded meanwhile counts as the caller's.             *)
DuplicateIsOk(c, row) == Refuse(c, "ok")

(* A unique index refuses a row that was committed meanwhile: a call of    *)
(* its own looks the row up again, a nested one is in an aborted           *)
(* transaction.                                                            *)
Duplicate(c, row) ==
  Refuse(c, IF ~Direct(c) THEN "unknown"
            ELSE IF SameFact(db[row], Arg(c)) THEN "ok" ELSE "conflict")

-----------------------------------------------------------------------------
(* receiveStock *)

ReceiveStock(c) ==
  /\ Ready(c, "warehouse") /\ At(c, "receive")
  /\ Goes(c, <<>>, "balance", Balance(c))

Received(b, n) == [b EXCEPT !.status = "stocked", !.onHand = @ + n, !.received = @ + n]

Receipt(c) ==
  /\ Ready(c, "balance") /\ At(c, "receive")
  /\ Returns(c, RowIs(Balance(c), Received(Sees(c, Balance(c)), Arg(c).quantity)))

-----------------------------------------------------------------------------
(* adjustStock: find the correction; lock the item; lock the balance, look *)
(* for the correction again and adjust; insert the correction.             *)

FindCorrection(c) ==
  /\ Ready(c, "find") /\ At(c, "adjust")
  /\ LET r == session[c].row IN
     IF ~Present(r) THEN Goes(c, <<>>, "item", ItemRow(Arg(c).item))
     ELSE IF SameFact(db[r], Arg(c)) THEN Returns(c, <<>>)
     ELSE Refuse(c, "conflict")

LockItem(c) == Ready(c, "item") /\ At(c, "adjust") /\ Goes(c, <<>>, "update", Balance(c))

Adjusted(b, n) == [b EXCEPT !.status = "stocked", !.onHand = @ + n]
CanAdjust(b, n) == n < 0 => b.onHand + n >= b.reserved

Adjust(c) ==
  /\ Ready(c, "update") /\ At(c, "adjust") /\ Present(Balance(c))
  /\ LET b == db[Balance(c)]
         r == CorrectionRow(Arg(c).key)
     IN  IF Present(r)
         THEN IF SameFact(db[r], Arg(c)) THEN Returns(c, <<>>) ELSE Refuse(c, "conflict")
         ELSE IF CanAdjust(b, Arg(c).quantity)
         THEN Goes(c, RowIs(Balance(c), Adjusted(b, Arg(c).quantity)), "record", r)
         ELSE Refuse(c, "unavailable")

AdjustNothing(c) ==
  /\ Ready(c, "update") /\ At(c, "adjust") /\ ~Present(Balance(c))
  /\ IF Arg(c).quantity < 0 THEN Refuse(c, "unavailable")
     ELSE Goes(c, <<>>, "upsert", Balance(c))

AdjustFirst(c) ==
  /\ Ready(c, "upsert") /\ At(c, "adjust")
  /\ Goes(c, RowIs(Balance(c), Adjusted(Sees(c, Balance(c)), Arg(c).quantity)),
          "record", CorrectionRow(Arg(c).key))

(* Mutant: the key of corrections is not unique.                           *)
RecordCorrectionAgain(c) ==
  /\ Ready(c, "record") /\ At(c, "adjust")
  /\ Returns(c, RowIs(session[c].row, Fact(Arg(c), "recorded")))

RecordCorrection(c) ==
  /\ Ready(c, "record") /\ At(c, "adjust")
  /\ LET r == session[c].row IN
     IF Present(r) THEN Duplicate(c, r) ELSE Returns(c, RowIs(r, Fact(Arg(c), "recorded")))

-----------------------------------------------------------------------------
(* reserveStock *)

ReserveStock(c) ==
  /\ Ready(c, "warehouse") /\ At(c, "reserve")
  /\ Goes(c, <<>>, "find", ReservationRow(Arg(c).key))

FindReservation(c) ==
  /\ Ready(c, "find") /\ At(c, "reserve")
  /\ LET r == session[c].row IN
     IF ~Present(r) THEN Goes(c, <<>>, "update", Balance(c))
     ELSE IF SameFact(db[r], Arg(c)) THEN Returns(c, <<>>)
     ELSE Refuse(c, "conflict")

Available(b, n) == b.onHand - b.reserved >= n

Reserve(c) ==
  /\ Ready(c, "update") /\ At(c, "reserve")
  /\ LET b == Sees(c, Balance(c)) IN
     IF Available(b, Arg(c).quantity)
     THEN Goes(c, RowIs(Balance(c), [b EXCEPT !.reserved = @ + Arg(c).quantity]),
               "record", ReservationRow(Arg(c).key))
     ELSE Refuse(c, "unavailable")

RecordReservation(c) ==
  /\ Ready(c, "record") /\ At(c, "reserve")
  /\ LET r == session[c].row IN
     IF Present(r) THEN Duplicate(c, r) ELSE Returns(c, RowIs(r, Fact(Arg(c), "active")))

-----------------------------------------------------------------------------
(* releaseReservation, fulfillReservation *)

Ends == [release |-> "released", fulfill |-> "fulfilled"]

(* Mutants: the row is read without FOR UPDATE; a reservation that ended   *)
(* in the other way counts as done.                                        *)
ReadReservation(c) ==
  /\ session[c].at = "reservation"
  /\ LET r == Sees(c, session[c].row) IN
     CASE r.status = Absent -> Refuse(c, "missing")
       [] r.status = Ends[Arg(c).op] -> Returns(c, <<>>)
       [] r.status = "active" -> Goes(c, <<>>, "balance", BalanceRow(r.warehouse, r.item))
       [] OTHER -> Refuse(c, "invalid")

LockReservationEnded(c) ==
  /\ Ready(c, "reservation")
  /\ LET r == Sees(c, session[c].row) IN
     CASE r.status = Absent -> Refuse(c, "missing")
       [] r.status = "active" -> Goes(c, <<>>, "balance", BalanceRow(r.warehouse, r.item))
       [] OTHER -> Returns(c, <<>>)

LockReservation(c) ==
  /\ Ready(c, "reservation")
  /\ LET r == Sees(c, session[c].row) IN
     CASE r.status = Absent -> Refuse(c, "missing")
       [] r.status = Ends[Arg(c).op] -> Returns(c, <<>>)
       [] r.status = "active" -> Goes(c, <<>>, "balance", BalanceRow(r.warehouse, r.item))
       [] OTHER -> Refuse(c, "invalid")

Reservation(c) == Sees(c, ReservationRow(Arg(c).key))

Release(c) ==
  /\ Ready(c, "balance") /\ At(c, "release")
  /\ LET b == Sees(c, session[c].row)
         r == Reservation(c)
     IN  IF b.reserved >= r.quantity
         THEN Returns(c, Over(RowIs(session[c].row, [b EXCEPT !.reserved = @ - r.quantity]),
                              RowIs(ReservationRow(Arg(c).key), [r EXCEPT !.status = Ends.release])))
         ELSE Refuse(c, "unavailable")

(* Mutant: the goods leave, the reservation of them stays counted.         *)
FulfillOnHandOnly(c) ==
  /\ Ready(c, "balance") /\ At(c, "fulfill")
  /\ LET b == Sees(c, session[c].row)
         r == Reservation(c)
     IN  Returns(c, Over(RowIs(session[c].row, [b EXCEPT !.onHand = @ - r.quantity]),
                         RowIs(ReservationRow(Arg(c).key), [r EXCEPT !.status = Ends.fulfill])))

Fulfill(c) ==
  /\ Ready(c, "balance") /\ At(c, "fulfill")
  /\ LET b == Sees(c, session[c].row)
         r == Reservation(c)
     IN  IF b.onHand >= r.quantity /\ b.reserved >= r.quantity
         THEN Returns(c, Over(RowIs(session[c].row, [b EXCEPT !.onHand = @ - r.quantity,
                                                           !.reserved = @ - r.quantity]),
                              RowIs(ReservationRow(Arg(c).key), [r EXCEPT !.status = Ends.fulfill])))
         ELSE Refuse(c, "unavailable")

-----------------------------------------------------------------------------
(* createTransfer, confirmTransfer, completeTransfer.  The lines of a      *)
(* transfer are in the order of their items, in which confirming locks     *)
(* their balances; that it checks all of them before it takes from the     *)
(* first cannot be told from taking line by line and rolling back.         *)

LockWarehouses(c) ==
  /\ Ready(c, "warehouse") /\ At(c, "draft")
  /\ \E w \in {Arg(c).from, Arg(c).to} :
       /\ WarehouseRow(w) # session[c].row
       /\ Goes(c, <<>>, "second", WarehouseRow(w))

LockItems(c) ==
  /\ Ready(c, "second")
  /\ LET a == Arg(c) IN
     Continues(c, <<>>, [n \in DOMAIN a.lines |-> [op |-> "item", item |-> a.lines[n].item]]
                        \o <<[a EXCEPT !.op = "insert"]>>)

LockItemOfLine(c) == Ready(c, "item") /\ At(c, "item") /\ Returns(c, <<>>)

InsertTransfer(c) ==
  /\ Ready(c, "insert")
  /\ Returns(c, RowIs(session[c].row,
       [status |-> "draft", from |-> Arg(c).from, to |-> Arg(c).to, lines |-> Arg(c).lines]))

Lines(t, op, warehouse) ==
  [n \in DOMAIN t.lines |-> [op |-> op, warehouse |-> warehouse, item |-> t.lines[n].item,
                             quantity |-> t.lines[n].quantity]]

ConfirmTransfer(c) ==
  /\ Ready(c, "transfer") /\ At(c, "confirm")
  /\ LET t == db[session[c].row] IN
     CASE t.status = Absent -> Refuse(c, "missing")
       [] t.status = "draft" -> Continues(c, RowIs(session[c].row, [t EXCEPT !.status = "confirmed"]),
                                          Lines(t, "ship", t.from))
       [] OTHER -> Returns(c, <<>>)

Ship(c) ==
  /\ Ready(c, "balance") /\ At(c, "ship")
  /\ LET b == Sees(c, Balance(c)) IN
     IF Available(b, Arg(c).quantity)
     THEN Returns(c, RowIs(Balance(c), [b EXCEPT !.onHand = @ - Arg(c).quantity]))
     ELSE Refuse(c, "unavailable")

CompleteTransfer(c) ==
  /\ Ready(c, "transfer") /\ At(c, "complete")
  /\ LET t == db[session[c].row] IN
     CASE t.status = Absent -> Refuse(c, "missing")
       [] t.status = "completed" -> Returns(c, <<>>)
       [] t.status = "confirmed" -> Continues(c, RowIs(session[c].row, [t EXCEPT !.status = "completed"]),
                                              Lines(t, "arrive", t.to))
       [] OTHER -> Refuse(c, "invalid")

Arrive(c) ==
  /\ Ready(c, "balance") /\ At(c, "arrive")
  /\ LET b == Sees(c, Balance(c)) IN
     Returns(c, RowIs(Balance(c), [b EXCEPT !.status = "stocked", !.onHand = @ + Arg(c).quantity]))

-----------------------------------------------------------------------------

Commit(c) == session[c].at = "done" /\ Direct(c) /\ Commits(c)

InventoryInit ==
  /\ db = InitialStock
  /\ session = [c \in Clients |-> Idle]
  /\ answers = [q \in Requests |-> {}]
  /\ calls = 0

Statement(c) ==
  \/ ReceiveStock(c) \/ Receipt(c)
  \/ FindCorrection(c) \/ LockItem(c) \/ Adjust(c) \/ AdjustNothing(c) \/ AdjustFirst(c)
  \/ RecordCorrection(c)
  \/ ReserveStock(c) \/ FindReservation(c) \/ Reserve(c) \/ RecordReservation(c)
  \/ LockReservation(c) \/ Release(c) \/ Fulfill(c)
  \/ LockWarehouses(c) \/ LockItems(c) \/ LockItemOfLine(c) \/ InsertTransfer(c)
  \/ ConfirmTransfer(c) \/ Ship(c) \/ CompleteTransfer(c) \/ Arrive(c)

InventoryNext ==
  \E c \in Clients :
    \/ \E q \in Requests : Call(c, q)
    \/ Statement(c) \/ Commit(c) \/ Abort(c) \/ DeadlockVictim(c)

InventorySpec == InventoryInit /\ [][InventoryNext]_sessionVars
FairInventorySpec ==
  InventorySpec /\ \A c \in Clients : WF_sessionVars(Statement(c) \/ Commit(c))
                                    /\ WF_sessionVars(DeadlockVictim(c))
=============================================================================
