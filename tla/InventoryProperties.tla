------------------------ MODULE InventoryProperties ------------------------
(***************************************************************************)
(* What the stock of a warehouse promises, whatever calls run at once and  *)
(* wherever they are cut off.                                              *)
(***************************************************************************)
EXTENDS Inventory

SumOver(S, f(_)) == SumFunctionOnSet([x \in S |-> f(x)], S)

BalanceOf(b) == db[BalanceRow(b[1], b[2])]

On(row, b) == row.warehouse = b[1] /\ row.item = b[2]

(* Keys of the reservations of balance b with one of the statuses. *)
Reserved(b, statuses) ==
  {k \in Keys : db[ReservationRow(k)].status \in statuses /\ On(db[ReservationRow(k)], b)}
Quantity(k) == db[ReservationRow(k)].quantity

Recorded(b) == {k \in Corrections : Present(CorrectionRow(k)) /\ On(db[CorrectionRow(k)], b)}
Correction(k) == db[CorrectionRow(k)].quantity

(* What transfers took from (brought to) balance b. *)
LinesOf(t, b, w) == IF w # b[1] THEN 0
                    ELSE SumOver({n \in DOMAIN t.lines : t.lines[n].item = b[2]},
                                 LAMBDA n : t.lines[n].quantity)
Taken(b) == SumOver({t \in Transfers : db[TransferRow(t)].status \in {"confirmed", "completed"}},
                    LAMBDA t : LinesOf(db[TransferRow(t)], b, db[TransferRow(t)].from))
Brought(b) == SumOver({t \in Transfers : db[TransferRow(t)].status = "completed"},
                      LAMBDA t : LinesOf(db[TransferRow(t)], b, db[TransferRow(t)].to))

BalanceType == [status : {Absent, "stocked"}, onHand : Int, reserved : Int, received : Int]
FactType(statuses) == [status : {Absent}] \cup
                      [status : statuses, warehouse : Warehouses, item : Items, quantity : Int]

Types(rows) ==
  /\ \A r \in rows : r[1] = "balance" => db[r] \in BalanceType
  /\ \A r \in rows : r[1] = "reservation" =>
       db[r] \in FactType({"active", "released", "fulfilled"})
  /\ \A r \in rows : r[1] = "correction" => db[r] \in FactType({"recorded"})
  /\ \A r \in rows : r[1] = "transfer" =>
       db[r].status \in {Absent, "draft", "confirmed", "completed"}

\* Every committed row has the shape that its table gives it.
InventoryTypeOK == StockRows \subseteq DOMAIN db /\ Types(StockRows) /\ calls \in 0..MaxCalls

\* A row is locked by one transaction at a time, and who changed stock and has
\* not committed yet holds the lock of its row (SELECT FOR UPDATE, UPDATE and INSERT).
RowsHaveOneHolder ==
  /\ \A c, d \in Clients : c # d => session[c].locks \cap session[d].locks = {}
  /\ \A c \in Clients : DOMAIN session[c].mine \cap StockRows \subseteq session[c].locks

\* What a balance has reserved is what its active reservations add up to, after
\* any interleaving of reserving, releasing and fulfilling: the trigger
\* inventory_reservation_balance_consistency never refuses a commit.
ReservedIsActive ==
  \A b \in Balances : BalanceOf(b).reserved = SumOver(Reserved(b, {"active"}), Quantity)

\* No stock is lost or made up: what is on hand is what was received, corrected
\* and brought, less what was fulfilled and taken; each correction, transfer and
\* reservation counts once, however often it was asked for
\* (inventory_on_hand_movement_consistency).
OnHandIsMoved ==
  \A b \in Balances :
    BalanceOf(b).onHand = BalanceOf(b).received
                         + SumOver(Recorded(b), Correction) + Brought(b)
                         - SumOver(Reserved(b, {"fulfilled"}), Quantity) - Taken(b)

\* What is reserved stays on hand: neither corrections nor transfers nor other
\* orders take it, not even inside a transaction (stock_balances_reserved_check
\* never fails an update).
ReservedStaysOnHand ==
  \A c \in Clients, b \in Balances :
    LET s == Sees(c, BalanceRow(b[1], b[2])) IN 0 <= s.reserved /\ s.reserved <= s.onHand

\* What every statement can rely on, as one invariant: rows have their shape,
\* writes are under a lock, reservations and balances agree, and no reserved unit
\* leaves the warehouse.
StockInv == InventoryTypeOK /\ RowsHaveOneHolder /\ ReservedIsActive /\ ReservedStaysOnHand

\* What a caller was told holds: a reservation, correction, release or transfer
\* that was answered with success is committed with the caller's own input.
AnswersAreTrue ==
  \A q \in Requests : "ok" \in answers[q] =>
    CASE q.op = "reserve" -> /\ Present(ReservationRow(q.key))
                             /\ SameFact(db[ReservationRow(q.key)], q)
      [] q.op = "adjust" -> /\ Present(CorrectionRow(q.key))
                            /\ SameFact(db[CorrectionRow(q.key)], q)
      [] q.op \in {"release", "fulfill"} -> db[ReservationRow(q.key)].status = Ends[q.op]
      [] q.op = "draft" -> Present(TransferRow(q.transfer))
      [] q.op = "confirm" -> db[TransferRow(q.transfer)].status \in {"confirmed", "completed"}
      [] q.op = "complete" -> db[TransferRow(q.transfer)].status = "completed"
      [] OTHER -> TRUE

\* The adapters agree: committed stock, and every answer a caller is given, are
\* what the memory adapter, which does one operation at a time, would come to;
\* whatever statements of the operations interleave.
Memory ==
  INSTANCE InventoryMemory WITH
    InitialBalances <- [b \in Balances |-> [onHand |-> Stock[b], reserved |-> 0]],
    Unstored <- [status |-> Absent],
    balances <- [b \in Balances |->
                   [onHand |-> BalanceOf(b).onHand, reserved |-> BalanceOf(b).reserved]],
    storedReservations <- [k \in Keys |-> db[ReservationRow(k)]],
    storedCorrections <- [k \in Corrections |-> db[CorrectionRow(k)]],
    storedTransfers <- [t \in Transfers |-> db[TransferRow(t)]]

BehavesAsMemory == Memory!Spec

\* Every call ends: calls that wait for each other's rows do not wait for ever.
EveryCallEnds == \A c \in Clients : session[c] # Idle ~> session[c] = Idle
=============================================================================
