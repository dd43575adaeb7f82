---------------------------- MODULE Procurement ----------------------------
(***************************************************************************)
(* Confirming, cancelling and receiving purchase orders                    *)
(* (modules/procurement/src/postgres.ts), statement by statement.          *)
(*                                                                         *)
(* Receiving runs Inventory's receiveStock for each line in its own        *)
(* transaction; confirming appends its event through Messaging.  Some      *)
(* orders exist as drafts at first.  A supplier's account and relationship *)
(* never change once they are there and are read without a lock.           *)
(***************************************************************************)
EXTENDS Inventory, SequencesExt

CONSTANTS Suppliers,        \* relationships that an account may be opened for
          Purchases,
          Drafts,           \* the orders that exist at first, of accounts that exist
          PurchaseLines,    \* for each order, the item and quantity of its lines, by number
          ConfirmationKeys, \* idempotency keys of confirmations
          ReceiptKeys       \* and of receipts

AccountRow(s) == <<"account", s>>
PurchaseRow(p) == <<"purchase", p>>
ReceiptRow(k) == <<"receipt", k>>

(* The entry of a confirmation key in its unique index, and the outbox      *)
(* event that carries it.                                                   *)
ConfirmationKeyRow(k) == <<"purchase key", k>>
ConfirmedEventRow(k) == <<"purchase event", k>>

PurchaseRows == {AccountRow(s) : s \in Suppliers}
                \cup {PurchaseRow(p) : p \in Purchases}
                \cup {ReceiptRow(k) : k \in ReceiptKeys}
                \cup {ConfirmationKeyRow(k) : k \in ConfirmationKeys}
                \cup {ConfirmedEventRow(k) : k \in ConfirmationKeys}

InitialPurchases ==
  [r \in PurchaseRows |-> [status |-> IF r[1] = "purchase" /\ r[2] \in Drafts
                                     THEN "draft" ELSE Absent]]

Asked(c) == session[c].call

-----------------------------------------------------------------------------
(* createSupplierAccount: the relationship has one account.                *)

CreateAccount(c) ==
  /\ Ready(c, "record") /\ At(c, "create account")
  /\ IF Present(session[c].row) THEN Refuse(c, "exists")
     ELSE Returns(c, session[c].row :> [status |-> "open"])

(* createPurchaseOrder: the foreign key sees committed accounts only; the   *)
(* order has a new name, which nobody else can use before it is committed. *)
CreatePurchase(c) ==
  /\ session[c].at = "create" /\ At(c, "create purchase")
  /\ IF Present(AccountRow(Asked(c).supplier))
     THEN Returns(c, PurchaseRow(Asked(c).purchase) :> [status |-> "draft"])
     ELSE Refuse(c, "no account")

(* A name is new: no other call has made an order of it, or is about to.    *)
NewPurchase(p) ==
  /\ ~Present(PurchaseRow(p))
  /\ \A c \in Clients : session[c] # Idle /\ Asked(c).op = "create purchase"
                         => Asked(c).purchase # p

-----------------------------------------------------------------------------
(* confirmPurchaseOrder *)

CallPurchase(c, q) ==
  \/ q.op \in {"confirm purchase", "cancel purchase"}
     /\ Present(PurchaseRow(q.purchase))
     /\ Begin(c, q, "purchase", PurchaseRow(q.purchase), <<q>>)
  \/ /\ q.op = "receive purchase" /\ Present(PurchaseRow(q.purchase))
     /\ Begin(c, q, "find", ReceiptRow(q.key), <<q>>)
  \/ q.op = "create account" /\ Begin(c, q, "record", AccountRow(q.supplier), <<q>>)
  \/ /\ q.op = "create purchase" /\ NewPurchase(q.purchase)
     /\ Begin(c, q, "create", NoRow, <<q>>)

(* Mutant: a confirmed order is confirmed again, whatever its key was.     *)
ConfirmAgain(c) ==
  /\ Ready(c, "purchase") /\ At(c, "confirm purchase")
  /\ IF db[session[c].row].status \in {"draft", "confirmed"}
     THEN Goes(c, session[c].row :> [status |-> "confirmed", key |-> Asked(c).key],
               "record", ConfirmationKeyRow(Asked(c).key))
     ELSE Refuse(c, "invalid")

LookupPurchase(c) ==
  /\ Ready(c, "purchase") /\ At(c, "confirm purchase")
  /\ LET p == db[session[c].row] IN
     CASE p.status = "confirmed" /\ p.key = Asked(c).key -> Returns(c, <<>>)
       [] p.status = "confirmed" /\ p.key # Asked(c).key -> Refuse(c, "conflict")
       [] p.status = "draft" ->
            Goes(c, session[c].row :> [status |-> "confirmed", key |-> Asked(c).key],
                 "record", ConfirmationKeyRow(Asked(c).key))
       [] OTHER -> Refuse(c, "invalid")

(* The UPDATE enters the key in its unique index.                          *)
ConfirmPurchase(c) ==
  /\ Ready(c, "record") /\ At(c, "confirm purchase") /\ session[c].row[1] = "purchase key"
  /\ IF Present(session[c].row) THEN Refuse(c, "conflict")
     ELSE Goes(c, session[c].row :> [status |-> "taken"],
               "record", ConfirmedEventRow(Asked(c).key))

(* messaging.append: a new envelope under a key that has one already is a  *)
(* conflict.                                                               *)
AppendConfirmed(c) ==
  /\ Ready(c, "record") /\ At(c, "confirm purchase") /\ session[c].row[1] = "purchase event"
  /\ IF Present(session[c].row) THEN Refuse(c, "conflict")
     ELSE Returns(c, session[c].row :> [status |-> "recorded", purchase |-> Asked(c).purchase])

-----------------------------------------------------------------------------
(* cancelPurchaseOrder *)

Receipts(p) == {k \in ReceiptKeys : Present(ReceiptRow(k)) /\ db[ReceiptRow(k)].purchase = p}

CancelPurchase(c) ==
  /\ Ready(c, "purchase") /\ At(c, "cancel purchase")
  /\ LET p == db[session[c].row] IN
     CASE p.status = "cancelled" -> Returns(c, <<>>)
       [] p.status = "draft" -> Refuse(c, "invalid")
       [] OTHER -> IF Receipts(Asked(c).purchase) # {} THEN Refuse(c, "has receipts")
                   ELSE Returns(c, session[c].row :> [p EXCEPT !.status = "cancelled"])

-----------------------------------------------------------------------------
(* receivePurchaseOrder.  The lines of a request are a function from the   *)
(* order's lines to quantities: none is there twice.                       *)

SameReceipt(row, q) == row.purchase = q.purchase /\ row.warehouse = q.warehouse
                       /\ row.lines = q.lines

AcceptExisting(c, row) ==
  IF SameReceipt(row, Asked(c)) THEN Returns(c, <<>>) ELSE Refuse(c, "conflict")

FindReceipt(c) ==
  /\ Ready(c, "find") /\ At(c, "receive purchase")
  /\ LET r == session[c].row IN
     IF Present(r) THEN AcceptExisting(c, db[r])
     ELSE Goes(c, <<>>, "purchase", PurchaseRow(Asked(c).purchase))

LockConfirmed(c) ==
  /\ Ready(c, "purchase") /\ At(c, "receive purchase")
  /\ IF db[session[c].row].status = "confirmed"
     THEN Goes(c, <<>>, "again", ReceiptRow(Asked(c).key))
     ELSE Refuse(c, "invalid")

ReceivedOf(p, l) ==
  FoldSet(LAMBDA k, n : n + db[ReceiptRow(k)].lines[l], 0,
          {k \in Receipts(p) : l \in DOMAIN db[ReceiptRow(k)].lines})

Fits(q) == \A l \in DOMAIN q.lines :
             ReceivedOf(q.purchase, l) + q.lines[l] <= PurchaseLines[q.purchase][l].quantity

FindReceiptAgain(c) ==
  /\ Ready(c, "again") /\ At(c, "receive purchase")
  /\ LET r == session[c].row IN
     IF Present(r) THEN AcceptExisting(c, db[r])
     ELSE IF Fits(Asked(c)) THEN Goes(c, <<>>, "record", r)
     ELSE Refuse(c, "exceeded")

(* receiveStock for the lines, in the order of their ids.                  *)
StockReceipts(q) ==
  LET order == SetToSortSeq(DOMAIN q.lines, <)
  IN  [n \in DOMAIN order |->
         [op |-> "receive", warehouse |-> q.warehouse,
          item |-> PurchaseLines[q.purchase][order[n]].item, quantity |-> q.lines[order[n]]]]

(* The receipt's lines are inserted last, which nobody sees before COMMIT. *)
RecordReceipt(c) ==
  /\ Ready(c, "record") /\ At(c, "receive purchase")
  /\ LET q == Asked(c) IN
     IF Present(session[c].row) THEN Refuse(c, "conflict")
     ELSE Continues(c, session[c].row :> [status |-> "recorded", purchase |-> q.purchase,
                                          warehouse |-> q.warehouse, lines |-> q.lines],
                    StockReceipts(q))

-----------------------------------------------------------------------------

CommitPurchase(c) == session[c].at = "done" /\ Commits(c)

ProcurementInit ==
  /\ db = InitialPurchases @@ InitialStock
  /\ session = [c \in Clients |-> Idle]
  /\ answers = [q \in Requests |-> {}]
  /\ calls = 0

PurchaseStatement(c) ==
  \/ CreateAccount(c) \/ CreatePurchase(c)
  \/ LookupPurchase(c) \/ ConfirmPurchase(c) \/ AppendConfirmed(c) \/ CancelPurchase(c)
  \/ FindReceipt(c) \/ LockConfirmed(c) \/ FindReceiptAgain(c) \/ RecordReceipt(c)
  \/ ReceiveStock(c) \/ Receipt(c)

ProcurementNext ==
  \E c \in Clients :
    \/ \E q \in Requests : CallPurchase(c, q)
    \/ PurchaseStatement(c) \/ CommitPurchase(c) \/ Abort(c) \/ DeadlockVictim(c)

ProcurementSpec == ProcurementInit /\ [][ProcurementNext]_sessionVars
=============================================================================
