--------------------------- MODULE OrderWorkflow ---------------------------
(***************************************************************************)
(* Confirming, cancelling and fulfilling a sales order                     *)
(* (modules/process/src/postgres.ts): each is one transaction over Sales,  *)
(* Inventory, Accounting and the workflow's own run, and may be asked for  *)
(* again with its idempotency key.  Sales orders can also be confirmed and *)
(* cancelled by themselves, and a period can be closed meanwhile.          *)
(***************************************************************************)
EXTENDS Inventory, Functions

CONSTANTS Orders,
          OrderLines,    \* for each order, a sequence of items and quantities
          WorkflowKeys   \* idempotency keys; the reservation of line n has <<key, n>>

Workflows == {"confirmOrder", "cancelOrder", "fulfillOrder"}

RunRow(type, key) == <<"run", type, key>>
OrderRow(o) == <<"order", o>>
JournalRow(kind, o) == <<"journal", kind, o>>

(* The entry of a confirmation key in its unique index.                    *)
KeyRow(key) == <<"orderKey", key>>

(* The succeeded confirmation run of an order, found by its aggregate.     *)
ConfirmationRow(o) == <<"confirmation", o>>

(* Posting profile, configuration and open period of the legal entity.     *)
BooksRow == <<"books">>

RunRows == {RunRow(t, k) : t \in Workflows, k \in WorkflowKeys}
OrderRows == RunRows \cup {BooksRow}
             \cup {OrderRow(o) : o \in Orders} \cup {ConfirmationRow(o) : o \in Orders}
             \cup {JournalRow(kind, o) : kind \in {"revenue", "reversal"}, o \in Orders}
             \cup {KeyRow(k) : k \in WorkflowKeys}

InitialOrders ==
  [r \in OrderRows |-> [status |-> CASE r[1] = "order" -> "draft"
                                     [] r[1] = "books" -> "open"
                                     [] OTHER -> Absent]]

(* What is asked of orders, which have lines (SalesOrder in Sales'          *)
(* contract), each with a reservation of its own.                          *)
OrderCall(q) ==
  /\ q.op \in Workflows => /\ q.order \in Orders /\ q.key \in WorkflowKeys
                            /\ {"op", "order", "key"} \subseteq DOMAIN q
  /\ q.op = "confirmOrder" => q.warehouse \in Warehouses
  /\ q.op \in {"salesConfirm", "salesCancel"} => q.order \in Orders /\ q.key \in WorkflowKeys

ASSUME OrderAssumption ==
  /\ \A q \in Requests : OrderCall(q)
  /\ OrderLines \in [Orders -> Seq(StockLine) \ {<<>>}]
  /\ \A o \in Orders, k \in WorkflowKeys : \A n \in DOMAIN OrderLines[o] : <<k, n>> \in Keys
  /\ NoRow \notin OrderRows

Does(c, ops) == session[c].todo # <<>> /\ Arg(c).op \in ops
Asked(c) == session[c].call
IsWorkflow(c) == Asked(c).op \in Workflows

-----------------------------------------------------------------------------
(* Replays: resolveExisting, loadConfirmation, resolveLifecycleExisting.   *)

(* What a run stores of its call.  The principal is stored by its event.   *)
Input(q) == [x \in DOMAIN q \ {"actor"} |-> q[x]]

(* Mutant: whoever has the key is given the result.                        *)
ReplayAny(c, run) == Refuse(c, "ok")

(* The event of the run is that of a call of the same principal.           *)
EventMatches(c, run) == run.actor = Asked(c).actor

(* A stored result is given again to the same call of the same principal.  *)
Replay(c, run) ==
  Refuse(c, CASE run.input # Input(Asked(c)) -> "conflict"
              [] ~EventMatches(c, run) \/ ~run.sound -> "corrupt"
              [] OTHER -> "ok")

(* cancelOrder and fulfillOrder start over once after a conflict.          *)
Again(c) ==
  /\ session' = [session EXCEPT ![c] =
       [Idle EXCEPT !.call = Asked(c), !.at = "find",
                    !.row = ConfirmationRow(Asked(c).order),
                    !.todo = <<[op |-> Asked(c).op, again |-> TRUE]>>]]
  /\ UNCHANGED <<db, answers, calls>>
Conflict(c) == IF "again" \in DOMAIN Arg(c) THEN Refuse(c, "conflict") ELSE Again(c)

CallWorkflow(c, q) ==
  \/ q.op = "confirmOrder" /\ Begin(c, q, "lookup", NoRow, <<q>>)
  \/ q.op \in {"cancelOrder", "fulfillOrder"}
     /\ Begin(c, q, "find", ConfirmationRow(q.order), <<q>>)

OwnRun(c) == RunRow(Asked(c).op, Asked(c).key)

LookupRun(c) ==
  /\ Ready(c, "lookup") /\ Does(c, {"confirmOrder"})
  /\ IF Present(OwnRun(c)) THEN Replay(c, db[OwnRun(c)])
     ELSE Goes(c, <<>>, "record", OwnRun(c))

Confirmations(o) ==
  {k \in WorkflowKeys : LET run == db[RunRow("confirmOrder", k)] IN
                        run.status = "succeeded" /\ run.input.order = o}
TheConfirmation(o) == CHOOSE k \in Confirmations(o) : TRUE

LoadConfirmation(c) ==
  /\ Ready(c, "find") /\ Does(c, {"cancelOrder", "fulfillOrder"})
  /\ LET keys == Confirmations(Asked(c).order) IN
     IF keys = {} THEN Refuse(c, "missing")
     ELSE IF Cardinality(keys) # 1 \/ \E k \in keys : ~db[RunRow("confirmOrder", k)].sound
     THEN Refuse(c, "corrupt")
     ELSE Goes(c, <<>>, "lookup", NoRow)

(* Runs of the same kind for the same order or with the same key.          *)
Related(q) == {r \in RunRows : /\ r[2] = q.op /\ Present(r)
                               /\ db[r].input.order = q.order \/ r[3] = q.key}

ResolveLifecycle(c, found) ==
  IF found = {OwnRun(c)} /\ db[OwnRun(c)].input = Input(Asked(c))
  THEN Replay(c, db[OwnRun(c)])
  ELSE Conflict(c)

LookupLifecycle(c) ==
  /\ Ready(c, "lookup") /\ Does(c, {"cancelOrder", "fulfillOrder"})
  /\ LET found == Related(Asked(c)) IN
     IF found = {} THEN Goes(c, <<>>, "record", OwnRun(c)) ELSE ResolveLifecycle(c, found)

-----------------------------------------------------------------------------
(* The steps of a run, in the order in which they are written.             *)

Reservations(o, key) == [n \in DOMAIN OrderLines[o] |-> <<key, n>>]

ReserveLines(q) ==
  [n \in DOMAIN OrderLines[q.order] |->
     [op |-> "reserve", key |-> <<q.key, n>>, entity |-> TRUE, warehouse |-> q.warehouse,
      item |-> OrderLines[q.order][n].item, quantity |-> OrderLines[q.order][n].quantity]]

EndReservations(q, op) ==
  [n \in DOMAIN OrderLines[q.order] |-> [op |-> op, key |-> <<TheConfirmation(q.order), n>>]]

Books(op) == <<[op |-> op, at |-> "books", row |-> BooksRow]>>
Complete == <<[op |-> "succeed", at |-> "succeed", row |-> NoRow]>>

Running(q) == [status |-> "running", input |-> Input(q), actor |-> q.actor, sound |-> FALSE]

(* Mutant: a run that was inserted meanwhile is not looked up.             *)
InsertRunOnce(c) ==
  /\ Ready(c, "record") /\ IsWorkflow(c) /\ session[c].row = OwnRun(c)
  /\ LET q == Asked(c)
         w == RowIs(OwnRun(c), Running(q))
     IN  IF Present(OwnRun(c)) THEN Refuse(c, "conflict")
         ELSE IF q.op = "fulfillOrder"
         THEN Continues(c, w, EndReservations(q, "fulfill") \o Complete)
         ELSE Goes(c, w, "order", OrderRow(q.order))

(* Somebody else has inserted the run meanwhile.                            *)
LoadExistingAfterConflict(c) ==
  IF Asked(c).op = "confirmOrder" THEN Replay(c, db[OwnRun(c)]) ELSE Conflict(c)

InsertRun(c) ==
  /\ Ready(c, "record") /\ IsWorkflow(c) /\ session[c].row = OwnRun(c)
  /\ LET q == Asked(c)
         w == RowIs(OwnRun(c), Running(q))
     IN  IF Present(OwnRun(c)) THEN LoadExistingAfterConflict(c)
         ELSE IF q.op = "fulfillOrder"
         THEN Continues(c, w, EndReservations(q, "fulfill") \o Complete)
         ELSE Goes(c, w, "order", OrderRow(q.order))

CallSales(c, q) == q.op \in {"salesConfirm", "salesCancel"}
                   /\ Begin(c, q, "order", OrderRow(q.order), <<q>>)

(* confirmOrder, cancelConfirmedOrder of Sales are done, having written w. *)
Confirmed(c, w) ==
  LET q == Asked(c) IN
  Continues(c, w, IF IsWorkflow(c) THEN ReserveLines(q) \o Books("revenue") \o Complete ELSE <<>>)
Cancelled(c, w) ==
  LET q == Asked(c) IN
  Continues(c, w, IF IsWorkflow(c)
                  THEN EndReservations(q, "release") \o Books("reversal") \o Complete
                  ELSE <<>>)

(* Mutant: for an order that Sales has confirmed nothing is left to do.    *)
ConfirmOnlyDraft(c) ==
  /\ Ready(c, "order") /\ Does(c, {"confirmOrder", "salesConfirm"})
  /\ LET o == db[session[c].row] IN
     CASE o.status = "draft" -> Goes(c, <<>>, "record", KeyRow(Asked(c).key))
       [] o.status = "confirmed" /\ o.key = Asked(c).key ->
            Continues(c, <<>>, IF IsWorkflow(c) THEN Complete ELSE <<>>)
       [] OTHER -> Refuse(c, "invalid")

ConfirmSalesOrder(c) ==
  /\ Ready(c, "order") /\ Does(c, {"confirmOrder", "salesConfirm"})
  /\ LET o == db[session[c].row] IN
     CASE o.status = "draft" -> Goes(c, <<>>, "record", KeyRow(Asked(c).key))
       [] o.status = "confirmed" -> IF o.key = Asked(c).key THEN Confirmed(c, <<>>)
                                    ELSE Refuse(c, "conflict")
       [] OTHER -> Refuse(c, "invalid")

TakeKey(c) ==
  /\ Ready(c, "record") /\ session[c].row[1] = "orderKey"
  /\ IF Present(session[c].row) THEN Refuse(c, "conflict")
     ELSE Confirmed(c, Over(RowIs(session[c].row, [status |-> "taken"]),
                            RowIs(OrderRow(Asked(c).order), [status |-> "confirmed",
                                                             key |-> Asked(c).key])))

CancelConfirmedOrder(c) ==
  /\ Ready(c, "order") /\ Does(c, {"cancelOrder", "salesCancel"})
  /\ LET o == db[session[c].row] IN
     CASE o.status = "cancelled" -> Cancelled(c, <<>>)
       [] o.status = "confirmed" ->
            Cancelled(c, RowIs(session[c].row, [o EXCEPT !.status = "cancelled"]))
       [] OTHER -> Refuse(c, "invalid")

(* postRevenueForOrder, reverseRevenueForOrder: the order's own rows are   *)
(* held since Sales, so that its journals cannot be posted meanwhile.      *)
Journal(c, kind) == JournalRow(kind, Asked(c).order)

(* Mutant: without an open period nothing is posted, and nothing fails.    *)
PostRevenueIfOpen(c) ==
  /\ Ready(c, "books") /\ At(c, "revenue")
  /\ IF Present(Journal(c, "revenue")) \/ db[BooksRow].status = "closed" THEN Returns(c, <<>>)
     ELSE Returns(c, RowIs(Journal(c, "revenue"), [status |-> "posted"]))

PostRevenue(c) ==
  /\ Ready(c, "books") /\ At(c, "revenue")
  /\ IF Present(Journal(c, "revenue")) THEN Returns(c, <<>>)
     ELSE IF db[BooksRow].status = "closed" THEN Refuse(c, "closed")
     ELSE Returns(c, RowIs(Journal(c, "revenue"), [status |-> "posted"]))

ReverseRevenue(c) ==
  /\ Ready(c, "books") /\ At(c, "reversal")
  /\ IF Present(Journal(c, "reversal")) THEN Returns(c, <<>>)
     ELSE IF db[BooksRow].status = "closed" THEN Refuse(c, "closed")
     ELSE IF ~Present(Journal(c, "revenue")) THEN Refuse(c, "missing")
     ELSE Returns(c, RowIs(Journal(c, "reversal"), [status |-> "reversed"]))

CallClose(c, q) == q.op = "close" /\ Begin(c, q, "books", BooksRow, <<q>>)

ClosePeriod(c) ==
  /\ Ready(c, "books") /\ At(c, "close")
  /\ Returns(c, RowIs(BooksRow, [status |-> "closed"]))

(* A confirmation's result is of use only with active reservations.        *)
ConfirmationResultMatches(c) ==
  \A k \in Range(Reservations(Asked(c).order, Asked(c).key)) :
    Sees(c, ReservationRow(k)).status = "active"

(* The event, the job and the result of the run.                           *)
CompleteRun(c) ==
  /\ Ready(c, "succeed")
  /\ LET q == Asked(c)
         confirms == q.op = "confirmOrder"
         succeeded == [Sees(c, OwnRun(c)) EXCEPT
                         !.status = "succeeded",
                         !.sound = confirms => ConfirmationResultMatches(c)]
     IN  Returns(c, Over(RowIs(OwnRun(c), succeeded),
                         IF confirms THEN RowIs(ConfirmationRow(q.order), [status |-> "succeeded"])
                         ELSE <<>>))

-----------------------------------------------------------------------------

CommitOrder(c) == session[c].at = "done" /\ ~Direct(c) /\ Commits(c)

OrderInit ==
  /\ db = Over(InitialOrders, InitialStock)
  /\ session = [c \in Clients |-> Idle]
  /\ answers = [q \in Requests |-> {}]
  /\ calls = 0

OrderStatement(c) ==
  \/ LookupRun(c) \/ LoadConfirmation(c) \/ LookupLifecycle(c) \/ InsertRun(c)
  \/ ConfirmSalesOrder(c) \/ TakeKey(c) \/ CancelConfirmedOrder(c)
  \/ PostRevenue(c) \/ ReverseRevenue(c) \/ ClosePeriod(c) \/ CompleteRun(c)

OrderNext ==
  \E c \in Clients :
    \/ \E q \in Requests : Call(c, q) \/ CallWorkflow(c, q) \/ CallSales(c, q) \/ CallClose(c, q)
    \/ Statement(c) \/ OrderStatement(c)
    \/ Commit(c) \/ CommitOrder(c) \/ Abort(c) \/ DeadlockVictim(c)

OrderSpec == OrderInit /\ [][OrderNext]_sessionVars
=============================================================================
