------------------------ MODULE OrderWorkflowProofs ------------------------
(***************************************************************************)
(* Proofs about orders, of any number of clients, orders, lines, keys and  *)
(* stock: an order has one outcome, and its run, its stock and its revenue *)
(* tell the same; no stock is in two hands.                                *)
(***************************************************************************)
EXTENDS OrderWorkflowProperties, SessionsProofs, FiniteSetTheorems

-----------------------------------------------------------------------------
(* Rows and what a transaction may make of them.                           *)

Rows == StockRows \cup OrderRows

Outcomes == {"released", "fulfilled"}

ReservationType ==
  [status : {Absent}] \cup [status : {"active"} \cup Outcomes, warehouse : Warehouses,
                            item : Items, quantity : Quantities]
CorrectionType ==
  [status : {Absent}] \cup [status : {"recorded"}, warehouse : Warehouses, item : Items,
                            quantity : Int]
TransferType ==
  [status : {Absent}] \cup [status : {"draft", "confirmed", "completed"}, from : Warehouses,
                            to : Warehouses, lines : Seq(StockLine)]

InStock(b) == /\ b \in BalanceType /\ 0 <= b.reserved /\ b.reserved <= b.onHand
              /\ b.status = Absent => b.onHand = 0

\* What the tables of Inventory may hold.
StockIs(rows) ==
  \A r \in StockRows :
    /\ r[1] = "balance" => InStock(rows[r])
    /\ r[1] = "reservation" => rows[r] \in ReservationType
    /\ r[1] = "correction" => rows[r] \in CorrectionType
    /\ r[1] = "transfer" => rows[r] \in TransferType

\* A transaction makes new of an old row of Inventory.
StockStep(r, old, new) ==
  /\ r[1] = "balance" => InStock(new) /\ new.status # Absent
  /\ r[1] = "reservation" =>
       /\ new \in ReservationType
       /\ \/ old.status = Absent /\ new.status = "active"
          \/ old.status = "active" /\ \E s \in Outcomes : new = [old EXCEPT !.status = s]
  /\ r[1] = "correction" =>
       new \in CorrectionType /\ old.status = Absent /\ new.status # Absent
  /\ r[1] = "transfer" =>
       /\ new \in TransferType
       /\ \/ old.status = Absent /\ new.status = "draft"
          \/ old.status = "draft" /\ new.status = "confirmed"
          \/ old.status = "confirmed" /\ new.status = "completed"

\* Call q may make a new row r of Inventory.
StockCall(q, r) ==
  /\ r[1] = "transfer" => q.op = "draft" /\ r = TransferRow(q.transfer)
  /\ r[1] = "reservation" => q.op \in {"reserve", "confirmOrder"}

\* Call q makes new of an old row of the orders.
OrderStep(q, r, old, new) ==
  /\ r[1] = "run" =>
       /\ q.op \in Workflows /\ r = RunRow(q.op, q.key) /\ old.status = Absent
       /\ {"status", "input"} \subseteq DOMAIN new
       /\ new.status \in {"running", "succeeded"} /\ new.input = Input(q)
  /\ r[1] = "order" =>
       /\ q.op \in Workflows \cup {"salesConfirm", "salesCancel"} /\ r = OrderRow(q.order)
       /\ {"status", "key"} \subseteq DOMAIN new
       /\ \/ old.status = "draft" /\ new.status = "confirmed" /\ new.key = q.key
          \/ /\ old.status = "confirmed"
             /\ new = [old EXCEPT !.status = "cancelled"] /\ new.status = "cancelled"
  /\ r[1] = "confirmation" =>
       q.op = "confirmOrder" /\ r = ConfirmationRow(q.order) /\ new.status # Absent
  /\ r[1] = "journal" =>
       /\ \/ q.op = "confirmOrder" /\ r = JournalRow("revenue", q.order)
          \/ q.op = "cancelOrder" /\ r = JournalRow("reversal", q.order)
       /\ new.status # Absent
  /\ r[1] \in {"orderKey", "books"} => new.status # Absent

\* Journals and the index of confirmations are written under the order's lock.
Lock(q, r) == IF r[1] \in {"journal", "confirmation"} THEN OrderRow(q.order) ELSE r

\* Call q may write value in row r.
Writes(q, r, old, value) ==
  /\ r \in Rows
  /\ r \in StockRows => /\ StockStep(r, old, value)
                        /\ old.status = Absent => StockCall(q, r)
  /\ r \in OrderRows => OrderStep(q, r, old, value)

MineOK(c) ==
  LET s == session[c] IN
  \A r \in DOMAIN s.mine : Writes(s.call, r, db[r], s.mine[r]) /\ Lock(s.call, r) \in s.locks

\* Rows that are inserted with a unique key.
Inserted == {"run", "orderKey", "reservation", "correction"}

\* A row is held by one client.  A unique key that is held is there, or it is
\* the holder who inserted it.
LocksOK ==
  /\ \A c, d \in Clients : c # d => session[c].locks \cap session[d].locks = {}
  /\ \A c \in Clients : \A r \in session[c].locks :
       r[1] \in Inserted => r \in Rows /\ (Present(r) \/ r \in DOMAIN session[c].mine)

-----------------------------------------------------------------------------
(* What a session has still to do, and where it is.                        *)

CallOps == InventoryOps \cup Workflows \cup {"salesConfirm", "salesCancel", "close"}
Calls == {q \in Requests : q.op \in CallOps}

LineJobs == [op : {"reserve"}, key : Keys, entity : BOOLEAN, warehouse : Warehouses, item : Items,
             quantity : Quantities]
EndJobs == [op : {"release", "fulfill"}, key : Keys]
ItemJobs == [op : {"item"}, item : Items]
InsertJobs == {[q EXCEPT !.op = "insert"] : q \in {x \in Calls : x.op = "draft"}}
MoveJobs == [op : {"ship", "arrive"}, warehouse : Warehouses, item : Items, quantity : Quantities]
BooksJobs == [op : {"revenue", "reversal"}, at : {"books"}, row : {BooksRow}]
LastJobs == [op : {"succeed"}, at : {"succeed"}, row : {NoRow}]
AgainJobs == [op : {"cancelOrder", "fulfillOrder"}, again : {TRUE}]

Parts == LineJobs \cup EndJobs \cup ItemJobs \cup InsertJobs \cup MoveJobs \cup BooksJobs
         \cup LastJobs
StockCalls == {q \in Requests : q.op \in InventoryOps \cup {"close"}}
Jobs == Calls \cup Parts \cup AgainJobs

\* Client c is about to end reservation k, of which it holds the row.
Ending(c, k) ==
  LET r == ReservationRow(k) IN
  /\ r \in session[c].locks \cap Rows /\ r \notin DOMAIN session[c].mine
  /\ db[r].status = "active" /\ session[c].row = BalanceRow(db[r].warehouse, db[r].item)

\* The statements for job a of Inventory or of the books, each with its row.
JobAt(c, a) ==
  LET at == session[c].at
      row == session[c].row
  IN
  /\ a.op = "receive" => \/ at = "warehouse" /\ row = WarehouseRow(a.warehouse)
                         \/ at = "balance" /\ row = BalanceRow(a.warehouse, a.item)
  /\ a.op = "adjust" => \/ at \in {"find", "record"} /\ row = CorrectionRow(a.key)
                        \/ at = "item" /\ row = ItemRow(a.item)
                        \/ at \in {"update", "upsert"} /\ row = BalanceRow(a.warehouse, a.item)
                           /\ (at = "upsert" => a.quantity >= 0)
  /\ a.op = "reserve" => \/ at = "warehouse" /\ row = WarehouseRow(a.warehouse)
                         \/ at \in {"find", "record"} /\ row = ReservationRow(a.key)
                         \/ at = "update" /\ row = BalanceRow(a.warehouse, a.item)
  /\ a.op \in {"release", "fulfill"} => \/ at = "reservation" /\ row = ReservationRow(a.key)
                                        \/ at = "balance" /\ Ending(c, a.key)
  /\ a.op = "draft" => /\ at \in {"warehouse", "second"}
                       /\ row \in {WarehouseRow(a.from), WarehouseRow(a.to)}
  /\ a.op = "item" => at = "item" /\ row = ItemRow(a.item)
  /\ a.op = "insert" => at = "insert" /\ row = TransferRow(a.transfer)
  /\ a.op \in {"confirm", "complete"} => at = "transfer" /\ row = TransferRow(a.transfer)
  /\ a.op \in {"ship", "arrive"} => at = "balance" /\ row = BalanceRow(a.warehouse, a.item)
  /\ a.op \in {"revenue", "reversal", "close"} => at = "books" /\ row = BooksRow
  /\ a.op = "succeed" => at = "succeed" /\ row = NoRow

\* It is at its first job, or done.
AtJob(c) == LET s == session[c] IN
            IF s.todo = <<>> THEN s.at = "done" /\ s.row = NoRow
            ELSE Head(s.todo) \in Parts \cup StockCalls /\ JobAt(c, Head(s.todo))

\* What is left of a plan.
Rest(todo, plan) ==
  /\ todo \in Seq(Jobs) /\ Len(todo) <= Len(plan)
  /\ \A i \in 1..Len(todo) : todo[i] = plan[Len(plan) - Len(todo) + i]

ConfirmPlan(q) == ReserveLines(q) \o Books("revenue") \o Complete
EndLines(q, k, op) == [n \in DOMAIN OrderLines[q.order] |-> [op |-> op, key |-> <<k, n>>]]
CancelPlan(q, k) == EndLines(q, k, "release") \o Books("reversal") \o Complete
FulfilPlan(q, k) == EndLines(q, k, "fulfill") \o Complete

\* What client c's transaction sees of a status.
Status(c, r) == Sees(c, r).status

Ended(c, k, outcome) ==
  ReservationRow(k) \in session[c].locks \cap Rows /\ Status(c, ReservationRow(k)) = outcome

-----------------------------------------------------------------------------
(* Where the calls are.                                                    *)

Wrote(c, rows) == DOMAIN session[c].mine = rows

\* The run has its row; its success is the last that it writes.
RunOK(c) ==
  LET s == session[c] IN
  /\ OwnRun(c) \in DOMAIN s.mine
  /\ s.mine[OwnRun(c)].status = IF s.todo = <<>> THEN "succeeded" ELSE "running"

\* The order is confirmed with the call's key, and some of the plan is done.
ConfirmsLines(c) ==
  LET s == session[c]
      q == s.call
      r == OrderRow(q.order)
  IN
  /\ RunOK(c) /\ AtJob(c) /\ Rest(s.todo, ConfirmPlan(q))
  /\ r \in s.locks /\ Status(c, r) = "confirmed" /\ Sees(c, r).key = q.key
  /\ Len(s.todo) <= 1 => Status(c, JournalRow("revenue", q.order)) # Absent
  /\ s.todo = <<>> => ConfirmationRow(q.order) \in DOMAIN s.mine

ConfirmingAt(c) ==
  LET s == session[c]
      q == s.call
      r == OrderRow(q.order)
  IN
  \/ s.at = "lookup" /\ s.row = NoRow /\ s.todo = <<q>> /\ Wrote(c, {})
  \/ s.at = "record" /\ s.row = OwnRun(c) /\ s.todo = <<q>> /\ Wrote(c, {})
  \/ s.at = "order" /\ s.row = r /\ s.todo = <<q>> /\ Wrote(c, {OwnRun(c)}) /\ RunOK(c)
  \/ /\ s.at = "record" /\ s.row = KeyRow(q.key) /\ s.todo = <<q>> /\ Wrote(c, {OwnRun(c)})
     /\ RunOK(c) /\ r \in s.locks /\ db[r].status = "draft"
  \/ ConfirmsLines(c)

\* Who ends an order holds its confirmation, and is the first to end it so.
Holds(c) == LET q == session[c].call IN
            ConfirmationRow(q.order) \in session[c].locks /\ Confirmations(q.order) # {}
FirstToEnd(c) == LET q == session[c].call IN Succeeded(q.op, q.order) = {}

AsksAgain(q) == [op |-> q.op, again |-> TRUE]

\* The lines that confirmation k reserved are being ended.
Outcome(q) == IF q.op = "cancelOrder" THEN "released" ELSE "fulfilled"
EndPlan(q, k) == IF q.op = "cancelOrder" THEN CancelPlan(q, k) ELSE FulfilPlan(q, k)

EndsLines(c, k) ==
  LET s == session[c]
      q == s.call
      r == OrderRow(q.order)
  IN
  /\ Holds(c) /\ FirstToEnd(c) /\ RunOK(c) /\ AtJob(c)
  /\ k \in Confirmations(q.order) /\ Rest(s.todo, EndPlan(q, k))
  /\ \A n \in DOMAIN OrderLines[q.order] :
       n <= Len(EndPlan(q, k)) - Len(s.todo) => Ended(c, <<k, n>>, Outcome(q))
  /\ q.op = "cancelOrder" =>
       /\ r \in s.locks /\ Status(c, r) = "cancelled"
       /\ Len(s.todo) <= 1 => Status(c, JournalRow("reversal", q.order)) # Absent

EndingAt(c) ==
  LET s == session[c]
      q == s.call
      r == OrderRow(q.order)
      cancels == q.op = "cancelOrder"
  IN
  \/ /\ s.todo \in {<<q>>, <<AsksAgain(q)>>}
     /\ \/ s.at = "find" /\ s.row = ConfirmationRow(q.order) /\ Wrote(c, {})
        \/ Holds(c) /\ s.at = "lookup" /\ s.row = NoRow /\ Wrote(c, {})
        \/ Holds(c) /\ FirstToEnd(c) /\ s.at = "record" /\ s.row = OwnRun(c) /\ Wrote(c, {})
        \/ /\ Holds(c) /\ FirstToEnd(c) /\ cancels
           /\ s.at = "order" /\ s.row = r /\ Wrote(c, {OwnRun(c)}) /\ RunOK(c)
  \/ \E k \in WorkflowKeys : EndsLines(c, k)

SalesAt(c) ==
  LET s == session[c]
      q == s.call
      r == OrderRow(q.order)
  IN
  \/ s.at = "order" /\ s.row = r /\ s.todo = <<q>> /\ Wrote(c, {})
  \/ /\ q.op = "salesConfirm" /\ s.at = "record" /\ s.row = KeyRow(q.key) /\ s.todo = <<q>>
     /\ Wrote(c, {}) /\ r \in s.locks /\ db[r].status = "draft"
  \/ AtJob(c) /\ s.todo = <<>>

\* The jobs that a draft, and the confirmation or completion of a transfer, do
\* after the first statements.
DraftLeft(todo, q) ==
  \A i \in 1..Len(todo) : IF i = Len(todo) THEN todo[i] = [q EXCEPT !.op = "insert"]
                                           ELSE todo[i] \in ItemJobs
MovesLeft(todo, op) ==
  \A i \in 1..Len(todo) : todo[i] \in MoveJobs /\ todo[i].op = op

\* What call q has come to, once it is done, in rows that client c sees.
Effect(c, q) ==
  CASE q.op = "reserve" -> /\ ReservationRow(q.key) \in session[c].locks
                           /\ Status(c, ReservationRow(q.key)) # Absent
                           /\ SameFact(Sees(c, ReservationRow(q.key)), q)
    [] q.op = "adjust" -> /\ Status(c, CorrectionRow(q.key)) # Absent
                          /\ SameFact(Sees(c, CorrectionRow(q.key)), q)
    [] q.op \in {"release", "fulfill"} -> /\ ReservationRow(q.key) \in session[c].locks
                                          /\ Status(c, ReservationRow(q.key)) = Ends[q.op]
    [] q.op = "draft" -> Status(c, TransferRow(q.transfer)) # Absent
    [] q.op = "confirm" -> Status(c, TransferRow(q.transfer)) \in {"confirmed", "completed"}
    [] q.op = "complete" -> Status(c, TransferRow(q.transfer)) = "completed"
    [] OTHER -> TRUE

NewTransfer(c) ==
  LET q == session[c].call
      r == TransferRow(q.transfer)
  IN  /\ db[r].status = Absent /\ r \notin DOMAIN session[c].mine
      /\ \A d \in Clients : d # c => session[d].call # q

InventoryAt(c) ==
  LET s == session[c]
      q == s.call
  IN
  /\ AtJob(c)
  /\ \/ s.todo = <<q>>
     \/ /\ q.op \in {"receive", "adjust", "reserve", "release", "fulfill"} /\ s.todo = <<>>
        /\ Effect(c, q)
     \/ q.op = "draft" /\ DraftLeft(s.todo, q) /\ (s.todo = <<>> => Effect(c, q))
     \/ q.op = "confirm" /\ MovesLeft(s.todo, "ship") /\ Effect(c, q)
     \/ q.op = "complete" /\ MovesLeft(s.todo, "arrive") /\ Effect(c, q)
  /\ s.todo = <<q>> /\ ~(q.op \in {"adjust", "reserve"} /\ s.at = "record") => Wrote(c, {})
  /\ q.op = "draft" /\ s.todo # <<>> => NewTransfer(c)

CloseAt(c) == AtJob(c) /\ session[c].todo \in {<<session[c].call>>, <<>>}

StageOK(c) ==
  session[c] # Idle =>
    LET s == session[c] IN
    /\ s.call \in Calls /\ s.todo \in Seq(Jobs)
    /\ s.call.op = "confirmOrder" => ConfirmingAt(c)
    /\ s.call.op \in {"cancelOrder", "fulfillOrder"} => EndingAt(c)
    /\ s.call.op \in {"salesConfirm", "salesCancel"} => SalesAt(c)
    /\ s.call.op = "close" => CloseAt(c)
    /\ s.call.op \in InventoryOps => InventoryAt(c)

-----------------------------------------------------------------------------
(* The tables.                                                             *)

RunIs(t, k) ==
  LET run == db[RunRow(t, k)] IN
  /\ run.status \in {Absent, "succeeded"}
  /\ run.status = "succeeded" => \E q \in Calls : q.op = t /\ q.key = k /\ run.input = Input(q)

\* A succeeded run has left what it was for.
RunsTell ==
  \A o \in Orders, k \in WorkflowKeys :
    /\ k \in Succeeded("confirmOrder", o) =>
         /\ Order(o) # "draft" /\ db[OrderRow(o)].key = k
         /\ Present(ConfirmationRow(o)) /\ Revenue(o)
    /\ k \in Succeeded("cancelOrder", o) => Order(o) = "cancelled" /\ Reversal(o)

\* An order ends once, and all its lines with it.
EndsTell ==
  \A o \in Orders :
    /\ \A type \in {"cancelOrder", "fulfillOrder"} :
         \A j, k \in Succeeded(type, o) : j = k
    /\ \A type \in {"cancelOrder", "fulfillOrder"} : Succeeded(type, o) # {} =>
         \E k \in Confirmations(o) : \A n \in DOMAIN OrderLines[o] :
           db[ReservationRow(<<k, n>>)].status =
             IF type = "cancelOrder" THEN "released" ELSE "fulfilled"

JournalsTell ==
  \A o \in Orders : /\ Revenue(o) => Succeeded("confirmOrder", o) # {}
                    /\ Reversal(o) => Succeeded("cancelOrder", o) # {}

Tables ==
  /\ DOMAIN db = Rows
  /\ StockIs(db)
  /\ \A t \in Workflows, k \in WorkflowKeys : RunIs(t, k)
  /\ \A o \in Orders : /\ Order(o) \in {"draft", "confirmed", "cancelled"}
                       /\ "status" \in DOMAIN db[OrderRow(o)]
                       /\ Order(o) # "draft" => "key" \in DOMAIN db[OrderRow(o)]
  /\ RunsTell /\ EndsTell /\ JournalsTell

\* The tables agree, calls are where their rows and locks tell, and what callers
\* were told is so.
WorkflowInv ==
  /\ Tables
  /\ SessionShape /\ DOMAIN answers = Requests /\ calls \in 0..MaxCalls
  /\ LocksOK
  /\ \A c \in Clients : MineOK(c) /\ StageOK(c)
  /\ AnswersAreTrue /\ AnswersAreOwn

-----------------------------------------------------------------------------
(* Rows. *)

LEMMA StockKinds ==
  /\ \A w, i : BalanceRow(w, i)[1] = "balance"
  /\ \A k : ReservationRow(k)[1] = "reservation" /\ CorrectionRow(k)[1] = "correction"
            /\ TransferRow(k)[1] = "transfer"
  /\ \A w : WarehouseRow(w)[1] = "warehouse" /\ ItemRow(w)[1] = "item"
BY DEF BalanceRow, ReservationRow, CorrectionRow, TransferRow, WarehouseRow, ItemRow

LEMMA OrderKinds ==
  /\ \A t, k : RunRow(t, k)[1] = "run" /\ RunRow(t, k)[2] = t /\ RunRow(t, k)[3] = k
  /\ \A o : OrderRow(o)[1] = "order" /\ ConfirmationRow(o)[1] = "confirmation"
            /\ KeyRow(o)[1] = "orderKey"
  /\ \A kind, o : JournalRow(kind, o)[1] = "journal"
  /\ BooksRow[1] = "books"
BY DEF RunRow, OrderRow, ConfirmationRow, KeyRow, JournalRow, BooksRow

LEMMA SameRow ==
  /\ \A j, k : ReservationRow(j) = ReservationRow(k) => j = k
  /\ \A j, k : CorrectionRow(j) = CorrectionRow(k) => j = k
  /\ \A j, k : TransferRow(j) = TransferRow(k) => j = k
  /\ \A s, t, j, k : RunRow(s, j) = RunRow(t, k) => s = t /\ j = k
  /\ \A o, p : OrderRow(o) = OrderRow(p) => o = p
  /\ \A o, p : ConfirmationRow(o) = ConfirmationRow(p) => o = p
  /\ \A s, t, o, p : JournalRow(s, o) = JournalRow(t, p) => s = t /\ o = p
BY DEF ReservationRow, CorrectionRow, TransferRow, RunRow, OrderRow, ConfirmationRow, JournalRow

LEMMA StockRowsAre ==
  /\ \A w \in Warehouses, i \in Items : BalanceRow(w, i) \in StockRows
  /\ \A k \in Keys : ReservationRow(k) \in StockRows
  /\ \A k \in Corrections : CorrectionRow(k) \in StockRows
  /\ \A t \in Transfers : TransferRow(t) \in StockRows
<1>1. \A w \in Warehouses, i \in Items : BalanceRow(w, i) \in StockRows
  <2> SUFFICES ASSUME NEW w \in Warehouses, NEW i \in Items
               PROVE  BalanceRow(w, i) \in StockRows
    OBVIOUS
  <2>1. <<w, i>> \in Balances /\ <<w, i>>[1] = w /\ <<w, i>>[2] = i
    BY DEF Balances
  <2>2. BalanceRow(<<w, i>>[1], <<w, i>>[2]) \in {BalanceRow(b[1], b[2]) : b \in Balances}
    BY <2>1
  <2> QED
    BY <2>1, <2>2 DEF StockRows
<1> QED
  BY <1>1 DEF StockRows

LEMMA OrderRowsAre ==
  /\ \A t \in Workflows, k \in WorkflowKeys : RunRow(t, k) \in OrderRows
  /\ \A o \in Orders : /\ OrderRow(o) \in OrderRows /\ ConfirmationRow(o) \in OrderRows
                       /\ JournalRow("revenue", o) \in OrderRows
                       /\ JournalRow("reversal", o) \in OrderRows
  /\ \A k \in WorkflowKeys : KeyRow(k) \in OrderRows
  /\ BooksRow \in OrderRows
BY DEF OrderRows, RunRows

\* The rows of a kind.
LEMMA StockRowKinds ==
  ASSUME NEW r \in StockRows
  PROVE  /\ r[1] \in {"balance", "reservation", "correction", "transfer"}
         /\ r[1] = "balance" => \E w \in Warehouses, i \in Items : r = BalanceRow(w, i)
         /\ r[1] = "reservation" => \E k \in Keys : r = ReservationRow(k)
         /\ r[1] = "correction" => \E k \in Corrections : r = CorrectionRow(k)
         /\ r[1] = "transfer" => \E t \in Transfers : r = TransferRow(t)
<1>1. \/ \E b \in Balances : r = BalanceRow(b[1], b[2])
      \/ \E k \in Keys : r = ReservationRow(k)
      \/ \E k \in Corrections : r = CorrectionRow(k)
      \/ \E t \in Transfers : r = TransferRow(t)
  BY DEF StockRows
<1>2. CASE \E b \in Balances : r = BalanceRow(b[1], b[2])
  <2> PICK b \in Balances : r = BalanceRow(b[1], b[2])
    BY <1>2
  <2>1. b[1] \in Warehouses /\ b[2] \in Items
    BY DEF Balances
  <2> QED
    BY <2>1, StockKinds
<1>3. CASE \E k \in Keys : r = ReservationRow(k)
  BY <1>3, StockKinds
<1>4. CASE \E k \in Corrections : r = CorrectionRow(k)
  BY <1>4, StockKinds
<1>5. CASE \E t \in Transfers : r = TransferRow(t)
  BY <1>5, StockKinds
<1> QED
  BY <1>1, <1>2, <1>3, <1>4, <1>5

LEMMA OrderRowKinds ==
  ASSUME NEW r \in OrderRows
  PROVE  /\ r[1] \in {"run", "books", "order", "confirmation", "journal", "orderKey"}
         /\ r[1] = "run" => \E t \in Workflows, k \in WorkflowKeys : r = RunRow(t, k)
         /\ r[1] = "order" => \E o \in Orders : r = OrderRow(o)
         /\ r[1] = "books" => r = BooksRow
         /\ r[1] = "confirmation" => \E o \in Orders : r = ConfirmationRow(o)
         /\ r[1] = "journal" => \E o \in Orders : r \in {JournalRow("revenue", o), JournalRow("reversal", o)}
<1>1. \/ \E t \in Workflows, k \in WorkflowKeys : r = RunRow(t, k)
      \/ r = BooksRow
      \/ \E o \in Orders : r = OrderRow(o)
      \/ \E o \in Orders : r = ConfirmationRow(o)
      \/ \E o \in Orders : r \in {JournalRow("revenue", o), JournalRow("reversal", o)}
      \/ \E k \in WorkflowKeys : r = KeyRow(k)
  BY DEF OrderRows, RunRows
<1>2. CASE \E t \in Workflows, k \in WorkflowKeys : r = RunRow(t, k)
  <2>1. r[1] = "run"
    BY <1>2 DEF RunRow
  <2> QED
    BY <1>2, <2>1
<1>3. CASE r = BooksRow
  BY <1>3, OrderKinds
<1>4. CASE \E o \in Orders : r = OrderRow(o)
  BY <1>4, OrderKinds
<1>5. CASE \E o \in Orders : r = ConfirmationRow(o)
  BY <1>5, OrderKinds
<1>6. CASE \E o \in Orders : r \in {JournalRow("revenue", o), JournalRow("reversal", o)}
  <2>1. r[1] = "journal"
    BY <1>6 DEF JournalRow
  <2> QED
    BY <1>6, <2>1
<1>7. CASE \E k \in WorkflowKeys : r = KeyRow(k)
  <2> PICK k \in WorkflowKeys : r = KeyRow(k)
    BY <1>7
  <2>1. r[1] = "orderKey"
    BY OrderKinds
  <2> QED
    BY <2>1
<1> QED
  BY <1>1, <1>2, <1>3, <1>4, <1>5, <1>6, <1>7

LEMMA RowsApart ==
  /\ \A r \in StockRows : r \notin OrderRows
  /\ NoRow \notin Rows
<1>1. \A r \in StockRows : r \notin OrderRows
  BY StockRowKinds, OrderRowKinds
<1> QED
  BY <1>1, InventoryAssumption, OrderAssumption DEF Rows

-----------------------------------------------------------------------------
(* Jobs and plans. *)

\* What jobs of Inventory and of the books consist of.
JobIs(a) ==
  /\ a.op \in {"receive", "adjust", "reserve", "ship", "arrive"} =>
       a.warehouse \in Warehouses /\ a.item \in Items
  /\ a.op \in {"receive", "reserve", "ship", "arrive"} => a.quantity \in Quantities
  /\ a.op = "adjust" => a.key \in Corrections /\ a.quantity \in Int
  /\ a.op = "reserve" => a.key \in Keys /\ a.entity \in BOOLEAN
  /\ a.op \in {"release", "fulfill"} => a.key \in Keys
  /\ a.op \in {"draft", "insert"} => /\ a.from \in Warehouses /\ a.to \in Warehouses
                                     /\ a.lines \in Seq(StockLine)
  /\ a.op \in {"draft", "insert", "confirm", "complete"} => a.transfer \in Transfers
  /\ a.op = "item" => a.item \in Items
  /\ a.op \in {"revenue", "reversal"} => a.at = "books" /\ a.row = BooksRow
  /\ a.op = "succeed" => a.at = "succeed" /\ a.row = NoRow

PartOps == {"reserve", "release", "fulfill", "item", "insert", "ship", "arrive", "revenue",
            "reversal", "succeed"}

LEMMA InsertJob ==
  ASSUME NEW q \in Calls, q.op = "draft"
  PROVE  LET a == [q EXCEPT !.op = "insert"] IN
         /\ a.op = "insert" /\ a.transfer = q.transfer /\ a.from = q.from /\ a.to = q.to
         /\ a.lines = q.lines /\ a \in Parts
<1>1. {"op", "transfer", "from", "to", "lines"} \subseteq DOMAIN q
  BY InventoryAssumption DEF Calls, InventoryCall
<1>2. [q EXCEPT !.op = "insert"] \in Parts
  BY DEF Parts, InsertJobs
<1> QED
  BY <1>1, <1>2

LEMMA PartsAre ==
  ASSUME NEW a \in Parts
  PROVE  a.op \in PartOps /\ JobIs(a)
<1>1. CASE a \in LineJobs
  BY <1>1 DEF LineJobs, JobIs, PartOps
<1>2. CASE a \in EndJobs
  BY <1>2 DEF EndJobs, JobIs, PartOps
<1>3. CASE a \in ItemJobs
  BY <1>3 DEF ItemJobs, JobIs, PartOps
<1>4. CASE a \in InsertJobs
  <2> PICK q \in Calls : q.op = "draft" /\ a = [q EXCEPT !.op = "insert"]
    BY <1>4 DEF InsertJobs
  <2>1. /\ a.op = "insert" /\ a.transfer = q.transfer /\ a.from = q.from /\ a.to = q.to
        /\ a.lines = q.lines
    BY InsertJob
  <2>2. q.transfer \in Transfers /\ q.from \in Warehouses /\ q.to \in Warehouses
        /\ q.lines \in Seq(StockLine)
    BY InventoryAssumption DEF Calls, InventoryCall
  <2> QED
    BY <2>1, <2>2 DEF JobIs, PartOps
<1>5. CASE a \in MoveJobs
  BY <1>5 DEF MoveJobs, JobIs, PartOps
<1>6. CASE a \in BooksJobs
  BY <1>6 DEF BooksJobs, JobIs, PartOps
<1>7. CASE a \in LastJobs
  BY <1>7 DEF LastJobs, JobIs, PartOps
<1> QED
  BY <1>1, <1>2, <1>3, <1>4, <1>5, <1>6, <1>7 DEF Parts

LEMMA JobsAre ==
  ASSUME NEW a \in Parts \cup StockCalls
  PROVE  a.op \in PartOps \cup InventoryOps \cup {"close"} /\ JobIs(a) /\ a \in Jobs
<1>1. CASE a \in Parts
  BY <1>1, PartsAre DEF Jobs
<1>2. CASE a \in StockCalls
  <2>1. a \in Requests /\ a.op \in InventoryOps \cup {"close"}
    BY <1>2 DEF StockCalls
  <2>2. InventoryCall(a)
    BY <2>1, InventoryAssumption
  <2>3. a \in Jobs
    BY <2>1 DEF Jobs, Calls, CallOps
  <2> QED
    BY <2>1, <2>2, <2>3 DEF JobIs, InventoryCall, InventoryOps
<1> QED
  BY <1>1, <1>2

\* The first statement of a part of a plan.
LEMMA FirstOfPart ==
  ASSUME NEW a \in Parts
  PROVE  /\ a.op = "reserve" /\ a.entity => First(a) = <<"warehouse", WarehouseRow(a.warehouse)>>
         /\ a.op = "reserve" /\ ~a.entity => First(a) = <<"find", ReservationRow(a.key)>>
         /\ a.op \in {"release", "fulfill"} => First(a) = <<"reservation", ReservationRow(a.key)>>
         /\ a.op = "item" => First(a) = <<"item", ItemRow(a.item)>>
         /\ a.op = "insert" => First(a) = <<"insert", TransferRow(a.transfer)>>
         /\ a.op \in {"ship", "arrive"} => First(a) = <<"balance", BalanceRow(a.warehouse, a.item)>>
         /\ a.op \in {"revenue", "reversal"} => First(a) = <<"books", BooksRow>>
         /\ a.op = "succeed" => First(a) = <<"succeed", NoRow>>
<1>1. a.op \in PartOps /\ JobIs(a)
  BY PartsAre
<1> QED
  BY <1>1 DEF First, JobIs

LEMMA LinesAre ==
  ASSUME NEW o \in Orders
  PROVE  /\ OrderLines[o] \in Seq(StockLine) /\ Len(OrderLines[o]) \in Nat \ {0}
         /\ DOMAIN OrderLines[o] = 1..Len(OrderLines[o])
         /\ \A k \in WorkflowKeys, n \in DOMAIN OrderLines[o] : <<k, n>> \in Keys
<1>1. OrderLines[o] \in Seq(StockLine) /\ OrderLines[o] # <<>>
  BY OrderAssumption
<1>2. \A k \in WorkflowKeys, n \in DOMAIN OrderLines[o] : <<k, n>> \in Keys
  BY OrderAssumption
<1> QED
  BY <1>1, <1>2

LEMMA WithTwo ==
  ASSUME NEW S, NEW lines \in Seq(S), NEW x \in S, NEW y \in S
  PROVE  LET p == lines \o <<x>> \o <<y>> IN
         /\ p \in Seq(S) /\ Len(p) = Len(lines) + 2
         /\ \A i \in 1..Len(lines) : p[i] = lines[i]
         /\ p[Len(lines) + 1] = x /\ p[Len(lines) + 2] = y
OBVIOUS

LEMMA WithOne ==
  ASSUME NEW S, NEW lines \in Seq(S), NEW y \in S
  PROVE  LET p == lines \o <<y>> IN
         /\ p \in Seq(S) /\ Len(p) = Len(lines) + 1
         /\ \A i \in 1..Len(lines) : p[i] = lines[i]
         /\ p[Len(lines) + 1] = y
OBVIOUS

Revenues == [op |-> "revenue", at |-> "books", row |-> BooksRow]
Reversals == [op |-> "reversal", at |-> "books", row |-> BooksRow]
Succeeds == [op |-> "succeed", at |-> "succeed", row |-> NoRow]

LEMMA LastParts == Revenues \in Parts /\ Reversals \in Parts /\ Succeeds \in Parts
BY DEF Revenues, Reversals, Succeeds, Parts, BooksJobs, LastJobs

LEMMA ReservingLines ==
  ASSUME NEW q \in Calls, q.op = "confirmOrder"
  PROVE  /\ q.order \in Orders /\ q.key \in WorkflowKeys
         /\ ReserveLines(q) \in Seq(Parts) /\ Len(ReserveLines(q)) = Len(OrderLines[q.order])
         /\ \A n \in 1..Len(OrderLines[q.order]) : ReserveLines(q)[n].op = "reserve"
<1>1. q.order \in Orders /\ q.key \in WorkflowKeys /\ q.warehouse \in Warehouses
  BY OrderAssumption DEF Calls, OrderCall, Workflows
<1> DEFINE lines == OrderLines[q.order]
           part(n) == [op |-> "reserve", key |-> <<q.key, n>>, entity |-> TRUE,
                       warehouse |-> q.warehouse, item |-> lines[n].item,
                       quantity |-> lines[n].quantity]
<1>2. lines \in Seq(StockLine) /\ Len(lines) \in Nat \ {0} /\ DOMAIN lines = 1..Len(lines)
      /\ \A n \in 1..Len(lines) : <<q.key, n>> \in Keys
  BY <1>1, LinesAre
<1>3. \A n \in 1..Len(lines) : part(n) \in Parts
  <2> TAKE n \in 1..Len(lines)
  <2>1. lines[n] \in StockLine
    BY <1>2
  <2>2. lines[n].item \in Items /\ lines[n].quantity \in Quantities
    BY <2>1 DEF StockLine
  <2>3. part(n) \in LineJobs
    BY <1>1, <1>2, <2>2 DEF LineJobs
  <2> QED
    BY <2>3 DEF Parts
<1>4. ReserveLines(q) = [n \in 1..Len(lines) |-> part(n)]
  BY <1>2 DEF ReserveLines
<1>5. \A n \in 1..Len(lines) : part(n).op = "reserve"
  OBVIOUS
<1> HIDE DEF part, lines
<1>6. ReserveLines(q) \in Seq(Parts) /\ Len(ReserveLines(q)) = Len(lines)
  BY <1>2, <1>3, <1>4
<1>7. \A n \in 1..Len(lines) : ReserveLines(q)[n].op = "reserve"
  BY <1>4, <1>5
<1> QED
  BY <1>1, <1>6, <1>7 DEF lines

LEMMA EndingLines ==
  ASSUME NEW q, q.order \in Orders, NEW k \in WorkflowKeys, NEW op \in {"release", "fulfill"}
  PROVE  /\ EndLines(q, k, op) \in Seq(Parts)
         /\ Len(EndLines(q, k, op)) = Len(OrderLines[q.order])
         /\ \A n \in 1..Len(OrderLines[q.order]) :
              EndLines(q, k, op)[n] = [op |-> op, key |-> <<k, n>>]
<1> DEFINE lines == OrderLines[q.order]
           part(n) == [op |-> op, key |-> <<k, n>>]
<1>1. Len(lines) \in Nat \ {0} /\ DOMAIN lines = 1..Len(lines)
      /\ \A n \in 1..Len(lines) : <<k, n>> \in Keys
  BY LinesAre
<1>2. \A n \in 1..Len(lines) : part(n) \in Parts
  BY <1>1 DEF Parts, EndJobs
<1>3. EndLines(q, k, op) = [n \in 1..Len(lines) |-> part(n)]
  BY <1>1 DEF EndLines
<1> HIDE DEF part, lines
<1>4. EndLines(q, k, op) \in Seq(Parts) /\ Len(EndLines(q, k, op)) = Len(lines)
  BY <1>1, <1>2, <1>3
<1>5. \A n \in 1..Len(lines) : EndLines(q, k, op)[n] = part(n)
  BY <1>3
<1> QED
  BY <1>4, <1>5 DEF lines, part

LEMMA ConfirmPlanIs ==
  ASSUME NEW q \in Calls, q.op = "confirmOrder"
  PROVE  LET lines == Len(OrderLines[q.order])
             p == ConfirmPlan(q) IN
         /\ lines \in Nat \ {0} /\ p \in Seq(Parts) /\ Len(p) = lines + 2
         /\ \A i \in 1..lines : p[i].op = "reserve"
         /\ p[lines + 1] = Revenues /\ p[lines + 2] = Succeeds
<1>1. ConfirmPlan(q) = ReserveLines(q) \o <<Revenues>> \o <<Succeeds>>
  BY DEF ConfirmPlan, Books, Complete, Revenues, Succeeds
<1> DEFINE a == ReserveLines(q)
<1>2. /\ q.order \in Orders /\ a \in Seq(Parts) /\ Len(a) = Len(OrderLines[q.order])
      /\ \A n \in 1..Len(OrderLines[q.order]) : a[n].op = "reserve"
  BY ReservingLines
<1>3. Len(OrderLines[q.order]) \in Nat \ {0}
  BY <1>2, LinesAre
<1> HIDE DEF a
<1> DEFINE p == a \o <<Revenues>> \o <<Succeeds>>
<1>4. /\ p \in Seq(Parts) /\ Len(p) = Len(a) + 2
      /\ \A i \in 1..Len(a) : p[i] = a[i]
      /\ p[Len(a) + 1] = Revenues /\ p[Len(a) + 2] = Succeeds
  <2>1. a \in Seq(Parts) /\ Revenues \in Parts /\ Succeeds \in Parts
    BY <1>2, LastParts
  <2> QED
    BY <2>1, WithTwo
<1>5. p = ConfirmPlan(q)
  BY <1>1 DEF a
<1> HIDE DEF p
<1> QED
  BY <1>2, <1>3, <1>4, <1>5

LEMMA CancelPlanIs ==
  ASSUME NEW q, q.order \in Orders, NEW k \in WorkflowKeys
  PROVE  LET lines == Len(OrderLines[q.order])
             p == CancelPlan(q, k) IN
         /\ lines \in Nat \ {0} /\ p \in Seq(Parts) /\ Len(p) = lines + 2
         /\ \A i \in 1..lines : p[i] = [op |-> "release", key |-> <<k, i>>]
         /\ p[lines + 1] = Reversals /\ p[lines + 2] = Succeeds
<1>1. CancelPlan(q, k) = EndLines(q, k, "release") \o <<Reversals>> \o <<Succeeds>>
  BY DEF CancelPlan, Books, Complete, Reversals, Succeeds
<1> DEFINE a == EndLines(q, k, "release")
<1>2. /\ a \in Seq(Parts) /\ Len(a) = Len(OrderLines[q.order])
      /\ \A n \in 1..Len(OrderLines[q.order]) : a[n] = [op |-> "release", key |-> <<k, n>>]
  BY EndingLines
<1>3. Len(OrderLines[q.order]) \in Nat \ {0}
  BY LinesAre
<1> HIDE DEF a
<1> DEFINE p == a \o <<Reversals>> \o <<Succeeds>>
<1>4. /\ p \in Seq(Parts) /\ Len(p) = Len(a) + 2
      /\ \A i \in 1..Len(a) : p[i] = a[i]
      /\ p[Len(a) + 1] = Reversals /\ p[Len(a) + 2] = Succeeds
  BY <1>2, LastParts, WithTwo
<1>5. p = CancelPlan(q, k)
  BY <1>1 DEF a
<1> HIDE DEF p
<1> QED
  BY <1>2, <1>3, <1>4, <1>5

LEMMA FulfilPlanIs ==
  ASSUME NEW q, q.order \in Orders, NEW k \in WorkflowKeys
  PROVE  LET lines == Len(OrderLines[q.order])
             p == FulfilPlan(q, k) IN
         /\ lines \in Nat \ {0} /\ p \in Seq(Parts) /\ Len(p) = lines + 1
         /\ \A i \in 1..lines : p[i] = [op |-> "fulfill", key |-> <<k, i>>]
         /\ p[lines + 1] = Succeeds
<1>1. FulfilPlan(q, k) = EndLines(q, k, "fulfill") \o <<Succeeds>>
  BY DEF FulfilPlan, Complete, Succeeds
<1> DEFINE a == EndLines(q, k, "fulfill")
<1>2. /\ a \in Seq(Parts) /\ Len(a) = Len(OrderLines[q.order])
      /\ \A n \in 1..Len(OrderLines[q.order]) : a[n] = [op |-> "fulfill", key |-> <<k, n>>]
  BY EndingLines
<1>3. Len(OrderLines[q.order]) \in Nat \ {0}
  BY LinesAre
<1> HIDE DEF a
<1> DEFINE p == a \o <<Succeeds>>
<1>4. /\ p \in Seq(Parts) /\ Len(p) = Len(a) + 1
      /\ \A i \in 1..Len(a) : p[i] = a[i]
      /\ p[Len(a) + 1] = Succeeds
  BY <1>2, LastParts, WithOne
<1>5. p = FulfilPlan(q, k)
  BY <1>1 DEF a
<1> HIDE DEF p
<1> QED
  BY <1>2, <1>3, <1>4, <1>5

LEMMA PartsAreJobs == Parts \subseteq Jobs
BY DEF Jobs

\* What is left after the first job that is left.
LEMMA RestTail ==
  ASSUME NEW plan \in Seq(Jobs), NEW todo, Rest(todo, plan), todo # <<>>
  PROVE  /\ Rest(Tail(todo), plan) /\ Len(Tail(todo)) = Len(todo) - 1
         /\ Len(todo) \in 1..Len(plan) /\ Len(plan) \in Nat
         /\ Head(todo) = plan[Len(plan) - Len(todo) + 1]
<1>1. todo \in Seq(Jobs) /\ Len(todo) <= Len(plan) /\ Len(plan) \in Nat /\ Len(todo) \in 1..Len(plan)
  BY DEF Rest
<1>2. Tail(todo) \in Seq(Jobs) /\ Len(Tail(todo)) = Len(todo) - 1
      /\ \A i \in 1..(Len(todo) - 1) : Tail(todo)[i] = todo[i + 1]
  BY <1>1
<1>3. \A i \in 1..(Len(todo) - 1) : todo[i + 1] = plan[Len(plan) - Len(todo) + (i + 1)]
  BY <1>1 DEF Rest
<1>4. \A i \in 1..Len(Tail(todo)) : Tail(todo)[i] = plan[Len(plan) - Len(Tail(todo)) + i]
  <2> TAKE i \in 1..Len(Tail(todo))
  <2>1. i \in 1..(Len(todo) - 1)
    BY <1>2
  <2>2. Len(plan) - Len(Tail(todo)) + i = Len(plan) - Len(todo) + (i + 1)
    BY <1>1, <1>2
  <2> QED
    BY <1>2, <1>3, <2>1, <2>2
<1>5. Head(todo) = plan[Len(plan) - Len(todo) + 1]
  BY <1>1 DEF Rest
<1> QED
  BY <1>1, <1>2, <1>4, <1>5 DEF Rest

LEMMA RestAll ==
  ASSUME NEW plan \in Seq(Jobs)
  PROVE  Rest(plan, plan)
BY DEF Rest

-----------------------------------------------------------------------------
(* What stays when others commit. *)

\* Rows that are there are never taken away; runs, corrections and what has ended
\* stay as they are, orders and transfers go on.
Grew ==
  \A r \in Rows :
    /\ db[r].status # Absent => db'[r].status # Absent
    /\ r[1] \in {"run", "correction"} /\ db[r].status # Absent => db'[r] = db[r]
    /\ r[1] = "reservation" /\ db[r].status # Absent =>
         \/ db'[r] = db[r]
         \/ db[r].status = "active" /\ \E s \in Outcomes : db'[r] = [db[r] EXCEPT !.status = s]
    /\ r[1] = "order" =>
         \/ db'[r] = db[r]
         \/ db[r].status = "draft" /\ db'[r].status = "confirmed"
         \/ db[r].status = "confirmed" /\ db'[r] = [db[r] EXCEPT !.status = "cancelled"]
    /\ r[1] = "transfer" =>
         /\ db[r].status = "confirmed" => db'[r].status \in {"confirmed", "completed"}
         /\ db[r].status = "completed" => db'[r].status = "completed"

LEMMA NothingGrew ==
  ASSUME UNCHANGED db
  PROVE  Grew
BY DEF Grew

\* Client d's part of the state is as it was.
Undisturbed(d) ==
  /\ session'[d] = session[d]
  /\ \A r \in session[d].locks \cap Rows :
       r[1] \notin {"journal", "confirmation"} => db'[r] = db[r]
  /\ session[d].call.op \in {"cancelOrder", "fulfillOrder"} /\ Holds(d) /\ FirstToEnd(d) =>
       FirstToEnd(d)'
  /\ session[d].call.op = "draft" /\ session[d].todo # <<>> /\ NewTransfer(d) => NewTransfer(d)'

LEMMA ConfirmationsGrow ==
  ASSUME Grew, NEW o
  PROVE  /\ Confirmations(o) \subseteq Confirmations(o)'
         /\ Confirmations(o) = Succeeded("confirmOrder", o)
         /\ \A type \in Workflows : Succeeded(type, o) \subseteq Succeeded(type, o)'
<1>1. \A type \in Workflows : Succeeded(type, o) \subseteq Succeeded(type, o)'
  <2> SUFFICES ASSUME NEW type \in Workflows, NEW k \in Succeeded(type, o)
               PROVE  k \in Succeeded(type, o)'
    OBVIOUS
  <2>1. k \in WorkflowKeys /\ db[RunRow(type, k)].status = "succeeded"
        /\ db[RunRow(type, k)].input.order = o
    BY DEF Succeeded
  <2>2. RunRow(type, k) \in Rows /\ RunRow(type, k)[1] = "run"
    BY <2>1, OrderRowsAre, OrderKinds DEF Rows
  <2>3. db'[RunRow(type, k)] = db[RunRow(type, k)]
    BY <2>1, <2>2 DEF Grew, Absent
  <2> QED
    BY <2>1, <2>3 DEF Succeeded
<1>2. Confirmations(o) = Succeeded("confirmOrder", o)
  BY DEF Confirmations, Succeeded
<1>3. Confirmations(o)' = Succeeded("confirmOrder", o)'
  BY DEF Confirmations, Succeeded
<1> QED
  BY <1>1, <1>2, <1>3 DEF Workflows

LEMMA SeesStays ==
  ASSUME NEW d \in Clients, Undisturbed(d), NEW r,
         \/ r \in session[d].locks \cap Rows /\ r[1] \notin {"journal", "confirmation"}
         \/ r \in DOMAIN session[d].mine
  PROVE  Sees(d, r)' = Sees(d, r) /\ Status(d, r)' = Status(d, r)
BY DEF Sees, Status, Undisturbed

LEMMA PresenceStays ==
  ASSUME NEW d \in Clients, Undisturbed(d), Grew, NEW r \in Rows, Status(d, r) # Absent
  PROVE  Status(d, r)' # Absent
BY DEF Sees, Status, Undisturbed, Grew

LEMMA AtJobStays ==
  ASSUME NEW d \in Clients, Undisturbed(d), AtJob(d)
  PROVE  AtJob(d)'
<1>1. ASSUME NEW k, Ending(d, k)
      PROVE  Ending(d, k)'
  BY <1>1, StockKinds DEF Ending, Undisturbed
<1>2. ASSUME NEW a, JobAt(d, a)
      PROVE  JobAt(d, a)'
  BY <1>1, <1>2 DEF JobAt, Undisturbed
<1> QED
  BY <1>2 DEF AtJob, Undisturbed

LEMMA RunStays ==
  ASSUME NEW d \in Clients, Undisturbed(d)
  PROVE  /\ OwnRun(d)' = OwnRun(d) /\ (RunOK(d) => RunOK(d)')
         /\ \A rows : Wrote(d, rows) => Wrote(d, rows)'
BY DEF OwnRun, Asked, RunOK, Wrote, Undisturbed

LEMMA ConfirmsLinesStays ==
  ASSUME NEW d \in Clients, Undisturbed(d), Grew, NEW q \in Calls, session[d].call = q,
         q.op = "confirmOrder", ConfirmsLines(d)
  PROVE  ConfirmsLines(d)'
<1> DEFINE r == OrderRow(q.order)
           j == JournalRow("revenue", q.order)
<1>1. session'[d] = session[d]
  BY DEF Undisturbed
<1>2. q.order \in Orders
  BY OrderAssumption DEF Calls, OrderCall, Workflows
<1>3. /\ RunOK(d) /\ AtJob(d) /\ Rest(session[d].todo, ConfirmPlan(q))
      /\ r \in session[d].locks /\ Status(d, r) = "confirmed" /\ Sees(d, r).key = q.key
      /\ Len(session[d].todo) <= 1 => Status(d, j) # Absent
      /\ session[d].todo = <<>> => ConfirmationRow(q.order) \in DOMAIN session[d].mine
  BY DEF ConfirmsLines
<1>4. Status(d, r)' = "confirmed" /\ Sees(d, r)'.key = q.key
  <2>1. r[1] = "order" /\ r \in Rows
    BY <1>2, OrderKinds, OrderRowsAre DEF Rows
  <2> QED
    BY <1>3, <2>1, SeesStays
<1>5. j \in Rows
  BY <1>2, OrderRowsAre DEF Rows
<1>6. Len(session[d].todo) <= 1 => Status(d, j)' # Absent
  BY <1>3, <1>5, PresenceStays
<1>7. RunOK(d)' /\ AtJob(d)'
  BY <1>3, AtJobStays, RunStays
<1> QED
  BY <1>1, <1>3, <1>4, <1>6, <1>7 DEF ConfirmsLines

LEMMA ConfirmingStays ==
  ASSUME NEW d \in Clients, Undisturbed(d), Grew, NEW q \in Calls, session[d].call = q,
         q.op = "confirmOrder", ConfirmingAt(d)
  PROVE  ConfirmingAt(d)'
<1> DEFINE r == OrderRow(q.order)
<1>1. session'[d] = session[d]
  BY DEF Undisturbed
<1>2. r \in session[d].locks => db'[r] = db[r]
  <2>1. q.order \in Orders
    BY OrderAssumption DEF Calls, OrderCall, Workflows
  <2> QED
    BY <2>1, OrderKinds, OrderRowsAre DEF Undisturbed, Rows
<1>3. ConfirmsLines(d) => ConfirmsLines(d)'
  BY ConfirmsLinesStays
<1> QED
  BY <1>1, <1>2, <1>3, RunStays DEF ConfirmingAt

LEMMA EndedStays ==
  ASSUME NEW d \in Clients, Undisturbed(d), NEW k, NEW outcome, Ended(d, k, outcome)
  PROVE  Ended(d, k, outcome)'
<1>1. ReservationRow(k) \in session[d].locks \cap Rows /\ Status(d, ReservationRow(k)) = outcome
  BY DEF Ended
<1>2. Status(d, ReservationRow(k))' = outcome
  BY <1>1, SeesStays, StockKinds
<1> QED
  BY <1>1, <1>2 DEF Ended, Undisturbed

LEMMA HoldsStays ==
  ASSUME NEW d \in Clients, Undisturbed(d), Grew,
         session[d].call.op \in {"cancelOrder", "fulfillOrder"}
  PROVE  (Holds(d) => Holds(d)') /\ (Holds(d) /\ FirstToEnd(d) => FirstToEnd(d)')
<1>1. Holds(d) => Holds(d)'
  <2> SUFFICES ASSUME NEW o, session[d].call.order = o, Holds(d)
               PROVE  Holds(d)'
    OBVIOUS
  <2>1. Confirmations(o) \subseteq Confirmations(o)'
    BY ConfirmationsGrow
  <2>2. session'[d] = session[d]
    BY DEF Undisturbed
  <2> QED
    BY <2>1, <2>2 DEF Holds
<1> QED
  BY <1>1 DEF Undisturbed

LEMMA EndsLinesStays ==
  ASSUME NEW d \in Clients, Undisturbed(d), Grew, NEW q \in Calls, session[d].call = q,
         q.op \in {"cancelOrder", "fulfillOrder"}, NEW k, EndsLines(d, k)
  PROVE  EndsLines(d, k)'
<1> DEFINE r == OrderRow(q.order)
           j == JournalRow("reversal", q.order)
           end(n) == Ended(d, <<k, n>>, Outcome(q))
<1>1. session'[d] = session[d]
  BY DEF Undisturbed
<1>2. q.order \in Orders
  BY OrderAssumption DEF Calls, OrderCall, Workflows
<1>3. /\ Holds(d) /\ FirstToEnd(d) /\ RunOK(d) /\ AtJob(d)
      /\ k \in Confirmations(q.order) /\ Rest(session[d].todo, EndPlan(q, k))
      /\ \A n \in DOMAIN OrderLines[q.order] :
           n <= Len(EndPlan(q, k)) - Len(session[d].todo) => end(n)
      /\ q.op = "cancelOrder" =>
           /\ r \in session[d].locks /\ Status(d, r) = "cancelled"
           /\ Len(session[d].todo) <= 1 => Status(d, j) # Absent
  BY DEF EndsLines
<1>4. Holds(d)' /\ FirstToEnd(d)' /\ RunOK(d)' /\ AtJob(d)'
  BY <1>3, HoldsStays, AtJobStays, RunStays
<1>5. k \in Confirmations(q.order)'
  BY <1>3, ConfirmationsGrow
<1>6. \A n : end(n) => end(n)'
  BY EndedStays
<1>7. q.op = "cancelOrder" => Status(d, r)' = "cancelled"
  <2>1. r[1] = "order" /\ r \in Rows
    BY <1>2, OrderKinds, OrderRowsAre DEF Rows
  <2> QED
    BY <1>3, <2>1, SeesStays
<1>8. j \in Rows
  BY <1>2, OrderRowsAre DEF Rows
<1>9. q.op = "cancelOrder" /\ Len(session[d].todo) <= 1 => Status(d, j)' # Absent
  BY <1>3, <1>8, PresenceStays
<1> HIDE DEF end
<1>10. \A n \in DOMAIN OrderLines[q.order] :
         n <= Len(EndPlan(q, k)) - Len(session[d].todo) => end(n)'
  BY <1>3, <1>6
<1> QED
  BY <1>1, <1>3, <1>4, <1>5, <1>7, <1>9, <1>10 DEF EndsLines, end

LEMMA EndingStays ==
  ASSUME NEW d \in Clients, Undisturbed(d), Grew, NEW q \in Calls, session[d].call = q,
         q.op \in {"cancelOrder", "fulfillOrder"}, EndingAt(d)
  PROVE  EndingAt(d)'
<1>1. session'[d] = session[d]
  BY DEF Undisturbed
<1>2. (Holds(d) => Holds(d)') /\ (Holds(d) /\ FirstToEnd(d) => FirstToEnd(d)')
  BY HoldsStays
<1>3. \A k \in WorkflowKeys : EndsLines(d, k) => EndsLines(d, k)'
  BY EndsLinesStays
<1> QED
  BY <1>1, <1>2, <1>3, RunStays DEF EndingAt

LEMMA SalesStays ==
  ASSUME NEW d \in Clients, Undisturbed(d), NEW q \in Calls, session[d].call = q,
         q.op \in {"salesConfirm", "salesCancel"}, SalesAt(d)
  PROVE  SalesAt(d)'
<1> DEFINE r == OrderRow(q.order)
<1>1. session'[d] = session[d]
  BY DEF Undisturbed
<1>2. r \in session[d].locks => db'[r] = db[r]
  <2>1. q.order \in Orders
    BY OrderAssumption DEF Calls, OrderCall
  <2> QED
    BY <2>1, OrderKinds, OrderRowsAre DEF Undisturbed, Rows
<1>3. AtJob(d) => AtJob(d)'
  BY AtJobStays
<1> QED
  BY <1>1, <1>2, <1>3, RunStays DEF SalesAt

\* What a call has come to is there to stay.
LEMMA EffectStays ==
  ASSUME NEW d \in Clients, Undisturbed(d), Grew, NEW q \in Requests, q.op \in InventoryOps,
         Effect(d, q)
  PROVE  Effect(d, q)'
<1>1. InventoryCall(q)
  BY InventoryAssumption
<1>2. CASE q.op = "receive"
  BY <1>2 DEF Effect
<1>3. CASE q.op = "adjust"
  <2> DEFINE r == CorrectionRow(q.key)
  <2>1. r \in Rows /\ r[1] = "correction"
    BY <1>1, <1>3, StockRowsAre, StockKinds DEF InventoryCall, Rows
  <2>2. Status(d, r) # Absent /\ SameFact(Sees(d, r), q)
    BY <1>3 DEF Effect
  <2>3. Sees(d, r)' = Sees(d, r)
    BY <2>1, <2>2 DEF Sees, Status, Undisturbed, Grew
  <2>4. Status(d, r)' = Status(d, r) /\ SameFact(Sees(d, r)', q)
    BY <2>2, <2>3 DEF Status
  <2>5. SameFact(Sees(d, r), q)'
    BY <2>4 DEF SameFact
  <2> QED
    BY <1>3, <2>2, <2>4, <2>5 DEF Effect
<1>4. CASE q.op = "reserve"
  <2> DEFINE r == ReservationRow(q.key)
  <2>1. r \in session[d].locks /\ Status(d, r) # Absent /\ SameFact(Sees(d, r), q)
    BY <1>4 DEF Effect
  <2>2. r \in Rows
    BY <1>1, <1>4, StockRowsAre DEF InventoryCall, Rows
  <2>3. Sees(d, r)' = Sees(d, r) /\ Status(d, r)' = Status(d, r) /\ r \in session'[d].locks
    BY <2>1, <2>2, SeesStays, StockKinds DEF Undisturbed
  <2>4. SameFact(Sees(d, r), q)'
    BY <2>1, <2>3 DEF SameFact
  <2> QED
    BY <1>4, <2>1, <2>3, <2>4 DEF Effect
<1>5. CASE q.op \in {"release", "fulfill"}
  <2> DEFINE r == ReservationRow(q.key)
  <2>1. r \in session[d].locks /\ Status(d, r) = Ends[q.op]
    BY <1>5 DEF Effect
  <2>2. r \in Rows
    BY <1>1, <1>5, StockRowsAre DEF InventoryCall, Rows
  <2>3. Status(d, r)' = Status(d, r)
    BY <2>1, <2>2, SeesStays, StockKinds
  <2>4. r \in session'[d].locks
    BY <2>1 DEF Undisturbed
  <2> QED
    BY <1>5, <2>1, <2>3, <2>4 DEF Effect
<1>6. CASE q.op \in {"draft", "confirm", "complete"}
  <2> DEFINE r == TransferRow(q.transfer)
  <2>1. r \in Rows /\ r[1] = "transfer"
    BY <1>1, <1>6, StockRowsAre, StockKinds DEF InventoryCall, Rows
  <2>2. /\ Status(d, r) # Absent => Status(d, r)' # Absent
        /\ Status(d, r) \in {"confirmed", "completed"} => Status(d, r)' \in {"confirmed", "completed"}
        /\ Status(d, r) = "completed" => Status(d, r)' = "completed"
    BY <2>1 DEF Sees, Status, Undisturbed, Grew
  <2> QED
    BY <1>6, <2>2 DEF Effect
<1> QED
  BY <1>2, <1>3, <1>4, <1>5, <1>6 DEF InventoryOps

LEMMA InventoryStays ==
  ASSUME NEW d \in Clients, Undisturbed(d), Grew, NEW q \in Calls, session[d].call = q,
         q.op \in InventoryOps, InventoryAt(d)
  PROVE  InventoryAt(d)'
<1>1. session'[d] = session[d]
  BY DEF Undisturbed
<1>2. AtJob(d)'
  BY AtJobStays DEF InventoryAt
<1>3. Effect(d, q) => Effect(d, q)'
  BY EffectStays DEF Calls
<1>4. q.op = "draft" /\ session[d].todo # <<>> => NewTransfer(d)'
  BY DEF InventoryAt, Undisturbed
<1> QED
  BY <1>1, <1>2, <1>3, <1>4, RunStays DEF InventoryAt

LEMMA CloseStays ==
  ASSUME NEW d \in Clients, Undisturbed(d), CloseAt(d)
  PROVE  CloseAt(d)'
<1>1. AtJob(d)'
  BY AtJobStays DEF CloseAt
<1> QED
  BY <1>1 DEF CloseAt, Undisturbed

LEMMA StageStays ==
  ASSUME NEW d \in Clients, Undisturbed(d), Grew, StageOK(d)
  PROVE  StageOK(d)'
<1>1. session'[d] = session[d]
  BY DEF Undisturbed
<1>2. CASE session[d] = Idle
  BY <1>1, <1>2 DEF StageOK
<1>3. CASE session[d] # Idle
  <2> SUFFICES ASSUME NEW q, q = session[d].call
               PROVE  StageOK(d)'
    OBVIOUS
  <2>1. /\ q \in Calls /\ session[d].todo \in Seq(Jobs)
        /\ q.op = "confirmOrder" => ConfirmingAt(d)
        /\ q.op \in {"cancelOrder", "fulfillOrder"} => EndingAt(d)
        /\ q.op \in {"salesConfirm", "salesCancel"} => SalesAt(d)
        /\ q.op = "close" => CloseAt(d)
        /\ q.op \in InventoryOps => InventoryAt(d)
    BY <1>3 DEF StageOK
  <2>2. /\ q.op = "confirmOrder" => ConfirmingAt(d)'
        /\ q.op \in {"cancelOrder", "fulfillOrder"} => EndingAt(d)'
        /\ q.op \in {"salesConfirm", "salesCancel"} => SalesAt(d)'
        /\ q.op = "close" => CloseAt(d)'
        /\ q.op \in InventoryOps => InventoryAt(d)'
    <3>1. q.op = "confirmOrder" => ConfirmingAt(d)'
      BY <2>1, ConfirmingStays
    <3>2. q.op \in {"cancelOrder", "fulfillOrder"} => EndingAt(d)'
      BY <2>1, EndingStays
    <3>3. q.op \in {"salesConfirm", "salesCancel"} => SalesAt(d)'
      BY <2>1, SalesStays
    <3>4. q.op = "close" => CloseAt(d)'
      BY <2>1, CloseStays
    <3>5. q.op \in InventoryOps => InventoryAt(d)'
      BY <2>1, InventoryStays
    <3> QED
      BY <3>1, <3>2, <3>3, <3>4, <3>5
  <2> QED
    BY <1>1, <2>1, <2>2 DEF StageOK
<1> QED
  BY <1>2, <1>3

LEMMA MineStays ==
  ASSUME NEW d \in Clients, Undisturbed(d), MineOK(d)
  PROVE  MineOK(d)'
<1> SUFFICES ASSUME NEW q, q = session[d].call, NEW r \in DOMAIN session[d].mine,
                    session'[d] = session[d]
             PROVE  Writes(q, r, db'[r], session[d].mine[r]) /\ Lock(q, r) \in session[d].locks
  BY DEF MineOK, Undisturbed
<1> DEFINE value == session[d].mine[r]
<1>1. /\ r \in Rows /\ Lock(q, r) \in session[d].locks
      /\ r \in StockRows => StockStep(r, db[r], value) /\ (db[r].status = Absent => StockCall(q, r))
      /\ r \in OrderRows => OrderStep(q, r, db[r], value)
  <2>1. Writes(q, r, db[r], value) /\ Lock(q, r) \in session[d].locks
    BY DEF MineOK
  <2> HIDE DEF value
  <2> QED
    BY <2>1 DEF Writes
<1>2. r[1] \notin {"journal", "confirmation"} => db'[r] = db[r]
  BY <1>1 DEF Lock, Undisturbed
<1>3. r \in StockRows => db'[r] = db[r]
  BY <1>2, StockRowKinds
<1>4. r[1] \in {"journal", "confirmation"} =>
        (OrderStep(q, r, db[r], value) <=> OrderStep(q, r, db'[r], value))
  BY DEF OrderStep
<1> HIDE DEF value
<1>5. /\ r \in StockRows => StockStep(r, db'[r], value) /\ (db'[r].status = Absent => StockCall(q, r))
      /\ r \in OrderRows => OrderStep(q, r, db'[r], value)
  BY <1>1, <1>2, <1>3, <1>4
<1> QED
  BY <1>1, <1>5 DEF Writes, value

-----------------------------------------------------------------------------
(* What every step keeps. *)

\* "ok" is a true answer to call q.
Told(q) ==
  /\ q.op \in Workflows =>
       db[RunRow(q.op, q.key)].status = "succeeded" /\ db[RunRow(q.op, q.key)].input = Input(q)
  /\ q.op = "reserve" => Present(ReservationRow(q.key)) /\ SameFact(db[ReservationRow(q.key)], q)
  /\ q.op = "adjust" => Present(CorrectionRow(q.key)) /\ SameFact(db[CorrectionRow(q.key)], q)
  /\ q.op \in {"release", "fulfill"} => db[ReservationRow(q.key)].status = Ends[q.op]
  /\ q.op = "draft" => Present(TransferRow(q.transfer))
  /\ q.op = "confirm" => db[TransferRow(q.transfer)].status \in {"confirmed", "completed"}
  /\ q.op = "complete" => db[TransferRow(q.transfer)].status = "completed"

LEMMA AnswersTell ==
  (AnswersAreTrue /\ AnswersAreOwn) <=> \A p \in Requests : "ok" \in answers[p] => Told(p)
<1>1. ASSUME AnswersAreTrue, AnswersAreOwn, NEW q \in Requests, "ok" \in answers[q]
      PROVE  Told(q)
  <2>1. q.op \in Workflows =>
          db[RunRow(q.op, q.key)].status = "succeeded" /\ db[RunRow(q.op, q.key)].input = Input(q)
    BY <1>1 DEF AnswersAreOwn
  <2> QED
    BY <1>1, <2>1 DEF AnswersAreTrue, Told
<1>2. ASSUME \A q \in Requests : "ok" \in answers[q] => Told(q)
      PROVE  AnswersAreTrue /\ AnswersAreOwn
  <2>1. AnswersAreOwn
    BY <1>2 DEF AnswersAreOwn, Told
  <2>2. AnswersAreTrue
    BY <1>2 DEF AnswersAreTrue, Told
  <2> QED
    BY <2>1, <2>2
<1> QED
  BY <1>1, <1>2

LEMMA AnswersTellThen ==
  ((AnswersAreTrue /\ AnswersAreOwn) <=> \A p \in Requests : "ok" \in answers[p] => Told(p))'
BY AnswersTell, PTL

LEMMA ToldStays ==
  ASSUME Grew, NEW q \in Requests, Told(q)
  PROVE  Told(q)'
<1>1. InventoryCall(q) /\ OrderCall(q)
  BY InventoryAssumption, OrderAssumption
<1>2. CASE q.op \in Workflows
  <2>1. RunRow(q.op, q.key) \in Rows /\ RunRow(q.op, q.key)[1] = "run"
    BY <1>1, <1>2, OrderRowsAre, OrderKinds DEF OrderCall, Rows
  <2>2. db[RunRow(q.op, q.key)].status = "succeeded"
    BY <1>2 DEF Told
  <2>3. db'[RunRow(q.op, q.key)] = db[RunRow(q.op, q.key)]
    BY <2>1, <2>2 DEF Grew, Absent
  <2> QED
    BY <1>2, <2>3 DEF Told, Workflows
<1>3. CASE q.op \in {"reserve", "release", "fulfill"}
  <2> DEFINE r == ReservationRow(q.key)
  <2>1. r \in Rows /\ r[1] = "reservation"
    BY <1>1, <1>3, StockRowsAre, StockKinds DEF InventoryCall, Rows
  <2>2. CASE db'[r] = db[r]
    BY <1>3, <2>2 DEF Told, Present, SameFact, Workflows
  <2>3. CASE db[r].status = "active" /\ \E s \in Outcomes : db'[r] = [db[r] EXCEPT !.status = s]
    <3>1. q.op = "reserve"
      BY <1>3, <2>3 DEF Told, Ends
    <3>2. Present(r) /\ SameFact(db[r], q)
      BY <3>1 DEF Told
    <3>3. SameFact(db'[r], q)
      BY <2>3, <3>2 DEF SameFact
    <3>4. db'[r].status # Absent
      BY <2>1, <3>2 DEF Grew, Present
    <3> QED
      BY <3>1, <3>3, <3>4 DEF Told, Present, SameFact, Workflows
  <2>4. db[r].status # Absent
    BY <1>3 DEF Told, Present, Ends, Absent
  <2> QED
    BY <2>1, <2>2, <2>3, <2>4 DEF Grew
<1>4. CASE q.op = "adjust"
  <2> DEFINE r == CorrectionRow(q.key)
  <2>1. r \in Rows /\ r[1] = "correction"
    BY <1>1, <1>4, StockRowsAre, StockKinds DEF InventoryCall, Rows
  <2>2. Present(r) /\ SameFact(db[r], q)
    BY <1>4 DEF Told
  <2>3. db'[r] = db[r]
    BY <2>1, <2>2 DEF Grew, Present
  <2> QED
    BY <1>4, <2>2, <2>3 DEF Told, Present, SameFact, Workflows
<1>5. CASE q.op \in {"draft", "confirm", "complete"}
  <2> DEFINE r == TransferRow(q.transfer)
  <2>1. r \in Rows /\ r[1] = "transfer"
    BY <1>1, <1>5, StockRowsAre, StockKinds DEF InventoryCall, Rows
  <2>2. /\ db[r].status # Absent => db'[r].status # Absent
        /\ db[r].status \in {"confirmed", "completed"} => db'[r].status \in {"confirmed", "completed"}
        /\ db[r].status = "completed" => db'[r].status = "completed"
    BY <2>1 DEF Grew
  <2> QED
    BY <1>5, <2>2 DEF Told, Present, Workflows
<1> QED
  BY <1>2, <1>3, <1>4, <1>5 DEF Told

LEMMA TablesStay ==
  ASSUME UNCHANGED db
  PROVE  /\ Tables => Tables'
         /\ \A r : Present(r)' <=> Present(r)
<1>1. \A r : Present(r)' <=> Present(r)
  BY DEF Present
<1>2. StockIs(db') <=> StockIs(db)
  BY DEF StockIs
<1>3. \A t, k : RunIs(t, k)' <=> RunIs(t, k)
  BY DEF RunIs
<1>4. \A o : /\ Order(o)' = Order(o) /\ db'[OrderRow(o)] = db[OrderRow(o)] /\ Confirmations(o)' = Confirmations(o)
             /\ (Revenue(o)' <=> Revenue(o)) /\ (Reversal(o)' <=> Reversal(o))
  BY DEF Order, Confirmations, Revenue, Reversal, Present
<1>5. \A t, o : Succeeded(t, o)' = Succeeded(t, o)
  BY DEF Succeeded
<1>6. RunsTell => RunsTell'
  BY <1>1, <1>4, <1>5 DEF RunsTell
<1>7. EndsTell => EndsTell'
  BY <1>4, <1>5 DEF EndsTell
<1>8. JournalsTell => JournalsTell'
  BY <1>4, <1>5 DEF JournalsTell
<1> QED
  BY <1>1, <1>2, <1>3, <1>4, <1>6, <1>7, <1>8 DEF Tables

\* A step of client c that commits nothing does not disturb another client.
LEMMA OthersUndisturbed ==
  ASSUME WorkflowInv, NEW c \in Clients, NEW d \in Clients, d # c, Alone(c), UNCHANGED db,
         NEW n, n = session'[c].call,
         n = session[c].call \/ n = NoCall \/ NewDraft(n)
  PROVE  Undisturbed(d)
<1>1. session'[d] = session[d]
  BY DEF Alone
<1>2. FirstToEnd(d) => FirstToEnd(d)'
  BY <1>1 DEF FirstToEnd, Succeeded
<1>3. ASSUME session[d].call.op = "draft", session[d].todo # <<>>, NewTransfer(d)
      PROVE  NewTransfer(d)'
  <2> SUFFICES ASSUME NEW q, session[d].call = q
               PROVE  NewTransfer(d)'
    OBVIOUS
  <2>1. q \in Requests
    <3>1. session[d] # Idle
      BY <1>3, IdleFields
    <3>2. StageOK(d)
      BY DEF WorkflowInv
    <3> QED
      BY <3>1, <3>2 DEF StageOK, Calls
  <2>2. n # q
    BY <1>3, <2>1, InventoryAssumption DEF NewDraft, NewTransfer
  <2>3. \A e \in Clients : e # d => session'[e].call # q
    BY <1>3, <2>2 DEF Alone, NewTransfer
  <2> QED
    BY <1>1, <1>3, <2>3 DEF NewTransfer
<1> QED
  BY <1>1, <1>2, <1>3 DEF Undisturbed

\* What client c's step leaves to be shown: it commits nothing, and disturbs nobody.
LEMMA OthersKeep ==
  ASSUME WorkflowInv, NEW c \in Clients, Alone(c), Grew,
         \A d \in Clients : d # c => Undisturbed(d)
  PROVE  \A d \in Clients : d # c => StageOK(d)' /\ MineOK(d)'
<1> TAKE d \in Clients
<1>1. StageOK(d) /\ MineOK(d)
  BY DEF WorkflowInv
<1> QED
  BY <1>1, StageStays, MineStays

LEMMA LockIsFree ==
  ASSUME WorkflowInv, NEW c \in Clients, NEW label, Ready(c, label),
         label = "record" => session[c].row[1] \in Inserted /\ ~Present(session[c].row)
  PROVE  \A d \in Clients : d # c => Locked(c) \cap session[d].locks = {}
<1> SUFFICES ASSUME NEW d \in Clients, d # c, NEW r \in Locked(c), r \in session[d].locks
             PROVE  FALSE
  OBVIOUS
<1>1. session[c].at = label /\ ~(Locked(c) \cap Held(c, d) # {})
  BY DEF Ready, Waits
<1>2. label = "record"
  BY <1>1 DEF Held
<1>3. r = session[c].row
  BY <1>1 DEF Locked
<1>4. r \in DOMAIN session[d].mine
  BY <1>2, <1>3 DEF WorkflowInv, LocksOK
<1> QED
  BY <1>1, <1>2, <1>4 DEF Held

\* A statement of client c.
LEMMA StepKeeps ==
  ASSUME WorkflowInv, NEW c \in Clients, NEW w, NEW at, NEW row, NEW todo,
         Proceed(c, w, at, row, todo),
         \A d \in Clients : d # c => Locked(c) \cap session[d].locks = {},
         \A r \in Locked(c) : r[1] \in Inserted =>
           r \in Rows /\ (Present(r) \/ r \in DOMAIN w \cup DOMAIN session[c].mine),
         \A r \in DOMAIN w : /\ Writes(session[c].call, r, db[r], w[r])
                             /\ Lock(session[c].call, r) \in session[c].locks \cup Locked(c),
         StageOK(c)'
  PROVE  WorkflowInv'
<1>1. /\ SessionShape' /\ Alone(c)
      /\ session'[c].call = session[c].call
      /\ session'[c].locks = session[c].locks \cup Locked(c)
      /\ session'[c].mine = Over(w, session[c].mine)
      /\ UNCHANGED <<db, answers, calls>>
  BY Proceeds DEF WorkflowInv
<1>2. Grew
  BY <1>1, NothingGrew
<1>3. \A d \in Clients : d # c => Undisturbed(d)
  BY <1>1, OthersUndisturbed
<1>4. \A d \in Clients : d # c => StageOK(d)' /\ MineOK(d)'
  BY <1>1, <1>2, <1>3, OthersKeep
<1>5. Tables' /\ \A r : Present(r)' <=> Present(r)
  BY <1>1, TablesStay DEF WorkflowInv
<1>6. DOMAIN session'[c].mine = DOMAIN w \cup DOMAIN session[c].mine
      /\ \A r \in DOMAIN session'[c].mine :
           session'[c].mine[r] = IF r \in DOMAIN w THEN w[r] ELSE session[c].mine[r]
  BY <1>1 DEF Over
<1>7. MineOK(c)'
  <2> SUFFICES ASSUME NEW q, q = session[c].call, NEW r \in DOMAIN session'[c].mine
               PROVE  Writes(q, r, db[r], session'[c].mine[r]) /\ Lock(q, r) \in session'[c].locks
    BY <1>1 DEF MineOK
  <2>1. CASE r \in DOMAIN w
    BY <1>1, <1>6, <2>1
  <2>2. CASE r \notin DOMAIN w
    <3>1. MineOK(c)
      BY DEF WorkflowInv
    <3> QED
      BY <1>1, <1>6, <2>2, <3>1 DEF MineOK
  <2> QED
    BY <2>1, <2>2
<1>8. LocksOK'
  <2>1. \A a, b \in Clients : a # b => session'[a].locks \cap session'[b].locks = {}
    <3> SUFFICES ASSUME NEW a \in Clients, NEW b \in Clients, a # b
                 PROVE  session'[a].locks \cap session'[b].locks = {}
      OBVIOUS
    <3>1. session[a].locks \cap session[b].locks = {}
      BY DEF WorkflowInv, LocksOK
    <3> QED
      BY <1>1, <3>1 DEF Alone
  <2>2. \A a \in Clients : \A r \in session'[a].locks :
          r[1] \in Inserted => r \in Rows /\ (Present(r) \/ r \in DOMAIN session'[a].mine)
    <3> SUFFICES ASSUME NEW a \in Clients, NEW r \in session'[a].locks, r[1] \in Inserted
                 PROVE  r \in Rows /\ (Present(r) \/ r \in DOMAIN session'[a].mine)
      OBVIOUS
    <3>1. \A s \in session[a].locks : s[1] \in Inserted =>
            s \in Rows /\ (Present(s) \/ s \in DOMAIN session[a].mine)
      BY DEF WorkflowInv, LocksOK
    <3>2. CASE a = c
      BY <1>1, <1>6, <3>1, <3>2
    <3>3. CASE a # c
      BY <1>1, <3>1, <3>3 DEF Alone
    <3> QED
      BY <3>2, <3>3
  <2> QED
    BY <1>5, <2>1, <2>2 DEF LocksOK
<1>9. AnswersAreTrue' /\ AnswersAreOwn'
  <2>1. \A q \in Requests : "ok" \in answers[q] => Told(q)
    BY AnswersTell DEF WorkflowInv
  <2>2. \A q \in Requests : "ok" \in answers'[q] => Told(q)'
    BY <1>1, <1>2, <2>1, ToldStays
  <2>3. ((AnswersAreTrue /\ AnswersAreOwn) <=> \A p \in Requests : "ok" \in answers[p] => Told(p))'
    BY AnswersTellThen
  <2> QED
    BY <2>2, <2>3
<1> QED
  BY <1>1, <1>4, <1>5, <1>7, <1>8, <1>9 DEF WorkflowInv

\* A step after which client c holds nothing and has written nothing.
LEMMA QuietKeeps ==
  ASSUME WorkflowInv, NEW c \in Clients, SessionShape', Alone(c), UNCHANGED db,
         session'[c].locks = {}, DOMAIN session'[c].mine = {},
         NEW n, n = session'[c].call,
         n = session[c].call \/ n = NoCall \/ NewDraft(n),
         StageOK(c)', calls' \in 0..MaxCalls, DOMAIN answers' = Requests,
         \A q \in Requests : "ok" \in answers'[q] => "ok" \in answers[q] \/ Told(q)
  PROVE  WorkflowInv'
<1>1. Grew
  BY NothingGrew
<1>2. \A d \in Clients : d # c => Undisturbed(d)
  BY OthersUndisturbed
<1>3. \A d \in Clients : d # c => StageOK(d)' /\ MineOK(d)'
  BY <1>1, <1>2, OthersKeep
<1>4. Tables' /\ \A r : Present(r)' <=> Present(r)
  BY TablesStay DEF WorkflowInv
<1>5. MineOK(c)'
  BY DEF MineOK
<1>6. LocksOK'
  <2>1. \A a, b \in Clients : a # b => session'[a].locks \cap session'[b].locks = {}
    <3> SUFFICES ASSUME NEW a \in Clients, NEW b \in Clients, a # b
                 PROVE  session'[a].locks \cap session'[b].locks = {}
      OBVIOUS
    <3>1. session[a].locks \cap session[b].locks = {}
      BY DEF WorkflowInv, LocksOK
    <3> QED
      BY <3>1 DEF Alone
  <2>2. \A a \in Clients : \A r \in session'[a].locks :
          r[1] \in Inserted => r \in Rows /\ (Present(r) \/ r \in DOMAIN session'[a].mine)
    BY DEF WorkflowInv, LocksOK, Alone
  <2> QED
    BY <1>4, <2>1, <2>2 DEF LocksOK
<1>7. AnswersAreTrue' /\ AnswersAreOwn'
  <2>1. \A q \in Requests : "ok" \in answers[q] => Told(q)
    BY AnswersTell DEF WorkflowInv
  <2>2. \A q \in Requests : "ok" \in answers'[q] => Told(q)'
    BY <1>1, <2>1, ToldStays
  <2>3. ((AnswersAreTrue /\ AnswersAreOwn) <=> \A p \in Requests : "ok" \in answers[p] => Told(p))'
    BY AnswersTellThen
  <2> QED
    BY <2>2, <2>3
<1> QED
  BY <1>3, <1>4, <1>5, <1>6, <1>7 DEF WorkflowInv

\* The call of client c fails, or is told what is so.
LEMMA RefuseKeeps ==
  ASSUME WorkflowInv, NEW c \in Clients, NEW outcome, Refuse(c, outcome),
         outcome = "ok" => Told(session[c].call)
  PROVE  WorkflowInv'
<1>1. /\ SessionShape' /\ Alone(c) /\ session'[c] = Idle
      /\ answers' = [answers EXCEPT ![session[c].call] = @ \cup {outcome}]
      /\ UNCHANGED <<db, calls>>
  BY Answers DEF WorkflowInv, Refuse, Answer
<1>2. /\ session'[c].locks = {} /\ DOMAIN session'[c].mine = {} /\ session'[c].call = NoCall
      /\ StageOK(c)'
  BY <1>1, IdleFields DEF StageOK
<1>3. calls' \in 0..MaxCalls /\ DOMAIN answers' = Requests
  BY <1>1 DEF WorkflowInv
<1>4. \A q \in Requests : "ok" \in answers'[q] => "ok" \in answers[q] \/ Told(q)
  BY <1>1 DEF WorkflowInv
<1> QED
  BY <1>1, <1>2, <1>3, <1>4, QuietKeeps

LEMMA BeginKeeps ==
  ASSUME WorkflowInv, NEW c \in Clients, NEW q \in Requests, NEW at, NEW row, NEW todo,
         Begin(c, q, at, row, todo), NewDraft(q), StageOK(c)'
  PROVE  WorkflowInv'
<1>1. /\ SessionShape' /\ Alone(c) /\ session'[c].call = q
      /\ session'[c].locks = {} /\ DOMAIN session'[c].mine = {}
      /\ UNCHANGED <<db, answers>>
  BY Begins DEF WorkflowInv
<1>2. calls' \in 0..MaxCalls
  BY InventoryAssumption DEF WorkflowInv, Begin
<1> QED
  BY <1>1, <1>2, QuietKeeps DEF WorkflowInv

LEMMA AgainKeeps ==
  ASSUME WorkflowInv, NEW c \in Clients, Again(c), StageOK(c)'
  PROVE  WorkflowInv'
<1> DEFINE n == [Idle EXCEPT !.call = Asked(c), !.at = "find",
                             !.row = ConfirmationRow(Asked(c).order),
                             !.todo = <<[op |-> Asked(c).op, again |-> TRUE]>>]
<1>1. session' = [session EXCEPT ![c] = n] /\ UNCHANGED <<db, answers, calls>>
  BY DEF Again
<1>2. DOMAIN n = DOMAIN Idle /\ n.locks = {} /\ DOMAIN n.mine = {} /\ n.call = session[c].call
  BY DEF Idle, Asked
<1> HIDE DEF n
<1>3. session'[c] = n /\ SessionShape' /\ Alone(c)
  BY <1>1, <1>2 DEF WorkflowInv, SessionShape, Alone
<1>4. session'[c].locks = {} /\ DOMAIN session'[c].mine = {} /\ session'[c].call = session[c].call
  BY <1>2, <1>3
<1>5. calls' \in 0..MaxCalls /\ DOMAIN answers' = Requests
  BY <1>1 DEF WorkflowInv
<1> QED
  BY <1>1, <1>3, <1>4, <1>5, QuietKeeps

-----------------------------------------------------------------------------
(* A commit. *)

LEMMA DoneIsAll ==
  ASSUME NEW c \in Clients, AtJob(c), session[c].at = "done"
  PROVE  session[c].todo = <<>>
<1> SUFFICES ASSUME session[c].todo # <<>>
             PROVE  FALSE
  OBVIOUS
<1> DEFINE a == Head(session[c].todo)
<1>1. a \in Parts \cup StockCalls /\ JobAt(c, a)
  BY DEF AtJob
<1>2. a.op \in PartOps \cup InventoryOps \cup {"close"}
  BY <1>1, JobsAre
<1> HIDE DEF a
<1> QED
  BY <1>1, <1>2 DEF JobAt, PartOps, InventoryOps

LEMMA DoneStage ==
  ASSUME WorkflowInv, NEW c \in Clients, session[c].at = "done", NEW q, q = session[c].call
  PROVE  /\ q \in Calls /\ session[c] # Idle /\ session[c].todo = <<>>
         /\ q.op = "confirmOrder" => ConfirmsLines(c)
         /\ q.op \in {"cancelOrder", "fulfillOrder"} => \E k \in WorkflowKeys : EndsLines(c, k)
         /\ q.op \in InventoryOps => Effect(c, q)
<1>1. session[c] # Idle
  BY IdleFields
<1>2. /\ q \in Calls
      /\ q.op = "confirmOrder" => ConfirmingAt(c)
      /\ q.op \in {"cancelOrder", "fulfillOrder"} => EndingAt(c)
      /\ q.op \in {"salesConfirm", "salesCancel"} => SalesAt(c)
      /\ q.op = "close" => CloseAt(c)
      /\ q.op \in InventoryOps => InventoryAt(c)
  BY <1>1 DEF WorkflowInv, StageOK
<1>3. q.op \in CallOps
  BY <1>2 DEF Calls
<1>4. q.op = "confirmOrder" => ConfirmsLines(c)
  BY <1>2 DEF ConfirmingAt
<1>5. q.op \in {"cancelOrder", "fulfillOrder"} => \E k \in WorkflowKeys : EndsLines(c, k)
  BY <1>2 DEF EndingAt
<1>6. AtJob(c)
  <2>1. ConfirmsLines(c) => AtJob(c)
    BY DEF ConfirmsLines
  <2>2. \A k : EndsLines(c, k) => AtJob(c)
    BY DEF EndsLines
  <2>3. q.op \in {"salesConfirm", "salesCancel"} => AtJob(c)
    BY <1>2 DEF SalesAt
  <2>4. (q.op = "close" => AtJob(c)) /\ (q.op \in InventoryOps => AtJob(c))
    BY <1>2 DEF CloseAt, InventoryAt
  <2> QED
    BY <1>3, <1>4, <1>5, <2>1, <2>2, <2>3, <2>4 DEF CallOps, Workflows
<1>7. session[c].todo = <<>>
  BY <1>6, DoneIsAll
<1>8. q.op \in InventoryOps => Effect(c, q)
  <2>1. <<q>> # <<>>
    OBVIOUS
  <2> HIDE <1>6
  <2> QED
    BY <1>2, <1>7, <2>1 DEF InventoryAt
<1> QED
  BY <1>1, <1>2, <1>4, <1>5, <1>7, <1>8

\* What is committed is what client c saw.
LEMMA CommitsRows ==
  ASSUME WorkflowInv, NEW c \in Clients, db' = Over(session[c].mine, db)
  PROVE  /\ DOMAIN db' = Rows
         /\ \A r \in Rows : db'[r] = Sees(c, r)
         /\ \A r \in Rows : r \notin DOMAIN session[c].mine => db'[r] = db[r]
<1>1. DOMAIN session[c].mine \subseteq Rows /\ DOMAIN db = Rows
  BY DEF WorkflowInv, MineOK, Writes, Tables
<1> QED
  BY <1>1 DEF Over, Sees

\* A row that client c wrote, and what it may be.
LEMMA MineIs ==
  ASSUME WorkflowInv, NEW c \in Clients, NEW q, q = session[c].call,
         NEW r \in DOMAIN session[c].mine, NEW value, value = session[c].mine[r]
  PROVE  /\ r \in Rows
         /\ r \in StockRows => StockStep(r, db[r], value) /\ (db[r].status = Absent => StockCall(q, r))
         /\ r \in OrderRows => OrderStep(q, r, db[r], value)
         /\ Lock(q, r) \in session[c].locks
<1>1. MineOK(c)
  BY DEF WorkflowInv
<1>2. Writes(q, r, db[r], value) /\ Lock(q, r) \in session[c].locks
  BY <1>1 DEF MineOK
<1> QED
  BY <1>2 DEF Writes

LEMMA CommitGrows ==
  ASSUME WorkflowInv, NEW c \in Clients, db' = Over(session[c].mine, db)
  PROVE  Grew
<1> SUFFICES ASSUME NEW q, q = session[c].call, NEW r \in Rows, NEW old, old = db[r],
                    NEW new, new = db'[r]
             PROVE  /\ old.status # Absent => new.status # Absent
                    /\ r[1] \in {"run", "correction"} /\ old.status # Absent => new = old
                    /\ r[1] = "reservation" /\ old.status # Absent =>
                         \/ new = old
                         \/ old.status = "active"
                            /\ \E s \in Outcomes : new = [old EXCEPT !.status = s]
                    /\ r[1] = "order" =>
                         \/ new = old
                         \/ old.status = "draft" /\ new.status = "confirmed"
                         \/ old.status = "confirmed" /\ new = [old EXCEPT !.status = "cancelled"]
                    /\ r[1] = "transfer" =>
                         /\ old.status = "confirmed" => new.status \in {"confirmed", "completed"}
                         /\ old.status = "completed" => new.status = "completed"
  BY DEF Grew
<1>1. CASE r \notin DOMAIN session[c].mine
  BY <1>1, CommitsRows
<1>2. CASE r \in DOMAIN session[c].mine /\ r \in StockRows
  <2>1. new = session[c].mine[r]
    BY <1>2, CommitsRows DEF Sees
  <2>2. StockStep(r, old, new)
    BY <1>2, <2>1, MineIs
  <2>3. r[1] \in {"balance", "reservation", "correction", "transfer"}
    BY <1>2, StockRowKinds
  <2>4. CASE r[1] \in {"balance", "correction", "transfer"}
    BY <2>2, <2>4 DEF StockStep, Absent
  <2>5. CASE r[1] = "reservation"
    <3>1. \/ old.status = Absent /\ new.status = "active"
          \/ old.status = "active" /\ \E s \in Outcomes : new = [old EXCEPT !.status = s]
      BY <2>2, <2>5 DEF StockStep
    <3>2. ASSUME old.status = "active", NEW s \in Outcomes, new = [old EXCEPT !.status = s]
          PROVE  new.status # Absent
      <4>1. old \in ReservationType
        BY <1>2, <2>5 DEF WorkflowInv, Tables, StockIs
      <4>2. new.status = s
        BY <3>2, <4>1 DEF ReservationType, Absent
      <4> QED
        BY <4>2 DEF Outcomes, Absent
    <3> QED
      BY <2>5, <3>1, <3>2 DEF Absent
  <2> QED
    BY <2>3, <2>4, <2>5
<1>3. CASE r \in DOMAIN session[c].mine /\ r \in OrderRows
  <2>1. new = session[c].mine[r]
    BY <1>3, CommitsRows DEF Sees
  <2>2. OrderStep(q, r, old, new)
    BY <1>3, <2>1, MineIs
  <2>3. r[1] \in {"run", "books", "order", "confirmation", "journal", "orderKey"}
    BY <1>3, OrderRowKinds
  <2> QED
    BY <2>2, <2>3 DEF OrderStep, Absent
<1> QED
  BY <1>1, <1>2, <1>3 DEF Rows

\* The input of a stored run names the order of its call.
LEMMA InputOrder ==
  ASSUME NEW q \in Calls, q.op \in Workflows
  PROVE  Input(q).order = q.order
<1>1. "order" \in DOMAIN q
  BY OrderAssumption DEF Calls, OrderCall
<1> QED
  BY <1>1 DEF Input

\* Runs that succeed with a commit of client c are of its own call.
LEMMA NewRun ==
  ASSUME WorkflowInv, NEW c \in Clients, db' = Over(session[c].mine, db),
         session[c].at = "done", NEW q, q = session[c].call,
         NEW type \in Workflows, NEW o, NEW k \in Succeeded(type, o)'
  PROVE  k \in Succeeded(type, o) \/ (type = q.op /\ k = q.key /\ o = q.order)
<1> DEFINE r == RunRow(type, k)
<1>1. k \in WorkflowKeys /\ db'[r].status = "succeeded" /\ db'[r].input.order = o
  BY DEF Succeeded
<1>2. r \in Rows /\ r \in OrderRows /\ r[1] = "run"
  BY <1>1, OrderRowsAre, OrderKinds DEF Rows
<1>3. CASE r \notin DOMAIN session[c].mine
  <2>1. db'[r] = db[r]
    BY <1>2, <1>3, CommitsRows
  <2> QED
    BY <1>1, <2>1 DEF Succeeded
<1>4. CASE r \in DOMAIN session[c].mine
  <2>1. db'[r] = session[c].mine[r]
    BY <1>2, <1>4, CommitsRows DEF Sees
  <2>2. OrderStep(q, r, db[r], db'[r])
    BY <1>2, <1>4, <2>1, MineIs
  <2>3. q.op \in Workflows /\ r = RunRow(q.op, q.key) /\ db'[r].input = Input(q)
    BY <1>2, <2>2 DEF OrderStep
  <2>4. type = q.op /\ k = q.key
    BY <2>3, SameRow
  <2>5. q \in Calls
    BY DoneStage
  <2>6. o = q.order
    BY <1>1, <2>3, <2>5, InputOrder
  <2> QED
    BY <2>4, <2>6
<1> QED
  BY <1>3, <1>4

LEMMA CommitUndisturbs ==
  ASSUME WorkflowInv, NEW c \in Clients, Alone(c), db' = Over(session[c].mine, db),
         session[c].at = "done", session'[c] = Idle, NEW d \in Clients, d # c
  PROVE  Undisturbed(d)
<1> SUFFICES ASSUME NEW q, q = session[c].call, NEW p, p = session[d].call
             PROVE  Undisturbed(d)
  OBVIOUS
<1>1. session'[d] = session[d]
  BY DEF Alone
<1>2. session[c].locks \cap session[d].locks = {}
  BY DEF WorkflowInv, LocksOK
<1>3. ASSUME NEW r \in session[d].locks \cap Rows, r[1] \notin {"journal", "confirmation"}
      PROVE  db'[r] = db[r]
  <2>1. r \in DOMAIN session[c].mine => Lock(q, r) \in session[c].locks
    BY MineIs
  <2>2. Lock(q, r) = r
    BY <1>3 DEF Lock
  <2>3. r \notin DOMAIN session[c].mine
    BY <1>2, <2>1, <2>2
  <2> QED
    BY <2>3, CommitsRows
<1>4. ASSUME p.op \in {"cancelOrder", "fulfillOrder"}, Holds(d), FirstToEnd(d)
      PROVE  FirstToEnd(d)'
  <2>1. Succeeded(p.op, p.order)' = {}
    <3> SUFFICES ASSUME NEW k \in Succeeded(p.op, p.order)'
                 PROVE  FALSE
      OBVIOUS
    <3>1. Succeeded(p.op, p.order) = {}
      BY <1>4 DEF FirstToEnd
    <3>2. p.op = q.op /\ p.order = q.order
      BY <1>4, <3>1, NewRun DEF Workflows
    <3>3. \E j \in WorkflowKeys : EndsLines(c, j)
      BY <1>4, <3>2, DoneStage
    <3>4. Holds(c)
      BY <3>3 DEF EndsLines
    <3> QED
      BY <1>2, <1>4, <3>2, <3>4 DEF Holds
  <2> QED
    BY <1>1, <2>1 DEF FirstToEnd
<1>5. ASSUME p.op = "draft", session[d].todo # <<>>, NewTransfer(d)
      PROVE  NewTransfer(d)'
  <2> DEFINE r == TransferRow(p.transfer)
  <2>1. session[d] # Idle
    BY <1>5, IdleFields
  <2>2. p \in Requests
    BY <2>1 DEF WorkflowInv, StageOK, Calls
  <2>3. r \in StockRows /\ r[1] = "transfer" /\ r \in Rows
    BY <1>5, <2>2, InventoryAssumption, StockRowsAre, StockKinds DEF InventoryCall, Rows
  <2>4. db[r].status = Absent /\ r \notin DOMAIN session[d].mine
        /\ \A e \in Clients : e # d => session[e].call # p
    BY <1>5 DEF NewTransfer
  <2>5. r \notin DOMAIN session[c].mine
    <3> SUFFICES ASSUME r \in DOMAIN session[c].mine
                 PROVE  FALSE
      OBVIOUS
    <3>1. StockCall(q, r)
      BY <2>3, <2>4, MineIs
    <3>2. q.op = "draft" /\ q.transfer = p.transfer
      BY <2>3, <3>1, SameRow DEF StockCall
    <3>3. q \in Requests
      BY DoneStage DEF Calls
    <3>4. q = p
      BY <1>5, <2>2, <3>2, <3>3, InventoryAssumption
    <3> QED
      BY <2>4, <3>4
  <2>6. db'[r] = db[r]
    BY <2>3, <2>5, CommitsRows
  <2>7. p # NoCall
    BY <2>2, InventoryAssumption
  <2>8. \A e \in Clients : e # d => session'[e].call # p
    BY <2>4, <2>7, IdleFields DEF Alone
  <2> QED
    BY <1>1, <2>4, <2>6, <2>8 DEF NewTransfer
<1> QED
  BY <1>1, <1>3, <1>4, <1>5 DEF Undisturbed

LEMMA CommitStock ==
  ASSUME WorkflowInv, NEW c \in Clients, db' = Over(session[c].mine, db)
  PROVE  StockIs(db')
<1> SUFFICES ASSUME NEW r \in StockRows, NEW new, new = db'[r], NEW q, q = session[c].call
             PROVE  /\ r[1] = "balance" => InStock(new)
                    /\ r[1] = "reservation" => new \in ReservationType
                    /\ r[1] = "correction" => new \in CorrectionType
                    /\ r[1] = "transfer" => new \in TransferType
  BY DEF StockIs
<1>1. r \in Rows
  BY DEF Rows
<1>2. CASE r \in DOMAIN session[c].mine
  <2>1. new = session[c].mine[r]
    BY <1>1, <1>2, CommitsRows DEF Sees
  <2>2. StockStep(r, db[r], new)
    BY <1>2, <2>1, MineIs
  <2> QED
    BY <2>2 DEF StockStep
<1>3. CASE r \notin DOMAIN session[c].mine
  <2>1. new = db[r]
    BY <1>1, <1>3, CommitsRows
  <2> QED
    BY <2>1 DEF WorkflowInv, Tables, StockIs
<1> QED
  BY <1>2, <1>3

LEMMA CommitRun ==
  ASSUME WorkflowInv, NEW c \in Clients, db' = Over(session[c].mine, db),
         session[c].at = "done", NEW t \in Workflows, NEW k \in WorkflowKeys
  PROVE  RunIs(t, k)'
<1> SUFFICES ASSUME NEW q, q = session[c].call
             PROVE  RunIs(t, k)'
  OBVIOUS
<1> DEFINE r == RunRow(t, k)
<1>1. r \in Rows /\ r \in OrderRows /\ r[1] = "run"
  BY OrderRowsAre, OrderKinds DEF Rows
<1>2. CASE r \notin DOMAIN session[c].mine
  <2>1. db'[r] = db[r]
    BY <1>1, <1>2, CommitsRows
  <2>2. RunIs(t, k)
    BY DEF WorkflowInv, Tables
  <2> QED
    BY <2>1, <2>2 DEF RunIs
<1>3. CASE r \in DOMAIN session[c].mine
  <2>1. db'[r] = session[c].mine[r]
    BY <1>1, <1>3, CommitsRows DEF Sees
  <2>2. OrderStep(q, r, db[r], db'[r])
    BY <1>1, <1>3, <2>1, MineIs
  <2>3. q.op \in Workflows /\ r = RunRow(q.op, q.key) /\ db'[r].input = Input(q)
    BY <1>1, <2>2 DEF OrderStep
  <2>4. t = q.op /\ k = q.key
    BY <2>3, SameRow
  <2>5. /\ q \in Calls /\ session[c].todo = <<>>
        /\ q.op = "confirmOrder" => ConfirmsLines(c)
        /\ q.op \in {"cancelOrder", "fulfillOrder"} => \E j \in WorkflowKeys : EndsLines(c, j)
    BY DoneStage
  <2>6. RunOK(c)
    BY <2>3, <2>5 DEF ConfirmsLines, EndsLines, Workflows
  <2>7. db'[r].status = "succeeded"
    BY <2>1, <2>3, <2>5, <2>6 DEF RunOK, OwnRun, Asked
  <2> QED
    BY <2>3, <2>4, <2>5, <2>7 DEF RunIs
<1> QED
  BY <1>2, <1>3

LEMMA CommitOrders ==
  ASSUME WorkflowInv, NEW c \in Clients, db' = Over(session[c].mine, db), Grew,
         NEW o \in Orders
  PROVE  /\ Order(o)' \in {"draft", "confirmed", "cancelled"} /\ "status" \in DOMAIN db'[OrderRow(o)]
         /\ Order(o)' # "draft" => "key" \in DOMAIN db'[OrderRow(o)]
         /\ Order(o) # "draft" => Order(o)' # "draft" /\ db'[OrderRow(o)].key = db[OrderRow(o)].key
         /\ Order(o) = "cancelled" => Order(o)' = "cancelled"
<1> SUFFICES ASSUME NEW q, q = session[c].call, NEW r, r = OrderRow(o)
             PROVE  /\ db'[r].status \in {"draft", "confirmed", "cancelled"}
                    /\ "status" \in DOMAIN db'[r]
                    /\ db'[r].status # "draft" => "key" \in DOMAIN db'[r]
                    /\ db[r].status # "draft" => db'[r].status # "draft" /\ db'[r].key = db[r].key
                    /\ db[r].status = "cancelled" => db'[r].status = "cancelled"
  BY DEF Order
<1>1. r \in Rows /\ r \in OrderRows /\ r[1] = "order"
  BY OrderRowsAre, OrderKinds DEF Rows
<1>2. db[r].status \in {"draft", "confirmed", "cancelled"} /\ "status" \in DOMAIN db[r]
      /\ (db[r].status # "draft" => "key" \in DOMAIN db[r])
  BY DEF WorkflowInv, Tables, Order
<1>3. CASE r \notin DOMAIN session[c].mine
  <2>1. db'[r] = db[r]
    BY <1>1, <1>3, CommitsRows
  <2> QED
    BY <1>2, <2>1
<1>4. CASE r \in DOMAIN session[c].mine
  <2>1. db'[r] = session[c].mine[r]
    BY <1>1, <1>4, CommitsRows DEF Sees
  <2> SUFFICES ASSUME NEW old, old = db[r], NEW new, new = db'[r]
               PROVE  /\ new.status \in {"draft", "confirmed", "cancelled"}
                      /\ {"status", "key"} \subseteq DOMAIN new
                      /\ old.status # "draft" => new.status # "draft" /\ new.key = old.key
                      /\ old.status = "cancelled" => new.status = "cancelled"
    OBVIOUS
  <2>2. OrderStep(q, r, old, new)
    BY <1>1, <1>4, <2>1, MineIs
  <2>3. /\ {"status", "key"} \subseteq DOMAIN new
        /\ \/ old.status = "draft" /\ new.status = "confirmed"
           \/ /\ old.status = "confirmed"
              /\ new = [old EXCEPT !.status = "cancelled"] /\ new.status = "cancelled"
    BY <1>1, <2>2 DEF OrderStep
  <2>4. new = [old EXCEPT !.status = "cancelled"] /\ "key" \in DOMAIN old => new.key = old.key
    OBVIOUS
  <2> QED
    BY <1>2, <2>3, <2>4
<1> QED
  BY <1>3, <1>4

LEMMA CommitRunsTell ==
  ASSUME WorkflowInv, NEW c \in Clients, db' = Over(session[c].mine, db), Grew,
         session[c].at = "done"
  PROVE  RunsTell'
<1> SUFFICES ASSUME NEW q, q = session[c].call, NEW o \in Orders, NEW k \in WorkflowKeys
             PROVE  /\ k \in Succeeded("confirmOrder", o)' =>
                         /\ Order(o)' # "draft" /\ db'[OrderRow(o)].key = k
                         /\ Present(ConfirmationRow(o))' /\ Revenue(o)'
                    /\ k \in Succeeded("cancelOrder", o)' => Order(o)' = "cancelled" /\ Reversal(o)'
  BY DEF RunsTell
<1>1. /\ k \in Succeeded("confirmOrder", o) =>
           /\ Order(o) # "draft" /\ db[OrderRow(o)].key = k
           /\ Present(ConfirmationRow(o)) /\ Revenue(o)
      /\ k \in Succeeded("cancelOrder", o) => Order(o) = "cancelled" /\ Reversal(o)
  BY DEF WorkflowInv, Tables, RunsTell
<1>2. /\ OrderRow(o) \in Rows /\ ConfirmationRow(o) \in Rows /\ ConfirmationRow(o) \in OrderRows
      /\ JournalRow("revenue", o) \in Rows /\ JournalRow("reversal", o) \in Rows
      /\ ConfirmationRow(o)[1] = "confirmation"
  BY OrderRowsAre, OrderKinds DEF Rows
<1>3. /\ Present(ConfirmationRow(o)) => Present(ConfirmationRow(o))'
      /\ Revenue(o) => Revenue(o)'
      /\ Reversal(o) => Reversal(o)'
  BY <1>2 DEF Grew, Present, Revenue, Reversal
<1>4. \A r \in Rows : db'[r].status = Status(c, r) /\ db'[r] = Sees(c, r)
  BY CommitsRows DEF Status
<1>5. CASE k \in Succeeded("confirmOrder", o)' /\ k \notin Succeeded("confirmOrder", o)
  <2>1. q.op = "confirmOrder" /\ k = q.key /\ o = q.order
    BY <1>5, NewRun DEF Workflows
  <2>2. ConfirmsLines(c) /\ session[c].todo = <<>> /\ Len(session[c].todo) <= 1
    BY <2>1, DoneStage
  <2>3. /\ Status(c, OrderRow(o)) = "confirmed" /\ Sees(c, OrderRow(o)).key = k
        /\ Status(c, JournalRow("revenue", o)) # Absent
        /\ ConfirmationRow(o) \in DOMAIN session[c].mine
    BY <2>1, <2>2 DEF ConfirmsLines
  <2>4. Order(o)' # "draft" /\ db'[OrderRow(o)].key = k /\ Revenue(o)'
    BY <1>2, <1>4, <2>3 DEF Order, Revenue, Present
  <2>5. Present(ConfirmationRow(o))'
    <3>1. db'[ConfirmationRow(o)] = session[c].mine[ConfirmationRow(o)]
      BY <1>2, <1>4, <2>3 DEF Sees
    <3>2. OrderStep(q, ConfirmationRow(o), db[ConfirmationRow(o)], db'[ConfirmationRow(o)])
      BY <1>2, <2>3, <3>1, MineIs
    <3> QED
      BY <1>2, <3>2 DEF OrderStep, Present
  <2>6. k \notin Succeeded("cancelOrder", o)' \/ k \in Succeeded("cancelOrder", o)
    BY <2>1, NewRun DEF Workflows
  <2>7. k \in Succeeded("cancelOrder", o)' => Order(o)' = "cancelled" /\ Reversal(o)'
    BY <1>1, <1>3, <2>6, CommitOrders
  <2> QED
    BY <2>4, <2>5, <2>7
<1>6. CASE k \in Succeeded("cancelOrder", o)' /\ k \notin Succeeded("cancelOrder", o)
  <2>1. q.op = "cancelOrder" /\ o = q.order
    BY <1>6, NewRun DEF Workflows
  <2>2. session[c].todo = <<>> /\ Len(session[c].todo) <= 1 /\ \E j : EndsLines(c, j)
    BY <2>1, DoneStage
  <2>3. Status(c, OrderRow(o)) = "cancelled" /\ Status(c, JournalRow("reversal", o)) # Absent
    BY <2>1, <2>2 DEF EndsLines
  <2>4. Order(o)' = "cancelled" /\ Reversal(o)'
    BY <1>2, <1>4, <2>3 DEF Order, Reversal, Present
  <2>5. k \notin Succeeded("confirmOrder", o)' \/ k \in Succeeded("confirmOrder", o)
    BY <2>1, NewRun DEF Workflows
  <2>6. k \in Succeeded("confirmOrder", o)' =>
          /\ Order(o)' # "draft" /\ db'[OrderRow(o)].key = k
          /\ Present(ConfirmationRow(o))' /\ Revenue(o)'
    BY <1>1, <1>3, <2>5, CommitOrders
  <2> QED
    BY <2>4, <2>6
<1>7. CASE /\ k \in Succeeded("confirmOrder", o)' => k \in Succeeded("confirmOrder", o)
           /\ k \in Succeeded("cancelOrder", o)' => k \in Succeeded("cancelOrder", o)
  BY <1>1, <1>3, <1>7, CommitOrders
<1> QED
  BY <1>5, <1>6, <1>7

LEMMA CommitEndsTell ==
  ASSUME WorkflowInv, NEW c \in Clients, db' = Over(session[c].mine, db), Grew,
         session[c].at = "done"
  PROVE  EndsTell'
<1> SUFFICES ASSUME NEW q, q = session[c].call, NEW o \in Orders,
                    NEW type \in {"cancelOrder", "fulfillOrder"},
                    NEW outcome, outcome = IF type = "cancelOrder" THEN "released" ELSE "fulfilled"
             PROVE  /\ \A j, k \in Succeeded(type, o)' : j = k
                    /\ Succeeded(type, o)' # {} =>
                         \E k \in Confirmations(o)' : \A n \in DOMAIN OrderLines[o] :
                           db'[ReservationRow(<<k, n>>)].status = outcome
  BY DEF EndsTell
<1>1. /\ \A j, k \in Succeeded(type, o) : j = k
      /\ Succeeded(type, o) # {} =>
           \E k \in Confirmations(o) : \A n \in DOMAIN OrderLines[o] :
             db[ReservationRow(<<k, n>>)].status = outcome
  BY DEF WorkflowInv, Tables, EndsTell
<1>2. Confirmations(o) \subseteq Confirmations(o)' /\ Confirmations(o) \subseteq WorkflowKeys
      /\ Succeeded(type, o) \subseteq Succeeded(type, o)'
  BY ConfirmationsGrow DEF Workflows, Confirmations
<1>3. \A k \in WorkflowKeys : \A n \in DOMAIN OrderLines[o] :
        /\ ReservationRow(<<k, n>>) \in Rows /\ ReservationRow(<<k, n>>)[1] = "reservation"
        /\ ReservationRow(<<k, n>>) \in StockRows
  BY LinesAre, StockRowsAre, StockKinds DEF Rows
<1>4. CASE \A k \in Succeeded(type, o)' : k \in Succeeded(type, o)
  <2>1. ASSUME Succeeded(type, o)' # {}
        PROVE  \E k \in Confirmations(o)' : \A n \in DOMAIN OrderLines[o] :
                 db'[ReservationRow(<<k, n>>)].status = outcome
    <3>1. PICK k \in Confirmations(o) : \A n \in DOMAIN OrderLines[o] :
                 db[ReservationRow(<<k, n>>)].status = outcome
      BY <1>1, <1>4, <2>1
    <3>2. \A n \in DOMAIN OrderLines[o] : db'[ReservationRow(<<k, n>>)] = db[ReservationRow(<<k, n>>)]
      BY <1>2, <1>3, <3>1 DEF Grew, Absent
    <3> QED
      BY <1>2, <3>1, <3>2
  <2> QED
    BY <1>1, <1>4, <2>1
<1>5. CASE \E k \in Succeeded(type, o)' : k \notin Succeeded(type, o)
  <2>1. q.op = type /\ o = q.order
    BY <1>5, NewRun DEF Workflows
  <2>2. q \in Calls /\ session[c].todo = <<>> /\ \E j \in WorkflowKeys : EndsLines(c, j)
    BY <2>1, DoneStage
  <2>3. PICK j \in WorkflowKeys : EndsLines(c, j)
    BY <2>2
  <2>4. /\ FirstToEnd(c) /\ j \in Confirmations(o)
        /\ \A n \in DOMAIN OrderLines[o] :
             n <= Len(EndPlan(q, j)) - Len(session[c].todo) => Ended(c, <<j, n>>, outcome)
    BY <2>1, <2>3 DEF EndsLines, Outcome
  <2>5. Succeeded(type, o) = {}
    BY <2>1, <2>4 DEF FirstToEnd
  <2>6. \A k \in Succeeded(type, o)' : k = q.key
    BY <2>5, NewRun DEF Workflows
  <2>7. \A n \in DOMAIN OrderLines[o] : n <= Len(EndPlan(q, j)) - Len(session[c].todo)
    <3>1. Len(session[c].todo) = 0
      BY <2>2
    <3>2. Len(EndPlan(q, j)) \in Int /\ Len(EndPlan(q, j)) >= Len(OrderLines[o])
      BY <2>1, CancelPlanIs, FulfilPlanIs DEF EndPlan
    <3>3. \A n \in DOMAIN OrderLines[o] : n \in Nat /\ n <= Len(OrderLines[o])
      BY LinesAre
    <3>4. Len(OrderLines[o]) \in Nat
      BY LinesAre
    <3> QED
      BY <3>1, <3>2, <3>3, <3>4
  <2>8. \A n \in DOMAIN OrderLines[o] : Status(c, ReservationRow(<<j, n>>)) = outcome
    BY <2>4, <2>7 DEF Ended
  <2>9. \A n \in DOMAIN OrderLines[o] : db'[ReservationRow(<<j, n>>)].status = outcome
    BY <1>3, <2>8, CommitsRows DEF Status
  <2> QED
    BY <1>2, <2>4, <2>6, <2>9
<1> QED
  BY <1>4, <1>5

LEMMA CommitJournal ==
  ASSUME WorkflowInv, NEW c \in Clients, db' = Over(session[c].mine, db), Grew,
         session[c].at = "done", NEW o \in Orders, NEW kind, NEW type,
         \/ kind = "revenue" /\ type = "confirmOrder"
         \/ kind = "reversal" /\ type = "cancelOrder",
         Present(JournalRow(kind, o))'
  PROVE  Succeeded(type, o)' # {}
<1> SUFFICES ASSUME NEW q, q = session[c].call
             PROVE  Succeeded(type, o)' # {}
  OBVIOUS
<1> DEFINE r == JournalRow(kind, o)
<1>1. type \in Workflows /\ kind \in {"revenue", "reversal"}
  BY DEF Workflows
<1>2. r \in Rows /\ r \in OrderRows /\ r[1] = "journal"
  <2>1. JournalRow("revenue", o) \in OrderRows /\ JournalRow("reversal", o) \in OrderRows
    BY OrderRowsAre
  <2>2. r \in OrderRows
    BY <1>1, <2>1
  <2>3. r[1] = "journal"
    BY DEF JournalRow
  <2> QED
    BY <2>2, <2>3 DEF Rows
<1>3. CASE r \notin DOMAIN session[c].mine
  <2>1. Present(r)
    BY <1>2, <1>3, CommitsRows DEF Present
  <2>2. Succeeded(type, o) # {}
    BY <2>1 DEF WorkflowInv, Tables, JournalsTell, Revenue, Reversal
  <2> QED
    BY <1>1, <2>2, ConfirmationsGrow
<1>4. CASE r \in DOMAIN session[c].mine
  <2>1. OrderStep(q, r, db[r], session[c].mine[r])
    BY <1>2, <1>4, MineIs
  <2>2. \/ q.op = "confirmOrder" /\ r = JournalRow("revenue", q.order)
        \/ q.op = "cancelOrder" /\ r = JournalRow("reversal", q.order)
    BY <1>2, <2>1 DEF OrderStep
  <2>3. q.op = type /\ q.order = o
    BY <2>2, SameRow
  <2>4. /\ q \in Calls /\ session[c].todo = <<>>
        /\ q.op = "confirmOrder" => ConfirmsLines(c)
        /\ q.op \in {"cancelOrder", "fulfillOrder"} => \E k \in WorkflowKeys : EndsLines(c, k)
    BY DoneStage
  <2>5. RunOK(c)
    BY <1>1, <2>3, <2>4 DEF ConfirmsLines, EndsLines, Workflows
  <2>6. OwnRun(c) \in DOMAIN session[c].mine /\ session[c].mine[OwnRun(c)].status = "succeeded"
        /\ OwnRun(c) = RunRow(type, q.key)
    BY <2>3, <2>4, <2>5 DEF RunOK, OwnRun, Asked
  <2>7. q.key \in WorkflowKeys
    BY <1>1, <2>3, <2>4, OrderAssumption DEF Calls, OrderCall
  <2>8. OwnRun(c) \in Rows /\ OwnRun(c) \in OrderRows /\ OwnRun(c)[1] = "run"
    <3>1. RunRow(type, q.key) \in OrderRows
      BY <1>1, <2>7, OrderRowsAre
    <3>2. RunRow(type, q.key)[1] = "run"
      BY OrderKinds
    <3> QED
      BY <2>6, <3>1, <3>2 DEF Rows
  <2>9. OrderStep(q, OwnRun(c), db[OwnRun(c)], session[c].mine[OwnRun(c)])
    BY <2>6, <2>8, MineIs
  <2>10. session[c].mine[OwnRun(c)].input = Input(q)
    BY <2>8, <2>9 DEF OrderStep
  <2>11. db'[OwnRun(c)] = session[c].mine[OwnRun(c)]
    BY <2>6, <2>8, CommitsRows DEF Sees
  <2>12. Input(q).order = o
    BY <1>1, <2>3, <2>4, InputOrder
  <2>13. q.key \in Succeeded(type, o)'
    BY <2>6, <2>7, <2>10, <2>11, <2>12 DEF Succeeded
  <2> QED
    BY <2>13
<1> QED
  BY <1>3, <1>4

LEMMA CommitJournalsTell ==
  ASSUME WorkflowInv, NEW c \in Clients, db' = Over(session[c].mine, db), Grew,
         session[c].at = "done"
  PROVE  JournalsTell'
<1>1. \A o \in Orders : Revenue(o)' => Succeeded("confirmOrder", o)' # {}
  BY CommitJournal DEF Revenue
<1>2. \A o \in Orders : Reversal(o)' => Succeeded("cancelOrder", o)' # {}
  BY CommitJournal DEF Reversal
<1> QED
  BY <1>1, <1>2 DEF JournalsTell

LEMMA CommitTables ==
  ASSUME WorkflowInv, NEW c \in Clients, db' = Over(session[c].mine, db), Grew,
         session[c].at = "done"
  PROVE  Tables'
<1>1. DOMAIN db' = Rows
  BY CommitsRows
<1>2. StockIs(db')
  BY CommitStock
<1>3. \A t \in Workflows, k \in WorkflowKeys : RunIs(t, k)'
  BY CommitRun
<1>4. \A o \in Orders : /\ Order(o)' \in {"draft", "confirmed", "cancelled"}
                        /\ "status" \in DOMAIN db'[OrderRow(o)]
                        /\ Order(o)' # "draft" => "key" \in DOMAIN db'[OrderRow(o)]
  BY CommitOrders
<1>5. RunsTell' /\ EndsTell' /\ JournalsTell'
  BY CommitRunsTell, CommitEndsTell, CommitJournalsTell
<1> QED
  BY <1>1, <1>2, <1>3, <1>4, <1>5 DEF Tables

\* What the call of client c has come to is committed with it.
LEMMA CommitTells ==
  ASSUME WorkflowInv, NEW c \in Clients, db' = Over(session[c].mine, db),
         session[c].at = "done", NEW q, q = session[c].call
  PROVE  Told(q)'
<1>1. /\ q \in Calls /\ session[c].todo = <<>>
      /\ q.op = "confirmOrder" => ConfirmsLines(c)
      /\ q.op \in {"cancelOrder", "fulfillOrder"} => \E k \in WorkflowKeys : EndsLines(c, k)
      /\ q.op \in InventoryOps => Effect(c, q)
  BY DoneStage
<1>2. InventoryCall(q) /\ OrderCall(q) /\ q.op \in CallOps
  BY <1>1, InventoryAssumption, OrderAssumption DEF Calls
<1>3. \A r \in Rows : db'[r].status = Status(c, r) /\ db'[r] = Sees(c, r)
  BY CommitsRows DEF Status
<1>4. CASE q.op \in Workflows
  <2> DEFINE r == RunRow(q.op, q.key)
  <2>1. RunOK(c)
    BY <1>1, <1>4 DEF ConfirmsLines, EndsLines, Workflows
  <2>2. r \in DOMAIN session[c].mine /\ session[c].mine[r].status = "succeeded"
    BY <1>1, <2>1 DEF RunOK, OwnRun, Asked
  <2>3. r \in OrderRows /\ r[1] = "run"
    <3>1. r \in OrderRows
      BY <1>2, <1>4, OrderRowsAre DEF OrderCall
    <3>2. r[1] = "run"
      BY OrderKinds
    <3> QED
      BY <3>1, <3>2
  <2>4. OrderStep(q, r, db[r], session[c].mine[r])
    BY <2>2, <2>3, MineIs
  <2>5. session[c].mine[r].input = Input(q)
    BY <2>3, <2>4 DEF OrderStep
  <2>6. db'[r] = session[c].mine[r]
    BY <1>3, <2>2, <2>3 DEF Sees, Rows
  <2> QED
    BY <1>4, <2>2, <2>5, <2>6 DEF Told, Workflows
<1>5. CASE q.op \in {"reserve", "release", "fulfill"}
  <2> DEFINE r == ReservationRow(q.key)
  <2>1. r \in Rows
    BY <1>2, <1>5, StockRowsAre DEF InventoryCall, Rows
  <2>2. db'[r].status = Status(c, r) /\ db'[r] = Sees(c, r)
    BY <1>3, <2>1
  <2>3. Effect(c, q)
    BY <1>1, <1>5 DEF InventoryOps
  <2>4. q.op = "reserve" => Status(c, r) # Absent /\ SameFact(Sees(c, r), q)
    BY <2>3 DEF Effect
  <2>5. q.op \in {"release", "fulfill"} => Status(c, r) = Ends[q.op]
    BY <2>3 DEF Effect
  <2> QED
    BY <1>5, <2>2, <2>4, <2>5 DEF Told, Present, SameFact, Workflows
<1>6. CASE q.op = "adjust"
  <2> DEFINE r == CorrectionRow(q.key)
  <2>1. r \in Rows
    BY <1>2, <1>6, StockRowsAre DEF InventoryCall, Rows
  <2>2. db'[r].status = Status(c, r) /\ db'[r] = Sees(c, r)
    BY <1>3, <2>1
  <2>3. Effect(c, q)
    BY <1>1, <1>6 DEF InventoryOps
  <2>4. Status(c, r) # Absent /\ SameFact(Sees(c, r), q)
    BY <1>6, <2>3 DEF Effect
  <2> QED
    BY <1>6, <2>2, <2>4 DEF Told, Present, SameFact, Workflows
<1>7. CASE q.op \in {"draft", "confirm", "complete"}
  <2> DEFINE r == TransferRow(q.transfer)
  <2>1. r \in Rows
    BY <1>2, <1>7, StockRowsAre DEF InventoryCall, Rows
  <2>2. db'[r].status = Status(c, r)
    BY <1>3, <2>1
  <2>3. Effect(c, q)
    BY <1>1, <1>7 DEF InventoryOps
  <2>4. /\ q.op = "draft" => Status(c, r) # Absent
        /\ q.op = "confirm" => Status(c, r) \in {"confirmed", "completed"}
        /\ q.op = "complete" => Status(c, r) = "completed"
    BY <2>3 DEF Effect
  <2> QED
    BY <1>7, <2>2, <2>4 DEF Told, Present, Workflows
<1>8. CASE q.op \in {"receive", "salesConfirm", "salesCancel", "close"}
  BY <1>8 DEF Told, Workflows
<1> QED
  BY <1>2, <1>4, <1>5, <1>6, <1>7, <1>8 DEF CallOps, InventoryOps

LEMMA CommitKeeps ==
  ASSUME WorkflowInv, NEW c \in Clients, session[c].at = "done", Commits(c)
  PROVE  WorkflowInv'
<1> SUFFICES ASSUME NEW q, q = session[c].call
             PROVE  WorkflowInv'
  OBVIOUS
<1>1. db' = Over(session[c].mine, db)
  BY DEF Commits
<1>2. PICK outcome \in {"ok", "unknown"} : Answer(c, outcome)
  BY DEF Commits
<1>3. /\ SessionShape' /\ Alone(c) /\ session'[c] = Idle /\ UNCHANGED calls
      /\ answers' = [answers EXCEPT ![q] = @ \cup {outcome}]
  BY <1>2, Answers DEF WorkflowInv, Answer
<1>4. Grew
  BY <1>1, CommitGrows
<1>5. \A d \in Clients : d # c => Undisturbed(d)
  BY <1>1, <1>3, CommitUndisturbs
<1>6. \A d \in Clients : d # c => StageOK(d)' /\ MineOK(d)'
  BY <1>3, <1>4, <1>5, OthersKeep
<1>7. StageOK(c)' /\ MineOK(c)' /\ session'[c].locks = {}
  BY <1>3, IdleFields DEF StageOK, MineOK
<1>8. Tables'
  BY <1>1, <1>4, CommitTables
<1>9. LocksOK'
  <2>1. \A a, b \in Clients : a # b => session'[a].locks \cap session'[b].locks = {}
    <3> SUFFICES ASSUME NEW a \in Clients, NEW b \in Clients, a # b
                 PROVE  session'[a].locks \cap session'[b].locks = {}
      OBVIOUS
    <3>1. session[a].locks \cap session[b].locks = {}
      BY DEF WorkflowInv, LocksOK
    <3> QED
      BY <1>3, <1>7, <3>1 DEF Alone
  <2>2. \A a \in Clients : \A r \in session'[a].locks :
          r[1] \in Inserted => r \in Rows /\ (Present(r)' \/ r \in DOMAIN session'[a].mine)
    <3> SUFFICES ASSUME NEW a \in Clients, NEW r \in session'[a].locks, r[1] \in Inserted
                 PROVE  r \in Rows /\ (Present(r)' \/ r \in DOMAIN session'[a].mine)
      OBVIOUS
    <3>1. a # c /\ session'[a] = session[a]
      BY <1>3, <1>7 DEF Alone
    <3>2. r \in Rows /\ (Present(r) \/ r \in DOMAIN session[a].mine)
      BY <3>1 DEF WorkflowInv, LocksOK
    <3> QED
      BY <1>4, <3>1, <3>2 DEF Grew, Present
  <2> QED
    BY <2>1, <2>2 DEF LocksOK
<1>10. AnswersAreTrue' /\ AnswersAreOwn' /\ DOMAIN answers' = Requests
  <2>1. \A p \in Requests : "ok" \in answers[p] => Told(p)
    BY AnswersTell DEF WorkflowInv
  <2>2. Told(q)'
    BY <1>1, CommitTells
  <2>3. \A p \in Requests : "ok" \in answers'[p] => p = q \/ "ok" \in answers[p]
    BY <1>3 DEF WorkflowInv
  <2>4. \A p \in Requests : "ok" \in answers'[p] => Told(p)'
    BY <1>4, <2>1, <2>2, <2>3, ToldStays
  <2>5. ((AnswersAreTrue /\ AnswersAreOwn) <=> \A p \in Requests : "ok" \in answers[p] => Told(p))'
    BY AnswersTellThen
  <2> QED
    BY <1>3, <2>4, <2>5 DEF WorkflowInv
<1> QED
  BY <1>3, <1>6, <1>7, <1>8, <1>9, <1>10 DEF WorkflowInv

-----------------------------------------------------------------------------
(* The job that a client is at, and the next one. *)

\* What a client sees after a statement that wrote w.
LEMMA SeesThen ==
  ASSUME SessionShape, NEW c \in Clients, NEW w, NEW at, NEW row, NEW todo,
         Proceed(c, w, at, row, todo)
  PROVE  /\ DOMAIN session'[c].mine = DOMAIN w \cup DOMAIN session[c].mine
         /\ \A r \in DOMAIN w : Sees(c, r)' = w[r] /\ Status(c, r)' = w[r].status
         /\ \A r : r \notin DOMAIN w => Sees(c, r)' = Sees(c, r) /\ Status(c, r)' = Status(c, r)
<1>1. session'[c].mine = Over(w, session[c].mine) /\ UNCHANGED db
  BY Proceeds
<1>2. /\ DOMAIN session'[c].mine = DOMAIN w \cup DOMAIN session[c].mine
      /\ \A r \in DOMAIN session'[c].mine :
           session'[c].mine[r] = IF r \in DOMAIN w THEN w[r] ELSE session[c].mine[r]
  BY <1>1 DEF Over
<1>3. \A r \in DOMAIN w : Sees(c, r)' = w[r]
  BY <1>2 DEF Sees
<1>4. \A r : r \notin DOMAIN w => Sees(c, r)' = Sees(c, r)
  BY <1>1, <1>2 DEF Sees
<1> QED
  BY <1>2, <1>3, <1>4 DEF Status

JobLabels == {"reservation", "second", "insert", "succeed"}

\* A client that is at a job of Inventory or of the books, or at a label of one.
LEMMA JobStage ==
  ASSUME WorkflowInv, NEW c \in Clients, session[c] # Idle, NEW q, q = session[c].call,
         \/ session[c].at \in JobLabels
         \/ session[c].todo # <<>> /\ Arg(c).op \in PartOps \cup InventoryOps \cup {"close"}
  PROVE  /\ q \in Calls /\ session[c].todo \in Seq(Jobs) /\ session[c].todo # <<>>
         /\ Arg(c) \in Parts \cup StockCalls /\ JobAt(c, Arg(c)) /\ JobIs(Arg(c))
         /\ Arg(c).op \in PartOps \cup InventoryOps \cup {"close"}
         /\ q.op = "confirmOrder" => ConfirmsLines(c)
         /\ q.op \in {"cancelOrder", "fulfillOrder"} => \E k \in WorkflowKeys : EndsLines(c, k)
         /\ q.op \notin {"salesConfirm", "salesCancel"}
         /\ q.op = "close" => CloseAt(c)
         /\ q.op \in InventoryOps => InventoryAt(c)
<1>1. /\ q \in Calls /\ session[c].todo \in Seq(Jobs)
      /\ q.op = "confirmOrder" => ConfirmingAt(c)
      /\ q.op \in {"cancelOrder", "fulfillOrder"} => EndingAt(c)
      /\ q.op \in {"salesConfirm", "salesCancel"} => SalesAt(c)
      /\ q.op = "close" => CloseAt(c)
      /\ q.op \in InventoryOps => InventoryAt(c)
  BY DEF WorkflowInv, StageOK
<1>2. \A x : Head(<<x>>) = x
  BY HeadOfOne
<1>3. q.op \in CallOps
  BY <1>1 DEF Calls
<1>4. ASSUME q.op = "confirmOrder"
      PROVE  ConfirmsLines(c)
  BY <1>1, <1>2, <1>4 DEF ConfirmingAt, Arg, JobLabels, PartOps, InventoryOps
<1>5. ASSUME q.op \in {"cancelOrder", "fulfillOrder"}
      PROVE  \E k \in WorkflowKeys : EndsLines(c, k)
  <2>1. ASSUME session[c].todo \in {<<q>>, <<AsksAgain(q)>>},
               session[c].at \in {"find", "lookup", "record", "order"}
        PROVE  FALSE
    <3>1. Arg(c).op = q.op
      BY <1>2, <2>1 DEF Arg, AsksAgain
    <3> QED
      BY <1>5, <2>1, <3>1 DEF JobLabels, PartOps, InventoryOps
  <2> QED
    BY <1>1, <1>5, <2>1 DEF EndingAt
<1>6. ASSUME q.op \in {"salesConfirm", "salesCancel"}
      PROVE  FALSE
  <2>1. ASSUME session[c].todo = <<q>>, session[c].at \in {"order", "record"}
        PROVE  FALSE
    BY <1>2, <1>6, <2>1 DEF Arg, JobLabels, PartOps, InventoryOps
  <2>2. session[c].todo = <<>> /\ AtJob(c)
    BY <1>1, <1>6, <2>1 DEF SalesAt
  <2> QED
    BY <2>2 DEF AtJob, JobLabels
<1>7. AtJob(c)
  BY <1>1, <1>3, <1>4, <1>5, <1>6
     DEF ConfirmsLines, EndsLines, CloseAt, InventoryAt, CallOps, Workflows
<1>8. session[c].todo # <<>>
  BY <1>7 DEF AtJob, JobLabels
<1>9. Arg(c) \in Parts \cup StockCalls /\ JobAt(c, Arg(c))
  BY <1>7, <1>8 DEF AtJob, Arg
<1>10. JobIs(Arg(c)) /\ Arg(c).op \in PartOps \cup InventoryOps \cup {"close"}
  BY <1>9, JobsAre
<1> QED
  BY <1>1, <1>4, <1>5, <1>6, <1>8, <1>9, <1>10

\* The statement that follows is the first of the next part, or there is none.
LEMMA NextPart ==
  ASSUME SessionShape, NEW c \in Clients, NEW w, NEW inputs, Continues(c, w, inputs),
         inputs # <<>> => Head(inputs) \in Parts
  PROVE  AtJob(c)' /\ \E at, row : Proceed(c, w, at, row, inputs)
<1>1. CASE inputs = <<>>
  <2>1. Proceed(c, w, "done", NoRow, <<>>)
    BY <1>1 DEF Continues
  <2>2. session'[c].todo = <<>> /\ session'[c].at = "done" /\ session'[c].row = NoRow
    BY <2>1, Proceeds
  <2> QED
    BY <1>1, <2>1, <2>2 DEF AtJob
<1>2. CASE inputs # <<>>
  <2> DEFINE a == Head(inputs)
  <2>1. Proceed(c, w, First(a)[1], First(a)[2], inputs)
    BY <1>2 DEF Continues
  <2>2. session'[c].todo = inputs /\ session'[c].at = First(a)[1] /\ session'[c].row = First(a)[2]
    BY <2>1, Proceeds
  <2>3. a \in Parts /\ a.op \in PartOps /\ (a.op = "reserve" => a.entity \in BOOLEAN)
    BY <1>2, PartsAre DEF JobIs
  <2> HIDE DEF a
  <2>4. JobAt(c, a)'
    <3>1. CASE a.op = "reserve"
      BY <2>2, <2>3, <3>1, FirstOfPart DEF JobAt
    <3>2. CASE a.op \in {"release", "fulfill"}
      BY <2>2, <2>3, <3>2, FirstOfPart DEF JobAt
    <3>3. CASE a.op \in {"item", "insert", "ship", "arrive", "revenue", "reversal", "succeed"}
      BY <2>2, <2>3, <3>3, FirstOfPart DEF JobAt
    <3> QED
      BY <2>3, <3>1, <3>2, <3>3 DEF PartOps
  <2> QED
    BY <1>2, <2>1, <2>2, <2>3, <2>4 DEF AtJob, a
<1> QED
  BY <1>1, <1>2

LEMMA EmptyIs ==
  ASSUME NEW S, NEW s \in Seq(S)
  PROVE  s = <<>> <=> Len(s) = 0
OBVIOUS

LEMMA FromTheEnd ==
  ASSUME NEW lines \in Nat \ {0}, NEW more \in {1, 2}, NEW left \in 1..(lines + more),
         NEW n, n = lines + more - left + 1
  PROVE  IF left <= more THEN n = lines + more - left + 1 /\ n \notin 1..lines ELSE n \in 1..lines
OBVIOUS

\* Where a confirmation is in its plan.
LEMMA ConfirmJob ==
  ASSUME NEW q \in Calls, q.op = "confirmOrder", NEW todo, todo # <<>>, Rest(todo, ConfirmPlan(q))
  PROVE  /\ Rest(Tail(todo), ConfirmPlan(q)) /\ Len(todo) \in Nat \ {0}
         /\ Len(Tail(todo)) = Len(todo) - 1 /\ (Tail(todo) = <<>> <=> Len(todo) = 1)
         /\ Head(todo) \in Parts /\ (Tail(todo) # <<>> => Head(Tail(todo)) \in Parts)
         /\ Len(todo) = 1 => Head(todo).op = "succeed"
         /\ Len(todo) = 2 => Head(todo).op = "revenue"
         /\ Len(todo) >= 3 => Head(todo).op = "reserve"
<1> DEFINE plan == ConfirmPlan(q)
           lines == Len(OrderLines[q.order])
<1>1. /\ lines \in Nat \ {0} /\ plan \in Seq(Parts) /\ Len(plan) = lines + 2
      /\ \A i \in 1..lines : plan[i].op = "reserve"
      /\ plan[lines + 1] = Revenues /\ plan[lines + 2] = Succeeds
  BY ConfirmPlanIs
<1>2. plan \in Seq(Jobs) /\ \A i \in 1..Len(plan) : plan[i] \in Parts
  BY <1>1, PartsAreJobs
<1> HIDE DEF plan, lines
<1>3. Rest(todo, plan)
  BY DEF plan
<1>4. /\ Rest(Tail(todo), plan) /\ Len(Tail(todo)) = Len(todo) - 1
      /\ Len(todo) \in 1..Len(plan) /\ Len(plan) \in Nat
      /\ Head(todo) = plan[Len(plan) - Len(todo) + 1]
  BY <1>2, <1>3, RestTail
<1>5. todo \in Seq(Jobs) /\ Tail(todo) \in Seq(Jobs)
  BY <1>3, <1>4 DEF Rest
<1>6. Tail(todo) = <<>> <=> Len(todo) = 1
  <2> DEFINE t == Tail(todo)
  <2>1. t \in Seq(Jobs) /\ Len(t) = Len(todo) - 1
    BY <1>4, <1>5
  <2> HIDE DEF t
  <2>2. t = <<>> <=> Len(t) = 0
    BY <2>1, EmptyIs
  <2>3. Len(todo) \in Nat
    BY <1>5
  <2>4. t = <<>> <=> Len(todo) = 1
    BY <2>1, <2>2, <2>3
  <2> QED
    BY <2>4 DEF t
<1>7. Head(todo) \in Parts
  BY <1>2, <1>4
<1>8. ASSUME Tail(todo) # <<>>
      PROVE  Head(Tail(todo)) \in Parts
  <2>1. /\ Len(Tail(todo)) \in 1..Len(plan)
        /\ Head(Tail(todo)) = plan[Len(plan) - Len(Tail(todo)) + 1]
    BY <1>2, <1>4, <1>8, RestTail
  <2> QED
    BY <1>2, <1>4, <2>1
<1>9. Revenues.op = "revenue" /\ Succeeds.op = "succeed"
  BY DEF Revenues, Succeeds
<1>10. /\ Len(todo) = 1 => Head(todo).op = "succeed"
       /\ Len(todo) = 2 => Head(todo).op = "revenue"
       /\ Len(todo) >= 3 => Head(todo).op = "reserve"
  <2> SUFFICES ASSUME NEW left, left = Len(todo), NEW n, n = Len(plan) - left + 1
               PROVE  /\ left = 1 => Head(todo).op = "succeed"
                      /\ left = 2 => Head(todo).op = "revenue"
                      /\ left >= 3 => Head(todo).op = "reserve"
    OBVIOUS
  <2>1. left \in 1..(lines + 2) /\ n = lines + 2 - left + 1 /\ lines \in Nat \ {0}
    BY <1>1, <1>4
  <2>2. IF left <= 2 THEN n = lines + 2 - left + 1 /\ n \notin 1..lines ELSE n \in 1..lines
    BY <2>1, FromTheEnd
  <2>3. (left = 1 => n = lines + 2) /\ (left = 2 => n = lines + 1) /\ (left >= 3 => ~(left <= 2))
    BY <2>1
  <2>4. Head(todo) = plan[n]
    BY <1>4
  <2> QED
    BY <1>1, <1>9, <2>2, <2>3, <2>4
<1> QED
  BY <1>4, <1>6, <1>7, <1>8, <1>10 DEF plan

\* The place in a plan of the first job that is left.
NextIn(plan, todo) == Len(plan) - Len(todo) + 1

\* Where the end of an order is in its plan.
LEMMA EndJob ==
  ASSUME NEW q \in Calls, q.op \in {"cancelOrder", "fulfillOrder"}, NEW k \in WorkflowKeys,
         NEW todo, todo # <<>>, Rest(todo, EndPlan(q, k)),
         NEW n, n = NextIn(EndPlan(q, k), todo)
  PROVE  /\ Rest(Tail(todo), EndPlan(q, k)) /\ Len(todo) \in Nat \ {0}
         /\ Len(EndPlan(q, k)) \in Nat /\ q.order \in Orders
         /\ Len(Tail(todo)) = Len(todo) - 1 /\ (Tail(todo) = <<>> <=> Len(todo) = 1)
         /\ Head(todo) \in Parts /\ (Tail(todo) # <<>> => Head(Tail(todo)) \in Parts)
         /\ n \in DOMAIN OrderLines[q.order] =>
              Head(todo) = [op |-> IF q.op = "cancelOrder" THEN "release" ELSE "fulfill",
                            key |-> <<k, n>>]
         /\ n \notin DOMAIN OrderLines[q.order] =>
              \/ Len(todo) = 1 /\ Head(todo).op = "succeed"
              \/ Len(todo) = 2 /\ Head(todo).op = "reversal" /\ q.op = "cancelOrder"
         /\ Len(todo) = 1 => n \notin DOMAIN OrderLines[q.order]
         /\ Len(todo) = 2 /\ q.op = "cancelOrder" => n \notin DOMAIN OrderLines[q.order]
<1> DEFINE plan == EndPlan(q, k)
           lines == Len(OrderLines[q.order])
<1>1. q.order \in Orders
  BY OrderAssumption DEF Calls, OrderCall, Workflows
<1>2. DOMAIN OrderLines[q.order] = 1..lines
  BY <1>1, LinesAre
<1>3. /\ lines \in Nat \ {0} /\ plan \in Seq(Parts)
      /\ q.op = "cancelOrder" =>
           /\ Len(plan) = lines + 2
           /\ \A i \in 1..lines : plan[i] = [op |-> "release", key |-> <<k, i>>]
           /\ plan[lines + 1] = Reversals /\ plan[lines + 2] = Succeeds
      /\ q.op # "cancelOrder" =>
           /\ Len(plan) = lines + 1
           /\ \A i \in 1..lines : plan[i] = [op |-> "fulfill", key |-> <<k, i>>]
           /\ plan[lines + 1] = Succeeds
  BY <1>1, CancelPlanIs, FulfilPlanIs DEF EndPlan
<1>4. plan \in Seq(Jobs) /\ \A i \in 1..Len(plan) : plan[i] \in Parts
  BY <1>3, PartsAreJobs
<1> HIDE DEF plan, lines
<1>5. Rest(todo, plan) /\ n = Len(plan) - Len(todo) + 1
  BY DEF plan, NextIn
<1>6. /\ Rest(Tail(todo), plan) /\ Len(Tail(todo)) = Len(todo) - 1
      /\ Len(todo) \in 1..Len(plan) /\ Len(plan) \in Nat
      /\ Head(todo) = plan[n]
  BY <1>4, <1>5, RestTail
<1>7. todo \in Seq(Jobs) /\ Tail(todo) \in Seq(Jobs)
  BY <1>5, <1>6 DEF Rest
<1>8. Tail(todo) = <<>> <=> Len(todo) = 1
  <2> DEFINE t == Tail(todo)
  <2>1. t \in Seq(Jobs) /\ Len(t) = Len(todo) - 1
    BY <1>6, <1>7
  <2> HIDE DEF t
  <2>2. t = <<>> <=> Len(t) = 0
    BY <2>1, EmptyIs
  <2>3. Len(todo) \in Nat
    BY <1>7
  <2>4. t = <<>> <=> Len(todo) = 1
    BY <2>1, <2>2, <2>3
  <2> QED
    BY <2>4 DEF t
<1>9. Head(todo) \in Parts
  BY <1>4, <1>5, <1>6
<1>10. ASSUME Tail(todo) # <<>>
       PROVE  Head(Tail(todo)) \in Parts
  <2>1. /\ Len(Tail(todo)) \in 1..Len(plan)
        /\ Head(Tail(todo)) = plan[Len(plan) - Len(Tail(todo)) + 1]
    BY <1>4, <1>6, <1>10, RestTail
  <2> QED
    BY <1>4, <1>6, <2>1
<1>11. Reversals.op = "reversal" /\ Succeeds.op = "succeed"
  BY DEF Reversals, Succeeds
<1>12. /\ n \in 1..lines =>
            Head(todo) = [op |-> IF q.op = "cancelOrder" THEN "release" ELSE "fulfill",
                          key |-> <<k, n>>]
       /\ n \notin 1..lines =>
            \/ Len(todo) = 1 /\ Head(todo).op = "succeed"
            \/ Len(todo) = 2 /\ Head(todo).op = "reversal" /\ q.op = "cancelOrder"
       /\ Len(todo) = 1 => n \notin 1..lines
       /\ Len(todo) = 2 /\ q.op = "cancelOrder" => n \notin 1..lines
  <2> SUFFICES ASSUME NEW left \in 1..Len(plan), left = Len(todo), NEW a, a = plan[n]
               PROVE  /\ n \in 1..lines =>
                           a = [op |-> IF q.op = "cancelOrder" THEN "release" ELSE "fulfill",
                                key |-> <<k, n>>]
                      /\ n \notin 1..lines =>
                           \/ left = 1 /\ a.op = "succeed"
                           \/ left = 2 /\ a.op = "reversal" /\ q.op = "cancelOrder"
                      /\ left = 1 => n \notin 1..lines
                      /\ left = 2 /\ q.op = "cancelOrder" => n \notin 1..lines
    BY <1>6
  <2>1. n = Len(plan) - left + 1
    BY <1>5
  <2>2. CASE q.op = "cancelOrder"
    <3>1. left \in 1..(lines + 2) /\ n = lines + 2 - left + 1 /\ lines \in Nat \ {0}
      BY <1>3, <2>1, <2>2
    <3>2. IF left <= 2 THEN n = lines + 2 - left + 1 /\ n \notin 1..lines ELSE n \in 1..lines
      BY <3>1, FromTheEnd
    <3>3. (left = 1 => n = lines + 2) /\ (left = 2 => n = lines + 1)
      BY <3>1
    <3>4. left = 1 \/ left = 2 \/ ~(left <= 2)
      BY <3>1
    <3> QED
      BY <1>3, <1>11, <2>2, <3>2, <3>3, <3>4
  <2>3. CASE q.op # "cancelOrder"
    <3>1. left \in 1..(lines + 1) /\ n = lines + 1 - left + 1 /\ lines \in Nat \ {0}
      BY <1>3, <2>1, <2>3
    <3>2. IF left <= 1 THEN n = lines + 1 - left + 1 /\ n \notin 1..lines ELSE n \in 1..lines
      BY <3>1, FromTheEnd
    <3>3. left = 1 => n = lines + 1
      BY <3>1
    <3>4. left = 1 \/ ~(left <= 1)
      BY <3>1
    <3> QED
      BY <1>3, <1>11, <2>3, <3>2, <3>3, <3>4
  <2> QED
    BY <2>2, <2>3
<1> QED
  BY <1>1, <1>2, <1>6, <1>8, <1>9, <1>10, <1>12 DEF plan

-----------------------------------------------------------------------------
(* The stage after a statement. *)

LEMMA OwnRunIs ==
  ASSUME NEW c, NEW q, q = session[c].call
  PROVE  OwnRun(c) = RunRow(q.op, q.key) /\ OwnRun(c)[1] = "run"
BY DEF OwnRun, Asked, RunRow

LEMMA RunGoesOn ==
  ASSUME SessionShape, NEW c \in Clients, NEW w, NEW at, NEW row, NEW todo,
         Proceed(c, w, at, row, todo), RunOK(c), OwnRun(c) \notin DOMAIN w,
         todo = <<>> <=> session[c].todo = <<>>
  PROVE  RunOK(c)'
<1>1. session'[c].call = session[c].call /\ session'[c].todo = todo
      /\ session'[c].mine = Over(w, session[c].mine)
  BY Proceeds
<1>2. OwnRun(c)' = OwnRun(c)
  BY <1>1 DEF OwnRun, Asked
<1>3. OwnRun(c) \in DOMAIN session'[c].mine
      /\ session'[c].mine[OwnRun(c)] = session[c].mine[OwnRun(c)]
  BY <1>1 DEF RunOK, Over
<1> QED
  BY <1>1, <1>2, <1>3 DEF RunOK

\* A line that was ended stays so, as long as its reservation is not written again.
LEMMA EndedGoesOn ==
  ASSUME SessionShape, NEW c \in Clients, NEW w, NEW at, NEW row, NEW todo,
         Proceed(c, w, at, row, todo), NEW k, NEW outcome, Ended(c, k, outcome),
         ReservationRow(k) \notin DOMAIN w
  PROVE  Ended(c, k, outcome)'
<1>1. Status(c, ReservationRow(k))' = Status(c, ReservationRow(k))
  BY SeesThen
<1>2. session'[c].locks = session[c].locks \cup Locked(c)
  BY Proceeds
<1> QED
  BY <1>1, <1>2 DEF Ended

\* Who holds an order's confirmation goes on holding it.
LEMMA HoldsGoesOn ==
  ASSUME SessionShape, NEW c \in Clients, NEW w, NEW at, NEW row, NEW todo,
         Proceed(c, w, at, row, todo)
  PROVE  (Holds(c) => Holds(c)') /\ (FirstToEnd(c) => FirstToEnd(c)')
         /\ \A o : Confirmations(o)' = Confirmations(o)
<1>1. /\ session'[c].call = session[c].call /\ UNCHANGED db
      /\ session'[c].locks = session[c].locks \cup Locked(c)
  BY Proceeds
<1>2. \A o : Confirmations(o)' = Confirmations(o)
  BY <1>1 DEF Confirmations
<1> SUFFICES ASSUME NEW q, q = session[c].call
             PROVE  (Holds(c) => Holds(c)') /\ (FirstToEnd(c) => FirstToEnd(c)')
  BY <1>2
<1>3. Confirmations(q.order)' = Confirmations(q.order)
  BY <1>2
<1>4. Succeeded(q.op, q.order)' = Succeeded(q.op, q.order)
  BY <1>1 DEF Succeeded
<1>5. Holds(c) => Holds(c)'
  BY <1>1, <1>3 DEF Holds
<1>6. FirstToEnd(c) => FirstToEnd(c)'
  BY <1>1, <1>4 DEF FirstToEnd
<1> QED
  BY <1>5, <1>6

\* The transfer of a draft is still new.
LEMMA NewGoesOn ==
  ASSUME SessionShape, NEW c \in Clients, NEW w, NEW at, NEW row, NEW todo,
         Proceed(c, w, at, row, todo), NEW q, q = session[c].call, NewTransfer(c),
         TransferRow(q.transfer) \notin DOMAIN w
  PROVE  NewTransfer(c)'
<1>1. /\ session'[c].call = q /\ UNCHANGED db /\ Alone(c)
      /\ DOMAIN session'[c].mine = DOMAIN w \cup DOMAIN session[c].mine
  BY Proceeds, SeesThen
<1>2. /\ db[TransferRow(q.transfer)].status = Absent
      /\ TransferRow(q.transfer) \notin DOMAIN session[c].mine
      /\ \A d \in Clients : d # c => session[d].call # q
  BY DEF NewTransfer
<1>3. \A d \in Clients : d # c => session'[d].call # q
  BY <1>1, <1>2 DEF Alone
<1> QED
  BY <1>1, <1>2, <1>3 DEF NewTransfer

\* A statement within a job, which writes no more than a balance.
LEMMA JobGoesOn ==
  ASSUME WorkflowInv, NEW c \in Clients, session[c] # Idle,
         session[c].todo # <<>>, Arg(c).op \in PartOps \cup InventoryOps,
         NEW a, a = Arg(c),
         NEW w, NEW at, NEW row, Goes(c, w, at, row), JobAt(c, a)',
         \A r \in DOMAIN w : r[1] = "balance",
         at = "record" => a.op \in {"adjust", "reserve"},
         at # "record" => DOMAIN w = {} /\ session[c].at # "record"
  PROVE  StageOK(c)'
<1> SUFFICES ASSUME NEW q, q = session[c].call, NEW todo, todo = session[c].todo
             PROVE  StageOK(c)'
  OBVIOUS
<1>1. Proceed(c, w, at, row, todo) /\ SessionShape
  BY DEF Goes, WorkflowInv
<1>2. /\ session'[c].call = q /\ session'[c].at = at /\ session'[c].row = row
      /\ session'[c].todo = todo /\ UNCHANGED db
      /\ session'[c].locks = session[c].locks \cup Locked(c)
  BY <1>1, Proceeds
<1>3. DOMAIN session'[c].mine = DOMAIN w \cup DOMAIN session[c].mine
      /\ \A r : r \notin DOMAIN w => Sees(c, r)' = Sees(c, r) /\ Status(c, r)' = Status(c, r)
  BY <1>1, SeesThen
<1>4. /\ q \in Calls /\ todo \in Seq(Jobs) /\ a \in Parts \cup StockCalls
      /\ q.op = "confirmOrder" => ConfirmsLines(c)
      /\ q.op \in {"cancelOrder", "fulfillOrder"} => \E k \in WorkflowKeys : EndsLines(c, k)
      /\ q.op \notin {"salesConfirm", "salesCancel"}
      /\ q.op = "close" => CloseAt(c)
      /\ q.op \in InventoryOps => InventoryAt(c)
  BY JobStage
<1>5. a = Head(todo)
  BY DEF Arg
<1>6. AtJob(c)'
  BY <1>2, <1>4, <1>5 DEF AtJob
<1>7. /\ \A k : ReservationRow(k) \notin DOMAIN w /\ TransferRow(k) \notin DOMAIN w
      /\ \A o : OrderRow(o) \notin DOMAIN w
      /\ \A kind, o : JournalRow(kind, o) \notin DOMAIN w
  BY StockKinds, OrderKinds
<1>8. OwnRun(c) \notin DOMAIN w
  BY OwnRunIs
<1>9. RunOK(c) => RunOK(c)'
  BY <1>1, <1>8, RunGoesOn
<1>10. ASSUME q.op = "confirmOrder"
       PROVE  ConfirmsLines(c)'
  <2> DEFINE r == OrderRow(q.order)
             j == JournalRow("revenue", q.order)
  <2>1. /\ RunOK(c) /\ Rest(todo, ConfirmPlan(q))
        /\ r \in session[c].locks /\ Status(c, r) = "confirmed" /\ Sees(c, r).key = q.key
        /\ Len(todo) <= 1 => Status(c, j) # Absent
    BY <1>4, <1>10 DEF ConfirmsLines
  <2>2. Sees(c, r)' = Sees(c, r) /\ Status(c, r)' = Status(c, r) /\ Status(c, j)' = Status(c, j)
    BY <1>3, <1>7
  <2> HIDE DEF r, j
  <2> QED
    BY <1>2, <1>6, <1>9, <2>1, <2>2 DEF ConfirmsLines, r, j
<1>11. ASSUME q.op \in {"cancelOrder", "fulfillOrder"}, NEW k, EndsLines(c, k)
       PROVE  EndsLines(c, k)'
  <2> DEFINE r == OrderRow(q.order)
             j == JournalRow("reversal", q.order)
             end(n) == Ended(c, <<k, n>>, Outcome(q))
  <2>1. /\ Holds(c) /\ FirstToEnd(c) /\ RunOK(c)
        /\ k \in Confirmations(q.order) /\ Rest(todo, EndPlan(q, k))
        /\ \A n \in DOMAIN OrderLines[q.order] : n <= Len(EndPlan(q, k)) - Len(todo) => end(n)
        /\ q.op = "cancelOrder" =>
             /\ r \in session[c].locks /\ Status(c, r) = "cancelled"
             /\ Len(todo) <= 1 => Status(c, j) # Absent
    BY <1>11 DEF EndsLines
  <2>2. Status(c, r)' = Status(c, r) /\ Status(c, j)' = Status(c, j)
    BY <1>3, <1>7
  <2>3. Holds(c)' /\ FirstToEnd(c)' /\ Confirmations(q.order)' = Confirmations(q.order)
    BY <1>1, <2>1, HoldsGoesOn
  <2>4. \A n : end(n) => end(n)'
    BY <1>1, <1>7, EndedGoesOn
  <2> HIDE DEF r, j, end
  <2>5. \A n \in DOMAIN OrderLines[q.order] : n <= Len(EndPlan(q, k)) - Len(todo) => end(n)'
    BY <2>1, <2>4
  <2> QED
    BY <1>2, <1>6, <1>9, <2>1, <2>2, <2>3, <2>5 DEF EndsLines, r, j, end
<1>12. ASSUME q.op \in InventoryOps
       PROVE  InventoryAt(c)'
  <2>1. InventoryAt(c)
    BY <1>4, <1>12
  <2>2. todo # <<>>
    OBVIOUS
  <2>3. Effect(c, q) /\ q.op \in {"confirm", "complete"} => Effect(c, q)'
    BY <1>3, <1>7 DEF Effect
  <2>4. q.op = "draft" => NewTransfer(c)'
    BY <1>1, <1>7, <2>1, <2>2, NewGoesOn DEF InventoryAt
  <2>5. todo = <<q>> => a = q
    BY <1>5, HeadOfOne
  <2>6. todo = <<q>> /\ ~(q.op \in {"adjust", "reserve"} /\ at = "record") => Wrote(c, {})'
    BY <1>3, <2>1, <2>5 DEF InventoryAt, Wrote
  <2> QED
    BY <1>2, <1>6, <2>1, <2>2, <2>3, <2>4, <2>6 DEF InventoryAt
<1>13. q.op = "close" => CloseAt(c)'
  BY <1>2, <1>4, <1>6 DEF CloseAt
<1>14. q.op = "confirmOrder" => ConfirmingAt(c)'
  BY <1>10 DEF ConfirmingAt
<1>15. q.op \in {"cancelOrder", "fulfillOrder"} => EndingAt(c)'
  BY <1>4, <1>11 DEF EndingAt
<1> QED
  BY <1>2, <1>4, <1>12, <1>13, <1>14, <1>15 DEF StageOK
LEMMA TailIs ==
  ASSUME NEW S, NEW s \in Seq(S), s # <<>>
  PROVE  /\ Tail(s) \in Seq(S) /\ Len(s) \in Nat \ {0} /\ Len(Tail(s)) = Len(s) - 1
         /\ \A i \in 1..Len(Tail(s)) : Tail(s)[i] = s[i + 1]
         /\ Head(s) = s[1] /\ (Tail(s) # <<>> => Head(Tail(s)) = s[2])
OBVIOUS

LEMMA OneTwoMore ==
  ASSUME NEW n \in Nat \ {0}
  PROVE  (n = 1 \/ n = 2 \/ n >= 3) /\ (n - 1 <= 1 => n = 1 \/ n = 2)
OBVIOUS

\* A part of a confirmation is done.
LEMMA ConfirmReturns ==
  ASSUME WorkflowInv, NEW c \in Clients, NEW q \in Calls, q = session[c].call,
         q.op = "confirmOrder", ConfirmsLines(c), session[c].todo # <<>>,
         NEW a, a = Arg(c), NEW w, Returns(c, w),
         OrderRow(q.order) \notin DOMAIN w,
         JournalRow("revenue", q.order) \in DOMAIN w =>
           w[JournalRow("revenue", q.order)].status # Absent,
         a.op = "revenue" => Status(c, JournalRow("revenue", q.order))' # Absent,
         a.op # "succeed" => OwnRun(c) \notin DOMAIN w,
         a.op = "succeed" => /\ OwnRun(c) \in DOMAIN w /\ w[OwnRun(c)].status = "succeeded"
                             /\ ConfirmationRow(q.order) \in DOMAIN w
  PROVE  ConfirmingAt(c)' /\ session'[c].call = q /\ session'[c].todo \in Seq(Jobs)
<1> SUFFICES ASSUME NEW todo, todo = session[c].todo,
                    NEW r, r = OrderRow(q.order), NEW j, j = JournalRow("revenue", q.order)
             PROVE  ConfirmingAt(c)' /\ session'[c].call = q /\ session'[c].todo \in Seq(Jobs)
  OBVIOUS
<1>1. /\ RunOK(c) /\ Rest(todo, ConfirmPlan(q))
      /\ r \in session[c].locks /\ Status(c, r) = "confirmed" /\ Sees(c, r).key = q.key
      /\ Len(todo) <= 1 => Status(c, j) # Absent
  BY DEF ConfirmsLines
<1>2. /\ Rest(Tail(todo), ConfirmPlan(q)) /\ Len(todo) \in Nat \ {0}
      /\ Len(Tail(todo)) = Len(todo) - 1 /\ (Tail(todo) = <<>> <=> Len(todo) = 1)
      /\ (Tail(todo) # <<>> => Head(Tail(todo)) \in Parts)
      /\ Len(todo) = 1 => Head(todo).op = "succeed"
      /\ Len(todo) = 2 => Head(todo).op = "revenue"
      /\ Len(todo) >= 3 => Head(todo).op = "reserve"
  BY <1>1, ConfirmJob
<1>3. Continues(c, w, Tail(todo)) /\ SessionShape
  BY DEF Returns, WorkflowInv
<1>4. AtJob(c)' /\ \E at, row : Proceed(c, w, at, row, Tail(todo))
  BY <1>2, <1>3, NextPart
<1>5. PICK at, row : Proceed(c, w, at, row, Tail(todo))
  BY <1>4
<1>6. /\ session'[c].call = q /\ session'[c].todo = Tail(todo)
      /\ session'[c].locks = session[c].locks \cup Locked(c)
  BY <1>3, <1>5, Proceeds
<1>7. /\ DOMAIN session'[c].mine = DOMAIN w \cup DOMAIN session[c].mine
      /\ \A x \in DOMAIN w : Sees(c, x)' = w[x] /\ Status(c, x)' = w[x].status
      /\ \A x : x \notin DOMAIN w => Sees(c, x)' = Sees(c, x) /\ Status(c, x)' = Status(c, x)
  BY <1>3, <1>5, SeesThen
<1>8. a = Head(todo)
  BY DEF Arg
<1>9. Tail(todo) \in Seq(Jobs)
  BY <1>2 DEF Rest
<1>10. Status(c, r)' = "confirmed" /\ Sees(c, r)'.key = q.key
  BY <1>1, <1>7
<1>11. Len(Tail(todo)) <= 1 => Status(c, j)' # Absent
  <2>1. CASE Len(todo) = 1
    BY <1>1, <1>7, <2>1
  <2>2. CASE Len(todo) = 2
    BY <1>2, <1>8, <2>2
  <2>3. Len(Tail(todo)) <= 1 => Len(todo) = 1 \/ Len(todo) = 2
    BY <1>2, OneTwoMore
  <2> QED
    BY <2>1, <2>2, <2>3
<1>12. CASE Tail(todo) = <<>>
  <2>1. a.op = "succeed"
    BY <1>2, <1>8, <1>12
  <2>2. OwnRun(c)' = OwnRun(c)
    BY <1>6 DEF OwnRun, Asked
  <2>3. /\ OwnRun(c) \in DOMAIN session'[c].mine
        /\ session'[c].mine[OwnRun(c)] = w[OwnRun(c)]
    <3>1. session'[c].mine = Over(w, session[c].mine)
      BY <1>3, <1>5, Proceeds
    <3> QED
      BY <1>7, <2>1, <3>1 DEF Over
  <2>4. RunOK(c)'
    BY <1>6, <1>12, <2>1, <2>2, <2>3 DEF RunOK
  <2>5. ConfirmationRow(q.order) \in DOMAIN session'[c].mine
    BY <1>7, <2>1
  <2>6. ConfirmsLines(c)'
    BY <1>1, <1>2, <1>4, <1>6, <1>10, <1>11, <2>4, <2>5 DEF ConfirmsLines
  <2> QED
    BY <1>6, <1>9, <2>6 DEF ConfirmingAt
<1>13. CASE Tail(todo) # <<>>
  <2>1. Len(todo) = 2 \/ Len(todo) >= 3
    BY <1>2, <1>13, OneTwoMore
  <2>2. a.op # "succeed"
    BY <1>2, <1>8, <2>1
  <2>3. RunOK(c)'
    BY <1>1, <1>3, <1>5, <1>13, <2>2, RunGoesOn
  <2>4. ConfirmsLines(c)'
    BY <1>1, <1>2, <1>4, <1>6, <1>10, <1>11, <1>13, <2>3 DEF ConfirmsLines
  <2> QED
    BY <1>6, <1>9, <2>4 DEF ConfirmingAt
<1> QED
  BY <1>12, <1>13
LEMMA EndFields == \A op, key : LET a == [op |-> op, key |-> key] IN a.op = op /\ a.key = key
OBVIOUS

\* A part of an order's end is done.
LEMMA EndReturns ==
  ASSUME WorkflowInv, NEW c \in Clients, NEW q \in Calls, q = session[c].call,
         q.op \in {"cancelOrder", "fulfillOrder"}, NEW k \in WorkflowKeys, EndsLines(c, k),
         session[c].todo # <<>>,
         NEW a, a = Arg(c), NEW w, Returns(c, w),
         OrderRow(q.order) \notin DOMAIN w,
         JournalRow("reversal", q.order) \in DOMAIN w =>
           w[JournalRow("reversal", q.order)].status # Absent,
         a.op = "reversal" => Status(c, JournalRow("reversal", q.order))' # Absent,
         a.op # "succeed" => OwnRun(c) \notin DOMAIN w,
         a.op = "succeed" => OwnRun(c) \in DOMAIN w /\ w[OwnRun(c)].status = "succeeded",
         \A key : ReservationRow(key) \in DOMAIN w =>
           a.op \in {"release", "fulfill"} /\ key = a.key,
         a.op \in {"release", "fulfill"} =>
           ReservationRow(a.key) \in session'[c].locks /\ Status(c, ReservationRow(a.key))' = Ends[a.op]
  PROVE  EndingAt(c)' /\ session'[c].call = q /\ session'[c].todo \in Seq(Jobs)
<1> SUFFICES ASSUME NEW todo, todo = session[c].todo, todo # <<>>,
                    NEW r, r = OrderRow(q.order), NEW j, j = JournalRow("reversal", q.order),
                    NEW n, n = NextIn(EndPlan(q, k), todo),
                    NEW op, op = IF q.op = "cancelOrder" THEN "release" ELSE "fulfill"
             PROVE  EndingAt(c)' /\ session'[c].call = q /\ session'[c].todo \in Seq(Jobs)
  OBVIOUS
<1>1. /\ Holds(c) /\ FirstToEnd(c) /\ RunOK(c)
      /\ k \in Confirmations(q.order) /\ Rest(todo, EndPlan(q, k))
      /\ \A i \in DOMAIN OrderLines[q.order] :
           i <= Len(EndPlan(q, k)) - Len(todo) => Ended(c, <<k, i>>, Outcome(q))
      /\ q.op = "cancelOrder" => /\ r \in session[c].locks /\ Status(c, r) = "cancelled"
                                 /\ Len(todo) <= 1 => Status(c, j) # Absent
  BY DEF EndsLines
<1>2. /\ Rest(Tail(todo), EndPlan(q, k)) /\ Len(todo) \in Nat \ {0}
      /\ Len(EndPlan(q, k)) \in Nat /\ q.order \in Orders
      /\ Len(Tail(todo)) = Len(todo) - 1 /\ (Tail(todo) = <<>> <=> Len(todo) = 1)
      /\ (Tail(todo) # <<>> => Head(Tail(todo)) \in Parts)
      /\ n \in DOMAIN OrderLines[q.order] => Head(todo) = [op |-> op, key |-> <<k, n>>]
      /\ n \notin DOMAIN OrderLines[q.order] =>
           \/ Len(todo) = 1 /\ Head(todo).op = "succeed"
           \/ Len(todo) = 2 /\ Head(todo).op = "reversal" /\ q.op = "cancelOrder"
      /\ Len(todo) = 1 => n \notin DOMAIN OrderLines[q.order]
      /\ Len(todo) = 2 /\ q.op = "cancelOrder" => n \notin DOMAIN OrderLines[q.order]
  <2>1. Rest(todo, EndPlan(q, k))
    BY <1>1
  <2>2. /\ Rest(Tail(todo), EndPlan(q, k)) /\ Len(todo) \in Nat \ {0}
        /\ Len(EndPlan(q, k)) \in Nat /\ q.order \in Orders
        /\ Len(Tail(todo)) = Len(todo) - 1 /\ (Tail(todo) = <<>> <=> Len(todo) = 1)
        /\ (Tail(todo) # <<>> => Head(Tail(todo)) \in Parts)
    BY <2>1, EndJob
  <2>3. /\ n \in DOMAIN OrderLines[q.order] =>
             Head(todo) = [op |-> IF q.op = "cancelOrder" THEN "release" ELSE "fulfill",
                           key |-> <<k, n>>]
        /\ n \notin DOMAIN OrderLines[q.order] =>
             \/ Len(todo) = 1 /\ Head(todo).op = "succeed"
             \/ Len(todo) = 2 /\ Head(todo).op = "reversal" /\ q.op = "cancelOrder"
        /\ Len(todo) = 1 => n \notin DOMAIN OrderLines[q.order]
        /\ Len(todo) = 2 /\ q.op = "cancelOrder" => n \notin DOMAIN OrderLines[q.order]
    BY <2>1, EndJob
  <2> QED
    BY <2>2, <2>3
<1>3. Continues(c, w, Tail(todo)) /\ SessionShape
  BY DEF Returns, WorkflowInv
<1>4. AtJob(c)' /\ \E at, row : Proceed(c, w, at, row, Tail(todo))
  BY <1>2, <1>3, NextPart
<1>5. PICK at, row : Proceed(c, w, at, row, Tail(todo))
  BY <1>4
<1>6. /\ session'[c].call = q /\ session'[c].todo = Tail(todo)
      /\ session'[c].locks = session[c].locks \cup Locked(c)
      /\ session'[c].mine = Over(w, session[c].mine)
  BY <1>3, <1>5, Proceeds
<1>7. /\ DOMAIN session'[c].mine = DOMAIN w \cup DOMAIN session[c].mine
      /\ \A x \in DOMAIN w : Sees(c, x)' = w[x] /\ Status(c, x)' = w[x].status
      /\ \A x : x \notin DOMAIN w => Sees(c, x)' = Sees(c, x) /\ Status(c, x)' = Status(c, x)
  BY <1>3, <1>5, SeesThen
<1>8. a = Head(todo)
  BY DEF Arg
<1>9. Tail(todo) \in Seq(Jobs)
  BY <1>2 DEF Rest
<1>10. Holds(c)' /\ FirstToEnd(c)' /\ Confirmations(q.order)' = Confirmations(q.order)
  BY <1>1, <1>3, <1>5, HoldsGoesOn
<1>11. ASSUME q.op = "cancelOrder"
       PROVE  /\ r \in session'[c].locks /\ Status(c, r)' = "cancelled"
              /\ Len(Tail(todo)) <= 1 => Status(c, j)' # Absent
  <2>1. CASE Len(todo) = 1
    BY <1>1, <1>6, <1>7, <1>11, <2>1
  <2>2. CASE Len(todo) = 2
    BY <1>1, <1>2, <1>6, <1>7, <1>8, <1>11, <2>2
  <2>3. Len(Tail(todo)) <= 1 => Len(todo) = 1 \/ Len(todo) = 2
    BY <1>2, OneTwoMore
  <2>4. r \in session'[c].locks /\ Status(c, r)' = "cancelled"
    BY <1>1, <1>6, <1>7, <1>11
  <2> QED
    BY <2>1, <2>2, <2>3, <2>4
<1>12. RunOK(c)'
  <2>1. CASE Tail(todo) = <<>>
    <3>1. n \notin DOMAIN OrderLines[q.order] /\ Len(todo) = 1
      BY <1>2, <2>1
    <3>2. a.op = "succeed"
      BY <1>2, <1>8, <3>1
    <3>3. OwnRun(c)' = OwnRun(c)
      BY <1>6 DEF OwnRun, Asked
    <3>4. OwnRun(c) \in DOMAIN session'[c].mine /\ session'[c].mine[OwnRun(c)] = w[OwnRun(c)]
      BY <1>6, <1>7, <3>2 DEF Over
    <3> QED
      BY <1>6, <2>1, <3>2, <3>3, <3>4 DEF RunOK
  <2>2. CASE Tail(todo) # <<>>
    <3>1. a.op # "succeed"
      <4>1. Len(todo) # 1
        BY <1>2, <2>2
      <4>2. CASE n \in DOMAIN OrderLines[q.order]
        BY <1>2, <1>8, <4>2
      <4>3. CASE n \notin DOMAIN OrderLines[q.order]
        BY <1>2, <1>8, <4>1, <4>3
      <4> QED
        BY <4>2, <4>3
    <3> QED
      BY <1>1, <1>3, <1>5, <2>2, <3>1, RunGoesOn
  <2> QED
    BY <2>1, <2>2
<1>13. ASSUME NEW i \in DOMAIN OrderLines[q.order], i <= Len(EndPlan(q, k)) - Len(Tail(todo))
       PROVE  Ended(c, <<k, i>>, Outcome(q))'
  <2>0. n = Len(EndPlan(q, k)) - Len(todo) + 1
    BY DEF NextIn
  <2>1. i \in Nat /\ n \in Int
    BY <1>2, <2>0, LinesAre
  <2>2. i <= n
    <3> SUFFICES ASSUME NEW p \in Nat, p = Len(EndPlan(q, k)), NEW t \in Nat, t = Len(todo),
                        Len(Tail(todo)) = t - 1
                 PROVE  i <= n
      BY <1>2
    <3> QED
      BY <1>13, <2>0, <2>1
  <2>3. CASE i = n
    <3>1. a = [op |-> op, key |-> <<k, i>>]
      BY <1>2, <1>8, <2>3
    <3>2. a.key = <<k, i>> /\ a.op = op
      BY <3>1
    <3>3. Ends[a.op] = Outcome(q) /\ a.op \in {"release", "fulfill"}
      BY <3>2 DEF Ends, Outcome
    <3>4. ReservationRow(<<k, i>>) \in Rows
      BY <1>2, LinesAre, StockRowsAre DEF Rows
    <3> QED
      BY <1>6, <3>2, <3>3, <3>4 DEF Ended
  <2>4. CASE i # n
    <3>1. i <= Len(EndPlan(q, k)) - Len(todo)
      <4> SUFFICES ASSUME NEW p \in Nat, p = Len(EndPlan(q, k)), NEW t \in Nat, t = Len(todo)
                   PROVE  i <= p - t
        BY <1>2
      <4> QED
        BY <2>0, <2>1, <2>2, <2>4
    <3>2. Ended(c, <<k, i>>, Outcome(q))
      BY <1>1, <3>1
    <3>3. a.op \in {"release", "fulfill"} => a.key # <<k, i>>
      <4>1. CASE n \in DOMAIN OrderLines[q.order]
        <5>1. a = [op |-> op, key |-> <<k, n>>]
          BY <1>2, <1>8, <4>1
        <5>2. a.key = <<k, n>>
          BY <5>1, EndFields
        <5>3. <<k, n>> # <<k, i>>
          BY <2>4
        <5> QED
          BY <5>2, <5>3
      <4>2. CASE n \notin DOMAIN OrderLines[q.order]
        BY <1>2, <1>8, <4>2
      <4> QED
        BY <4>1, <4>2
    <3>4. ReservationRow(<<k, i>>) \notin DOMAIN w
      BY <3>3
    <3> QED
      BY <1>3, <1>5, <3>2, <3>4, EndedGoesOn
  <2> QED
    BY <2>3, <2>4
<1>14. EndsLines(c, k)'
  <2> DEFINE end(i) == Ended(c, <<k, i>>, Outcome(q))
  <2>1. \A i \in DOMAIN OrderLines[q.order] :
          i <= Len(EndPlan(q, k)) - Len(Tail(todo)) => end(i)'
    BY <1>13
  <2> HIDE DEF end
  <2> QED
    BY <1>1, <1>2, <1>4, <1>6, <1>10, <1>11, <1>12, <2>1 DEF EndsLines, end
<1> QED
  BY <1>6, <1>9, <1>14 DEF EndingAt
\* What a part of a draft, or of a transfer's confirmation or completion, leaves.
LEMMA DraftTail ==
  ASSUME NEW q \in Calls, q.op = "draft", NEW todo \in Seq(Jobs), todo # <<>>, DraftLeft(todo, q)
  PROVE  /\ DraftLeft(Tail(todo), q) /\ Tail(todo) # <<q>>
         /\ Tail(todo) = <<>> => Head(todo) = [q EXCEPT !.op = "insert"]
         /\ Tail(todo) # <<>> => Head(todo) \in ItemJobs /\ Head(Tail(todo)) \in Parts
<1> DEFINE t == Tail(todo)
           last == [q EXCEPT !.op = "insert"]
<1>1. /\ t \in Seq(Jobs) /\ Len(todo) \in Nat \ {0} /\ Len(t) = Len(todo) - 1
      /\ \A i \in 1..Len(t) : t[i] = todo[i + 1]
      /\ Head(todo) = todo[1] /\ (t # <<>> => Head(t) = todo[2])
      /\ t = <<>> <=> Len(t) = 0
  BY TailIs, EmptyIs
<1>2. last.op = "insert" /\ last \in Parts
  BY InsertJob
<1>3. \A i \in 1..Len(todo) : IF i = Len(todo) THEN todo[i] = last ELSE todo[i] \in ItemJobs
  BY DEF DraftLeft
<1> HIDE DEF t, last
<1>4. \A i \in 1..Len(t) : i + 1 \in 1..Len(todo) /\ (i = Len(t) <=> i + 1 = Len(todo))
  BY <1>1
<1>5. \A i \in 1..Len(t) : IF i = Len(t) THEN t[i] = last ELSE t[i] \in ItemJobs
  BY <1>1, <1>3, <1>4
<1>6. t = <<>> => Head(todo) = last
  BY <1>1, <1>3
<1>7. t # <<>> => Len(todo) >= 2
  BY <1>1
<1>8. t # <<>> => Head(todo) \in ItemJobs
  BY <1>1, <1>3, <1>7
<1>9. t # <<>> => Head(t) \in Parts
  <2>1. 2 \in 1..Len(todo) => todo[2] = last \/ todo[2] \in ItemJobs
    BY <1>3
  <2>2. t # <<>> => 2 \in 1..Len(todo)
    BY <1>1, <1>7
  <2> QED
    BY <1>1, <1>2, <2>1, <2>2 DEF Parts
<1>10. t # <<q>>
  <2> SUFFICES ASSUME t = <<q>>
               PROVE  FALSE
    OBVIOUS
  <2>1. Len(t) = 1 /\ t[1] = q
    OBVIOUS
  <2>2. t[1] = last
    BY <1>5, <2>1
  <2> QED
    BY <1>2, <2>1, <2>2
<1> QED
  BY <1>5, <1>6, <1>8, <1>9, <1>10 DEF DraftLeft, t, last

LEMMA MovesTail ==
  ASSUME NEW op \in {"ship", "arrive"}, NEW todo \in Seq(Jobs), todo # <<>>, MovesLeft(todo, op)
  PROVE  /\ MovesLeft(Tail(todo), op) /\ Head(todo).op = op
         /\ Tail(todo) # <<>> => Head(Tail(todo)) \in Parts /\ Head(Tail(todo)).op = op
<1> DEFINE t == Tail(todo)
<1>1. /\ t \in Seq(Jobs) /\ Len(todo) \in Nat \ {0} /\ Len(t) = Len(todo) - 1
      /\ \A i \in 1..Len(t) : t[i] = todo[i + 1]
      /\ Head(todo) = todo[1] /\ (t # <<>> => Head(t) = todo[2])
      /\ t = <<>> <=> Len(t) = 0
  BY TailIs, EmptyIs
<1>2. \A i \in 1..Len(todo) : todo[i] \in MoveJobs /\ todo[i].op = op
  BY DEF MovesLeft
<1> HIDE DEF t
<1>3. \A i \in 1..Len(t) : i + 1 \in 1..Len(todo)
  BY <1>1
<1>4. \A i \in 1..Len(t) : t[i] \in MoveJobs /\ t[i].op = op
  BY <1>1, <1>2, <1>3
<1>5. t # <<>> => 2 \in 1..Len(todo)
  BY <1>1
<1>6. t # <<>> => Head(t) \in Parts /\ Head(t).op = op
  BY <1>1, <1>2, <1>5 DEF Parts
<1> QED
  BY <1>1, <1>2, <1>4, <1>6 DEF MovesLeft, t

\* A part of a call of Inventory is done.
LEMMA InventoryReturns ==
  ASSUME WorkflowInv, NEW c \in Clients, NEW q \in Calls, q = session[c].call,
         q.op \in InventoryOps, InventoryAt(c), session[c].todo # <<>>, session[c].todo \in Seq(Jobs),
         NEW a, a = Arg(c), a.op # "draft", NEW w, Returns(c, w),
         \A key : TransferRow(key) \in DOMAIN w => a.op = "insert",
         a.op = "insert" => Status(c, TransferRow(a.transfer))' # Absent,
         Effect(c, a)'
  PROVE  InventoryAt(c)' /\ session'[c].call = q /\ session'[c].todo \in Seq(Jobs)
<1> SUFFICES ASSUME NEW todo, todo = session[c].todo, NEW r, r = TransferRow(q.transfer)
             PROVE  InventoryAt(c)' /\ session'[c].call = q /\ session'[c].todo \in Seq(Jobs)
  OBVIOUS
<1>1. a = Head(todo) /\ todo # <<>> /\ todo \in Seq(Jobs)
  BY DEF Arg
<1>2. Tail(todo) \in Seq(Jobs)
  BY <1>1, TailIs
<1>3. Continues(c, w, Tail(todo)) /\ SessionShape
  BY DEF Returns, WorkflowInv
<1>4. ASSUME Tail(todo) # <<>> => Head(Tail(todo)) \in Parts
      PROVE  /\ AtJob(c)' /\ session'[c].call = q /\ session'[c].todo = Tail(todo)
             /\ \A x : x \notin DOMAIN w => Status(c, x)' = Status(c, x)
             /\ NewTransfer(c) /\ r \notin DOMAIN w => NewTransfer(c)'
  <2>1. AtJob(c)' /\ \E at, row : Proceed(c, w, at, row, Tail(todo))
    BY <1>3, <1>4, NextPart
  <2>2. PICK at, row : Proceed(c, w, at, row, Tail(todo))
    BY <2>1
  <2>3. session'[c].call = q /\ session'[c].todo = Tail(todo)
    BY <1>3, <2>2, Proceeds
  <2>4. \A x : x \notin DOMAIN w => Status(c, x)' = Status(c, x)
    BY <1>3, <2>2, SeesThen
  <2>5. NewTransfer(c) /\ r \notin DOMAIN w => NewTransfer(c)'
    BY <1>3, <2>2, NewGoesOn
  <2> QED
    BY <2>1, <2>3, <2>4, <2>5
<1>5. CASE todo = <<q>>
  <2>1. Tail(todo) = <<>> /\ a = q
    BY <1>1, <1>5, HeadOfOne
  <2>2. AtJob(c)' /\ session'[c].call = q /\ session'[c].todo = <<>>
    BY <1>4, <2>1
  <2>3. MovesLeft(<<>>, "ship") /\ MovesLeft(<<>>, "arrive")
    BY DEF MovesLeft
  <2>4. Effect(c, q)' /\ <<>> # <<q>> /\ q.op # "draft"
    BY <2>1
  <2> QED
    BY <1>2, <2>1, <2>2, <2>3, <2>4 DEF InventoryAt, InventoryOps
<1>6. CASE todo # <<q>> /\ q.op = "draft"
  <2>1. DraftLeft(todo, q)
    BY <1>1, <1>6 DEF InventoryAt
  <2>2. /\ DraftLeft(Tail(todo), q) /\ Tail(todo) # <<q>>
        /\ Tail(todo) = <<>> => a = [q EXCEPT !.op = "insert"]
        /\ Tail(todo) # <<>> => a \in ItemJobs /\ Head(Tail(todo)) \in Parts
    BY <1>1, <1>6, <2>1, DraftTail
  <2>3. /\ AtJob(c)' /\ session'[c].call = q /\ session'[c].todo = Tail(todo)
        /\ NewTransfer(c) /\ r \notin DOMAIN w => NewTransfer(c)'
    BY <1>4, <2>2
  <2>4. ASSUME Tail(todo) = <<>>
        PROVE  Effect(c, q)'
    <3>1. a.op = "insert" /\ a.transfer = q.transfer
      BY <1>6, <2>2, <2>4, InsertJob
    <3> QED
      BY <1>6, <3>1 DEF Effect
  <2>5. ASSUME Tail(todo) # <<>>
        PROVE  NewTransfer(c)'
    <3>1. a.op = "item"
      BY <2>2, <2>5 DEF ItemJobs
    <3>2. NewTransfer(c)
      BY <1>1, <1>6 DEF InventoryAt
    <3> QED
      BY <2>3, <3>1, <3>2
  <2> QED
    BY <1>2, <1>6, <2>2, <2>3, <2>4, <2>5 DEF InventoryAt
<1>7. ASSUME todo # <<q>>, NEW op,
             \/ q.op = "confirm" /\ op = "ship"
             \/ q.op = "complete" /\ op = "arrive"
      PROVE  InventoryAt(c)' /\ session'[c].call = q /\ session'[c].todo \in Seq(Jobs)
  <2>1. MovesLeft(todo, op) /\ Effect(c, q) /\ op \in {"ship", "arrive"}
    BY <1>1, <1>7 DEF InventoryAt
  <2>2. /\ MovesLeft(Tail(todo), op) /\ a.op = op
        /\ Tail(todo) # <<>> => Head(Tail(todo)) \in Parts /\ Head(Tail(todo)).op = op
    BY <1>1, <2>1, MovesTail
  <2>3. /\ AtJob(c)' /\ session'[c].call = q /\ session'[c].todo = Tail(todo)
        /\ \A x : x \notin DOMAIN w => Status(c, x)' = Status(c, x)
    BY <1>4, <2>2
  <2>4. Status(c, r)' = Status(c, r)
    BY <2>1, <2>2, <2>3
  <2>5. Effect(c, q)'
    BY <1>7, <2>1, <2>4 DEF Effect
  <2>6. Tail(todo) # <<q>>
    <3>1. <<q>> # <<>> /\ Head(<<q>>) = q /\ q.op # op
      BY <1>7, HeadOfOne
    <3> QED
      BY <2>2, <3>1
  <2> QED
    BY <1>2, <1>7, <2>2, <2>3, <2>5, <2>6 DEF InventoryAt
<1>8. \/ todo = <<q>> \/ q.op = "draft" \/ q.op = "confirm" \/ q.op = "complete"
  BY <1>1 DEF InventoryAt
<1> QED
  BY <1>5, <1>6, <1>7, <1>8

\* Whose job it is.
LEMMA JobOf ==
  ASSUME WorkflowInv, NEW c \in Clients, session[c] # Idle, NEW q, q = session[c].call,
         NEW a, a = Arg(c),
         \/ session[c].at \in JobLabels
         \/ session[c].todo # <<>> /\ a.op \in PartOps \cup InventoryOps \cup {"close"}
  PROVE  /\ a.op \in {"receive", "adjust", "draft", "confirm", "complete", "close"} =>
              a = q /\ session[c].todo = <<q>>
         /\ a.op = "reserve" => q.op \in {"reserve", "confirmOrder"}
         /\ a.op = "reserve" /\ q.op = "reserve" => a = q /\ session[c].todo = <<q>>
         /\ a.op \in {"release", "fulfill"} =>
              q.op \in {"release", "fulfill", "cancelOrder", "fulfillOrder"}
         /\ a.op \in {"item", "insert"} => q.op = "draft" /\ NewTransfer(c)
         /\ a.op = "insert" => a.transfer = q.transfer
         /\ a.op \in {"ship", "arrive"} => q.op \in {"confirm", "complete"}
         /\ a.op = "revenue" => q.op = "confirmOrder"
         /\ a.op = "reversal" => q.op = "cancelOrder"
         /\ a.op = "succeed" => q.op \in Workflows
         /\ Direct(c) => a.op \notin {"revenue", "reversal", "succeed", "close"}
<1> SUFFICES ASSUME NEW todo, todo = session[c].todo
             PROVE  /\ a.op \in {"receive", "adjust", "draft", "confirm", "complete", "close"} =>
                         a = q /\ todo = <<q>>
                    /\ a.op = "reserve" => q.op \in {"reserve", "confirmOrder"}
                    /\ a.op = "reserve" /\ q.op = "reserve" => a = q /\ todo = <<q>>
                    /\ a.op \in {"release", "fulfill"} =>
                         q.op \in {"release", "fulfill", "cancelOrder", "fulfillOrder"}
                    /\ a.op \in {"item", "insert"} => q.op = "draft" /\ NewTransfer(c)
                    /\ a.op = "insert" => a.transfer = q.transfer
                    /\ a.op \in {"ship", "arrive"} => q.op \in {"confirm", "complete"}
                    /\ a.op = "revenue" => q.op = "confirmOrder"
                    /\ a.op = "reversal" => q.op = "cancelOrder"
                    /\ a.op = "succeed" => q.op \in Workflows
                    /\ Direct(c) => a.op \notin {"revenue", "reversal", "succeed", "close"}
  OBVIOUS
<1>1. /\ q \in Calls /\ todo \in Seq(Jobs) /\ todo # <<>>
      /\ a.op \in PartOps \cup InventoryOps \cup {"close"}
      /\ q.op = "confirmOrder" => ConfirmsLines(c)
      /\ q.op \in {"cancelOrder", "fulfillOrder"} => \E k \in WorkflowKeys : EndsLines(c, k)
      /\ q.op \notin {"salesConfirm", "salesCancel"}
      /\ q.op = "close" => CloseAt(c)
      /\ q.op \in InventoryOps => InventoryAt(c)
  BY JobStage
<1>2. Direct(c) => q.op \in InventoryOps
  BY DEF Direct
<1>3. a = Head(todo)
  BY DEF Arg
<1>4. q.op \in CallOps
  BY <1>1 DEF Calls
<1>5. CASE q.op = "confirmOrder"
  <2>1. Rest(todo, ConfirmPlan(q))
    BY <1>1, <1>5 DEF ConfirmsLines
  <2>2. a.op \in {"reserve", "revenue", "succeed"}
    BY <1>1, <1>3, <1>5, <2>1, ConfirmJob, OneTwoMore
  <2> QED
    BY <1>2, <1>5, <2>2 DEF Workflows, InventoryOps
<1>6. CASE q.op \in {"cancelOrder", "fulfillOrder"}
  <2>1. PICK k \in WorkflowKeys : EndsLines(c, k)
    BY <1>1, <1>6
  <2>2. Rest(todo, EndPlan(q, k))
    BY <2>1 DEF EndsLines
  <2>3. ASSUME NEW n, n = NextIn(EndPlan(q, k), todo)
        PROVE  a.op \in {"release", "fulfill", "succeed"} \/ (a.op = "reversal" /\ q.op = "cancelOrder")
    <3>1. /\ n \in DOMAIN OrderLines[q.order] =>
               Head(todo) = [op |-> IF q.op = "cancelOrder" THEN "release" ELSE "fulfill",
                             key |-> <<k, n>>]
          /\ n \notin DOMAIN OrderLines[q.order] =>
               \/ Len(todo) = 1 /\ Head(todo).op = "succeed"
               \/ Len(todo) = 2 /\ Head(todo).op = "reversal" /\ q.op = "cancelOrder"
      <4>1. q \in Calls /\ todo # <<>>
        BY <1>1
      <4> QED
        BY <1>6, <2>2, <2>3, <4>1, EndJob
    <3> QED
      BY <1>3, <3>1, EndFields
  <2>4. a.op \in {"release", "fulfill", "succeed"} \/ (a.op = "reversal" /\ q.op = "cancelOrder")
    BY <2>3
  <2> QED
    BY <1>2, <1>6, <2>4 DEF Workflows, InventoryOps
<1>7. CASE q.op = "close"
  <2>1. todo = <<q>> /\ a = q
    BY <1>1, <1>3, <1>7, HeadOfOne DEF CloseAt
  <2> QED
    BY <1>2, <1>7, <2>1 DEF InventoryOps
<1>8. CASE q.op \in InventoryOps
  <2>1. CASE todo = <<q>>
    <3>1. a = q
      BY <1>3, <2>1, HeadOfOne
    <3> QED
      BY <1>2, <1>8, <2>1, <3>1 DEF InventoryOps
  <2>2. CASE todo # <<q>> /\ q.op = "draft"
    <3>1. DraftLeft(todo, q) /\ NewTransfer(c)
      BY <1>1, <1>8, <2>2 DEF InventoryAt
    <3>2. a = [q EXCEPT !.op = "insert"] \/ a \in ItemJobs
      BY <1>1, <1>3, <2>2, <3>1, DraftTail
    <3>3. CASE a = [q EXCEPT !.op = "insert"]
      <4>1. a.op = "insert" /\ a.transfer = q.transfer
        BY <1>1, <2>2, <3>3, InsertJob
      <4> QED
        BY <2>2, <3>1, <4>1
    <3>4. CASE a \in ItemJobs
      <4>1. a.op = "item"
        BY <3>4 DEF ItemJobs
      <4> QED
        BY <2>2, <3>1, <4>1
    <3> QED
      BY <3>2, <3>3, <3>4
  <2>3. CASE todo # <<q>> /\ q.op # "draft"
    <3>1. \/ MovesLeft(todo, "ship") /\ q.op = "confirm"
          \/ MovesLeft(todo, "arrive") /\ q.op = "complete"
      BY <1>1, <1>8, <2>3 DEF InventoryAt
    <3>2. a.op \in {"ship", "arrive"}
      BY <1>1, <1>3, <3>1, MovesTail
    <3> QED
      BY <3>1, <3>2
  <2> QED
    BY <2>1, <2>2, <2>3
<1> QED
  BY <1>1, <1>4, <1>5, <1>6, <1>7, <1>8 DEF CallOps, Workflows

\* A job of Inventory is done, which wrote w.
LEMMA JobReturns ==
  ASSUME WorkflowInv, NEW c \in Clients, session[c] # Idle,
         session[c].todo # <<>>, NEW a, a = Arg(c),
         a.op \in (PartOps \cup InventoryOps) \ {"draft", "revenue", "reversal", "succeed"},
         NEW w, Returns(c, w), DOMAIN w \subseteq StockRows,
         \A key : TransferRow(key) \in DOMAIN w => a.op = "insert",
         \A key : ReservationRow(key) \in DOMAIN w =>
           a.op \in {"reserve", "release", "fulfill"} /\ key = a.key,
         a.op = "insert" => Status(c, TransferRow(a.transfer))' # Absent,
         Effect(c, a)'
  PROVE  StageOK(c)'
<1> SUFFICES ASSUME NEW q, q = session[c].call
             PROVE  StageOK(c)'
  OBVIOUS
<1>1. /\ q \in Calls /\ session[c].todo \in Seq(Jobs)
      /\ q.op = "confirmOrder" => ConfirmsLines(c)
      /\ q.op \in {"cancelOrder", "fulfillOrder"} => \E k \in WorkflowKeys : EndsLines(c, k)
      /\ q.op \notin {"salesConfirm", "salesCancel"}
      /\ q.op = "close" => CloseAt(c)
      /\ q.op \in InventoryOps => InventoryAt(c)
  BY JobStage
<1>2. q.op \in CallOps
  BY <1>1 DEF Calls
<1>3. /\ \A o : OrderRow(o) \notin DOMAIN w
      /\ \A kind, o : JournalRow(kind, o) \notin DOMAIN w
      /\ OwnRun(c) \notin DOMAIN w
  <2>1. \A r \in DOMAIN w : r[1] \in {"balance", "reservation", "correction", "transfer"}
    BY StockRowKinds
  <2> QED
    BY <2>1, OrderKinds, OwnRunIs
<1>4. CASE q.op = "confirmOrder"
  <2>1. ConfirmingAt(c)' /\ session'[c].call = q /\ session'[c].todo \in Seq(Jobs)
    BY <1>1, <1>3, <1>4, ConfirmReturns
  <2> QED
    BY <1>1, <1>4, <2>1 DEF StageOK, InventoryOps
<1>5. CASE q.op \in {"cancelOrder", "fulfillOrder"}
  <2>1. PICK k \in WorkflowKeys : EndsLines(c, k)
    BY <1>1, <1>5
  <2>2. a.op # "reserve"
    BY <1>5, JobOf
  <2>3. a.op \in {"release", "fulfill"} =>
           ReservationRow(a.key) \in session'[c].locks /\ Status(c, ReservationRow(a.key))' = Ends[a.op]
    BY DEF Effect
  <2>4. EndingAt(c)' /\ session'[c].call = q /\ session'[c].todo \in Seq(Jobs)
    BY <1>1, <1>3, <1>5, <2>1, <2>2, <2>3, EndReturns
  <2> QED
    BY <1>1, <1>5, <2>4 DEF StageOK, InventoryOps
<1>6. CASE q.op \in InventoryOps
  <2>1. InventoryAt(c)' /\ session'[c].call = q /\ session'[c].todo \in Seq(Jobs)
    BY <1>1, <1>6, InventoryReturns
  <2> QED
    BY <1>1, <1>6, <2>1 DEF StageOK, InventoryOps
<1>7. CASE q.op = "close"
  <2>1. session[c].todo = <<q>>
    BY <1>1, <1>7 DEF CloseAt
  <2>2. a = q
    BY <2>1, HeadOfOne DEF Arg
  <2> QED
    BY <1>7, <2>2 DEF PartOps, InventoryOps
<1> QED
  BY <1>1, <1>2, <1>4, <1>5, <1>6, <1>7 DEF CallOps, Workflows
-----------------------------------------------------------------------------
(* The statements of Inventory. *)

\* What a client sees of the tables of Inventory.
LEMMA SeesStock ==
  ASSUME WorkflowInv, NEW c \in Clients, NEW r \in StockRows
  PROVE  /\ r[1] = "balance" => InStock(Sees(c, r))
         /\ r[1] = "reservation" => Sees(c, r) \in ReservationType
         /\ r[1] = "correction" => Sees(c, r) \in CorrectionType
         /\ r[1] = "transfer" => Sees(c, r) \in TransferType
         /\ r \in DOMAIN session[c].mine => StockStep(r, db[r], Sees(c, r))
<1>1. CASE r \in DOMAIN session[c].mine
  <2>1. Sees(c, r) = session[c].mine[r]
    BY <1>1 DEF Sees
  <2>2. StockStep(r, db[r], Sees(c, r))
    BY <1>1, <2>1, MineIs
  <2> QED
    BY <2>2 DEF StockStep
<1>2. CASE r \notin DOMAIN session[c].mine
  <2>1. Sees(c, r) = db[r]
    BY <1>2 DEF Sees
  <2> QED
    BY <1>2, <2>1 DEF WorkflowInv, Tables, StockIs
<1> QED
  BY <1>1, <1>2

\* A statement that writes no more than rows of Inventory.
LEMMA StockStepKeeps ==
  ASSUME WorkflowInv, NEW c \in Clients, NEW label, Ready(c, label),
         label = "record" => session[c].row[1] \in Inserted /\ ~Present(session[c].row),
         NEW w, NEW at, NEW row, NEW todo, Proceed(c, w, at, row, todo),
         session[c].row[1] \in Inserted =>
           \/ Locked(c) = {}
           \/ session[c].row \in Rows
              /\ (Present(session[c].row) \/ session[c].row \in DOMAIN w \cup DOMAIN session[c].mine),
         DOMAIN w \subseteq StockRows,
         \A r \in DOMAIN w : /\ StockStep(r, db[r], w[r])
                             /\ db[r].status = Absent => StockCall(session[c].call, r)
                             /\ r \in session[c].locks \cup Locked(c),
         StageOK(c)'
  PROVE  WorkflowInv'
<1>1. \A d \in Clients : d # c => Locked(c) \cap session[d].locks = {}
  BY LockIsFree
<1>2. \A r \in Locked(c) : r = session[c].row
  BY DEF Locked
<1>3. ASSUME NEW r \in DOMAIN w
      PROVE  /\ Writes(session[c].call, r, db[r], w[r])
             /\ Lock(session[c].call, r) \in session[c].locks \cup Locked(c)
  <2>1. r \in StockRows /\ r \in Rows /\ r \notin OrderRows
    BY <1>3, RowsApart DEF Rows
  <2>2. Lock(session[c].call, r) = r
    BY <2>1, StockRowKinds DEF Lock
  <2> QED
    BY <1>3, <2>1, <2>2 DEF Writes
<1> QED
  BY <1>1, <1>2, <1>3, StepKeeps

LEMMA IsBalance ==
  ASSUME NEW a, a.warehouse \in Warehouses, a.item \in Items, NEW c, a = Arg(c)
  PROVE  /\ Balance(c) = BalanceRow(a.warehouse, a.item) /\ Balance(c) \in StockRows
         /\ Balance(c)[1] = "balance"
BY StockRowsAre, StockKinds DEF Balance

\* What a balance may become.
LEMMA BalanceWritten ==
  ASSUME NEW r, r[1] = "balance", NEW old, NEW new, InStock(new), new.status # Absent, NEW q
  PROVE  StockStep(r, old, new) /\ StockCall(q, r)
BY DEF StockStep, StockCall

\* A statement within a job of Inventory, which writes no more than a balance.
LEMMA JobStepKeeps ==
  ASSUME WorkflowInv, NEW c \in Clients, NEW label, Ready(c, label), label \notin {"idle", "record"},
         session[c].todo # <<>>, Arg(c).op \in PartOps \cup InventoryOps,
         NEW a, a = Arg(c),
         NEW w, NEW at, NEW row, Goes(c, w, at, row), JobAt(c, a)',
         session[c].row[1] \in Inserted =>
           \/ Locked(c) = {}
           \/ session[c].row \in Rows
              /\ (Present(session[c].row) \/ session[c].row \in DOMAIN session[c].mine),
         \A r \in DOMAIN w : /\ r[1] = "balance" /\ r \in StockRows
                             /\ InStock(w[r]) /\ w[r].status # Absent
                             /\ r \in session[c].locks \cup Locked(c),
         at = "record" => a.op \in {"adjust", "reserve"},
         at # "record" => DOMAIN w = {}
  PROVE  WorkflowInv'
<1>1. session[c].at = label
  BY DEF Ready
<1>2. session[c] # Idle
  BY <1>1, IdleFields
<1>3. StageOK(c)'
  BY <1>1, <1>2, JobGoesOn
<1>4. Proceed(c, w, at, row, session[c].todo)
  BY DEF Goes
<1>5. \A r \in DOMAIN w : StockStep(r, db[r], w[r]) /\ StockCall(session[c].call, r)
  BY BalanceWritten
<1> QED
  BY <1>3, <1>4, <1>5, StockStepKeeps

LEMMA GoesOn ==
  ASSUME SessionShape, NEW c \in Clients, NEW w, NEW at, NEW row, Goes(c, w, at, row)
  PROVE  /\ session'[c].at = at /\ session'[c].row = row /\ UNCHANGED db
         /\ session'[c].locks = session[c].locks \cup Locked(c)
         /\ session'[c].mine = Over(w, session[c].mine)
BY Proceeds DEF Goes

\* Where a client is before a statement of the job a.
LEMMA Before ==
  ASSUME WorkflowInv, NEW c \in Clients, NEW label, Ready(c, label), label # "idle",
         NEW a, a = Arg(c),
         \/ label \in JobLabels
         \/ session[c].todo # <<>> /\ a.op \in PartOps \cup InventoryOps \cup {"close"}
  PROVE  /\ session[c].at = label /\ session[c] # Idle /\ session[c].todo # <<>>
         /\ SessionShape /\ JobAt(c, a) /\ JobIs(a)
         /\ a.op \in PartOps \cup InventoryOps \cup {"close"}
<1>1. session[c].at = label
  BY DEF Ready
<1>2. session[c] # Idle
  BY <1>1, IdleFields
<1> QED
  BY <1>1, <1>2, JobStage DEF WorkflowInv

\* Where a lock is taken.
LEMMA LockTaken ==
  ASSUME NEW c, session[c].at \notin {"find", "again", "update"} \/ Present(session[c].row),
         session[c].row # NoRow
  PROVE  Locked(c) = {session[c].row}
BY DEF Locked
\* What the statements make of a balance.
LEMMA InStockIs ==
  ASSUME NEW b, InStock(b)
  PROVE  /\ DOMAIN b = {"status", "onHand", "reserved", "received"}
         /\ b.onHand \in Int /\ b.reserved \in Int /\ b.received \in Int
         /\ b.status \in {Absent, "stocked"} /\ 0 <= b.reserved /\ b.reserved <= b.onHand
         /\ b.status = Absent => b.onHand = 0
BY DEF InStock, BalanceType

LEMMA InStockAfter ==
  ASSUME NEW b, DOMAIN b = {"status", "onHand", "reserved", "received"}, NEW new,
         \/ new = [b EXCEPT !.status = "stocked", !.onHand = new.onHand]
         \/ new = [b EXCEPT !.reserved = new.reserved]
         \/ new = [b EXCEPT !.onHand = new.onHand]
         \/ new = [b EXCEPT !.onHand = new.onHand, !.reserved = new.reserved]
         \/ new = [b EXCEPT !.status = "stocked", !.onHand = new.onHand, !.received = new.received],
         new.status = "stocked",
         new.onHand \in Int, new.reserved \in Int, new.received \in Int,
         0 <= new.reserved, new.reserved <= new.onHand
  PROVE  InStock(new) /\ new.status # Absent
<1>1. DOMAIN new = {"status", "onHand", "reserved", "received"}
  OBVIOUS
<1>2. new = [status |-> new.status, onHand |-> new.onHand, reserved |-> new.reserved,
             received |-> new.received]
  <2>1. CASE new = [b EXCEPT !.status = "stocked", !.onHand = new.onHand]
    BY <2>1
  <2>2. CASE new = [b EXCEPT !.reserved = new.reserved]
    BY <2>2
  <2>3. CASE new = [b EXCEPT !.onHand = new.onHand]
    BY <2>3
  <2>4. CASE new = [b EXCEPT !.onHand = new.onHand, !.reserved = new.reserved]
    BY <2>4
  <2>5. CASE new = [b EXCEPT !.status = "stocked", !.onHand = new.onHand, !.received = new.received]
    BY <2>5
  <2> QED
    BY <2>1, <2>2, <2>3, <2>4, <2>5
<1>3. new \in BalanceType
  <2>1. [status |-> new.status, onHand |-> new.onHand, reserved |-> new.reserved,
         received |-> new.received] \in BalanceType
    BY DEF BalanceType
  <2> QED
    BY <1>2, <2>1
<1> QED
  BY <1>3 DEF InStock, Absent

LEMMA ReceivedInStock ==
  ASSUME NEW b, InStock(b), NEW n \in Quantities
  PROVE  InStock(Received(b, n)) /\ Received(b, n).status # Absent
<1>1. /\ DOMAIN b = {"status", "onHand", "reserved", "received"}
      /\ b.onHand \in Int /\ b.reserved \in Int /\ b.received \in Int
      /\ 0 <= b.reserved /\ b.reserved <= b.onHand
  BY InStockIs
<1> SUFFICES ASSUME NEW new, new = Received(b, n)
             PROVE  InStock(new) /\ new.status # Absent
  OBVIOUS
<1>2. new = [b EXCEPT !.status = "stocked", !.onHand = b.onHand + n, !.received = b.received + n]
  BY <1>1 DEF Received
<1>3. /\ new.status = "stocked" /\ new.onHand = b.onHand + n /\ new.reserved = b.reserved
      /\ new.received = b.received + n
  BY <1>1, <1>2
<1>4. n \in Nat
  BY DEF Quantities
<1>5. new.onHand \in Int /\ new.reserved \in Int /\ new.received \in Int
      /\ 0 <= new.reserved /\ new.reserved <= new.onHand
  BY <1>1, <1>3, <1>4
<1> QED
  BY <1>1, <1>2, <1>3, <1>5, InStockAfter

LEMMA AdjustedInStock ==
  ASSUME NEW b, InStock(b), NEW n \in Int, CanAdjust(b, n)
  PROVE  InStock(Adjusted(b, n)) /\ Adjusted(b, n).status # Absent
<1>1. /\ DOMAIN b = {"status", "onHand", "reserved", "received"}
      /\ b.onHand \in Int /\ b.reserved \in Int /\ b.received \in Int
      /\ 0 <= b.reserved /\ b.reserved <= b.onHand
  BY InStockIs
<1> SUFFICES ASSUME NEW new, new = Adjusted(b, n)
             PROVE  InStock(new) /\ new.status # Absent
  OBVIOUS
<1>2. new = [b EXCEPT !.status = "stocked", !.onHand = b.onHand + n]
  BY <1>1 DEF Adjusted
<1>3. /\ new.status = "stocked" /\ new.onHand = b.onHand + n /\ new.reserved = b.reserved
      /\ new.received = b.received
  BY <1>1, <1>2
<1>4. new.onHand \in Int /\ new.reserved \in Int /\ new.received \in Int
      /\ 0 <= new.reserved /\ new.reserved <= new.onHand
  BY <1>1, <1>3 DEF CanAdjust
<1> QED
  BY <1>1, <1>2, <1>3, <1>4, InStockAfter

\* Some of what is available is reserved, or leaves.
LEMMA AvailableInStock ==
  ASSUME NEW b, InStock(b), NEW n \in Quantities, Available(b, n), NEW new,
         \/ new = [b EXCEPT !.reserved = b.reserved + n]
         \/ new = [b EXCEPT !.onHand = b.onHand - n]
  PROVE  InStock(new) /\ new.status # Absent /\ b.status # Absent
<1>1. /\ DOMAIN b = {"status", "onHand", "reserved", "received"}
      /\ b.onHand \in Int /\ b.reserved \in Int /\ b.received \in Int
      /\ b.status \in {Absent, "stocked"} /\ 0 <= b.reserved /\ b.reserved <= b.onHand
      /\ b.status = Absent => b.onHand = 0
  BY InStockIs
<1>2. n \in Nat /\ n > 0 /\ b.onHand - b.reserved >= n
  BY DEF Quantities, Available
<1>3. b.onHand > 0
  BY <1>1, <1>2
<1>4. b.status = "stocked" /\ b.status # Absent
  BY <1>1, <1>3
<1>5. CASE new = [b EXCEPT !.reserved = b.reserved + n]
  <2>1. /\ new.status = "stocked" /\ new.onHand = b.onHand /\ new.reserved = b.reserved + n
        /\ new.received = b.received
    BY <1>1, <1>4, <1>5
  <2>2. new.onHand \in Int /\ new.reserved \in Int /\ new.received \in Int
        /\ 0 <= new.reserved /\ new.reserved <= new.onHand
    BY <1>1, <1>2, <2>1
  <2> QED
    BY <1>1, <1>4, <1>5, <2>1, <2>2, InStockAfter
<1>6. CASE new = [b EXCEPT !.onHand = b.onHand - n]
  <2>1. /\ new.status = "stocked" /\ new.onHand = b.onHand - n /\ new.reserved = b.reserved
        /\ new.received = b.received
    BY <1>1, <1>4, <1>6
  <2>2. new.onHand \in Int /\ new.reserved \in Int /\ new.received \in Int
        /\ 0 <= new.reserved /\ new.reserved <= new.onHand
    BY <1>1, <1>2, <2>1
  <2> QED
    BY <1>1, <1>4, <1>6, <2>1, <2>2, InStockAfter
<1> QED
  BY <1>5, <1>6

\* A reserved quantity is released, or leaves.
LEMMA EndedInStock ==
  ASSUME NEW b, InStock(b), NEW n \in Quantities, b.reserved >= n, NEW new,
         \/ new = [b EXCEPT !.reserved = b.reserved - n]
         \/ new = [b EXCEPT !.onHand = b.onHand - n, !.reserved = b.reserved - n]
  PROVE  InStock(new) /\ new.status # Absent
<1>1. /\ DOMAIN b = {"status", "onHand", "reserved", "received"}
      /\ b.onHand \in Int /\ b.reserved \in Int /\ b.received \in Int
      /\ b.status \in {Absent, "stocked"} /\ 0 <= b.reserved /\ b.reserved <= b.onHand
      /\ b.status = Absent => b.onHand = 0
  BY InStockIs
<1>2. n \in Nat /\ n > 0
  BY DEF Quantities
<1>3. b.onHand > 0
  BY <1>1, <1>2
<1>4. b.status = "stocked"
  BY <1>1, <1>3
<1>5. CASE new = [b EXCEPT !.reserved = b.reserved - n]
  <2>1. /\ new.status = "stocked" /\ new.onHand = b.onHand /\ new.reserved = b.reserved - n
        /\ new.received = b.received
    BY <1>1, <1>4, <1>5
  <2>2. new.onHand \in Int /\ new.reserved \in Int /\ new.received \in Int
        /\ 0 <= new.reserved /\ new.reserved <= new.onHand
    BY <1>1, <1>2, <2>1
  <2> QED
    BY <1>1, <1>5, <2>1, <2>2, InStockAfter
<1>6. CASE new = [b EXCEPT !.onHand = b.onHand - n, !.reserved = b.reserved - n]
  <2>1. /\ new.status = "stocked" /\ new.onHand = b.onHand - n /\ new.reserved = b.reserved - n
        /\ new.received = b.received
    BY <1>1, <1>4, <1>6
  <2>2. new.onHand \in Int /\ new.reserved \in Int /\ new.received \in Int
        /\ 0 <= new.reserved /\ new.reserved <= new.onHand
    BY <1>1, <1>2, <2>1
  <2> QED
    BY <1>1, <1>6, <2>1, <2>2, InStockAfter
<1> QED
  BY <1>5, <1>6

LEMMA ArrivedInStock ==
  ASSUME NEW b, InStock(b), NEW n \in Quantities, NEW new,
         new = [b EXCEPT !.status = "stocked", !.onHand = b.onHand + n]
  PROVE  InStock(new) /\ new.status # Absent
<1>1. CanAdjust(b, n) /\ n \in Int /\ DOMAIN b = {"status", "onHand", "reserved", "received"}
  BY InStockIs DEF CanAdjust, Quantities
<1>2. new = Adjusted(b, n)
  BY <1>1 DEF Adjusted
<1>3. InStock(Adjusted(b, n)) /\ Adjusted(b, n).status # Absent
  <2>1. CanAdjust(b, n) /\ n \in Int
    BY <1>1
  <2> QED
    BY <2>1, AdjustedInStock
<1> QED
  BY <1>2, <1>3

\* A call of its own that is at its first job has written nothing.
LEMMA NothingYet ==
  ASSUME WorkflowInv, NEW c \in Clients, session[c] # Idle, NEW q, q = session[c].call,
         q.op \in InventoryOps, session[c].todo = <<q>>, session[c].at # "record"
  PROVE  DOMAIN session[c].mine = {} /\ \A r : Sees(c, r) = db[r]
<1>1. InventoryAt(c)
  BY DEF WorkflowInv, StageOK
<1>2. DOMAIN session[c].mine = {}
  BY <1>1 DEF InventoryAt, Wrote
<1> QED
  BY <1>2 DEF Sees

\* Lemma for the statements of client c that write nothing and go on in their job.
LEMMA GoesOnInJob ==
  ASSUME WorkflowInv, NEW c \in Clients, NEW label, Ready(c, label), label \notin {"idle", "record"},
         session[c].todo # <<>>, Arg(c).op \in PartOps \cup InventoryOps,
         NEW a, a = Arg(c), NEW at, NEW row, Goes(c, <<>>, at, row), JobAt(c, a)',
         session[c].row[1] \in Inserted =>
           \/ Locked(c) = {}
           \/ session[c].row \in Rows
              /\ (Present(session[c].row) \/ session[c].row \in DOMAIN session[c].mine),
         at = "record" => a.op \in {"adjust", "reserve"}
  PROVE  WorkflowInv'
<1> SUFFICES ASSUME NEW w, w = <<>>
             PROVE  WorkflowInv'
  OBVIOUS
<1>1. Goes(c, w, at, row) /\ DOMAIN w = {}
  OBVIOUS
<1> QED
  BY <1>1, JobStepKeeps

LEMMA ReceiveStockKeeps ==
  ASSUME WorkflowInv, NEW c \in Clients, ReceiveStock(c)
  PROVE  WorkflowInv'
<1> SUFFICES ASSUME NEW a, a = Arg(c)
             PROVE  WorkflowInv'
  OBVIOUS
<1>1. /\ Ready(c, "warehouse") /\ session[c].todo # <<>> /\ a.op = "receive"
      /\ Goes(c, <<>>, "balance", Balance(c))
  BY DEF ReceiveStock, At
<1>2. a.op \in InventoryOps
  BY <1>1 DEF InventoryOps
<1>3. session[c].at = "warehouse" /\ SessionShape /\ JobAt(c, a)
  BY <1>1, <1>2, Before
<1>4. session[c].row[1] = "warehouse"
  BY <1>1, <1>3, StockKinds DEF JobAt
<1>5. session'[c].at = "balance" /\ session'[c].row = BalanceRow(a.warehouse, a.item)
  BY <1>1, <1>3, GoesOn DEF Balance
<1>6. JobAt(c, a)'
  BY <1>1, <1>5 DEF JobAt
<1> QED
  BY <1>1, <1>2, <1>4, <1>6, GoesOnInJob DEF Inserted

LEMMA ReserveStockKeeps ==
  ASSUME WorkflowInv, NEW c \in Clients, ReserveStock(c)
  PROVE  WorkflowInv'
<1> SUFFICES ASSUME NEW a, a = Arg(c)
             PROVE  WorkflowInv'
  OBVIOUS
<1>1. /\ Ready(c, "warehouse") /\ session[c].todo # <<>> /\ a.op = "reserve"
      /\ Goes(c, <<>>, "find", ReservationRow(a.key))
  BY DEF ReserveStock, At
<1>2. a.op \in InventoryOps
  BY <1>1 DEF InventoryOps
<1>3. session[c].at = "warehouse" /\ SessionShape /\ JobAt(c, a)
  BY <1>1, <1>2, Before
<1>4. session[c].row[1] = "warehouse"
  BY <1>1, <1>3, StockKinds DEF JobAt
<1>5. session'[c].at = "find" /\ session'[c].row = ReservationRow(a.key)
  BY <1>1, <1>3, GoesOn
<1>6. JobAt(c, a)'
  BY <1>1, <1>5 DEF JobAt
<1> QED
  BY <1>1, <1>2, <1>4, <1>6, GoesOnInJob DEF Inserted

LEMMA LockItemKeeps ==
  ASSUME WorkflowInv, NEW c \in Clients, LockItem(c)
  PROVE  WorkflowInv'
<1> SUFFICES ASSUME NEW a, a = Arg(c)
             PROVE  WorkflowInv'
  OBVIOUS
<1>1. /\ Ready(c, "item") /\ session[c].todo # <<>> /\ a.op = "adjust"
      /\ Goes(c, <<>>, "update", Balance(c))
  BY DEF LockItem, At
<1>2. a.op \in InventoryOps
  BY <1>1 DEF InventoryOps
<1>3. session[c].at = "item" /\ SessionShape /\ JobAt(c, a)
  BY <1>1, <1>2, Before
<1>4. session[c].row[1] = "item"
  BY <1>1, <1>3, StockKinds DEF JobAt
<1>5. session'[c].at = "update" /\ session'[c].row = BalanceRow(a.warehouse, a.item)
  BY <1>1, <1>3, GoesOn DEF Balance
<1>6. JobAt(c, a)'
  BY <1>1, <1>5 DEF JobAt
<1> QED
  BY <1>1, <1>2, <1>4, <1>6, GoesOnInJob DEF Inserted

LEMMA AdjustNothingKeeps ==
  ASSUME WorkflowInv, NEW c \in Clients, AdjustNothing(c)
  PROVE  WorkflowInv'
<1> SUFFICES ASSUME NEW a, a = Arg(c)
             PROVE  WorkflowInv'
  OBVIOUS
<1>1. /\ Ready(c, "update") /\ session[c].todo # <<>> /\ a.op = "adjust"
      /\ IF a.quantity < 0 THEN Refuse(c, "unavailable") ELSE Goes(c, <<>>, "upsert", Balance(c))
  BY DEF AdjustNothing, At
<1>2. a.op \in InventoryOps
  BY <1>1 DEF InventoryOps
<1>3. session[c].at = "update" /\ SessionShape /\ JobAt(c, a) /\ JobIs(a)
  BY <1>1, <1>2, Before
<1>4. session[c].row[1] = "balance"
  BY <1>1, <1>3, StockKinds DEF JobAt
<1>5. CASE a.quantity < 0
  BY <1>1, <1>5, RefuseKeeps
<1>6. CASE ~(a.quantity < 0)
  <2>1. session'[c].at = "upsert" /\ session'[c].row = BalanceRow(a.warehouse, a.item)
    BY <1>1, <1>3, <1>6, GoesOn DEF Balance
  <2>2. a.quantity >= 0
    BY <1>1, <1>3, <1>6 DEF JobIs
  <2>3. JobAt(c, a)'
    BY <1>1, <2>1, <2>2 DEF JobAt
  <2> QED
    BY <1>1, <1>2, <1>4, <1>6, <2>3, GoesOnInJob DEF Inserted
<1> QED
  BY <1>5, <1>6

LEMMA LockWarehousesKeeps ==
  ASSUME WorkflowInv, NEW c \in Clients, LockWarehouses(c)
  PROVE  WorkflowInv'
<1> SUFFICES ASSUME NEW a, a = Arg(c)
             PROVE  WorkflowInv'
  OBVIOUS
<1>1. Ready(c, "warehouse") /\ session[c].todo # <<>> /\ a.op = "draft"
  BY DEF LockWarehouses, At
<1>2. PICK w \in {a.from, a.to} : Goes(c, <<>>, "second", WarehouseRow(w))
  BY DEF LockWarehouses
<1>3. a.op \in InventoryOps
  BY <1>1 DEF InventoryOps
<1>4. session[c].at = "warehouse" /\ SessionShape /\ JobAt(c, a)
  BY <1>1, <1>3, Before
<1>5. session[c].row[1] = "warehouse"
  BY <1>1, <1>4, StockKinds DEF JobAt
<1>6. session'[c].at = "second" /\ session'[c].row = WarehouseRow(w)
  BY <1>2, <1>4, GoesOn
<1>7. JobAt(c, a)'
  BY <1>1, <1>6 DEF JobAt
<1> QED
  BY <1>1, <1>2, <1>3, <1>5, <1>7, GoesOnInJob DEF Inserted
\* A job of Inventory is done, and wrote w.
LEMMA ReturnsKeeps ==
  ASSUME WorkflowInv, NEW c \in Clients, NEW label, Ready(c, label), label # "idle",
         label = "record" => session[c].row[1] \in Inserted /\ ~Present(session[c].row),
         session[c].todo # <<>>, NEW a, a = Arg(c),
         a.op \in (PartOps \cup InventoryOps) \ {"draft", "revenue", "reversal", "succeed"},
         NEW w, Returns(c, w),
         session[c].row[1] \in Inserted =>
           \/ Locked(c) = {}
           \/ session[c].row \in Rows
              /\ (Present(session[c].row) \/ session[c].row \in DOMAIN w \cup DOMAIN session[c].mine),
         DOMAIN w \subseteq StockRows,
         \A r \in DOMAIN w : /\ StockStep(r, db[r], w[r])
                             /\ db[r].status = Absent => StockCall(session[c].call, r)
                             /\ r \in session[c].locks \cup Locked(c),
         \A key : TransferRow(key) \in DOMAIN w => a.op = "insert",
         \A key : ReservationRow(key) \in DOMAIN w =>
           a.op \in {"reserve", "release", "fulfill"} /\ key = a.key,
         a.op = "insert" => Status(c, TransferRow(a.transfer))' # Absent,
         Effect(c, a)'
  PROVE  WorkflowInv'
<1>1. session[c].at = label
  BY DEF Ready
<1>2. session[c] # Idle
  BY <1>1, IdleFields
<1>3. StageOK(c)'
  BY <1>2, JobReturns
<1>4. \E at, row, todo : Proceed(c, w, at, row, todo)
  BY DEF Returns, Continues
<1>5. PICK at, row, todo : Proceed(c, w, at, row, todo)
  BY <1>4
<1> QED
  BY <1>3, <1>5, StockStepKeeps

\* What a client sees and holds after it.
LEMMA ReturnsSee ==
  ASSUME SessionShape, NEW c \in Clients, NEW w, Returns(c, w)
  PROVE  /\ session'[c].locks = session[c].locks \cup Locked(c)
         /\ \A r \in DOMAIN w : Sees(c, r)' = w[r] /\ Status(c, r)' = w[r].status
         /\ \A r : r \notin DOMAIN w => Sees(c, r)' = Sees(c, r) /\ Status(c, r)' = Status(c, r)
<1>1. \E at, row, todo : Proceed(c, w, at, row, todo)
  BY DEF Returns, Continues
<1>2. PICK at, row, todo : Proceed(c, w, at, row, todo)
  BY <1>1
<1> QED
  BY <1>2, Proceeds, SeesThen

\* The same, without a row written.
LEMMA ReturnsNothing ==
  ASSUME WorkflowInv, NEW c \in Clients, NEW label, Ready(c, label), label \notin {"idle", "record"},
         session[c].todo # <<>>, NEW a, a = Arg(c),
         a.op \in (PartOps \cup InventoryOps) \ {"draft", "insert", "revenue", "reversal", "succeed"},
         Returns(c, <<>>),
         session[c].row[1] \in Inserted =>
           \/ Locked(c) = {}
           \/ session[c].row \in Rows
              /\ (Present(session[c].row) \/ session[c].row \in DOMAIN session[c].mine),
         Effect(c, a)'
  PROVE  WorkflowInv'
<1> SUFFICES ASSUME NEW w, w = <<>>
             PROVE  WorkflowInv'
  OBVIOUS
<1>1. Returns(c, w) /\ DOMAIN w = {}
  OBVIOUS
<1> QED
  BY <1>1, ReturnsKeeps

\* It wrote a balance.
LEMMA ReturnsBalance ==
  ASSUME WorkflowInv, NEW c \in Clients, NEW label, Ready(c, label), label \notin {"idle", "record"},
         session[c].todo # <<>>, NEW a, a = Arg(c),
         a.op \in {"receive", "ship", "arrive"},
         NEW r \in StockRows, r[1] = "balance", r \in session[c].locks \cup Locked(c),
         NEW new, InStock(new), new.status # Absent, Returns(c, RowIs(r, new)),
         session[c].row[1] \notin Inserted
  PROVE  WorkflowInv'
<1> SUFFICES ASSUME NEW w, w = RowIs(r, new)
             PROVE  WorkflowInv'
  OBVIOUS
<1>1. Returns(c, w) /\ DOMAIN w = {r} /\ w[r] = new
  BY RowIsRow
<1>2. StockStep(r, db[r], new) /\ StockCall(session[c].call, r)
  BY BalanceWritten
<1>3. \A k : TransferRow(k) # r /\ ReservationRow(k) # r
  BY StockKinds
<1>4. Effect(c, a)'
  BY DEF Effect
<1>5. a.op \in (PartOps \cup InventoryOps) \ {"draft", "revenue", "reversal", "succeed"}
      /\ a.op # "insert"
  BY DEF PartOps, InventoryOps
<1> QED
  BY <1>1, <1>2, <1>3, <1>4, <1>5, ReturnsKeeps

LEMMA ReceiptKeeps ==
  ASSUME WorkflowInv, NEW c \in Clients, Receipt(c)
  PROVE  WorkflowInv'
<1> SUFFICES ASSUME NEW a, a = Arg(c), NEW r, r = Balance(c), NEW b, b = Sees(c, r)
             PROVE  WorkflowInv'
  OBVIOUS
<1>1. /\ Ready(c, "balance") /\ session[c].todo # <<>> /\ a.op = "receive"
      /\ Returns(c, RowIs(r, Received(b, a.quantity)))
  BY DEF Receipt, At
<1>2. a.op \in InventoryOps
  BY <1>1 DEF InventoryOps
<1>3. session[c].at = "balance" /\ JobAt(c, a) /\ JobIs(a)
  BY <1>1, <1>2, Before
<1>4. a.warehouse \in Warehouses /\ a.item \in Items /\ a.quantity \in Quantities
  BY <1>1, <1>3 DEF JobIs
<1>5. r \in StockRows /\ r[1] = "balance" /\ r = BalanceRow(a.warehouse, a.item)
  BY <1>4, IsBalance
<1>6. session[c].row = r
  BY <1>1, <1>3, <1>5 DEF JobAt
<1>7. r \in Locked(c) /\ r[1] \notin Inserted
  BY <1>3, <1>5, <1>6, RowsApart DEF Locked, Rows, Inserted
<1>8. InStock(b)
  BY <1>5, SeesStock
<1>9. InStock(Received(b, a.quantity)) /\ Received(b, a.quantity).status # Absent
  BY <1>4, <1>8, ReceivedInStock
<1> QED
  BY <1>1, <1>5, <1>6, <1>7, <1>9, ReturnsBalance

LEMMA ShipKeeps ==
  ASSUME WorkflowInv, NEW c \in Clients, Ship(c)
  PROVE  WorkflowInv'
<1> SUFFICES ASSUME NEW a, a = Arg(c), NEW r, r = Balance(c), NEW b, b = Sees(c, r),
                    NEW new, new = [b EXCEPT !.onHand = b.onHand - a.quantity]
             PROVE  WorkflowInv'
  OBVIOUS
<1>1. Ready(c, "balance") /\ session[c].todo # <<>> /\ a.op = "ship"
  BY DEF Ship, At
<1>2. a.op \in PartOps
  BY <1>1 DEF PartOps
<1>3. session[c].at = "balance" /\ JobAt(c, a) /\ JobIs(a)
  BY <1>1, <1>2, Before
<1>4. a.warehouse \in Warehouses /\ a.item \in Items /\ a.quantity \in Quantities
  BY <1>1, <1>3 DEF JobIs
<1>5. r \in StockRows /\ r[1] = "balance" /\ r = BalanceRow(a.warehouse, a.item)
  BY <1>4, IsBalance
<1>6. session[c].row = r
  BY <1>1, <1>3, <1>5 DEF JobAt
<1>7. r \in Locked(c) /\ r[1] \notin Inserted
  BY <1>3, <1>5, <1>6, RowsApart DEF Locked, Rows, Inserted
<1>8. InStock(b)
  BY <1>5, SeesStock
<1>9. new = [b EXCEPT !.onHand = @ - a.quantity]
  OBVIOUS
<1>10. CASE Available(b, a.quantity)
  <2>1. Returns(c, RowIs(r, new))
    BY <1>9, <1>10 DEF Ship
  <2>2. InStock(new) /\ new.status # Absent
    BY <1>4, <1>8, <1>10, AvailableInStock
  <2> QED
    BY <1>1, <1>5, <1>6, <1>7, <2>1, <2>2, ReturnsBalance
<1>11. CASE ~Available(b, a.quantity)
  <2>1. Refuse(c, "unavailable")
    BY <1>11 DEF Ship
  <2> QED
    BY <2>1, RefuseKeeps
<1> QED
  BY <1>10, <1>11

LEMMA ArriveKeeps ==
  ASSUME WorkflowInv, NEW c \in Clients, Arrive(c)
  PROVE  WorkflowInv'
<1> SUFFICES ASSUME NEW a, a = Arg(c), NEW r, r = Balance(c), NEW b, b = Sees(c, r),
                    NEW new, new = [b EXCEPT !.status = "stocked", !.onHand = b.onHand + a.quantity]
             PROVE  WorkflowInv'
  OBVIOUS
<1>1. Ready(c, "balance") /\ session[c].todo # <<>> /\ a.op = "arrive"
  BY DEF Arrive, At
<1>2. a.op \in PartOps
  BY <1>1 DEF PartOps
<1>3. session[c].at = "balance" /\ JobAt(c, a) /\ JobIs(a)
  BY <1>1, <1>2, Before
<1>4. a.warehouse \in Warehouses /\ a.item \in Items /\ a.quantity \in Quantities
  BY <1>1, <1>3 DEF JobIs
<1>5. r \in StockRows /\ r[1] = "balance" /\ r = BalanceRow(a.warehouse, a.item)
  BY <1>4, IsBalance
<1>6. session[c].row = r
  BY <1>1, <1>3, <1>5 DEF JobAt
<1>7. r \in Locked(c) /\ r[1] \notin Inserted
  BY <1>3, <1>5, <1>6, RowsApart DEF Locked, Rows, Inserted
<1>8. InStock(b)
  BY <1>5, SeesStock
<1>9. new = [b EXCEPT !.status = "stocked", !.onHand = @ + a.quantity]
  BY <1>8, InStockIs
<1>10. Returns(c, RowIs(r, new))
  BY <1>9 DEF Arrive
<1>11. InStock(new) /\ new.status # Absent
  BY <1>4, <1>8, ArrivedInStock
<1> QED
  BY <1>1, <1>5, <1>6, <1>7, <1>10, <1>11, ReturnsBalance

LEMMA LockItemOfLineKeeps ==
  ASSUME WorkflowInv, NEW c \in Clients, LockItemOfLine(c)
  PROVE  WorkflowInv'
<1> SUFFICES ASSUME NEW a, a = Arg(c)
             PROVE  WorkflowInv'
  OBVIOUS
<1>1. Ready(c, "item") /\ session[c].todo # <<>> /\ a.op = "item" /\ Returns(c, <<>>)
  BY DEF LockItemOfLine, At
<1>2. a.op \in PartOps
  BY <1>1 DEF PartOps
<1>3. JobAt(c, a)
  BY <1>1, <1>2, Before
<1>4. session[c].row[1] = "item"
  BY <1>1, <1>3, StockKinds DEF JobAt
<1>5. Effect(c, a)'
  BY <1>1 DEF Effect
<1> QED
  BY <1>1, <1>2, <1>4, <1>5, ReturnsNothing DEF Inserted
\* A statement that writes a balance and goes on to record why.
LEMMA GoesWithBalance ==
  ASSUME WorkflowInv, NEW c \in Clients, NEW label, Ready(c, label), label \notin {"idle", "record"},
         session[c].todo # <<>>, NEW a, a = Arg(c), a.op \in {"adjust", "reserve"},
         NEW r \in StockRows, r[1] = "balance", r \in session[c].locks \cup Locked(c),
         NEW new, InStock(new), new.status # Absent,
         NEW row, Goes(c, RowIs(r, new), "record", row),
         row = IF a.op = "adjust" THEN CorrectionRow(a.key) ELSE ReservationRow(a.key),
         session[c].row[1] \notin Inserted
  PROVE  WorkflowInv'
<1> SUFFICES ASSUME NEW w, w = RowIs(r, new)
             PROVE  WorkflowInv'
  OBVIOUS
<1>1. Goes(c, w, "record", row) /\ DOMAIN w = {r} /\ w[r] = new
  BY RowIsRow
<1>2. SessionShape
  BY DEF WorkflowInv
<1>3. session'[c].at = "record" /\ session'[c].row = row
  BY <1>1, <1>2, GoesOn
<1>4. JobAt(c, a)'
  <2>1. CASE a.op = "adjust"
    BY <1>3, <2>1 DEF JobAt
  <2>2. CASE a.op = "reserve"
    BY <1>3, <2>2 DEF JobAt
  <2> QED
    BY <2>1, <2>2
<1>5. a.op \in InventoryOps
  BY DEF InventoryOps
<1> QED
  BY <1>1, <1>4, <1>5, JobStepKeeps

\* A correction that is there already.
LEMMA SameCorrection ==
  ASSUME WorkflowInv, NEW c \in Clients, session[c] # Idle, session[c].at # "record",
         session[c].todo # <<>>, NEW a, a = Arg(c), a.op = "adjust",
         NEW r, r = CorrectionRow(a.key), Present(r), SameFact(db[r], a), Returns(c, <<>>)
  PROVE  Effect(c, a)'
<1>1. session[c].call = a /\ session[c].todo = <<a>> /\ a.op \in InventoryOps
  <2>1. a.op \in InventoryOps
    BY DEF InventoryOps
  <2> QED
    BY <2>1, JobOf
<1>2. Sees(c, r) = db[r]
  BY <1>1, NothingYet
<1>3. SessionShape /\ r \notin DOMAIN <<>>
  BY DEF WorkflowInv
<1>4. Sees(c, r)' = Sees(c, r) /\ Status(c, r)' = Status(c, r)
  BY <1>3, ReturnsSee
<1> QED
  BY <1>2, <1>4 DEF Effect, Present, Status

LEMMA FindCorrectionKeeps ==
  ASSUME WorkflowInv, NEW c \in Clients, FindCorrection(c)
  PROVE  WorkflowInv'
<1> SUFFICES ASSUME NEW a, a = Arg(c), NEW r, r = CorrectionRow(a.key)
             PROVE  WorkflowInv'
  OBVIOUS
<1>1. Ready(c, "find") /\ session[c].todo # <<>> /\ a.op = "adjust"
  BY DEF FindCorrection, At
<1>2. a.op \in InventoryOps
  BY <1>1 DEF InventoryOps
<1>3. session[c].at = "find" /\ session[c] # Idle /\ SessionShape /\ JobAt(c, a) /\ JobIs(a)
  BY <1>1, <1>2, Before
<1>4. session[c].row = r
  BY <1>1, <1>3 DEF JobAt
<1>5. r \in Rows /\ (Locked(c) = {} \/ Present(r))
  BY <1>1, <1>3, <1>4, StockRowsAre DEF JobIs, Rows, Locked
<1>6. CASE ~Present(r)
  <2>1. Goes(c, <<>>, "item", ItemRow(a.item))
    BY <1>4, <1>6 DEF FindCorrection
  <2>2. session'[c].at = "item" /\ session'[c].row = ItemRow(a.item)
    BY <1>3, <2>1, GoesOn
  <2>3. JobAt(c, a)'
    BY <1>1, <2>2 DEF JobAt
  <2> QED
    BY <1>1, <1>2, <1>4, <1>5, <2>1, <2>3, GoesOnInJob
<1>7. CASE Present(r) /\ SameFact(db[r], a)
  <2>1. Returns(c, <<>>)
    BY <1>4, <1>7 DEF FindCorrection
  <2>2. Effect(c, a)'
    BY <1>1, <1>3, <1>7, <2>1, SameCorrection
  <2> QED
    BY <1>1, <1>2, <1>4, <1>5, <2>1, <2>2, ReturnsNothing
<1>8. CASE Present(r) /\ ~SameFact(db[r], a)
  <2>1. Refuse(c, "conflict")
    BY <1>4, <1>8 DEF FindCorrection
  <2> QED
    BY <2>1, RefuseKeeps
<1> QED
  BY <1>6, <1>7, <1>8

LEMMA AdjustKeeps ==
  ASSUME WorkflowInv, NEW c \in Clients, Adjust(c)
  PROVE  WorkflowInv'
<1> SUFFICES ASSUME NEW a, a = Arg(c), NEW r, r = CorrectionRow(a.key), NEW s, s = Balance(c),
                    NEW b, b = db[s]
             PROVE  WorkflowInv'
  OBVIOUS
<1>1. Ready(c, "update") /\ session[c].todo # <<>> /\ a.op = "adjust" /\ Present(s)
  BY DEF Adjust, At
<1>2. a.op \in InventoryOps
  BY <1>1 DEF InventoryOps
<1>3. session[c].at = "update" /\ session[c] # Idle /\ SessionShape /\ JobAt(c, a) /\ JobIs(a)
  BY <1>1, <1>2, Before
<1>4. /\ s \in StockRows /\ s[1] = "balance" /\ s = BalanceRow(a.warehouse, a.item)
      /\ a.quantity \in Int
  BY <1>1, <1>3, IsBalance DEF JobIs
<1>5. session[c].row = s /\ s[1] \notin Inserted
  BY <1>1, <1>3, <1>4 DEF JobAt, Inserted
<1>6. s \in Locked(c)
  BY <1>1, <1>4, <1>5, RowsApart DEF Locked, Rows
<1>7. CASE Present(r) /\ SameFact(db[r], a)
  <2>1. Returns(c, <<>>)
    BY <1>7 DEF Adjust
  <2>2. Effect(c, a)'
    BY <1>1, <1>3, <1>7, <2>1, SameCorrection
  <2> QED
    BY <1>1, <1>2, <1>5, <2>1, <2>2, ReturnsNothing
<1>8. CASE Present(r) /\ ~SameFact(db[r], a)
  <2>1. Refuse(c, "conflict")
    BY <1>8 DEF Adjust
  <2> QED
    BY <2>1, RefuseKeeps
<1>9. CASE ~Present(r) /\ CanAdjust(b, a.quantity)
  <2>1. Goes(c, RowIs(s, Adjusted(b, a.quantity)), "record", r)
    BY <1>9 DEF Adjust
  <2>2. InStock(b)
    BY <1>4 DEF WorkflowInv, Tables, StockIs
  <2>3. InStock(Adjusted(b, a.quantity)) /\ Adjusted(b, a.quantity).status # Absent
    BY <1>4, <1>9, <2>2, AdjustedInStock
  <2> QED
    BY <1>1, <1>4, <1>5, <1>6, <2>1, <2>3, GoesWithBalance
<1>10. CASE ~Present(r) /\ ~CanAdjust(b, a.quantity)
  <2>1. Refuse(c, "unavailable")
    BY <1>10 DEF Adjust
  <2> QED
    BY <2>1, RefuseKeeps
<1> QED
  BY <1>7, <1>8, <1>9, <1>10

LEMMA AdjustFirstKeeps ==
  ASSUME WorkflowInv, NEW c \in Clients, AdjustFirst(c)
  PROVE  WorkflowInv'
<1> SUFFICES ASSUME NEW a, a = Arg(c), NEW s, s = Balance(c), NEW b, b = Sees(c, s)
             PROVE  WorkflowInv'
  OBVIOUS
<1>1. /\ Ready(c, "upsert") /\ session[c].todo # <<>> /\ a.op = "adjust"
      /\ Goes(c, RowIs(s, Adjusted(b, a.quantity)), "record", CorrectionRow(a.key))
  BY DEF AdjustFirst, At
<1>2. a.op \in InventoryOps
  BY <1>1 DEF InventoryOps
<1>3. session[c].at = "upsert" /\ session[c] # Idle /\ JobAt(c, a) /\ JobIs(a)
  BY <1>1, <1>2, Before
<1>4. /\ s \in StockRows /\ s[1] = "balance" /\ s = BalanceRow(a.warehouse, a.item)
      /\ a.quantity \in Int
  BY <1>1, <1>3, IsBalance DEF JobIs
<1>5. session[c].row = s /\ s[1] \notin Inserted /\ a.quantity >= 0
  BY <1>1, <1>3, <1>4 DEF JobAt, Inserted
<1>6. s \in Locked(c)
  BY <1>3, <1>4, <1>5, RowsApart DEF Locked, Rows
<1>7. InStock(b) /\ CanAdjust(b, a.quantity)
  BY <1>4, <1>5, SeesStock DEF CanAdjust
<1>8. InStock(Adjusted(b, a.quantity)) /\ Adjusted(b, a.quantity).status # Absent
  BY <1>4, <1>7, AdjustedInStock
<1> QED
  BY <1>1, <1>4, <1>5, <1>6, <1>8, GoesWithBalance
\* A unique index refuses the row: the call is told what is so.
LEMMA DuplicateKeeps ==
  ASSUME WorkflowInv, NEW c \in Clients, session[c] # Idle, session[c].todo # <<>>,
         NEW a, a = Arg(c), a.op \in {"adjust", "reserve"}, NEW r, Present(r), Duplicate(c, r),
         r = IF a.op = "adjust" THEN CorrectionRow(a.key) ELSE ReservationRow(a.key)
  PROVE  WorkflowInv'
<1> SUFFICES ASSUME NEW q, q = session[c].call,
                    NEW outcome, outcome = IF ~Direct(c) THEN "unknown"
                                           ELSE IF SameFact(db[r], a) THEN "ok" ELSE "conflict"
             PROVE  WorkflowInv'
  OBVIOUS
<1>1. Refuse(c, outcome)
  BY DEF Duplicate
<1>2. ASSUME outcome = "ok"
      PROVE  Told(q)
  <2>1. q.op \in InventoryOps /\ SameFact(db[r], a)
    BY <1>2 DEF Direct
  <2>2. a.op \in InventoryOps
    BY DEF InventoryOps
  <2>3. a = q
    BY <2>1, <2>2, JobOf DEF InventoryOps
  <2>4. a.op \notin Workflows
    BY DEF Workflows
  <2> QED
    BY <2>1, <2>3, <2>4 DEF Told
<1> QED
  BY <1>1, <1>2, RefuseKeeps

LEMMA RecordCorrectionKeeps ==
  ASSUME WorkflowInv, NEW c \in Clients, RecordCorrection(c)
  PROVE  WorkflowInv'
<1> SUFFICES ASSUME NEW a, a = Arg(c), NEW r, r = CorrectionRow(a.key),
                    NEW new, new = Fact(a, "recorded"), NEW w, w = RowIs(r, new)
             PROVE  WorkflowInv'
  OBVIOUS
<1>1. Ready(c, "record") /\ session[c].todo # <<>> /\ a.op = "adjust"
  BY DEF RecordCorrection, At
<1>2. a.op \in InventoryOps
  BY <1>1 DEF InventoryOps
<1>3. session[c].at = "record" /\ session[c] # Idle /\ SessionShape /\ JobAt(c, a) /\ JobIs(a)
  BY <1>1, <1>2, Before
<1>4. session[c].row = r /\ r[1] = "correction"
  BY <1>1, <1>3, StockKinds DEF JobAt
<1>5. r \in StockRows /\ r \in Rows
  BY <1>1, <1>3, StockRowsAre DEF JobIs, Rows
<1>6. CASE Present(r)
  <2>1. Duplicate(c, r)
    BY <1>4, <1>6 DEF RecordCorrection
  <2> QED
    BY <1>1, <1>3, <1>6, <2>1, DuplicateKeeps
<1>7. CASE ~Present(r)
  <2>1. Returns(c, w)
    BY <1>4, <1>7 DEF RecordCorrection
  <2>2. DOMAIN w = {r} /\ w[r] = new
    BY RowIsRow
  <2>3. /\ new.status = "recorded" /\ new.warehouse = a.warehouse /\ new.item = a.item
        /\ new.quantity = a.quantity /\ new \in CorrectionType
    BY <1>1, <1>3 DEF Fact, CorrectionType, JobIs
  <2>4. StockStep(r, db[r], new) /\ StockCall(session[c].call, r)
    BY <1>4, <1>7, <2>3 DEF StockStep, StockCall, Present, Absent
  <2>5. r \in Locked(c)
    BY <1>3, <1>4, <1>5, RowsApart DEF Locked
  <2>6. \A k : TransferRow(k) # r /\ ReservationRow(k) # r
    BY <1>4, StockKinds
  <2>7. Sees(c, r)' = new /\ Status(c, r)' = "recorded"
    BY <1>3, <2>1, <2>2, <2>3, ReturnsSee
  <2>8. Effect(c, a)'
    BY <1>1, <2>3, <2>7 DEF Effect, SameFact, Absent
  <2>9. r[1] \in Inserted
    BY <1>4 DEF Inserted
  <2> QED
    BY <1>1, <1>2, <1>4, <1>5, <1>7, <2>1, <2>2, <2>4, <2>5, <2>6, <2>8, <2>9, ReturnsKeeps
<1> QED
  BY <1>6, <1>7

\* A reservation that is there already, and of which the row is locked.
LEMMA SameReservation ==
  ASSUME WorkflowInv, NEW c \in Clients, NEW a, a.op = "reserve",
         NEW r \in StockRows, r = ReservationRow(a.key), Present(r), SameFact(db[r], a),
         r \in Locked(c), Returns(c, <<>>)
  PROVE  Effect(c, a)'
<1>1. r[1] = "reservation"
  BY StockKinds
<1>2. db[r] \in ReservationType /\ db[r].status # Absent
  BY <1>1 DEF WorkflowInv, Tables, StockIs, Present
<1>3. DOMAIN db[r] = {"status", "warehouse", "item", "quantity"}
  BY <1>2 DEF ReservationType
<1>4. Sees(c, r).status # Absent /\ SameFact(Sees(c, r), a)
  <2>1. CASE r \in DOMAIN session[c].mine
    <3>1. StockStep(r, db[r], Sees(c, r))
      BY <2>1, SeesStock
    <3>2. PICK s \in Outcomes : Sees(c, r) = [db[r] EXCEPT !.status = s]
      BY <1>1, <1>2, <3>1 DEF StockStep
    <3>3. s # Absent
      BY DEF Outcomes, Absent
    <3> QED
      BY <1>3, <3>2, <3>3 DEF SameFact
  <2>2. CASE r \notin DOMAIN session[c].mine
    BY <1>2, <2>2 DEF Sees
  <2> QED
    BY <2>1, <2>2
<1>5. SessionShape /\ r \notin DOMAIN <<>>
  BY DEF WorkflowInv
<1>6. /\ Sees(c, r)' = Sees(c, r) /\ Status(c, r)' = Status(c, r)
      /\ session'[c].locks = session[c].locks \cup Locked(c)
  BY <1>5, ReturnsSee
<1> QED
  BY <1>4, <1>6 DEF Effect, Status

LEMMA FindReservationKeeps ==
  ASSUME WorkflowInv, NEW c \in Clients, FindReservation(c)
  PROVE  WorkflowInv'
<1> SUFFICES ASSUME NEW a, a = Arg(c), NEW r, r = ReservationRow(a.key)
             PROVE  WorkflowInv'
  OBVIOUS
<1>1. Ready(c, "find") /\ session[c].todo # <<>> /\ a.op = "reserve"
  BY DEF FindReservation, At
<1>2. a.op \in InventoryOps
  BY <1>1 DEF InventoryOps
<1>3. session[c].at = "find" /\ session[c] # Idle /\ SessionShape /\ JobAt(c, a) /\ JobIs(a)
  BY <1>1, <1>2, Before
<1>4. session[c].row = r
  BY <1>1, <1>3 DEF JobAt
<1>5. r \in StockRows /\ r \in Rows /\ (Locked(c) = {} \/ Present(r))
  BY <1>1, <1>3, <1>4, StockRowsAre DEF JobIs, Rows, Locked
<1>6. CASE ~Present(r)
  <2>1. Goes(c, <<>>, "update", Balance(c))
    BY <1>4, <1>6 DEF FindReservation
  <2>2. session'[c].at = "update" /\ session'[c].row = BalanceRow(a.warehouse, a.item)
    BY <1>3, <2>1, GoesOn DEF Balance
  <2>3. JobAt(c, a)'
    BY <1>1, <2>2 DEF JobAt
  <2> QED
    BY <1>1, <1>2, <1>4, <1>5, <2>1, <2>3, GoesOnInJob
<1>7. CASE Present(r) /\ SameFact(db[r], a)
  <2>1. Returns(c, <<>>)
    BY <1>4, <1>7 DEF FindReservation
  <2>2. r \in Locked(c)
    BY <1>4, <1>5, <1>7, RowsApart DEF Locked
  <2>3. Effect(c, a)'
    BY <1>1, <1>5, <1>7, <2>1, <2>2, SameReservation
  <2> QED
    BY <1>1, <1>2, <1>4, <1>5, <2>1, <2>3, ReturnsNothing
<1>8. CASE Present(r) /\ ~SameFact(db[r], a)
  <2>1. Refuse(c, "conflict")
    BY <1>4, <1>8 DEF FindReservation
  <2> QED
    BY <2>1, RefuseKeeps
<1> QED
  BY <1>6, <1>7, <1>8

LEMMA ReserveKeeps ==
  ASSUME WorkflowInv, NEW c \in Clients, Reserve(c)
  PROVE  WorkflowInv'
<1> SUFFICES ASSUME NEW a, a = Arg(c), NEW s, s = Balance(c), NEW b, b = Sees(c, s),
                    NEW new, new = [b EXCEPT !.reserved = b.reserved + a.quantity]
             PROVE  WorkflowInv'
  OBVIOUS
<1>1. Ready(c, "update") /\ session[c].todo # <<>> /\ a.op = "reserve"
  BY DEF Reserve, At
<1>2. a.op \in InventoryOps
  BY <1>1 DEF InventoryOps
<1>3. session[c].at = "update" /\ session[c] # Idle /\ JobAt(c, a) /\ JobIs(a)
  BY <1>1, <1>2, Before
<1>4. /\ s \in StockRows /\ s[1] = "balance" /\ s = BalanceRow(a.warehouse, a.item)
      /\ a.quantity \in Quantities
  BY <1>1, <1>3, IsBalance DEF JobIs
<1>5. session[c].row = s /\ s[1] \notin Inserted
  BY <1>1, <1>3, <1>4 DEF JobAt, Inserted
<1>6. InStock(b)
  BY <1>4, SeesStock
<1>7. new = [b EXCEPT !.reserved = @ + a.quantity]
  OBVIOUS
<1>8. CASE Available(b, a.quantity)
  <2>1. Goes(c, RowIs(s, new), "record", ReservationRow(a.key))
    BY <1>7, <1>8 DEF Reserve
  <2>2. InStock(new) /\ new.status # Absent /\ b.status # Absent
    BY <1>4, <1>6, <1>8, AvailableInStock
  <2>3. s \in session[c].locks \cup Locked(c)
    <3>1. CASE s \in DOMAIN session[c].mine
      <4>1. Lock(session[c].call, s) \in session[c].locks
        BY <3>1 DEF WorkflowInv, MineOK
      <4> QED
        BY <1>4, <4>1 DEF Lock
    <3>2. CASE s \notin DOMAIN session[c].mine
      <4>1. Present(s)
        BY <2>2, <3>2 DEF Sees, Present
      <4> QED
        BY <1>4, <1>5, <4>1, RowsApart DEF Locked, Rows
    <3> QED
      BY <3>1, <3>2
  <2> QED
    BY <1>1, <1>4, <1>5, <2>1, <2>2, <2>3, GoesWithBalance
<1>9. CASE ~Available(b, a.quantity)
  <2>1. Refuse(c, "unavailable")
    BY <1>9 DEF Reserve
  <2> QED
    BY <2>1, RefuseKeeps
<1> QED
  BY <1>8, <1>9

LEMMA RecordReservationKeeps ==
  ASSUME WorkflowInv, NEW c \in Clients, RecordReservation(c)
  PROVE  WorkflowInv'
<1> SUFFICES ASSUME NEW a, a = Arg(c), NEW r, r = ReservationRow(a.key),
                    NEW new, new = Fact(a, "active"), NEW w, w = RowIs(r, new)
             PROVE  WorkflowInv'
  OBVIOUS
<1>1. Ready(c, "record") /\ session[c].todo # <<>> /\ a.op = "reserve"
  BY DEF RecordReservation, At
<1>2. a.op \in InventoryOps
  BY <1>1 DEF InventoryOps
<1>3. session[c].at = "record" /\ session[c] # Idle /\ SessionShape /\ JobAt(c, a) /\ JobIs(a)
  BY <1>1, <1>2, Before
<1>4. session[c].row = r /\ r[1] = "reservation"
  BY <1>1, <1>3, StockKinds DEF JobAt
<1>5. r \in StockRows /\ r \in Rows
  BY <1>1, <1>3, StockRowsAre DEF JobIs, Rows
<1>6. CASE Present(r)
  <2>1. Duplicate(c, r)
    BY <1>4, <1>6 DEF RecordReservation
  <2> QED
    BY <1>1, <1>3, <1>6, <2>1, DuplicateKeeps
<1>7. CASE ~Present(r)
  <2>1. Returns(c, w)
    BY <1>4, <1>7 DEF RecordReservation
  <2>2. DOMAIN w = {r} /\ w[r] = new
    BY RowIsRow
  <2>3. /\ new.status = "active" /\ new.warehouse = a.warehouse /\ new.item = a.item
        /\ new.quantity = a.quantity /\ new \in ReservationType
    BY <1>1, <1>3 DEF Fact, ReservationType, JobIs
  <2>4. session[c].call.op \in {"reserve", "confirmOrder"}
    BY <1>1, <1>2, <1>3, JobOf
  <2>5. StockStep(r, db[r], new) /\ StockCall(session[c].call, r)
    BY <1>4, <1>7, <2>3, <2>4 DEF StockStep, StockCall, Present, Absent
  <2>6. r \in Locked(c)
    BY <1>3, <1>4, <1>5, RowsApart DEF Locked
  <2>7. \A k : TransferRow(k) # r /\ (ReservationRow(k) = r => k = a.key)
    BY <1>4, StockKinds, SameRow
  <2>8. /\ Sees(c, r)' = new /\ Status(c, r)' = "active"
        /\ session'[c].locks = session[c].locks \cup Locked(c)
    BY <1>3, <2>1, <2>2, <2>3, ReturnsSee
  <2>9. Effect(c, a)'
    BY <1>1, <2>3, <2>6, <2>8 DEF Effect, SameFact, Absent
  <2>10. r[1] \in Inserted
    BY <1>4 DEF Inserted
  <2> QED
    BY <1>1, <1>2, <1>4, <1>5, <1>7, <2>1, <2>2, <2>5, <2>6, <2>7, <2>9, <2>10, ReturnsKeeps
<1> QED
  BY <1>6, <1>7
LEMMA LockReservationKeeps ==
  ASSUME WorkflowInv, NEW c \in Clients, LockReservation(c)
  PROVE  WorkflowInv'
<1> SUFFICES ASSUME NEW a, a = Arg(c), NEW r, r = session[c].row, NEW v, v = Sees(c, r)
             PROVE  WorkflowInv'
  OBVIOUS
<1>1. Ready(c, "reservation")
  BY DEF LockReservation
<1>2. /\ session[c].at = "reservation" /\ session[c] # Idle /\ session[c].todo # <<>>
      /\ SessionShape /\ JobAt(c, a) /\ JobIs(a) /\ a.op \in PartOps \cup InventoryOps \cup {"close"}
  BY <1>1, Before DEF JobLabels
<1>3. a.op \in {"release", "fulfill"}
  BY <1>2 DEF JobAt, PartOps, InventoryOps
<1>4. r = ReservationRow(a.key) /\ r[1] = "reservation"
  BY <1>2, <1>3, StockKinds DEF JobAt
<1>5. r \in StockRows /\ r \in Rows /\ r \in Locked(c)
  <2>1. r \in StockRows /\ r \in Rows
    BY <1>2, <1>3, <1>4, StockRowsAre DEF JobIs, Rows
  <2> QED
    BY <1>2, <2>1, RowsApart DEF Locked
<1>6. a.op \in PartOps /\ a.op \in InventoryOps
  BY <1>3 DEF PartOps, InventoryOps
<1>7. v.status # Absent => Present(r) \/ r \in DOMAIN session[c].mine
  BY DEF Sees, Present
<1>12. Ends[a.op] \notin {Absent, "active"} /\ "active" # Absent
  BY <1>3 DEF Ends, Absent
<1>8. CASE v.status = Absent
  <2>1. Refuse(c, "missing")
    BY <1>8, <1>12 DEF LockReservation
  <2> QED
    BY <2>1, RefuseKeeps
<1>9. CASE v.status # Absent /\ v.status = Ends[a.op]
  <2>1. Returns(c, <<>>)
    BY <1>9, <1>12 DEF LockReservation
  <2>2. r \notin DOMAIN <<>>
    OBVIOUS
  <2>3. Status(c, r)' = Status(c, r) /\ session'[c].locks = session[c].locks \cup Locked(c)
    BY <1>2, <2>1, <2>2, ReturnsSee
  <2>4. Effect(c, a)'
    BY <1>3, <1>4, <1>5, <1>9, <2>3 DEF Effect, Status
  <2> QED
    BY <1>1, <1>2, <1>3, <1>5, <1>6, <1>7, <1>9, <2>1, <2>4, ReturnsNothing
<1>10. CASE v.status # Absent /\ v.status # Ends[a.op] /\ v.status = "active"
  <2>1. Goes(c, <<>>, "balance", BalanceRow(v.warehouse, v.item))
    BY <1>10, <1>12 DEF LockReservation
  <2>2. r \notin DOMAIN session[c].mine
    <3> SUFFICES ASSUME r \in DOMAIN session[c].mine
                 PROVE  FALSE
      OBVIOUS
    <3>1. v = session[c].mine[r]
      BY DEF Sees
    <3>2. StockStep(r, db[r], v) /\ (db[r].status = Absent => StockCall(session[c].call, r))
      BY <1>5, <3>1, MineIs
    <3>3. /\ v \in ReservationType
          /\ db[r].status = Absent \/ \E s \in Outcomes : v = [db[r] EXCEPT !.status = s]
      BY <1>4, <3>2 DEF StockStep
    <3>4. CASE db[r].status = Absent
      <4>1. session[c].call.op \in {"reserve", "confirmOrder"}
        BY <1>4, <3>2, <3>4 DEF StockCall
      <4>2. session[c].call.op \in {"release", "fulfill", "cancelOrder", "fulfillOrder"}
        BY <1>2, <1>3, <1>6, JobOf
      <4> QED
        BY <4>1, <4>2
    <3>5. CASE \E s \in Outcomes : v = [db[r] EXCEPT !.status = s]
      <4>1. PICK s \in Outcomes : v = [db[r] EXCEPT !.status = s]
        BY <3>5
      <4>2. "status" \in DOMAIN v
        BY <3>3 DEF ReservationType
      <4>3. "status" \in DOMAIN db[r]
        BY <4>1, <4>2
      <4>4. v.status = s
        BY <4>1, <4>3
      <4> QED
        BY <1>10, <4>4 DEF Outcomes
    <3> QED
      BY <3>3, <3>4, <3>5
  <2>3. v = db[r]
    BY <2>2 DEF Sees
  <2>4. /\ session'[c].at = "balance" /\ session'[c].row = BalanceRow(v.warehouse, v.item)
        /\ UNCHANGED db /\ session'[c].locks = session[c].locks \cup Locked(c)
        /\ session'[c].mine = Over(<<>>, session[c].mine)
    BY <1>2, <2>1, GoesOn
  <2>5. r \notin DOMAIN session'[c].mine
    BY <2>2, <2>4, OverNothing
  <2>6. Ending(c, a.key)'
    <3>1. db'[r].status = "active"
      BY <1>10, <2>3, <2>4
    <3>2. session'[c].row = BalanceRow(db'[r].warehouse, db'[r].item)
      BY <2>3, <2>4
    <3> QED
      BY <1>4, <1>5, <2>4, <2>5, <3>1, <3>2 DEF Ending
  <2>7. JobAt(c, a)'
    BY <1>3, <2>4, <2>6 DEF JobAt
  <2> QED
    BY <1>1, <1>2, <1>5, <1>6, <1>7, <1>10, <2>1, <2>7, GoesOnInJob
<1>11. CASE v.status # Absent /\ v.status # Ends[a.op] /\ v.status # "active"
  <2>1. Refuse(c, "invalid")
    BY <1>11, <1>12 DEF LockReservation
  <2> QED
    BY <2>1, RefuseKeeps
<1> QED
  BY <1>8, <1>9, <1>10, <1>11

\* A reservation that is about to be ended, and its balance.
LEMMA EndingIs ==
  ASSUME WorkflowInv, NEW c \in Clients, NEW a, a = Arg(c), Ready(c, "balance"),
         session[c].todo # <<>>, a.op \in {"release", "fulfill"},
         NEW r, r = ReservationRow(a.key), NEW s, s = session[c].row
  PROVE  /\ r \in StockRows /\ r[1] = "reservation" /\ r \in session[c].locks
         /\ db[r].status = "active" /\ db[r] \in ReservationType /\ Reservation(c) = db[r]
         /\ db[r].quantity \in Quantities
         /\ s \in StockRows /\ s[1] = "balance" /\ s \in Locked(c) /\ InStock(Sees(c, s))
<1>1. a.op \in PartOps /\ a.op \in InventoryOps
  BY DEF PartOps, InventoryOps
<1>2. session[c].at = "balance" /\ JobAt(c, a) /\ JobIs(a)
  BY <1>1, Before
<1>3. Ending(c, a.key) /\ a.key \in Keys
  BY <1>2 DEF JobAt, JobIs
<1>4. /\ r \in session[c].locks /\ r \notin DOMAIN session[c].mine
      /\ db[r].status = "active" /\ s = BalanceRow(db[r].warehouse, db[r].item)
  BY <1>3 DEF Ending
<1>5. r \in StockRows /\ r[1] = "reservation"
  BY <1>3, StockRowsAre, StockKinds
<1>6. Reservation(c) = db[r]
  BY <1>4 DEF Reservation, Sees
<1>7. db[r] \in ReservationType
  BY <1>5 DEF WorkflowInv, Tables, StockIs
<1>8. db[r].warehouse \in Warehouses /\ db[r].item \in Items /\ db[r].quantity \in Quantities
  BY <1>4, <1>7 DEF ReservationType, Absent
<1>9. s \in StockRows /\ s[1] = "balance"
  BY <1>4, <1>8, StockRowsAre, StockKinds
<1>10. InStock(Sees(c, s))
  BY <1>9, SeesStock
<1>11. s \in Locked(c)
  BY <1>2, <1>9, RowsApart DEF Locked, Rows
<1> QED
  BY <1>4, <1>5, <1>6, <1>7, <1>8, <1>9, <1>10, <1>11

\* What its row becomes.
LEMMA EndedRow ==
  ASSUME NEW r, r[1] = "reservation", NEW old \in ReservationType, old.status = "active",
         NEW s \in Outcomes, NEW ended, ended = [old EXCEPT !.status = s]
  PROVE  StockStep(r, old, ended) /\ ended.status = s
<1>1. /\ DOMAIN old = {"status", "warehouse", "item", "quantity"}
      /\ old.warehouse \in Warehouses /\ old.item \in Items /\ old.quantity \in Quantities
  BY DEF ReservationType, Absent
<1>2. /\ ended = [status |-> s, warehouse |-> old.warehouse, item |-> old.item,
                  quantity |-> old.quantity]
      /\ ended.status = s
  BY <1>1
<1>3. ended \in ReservationType
  <2>1. [status |-> s, warehouse |-> old.warehouse, item |-> old.item,
         quantity |-> old.quantity] \in ReservationType
    BY <1>1 DEF ReservationType
  <2> QED
    BY <1>2, <2>1
<1> QED
  BY <1>2, <1>3 DEF StockStep

\* A reservation is ended, and its balance written with it.
LEMMA EndKeeps ==
  ASSUME WorkflowInv, NEW c \in Clients, NEW a, a = Arg(c), Ready(c, "balance"),
         session[c].todo # <<>>, a.op \in {"release", "fulfill"},
         NEW r, r = ReservationRow(a.key), NEW s, s = session[c].row,
         NEW new, InStock(new), new.status # Absent,
         NEW ended, StockStep(r, db[r], ended), ended.status = Ends[a.op],
         NEW w, DOMAIN w = {s, r}, w[s] = new, w[r] = ended, Returns(c, w)
  PROVE  WorkflowInv'
<1>1. /\ r \in StockRows /\ r[1] = "reservation" /\ r \in session[c].locks
      /\ db[r].status = "active"
      /\ s \in StockRows /\ s[1] = "balance" /\ s \in Locked(c)
  BY EndingIs
<1>2. s # r
  BY <1>1
<1>4. DOMAIN w = {s, r} /\ w[s] = new /\ w[r] = ended
  OBVIOUS
<1>5. db[r].status # Absent
  BY <1>1 DEF Absent
<1>6. StockStep(s, db[s], new) /\ StockCall(session[c].call, s)
  BY <1>1, BalanceWritten
<1>7. s[1] \notin Inserted
  BY <1>1 DEF Inserted
<1>8. /\ \A k : TransferRow(k) \notin {s, r}
      /\ \A k : ReservationRow(k) \in {s, r} => k = a.key
  BY <1>1, StockKinds, SameRow
<1>9. SessionShape
  BY DEF WorkflowInv
<1>10. Status(c, r)' = Ends[a.op] /\ session'[c].locks = session[c].locks \cup Locked(c)
  BY <1>4, <1>9, ReturnsSee
<1>11. Effect(c, a)'
  BY <1>1, <1>10 DEF Effect
<1>12. a.op \in (PartOps \cup InventoryOps) \ {"draft", "revenue", "reversal", "succeed"}
       /\ a.op # "insert"
  BY DEF PartOps, InventoryOps
<1>13. /\ DOMAIN w \subseteq StockRows
       /\ \A x \in DOMAIN w : /\ StockStep(x, db[x], w[x])
                              /\ db[x].status = Absent => StockCall(session[c].call, x)
                              /\ x \in session[c].locks \cup Locked(c)
  BY <1>1, <1>4, <1>5, <1>6
<1>14. /\ \A key : TransferRow(key) \notin DOMAIN w
       /\ \A key : ReservationRow(key) \in DOMAIN w => key = a.key
  BY <1>4, <1>8
<1> QED
  BY <1>7, <1>11, <1>12, <1>13, <1>14, ReturnsKeeps

LEMMA ReleaseKeeps ==
  ASSUME WorkflowInv, NEW c \in Clients, Release(c)
  PROVE  WorkflowInv'
<1> SUFFICES ASSUME NEW a, a = Arg(c), NEW r, r = ReservationRow(a.key),
                    NEW s, s = session[c].row, NEW b, b = Sees(c, s),
                    NEW v, v = Reservation(c), NEW n, n = v.quantity
             PROVE  WorkflowInv'
  OBVIOUS
<1>1. Ready(c, "balance") /\ session[c].todo # <<>> /\ a.op = "release"
  BY DEF Release, At
<1>2. /\ r[1] = "reservation" /\ v = db[r] /\ v.status = "active" /\ v \in ReservationType
      /\ n \in Quantities /\ InStock(b)
  BY <1>1, EndingIs
<1>3. CASE b.reserved >= n
  <2> DEFINE new == [b EXCEPT !.reserved = b.reserved - n]
             ended == [v EXCEPT !.status = Ends[a.op]]
             w == Over(RowIs(s, new), RowIs(r, ended))
  <2>1. Returns(c, w)
    BY <1>1, <1>3 DEF Release
  <2>2. InStock(new) /\ new.status # Absent
    BY <1>2, <1>3, EndedInStock
  <2>3. Ends[a.op] \in Outcomes
    BY <1>1 DEF Ends, Outcomes
  <2>4. StockStep(r, db[r], ended) /\ ended.status = Ends[a.op]
    BY <1>2, <2>3, EndedRow
  <2>5. s # r
    BY <1>1, <1>2, EndingIs
  <2> HIDE DEF new, ended
  <2>6. DOMAIN w = {s, r} /\ w[s] = new /\ w[r] = ended
    <3>1. DOMAIN w = {s} \cup {r}
      BY DEF Over, RowIs
    <3>2. w[s] = new
      BY DEF Over, RowIs
    <3>3. w[r] = ended
      BY <2>5 DEF Over, RowIs
    <3> QED
      BY <3>1, <3>2, <3>3
  <2> HIDE DEF w
  <2> QED
    BY <1>1, <2>1, <2>2, <2>4, <2>6, EndKeeps
<1>4. CASE ~(b.reserved >= n)
  <2>1. Refuse(c, "unavailable")
    BY <1>4 DEF Release
  <2> QED
    BY <2>1, RefuseKeeps
<1> QED
  BY <1>3, <1>4

LEMMA FulfillKeeps ==
  ASSUME WorkflowInv, NEW c \in Clients, Fulfill(c)
  PROVE  WorkflowInv'
<1> SUFFICES ASSUME NEW a, a = Arg(c), NEW r, r = ReservationRow(a.key),
                    NEW s, s = session[c].row, NEW b, b = Sees(c, s),
                    NEW v, v = Reservation(c), NEW n, n = v.quantity
             PROVE  WorkflowInv'
  OBVIOUS
<1>1. Ready(c, "balance") /\ session[c].todo # <<>> /\ a.op = "fulfill"
  BY DEF Fulfill, At
<1>2. /\ r[1] = "reservation" /\ v = db[r] /\ v.status = "active" /\ v \in ReservationType
      /\ n \in Quantities /\ InStock(b)
  BY <1>1, EndingIs
<1>3. CASE b.onHand >= n /\ b.reserved >= n
  <2> DEFINE new == [b EXCEPT !.onHand = b.onHand - n, !.reserved = b.reserved - n]
             ended == [v EXCEPT !.status = Ends[a.op]]
             w == Over(RowIs(s, new), RowIs(r, ended))
  <2>1. Returns(c, w)
    BY <1>1, <1>3 DEF Fulfill
  <2>2. InStock(new) /\ new.status # Absent
    BY <1>2, <1>3, EndedInStock
  <2>3. Ends[a.op] \in Outcomes
    BY <1>1 DEF Ends, Outcomes
  <2>4. StockStep(r, db[r], ended) /\ ended.status = Ends[a.op]
    BY <1>2, <2>3, EndedRow
  <2>5. s # r
    BY <1>1, <1>2, EndingIs
  <2> HIDE DEF new, ended
  <2>6. DOMAIN w = {s, r} /\ w[s] = new /\ w[r] = ended
    <3>1. DOMAIN w = {s} \cup {r}
      BY DEF Over, RowIs
    <3>2. w[s] = new
      BY DEF Over, RowIs
    <3>3. w[r] = ended
      BY <2>5 DEF Over, RowIs
    <3> QED
      BY <3>1, <3>2, <3>3
  <2> HIDE DEF w
  <2> QED
    BY <1>1, <2>1, <2>2, <2>4, <2>6, EndKeeps
<1>4. CASE ~(b.onHand >= n /\ b.reserved >= n)
  <2>1. Refuse(c, "unavailable")
    BY <1>4 DEF Fulfill
  <2> QED
    BY <2>1, RefuseKeeps
<1> QED
  BY <1>3, <1>4
\* The jobs that follow the warehouses of a draft.
DraftJobs(q) == [n \in DOMAIN q.lines |-> [op |-> "item", item |-> q.lines[n].item]]
                \o <<[q EXCEPT !.op = "insert"]>>

LEMMA DraftJobsAre ==
  ASSUME NEW q \in Calls, q.op = "draft"
  PROVE  /\ DraftJobs(q) \in Seq(Jobs) /\ DraftJobs(q) # <<>> /\ DraftLeft(DraftJobs(q), q)
         /\ Head(DraftJobs(q)) \in Parts
<1> DEFINE items == [n \in DOMAIN q.lines |-> [op |-> "item", item |-> q.lines[n].item]]
           last == [q EXCEPT !.op = "insert"]
           p == items \o <<last>>
<1>1. last \in Parts
  BY InsertJob
<1>2. q.lines \in Seq(StockLine)
  BY InventoryAssumption DEF Calls, InventoryCall
<1>3. DOMAIN q.lines = 1..Len(q.lines) /\ Len(q.lines) \in Nat
      /\ \A n \in DOMAIN q.lines : q.lines[n] \in StockLine
  BY <1>2
<1>4. \A n \in DOMAIN q.lines : [op |-> "item", item |-> q.lines[n].item] \in ItemJobs
  BY <1>3 DEF StockLine, ItemJobs
<1>5. items \in Seq(Parts) /\ Len(items) = Len(q.lines)
      /\ \A n \in 1..Len(items) : items[n] \in ItemJobs
  <2>1. \A n \in 1..Len(q.lines) : items[n] \in ItemJobs
    BY <1>3, <1>4
  <2>2. DOMAIN items = 1..Len(q.lines) /\ items = [n \in 1..Len(q.lines) |-> items[n]]
    BY <1>3
  <2>3. ItemJobs \subseteq Parts
    BY DEF Parts
  <2> HIDE DEF items
  <2>4. items \in [1..Len(q.lines) -> Parts]
    BY <2>1, <2>2, <2>3
  <2>5. items \in Seq(Parts)
    BY <1>3, <2>4
  <2>6. Len(items) = Len(q.lines)
    BY <1>3, <2>2, <2>5
  <2> QED
    BY <2>1, <2>5, <2>6
<1> HIDE DEF items, last
<1>6. /\ p \in Seq(Parts) /\ Len(p) = Len(items) + 1 /\ \A i \in 1..Len(items) : p[i] = items[i]
      /\ p[Len(items) + 1] = last
  BY <1>1, <1>5, WithOne
<1> HIDE DEF p
<1>7. Len(items) \in Nat
  BY <1>3, <1>5
<1>8. p # <<>> /\ p \in Seq(Jobs)
  BY <1>6, <1>7, PartsAreJobs
<1>9. Head(p) = p[1] /\ 1 \in 1..Len(p)
  BY <1>6, <1>7, <1>8
<1>10. Head(p) \in Parts
  BY <1>6, <1>9
<1>11. \A i \in 1..Len(p) : IF i = Len(p) THEN p[i] = last ELSE p[i] \in ItemJobs
  BY <1>5, <1>6, <1>7
<1>12. DraftLeft(p, q)
  BY <1>11 DEF DraftLeft, last
<1>13. p = DraftJobs(q)
  BY DEF p, items, last, DraftJobs
<1> QED
  BY <1>8, <1>10, <1>12, <1>13

LEMMA LockItemsKeeps ==
  ASSUME WorkflowInv, NEW c \in Clients, LockItems(c)
  PROVE  WorkflowInv'
<1> SUFFICES ASSUME NEW a, a = Arg(c), NEW q, q = session[c].call, NEW r, r = TransferRow(q.transfer)
             PROVE  WorkflowInv'
  OBVIOUS
<1>1. Ready(c, "second")
  BY DEF LockItems
<1>2. /\ session[c].at = "second" /\ session[c] # Idle /\ session[c].todo # <<>>
      /\ SessionShape /\ JobAt(c, a) /\ JobIs(a) /\ a.op \in PartOps \cup InventoryOps \cup {"close"}
  BY <1>1, Before DEF JobLabels
<1>3. a.op = "draft"
  BY <1>2 DEF JobAt, PartOps, InventoryOps
<1>4. session[c].row[1] = "warehouse"
  BY <1>2, <1>3, StockKinds DEF JobAt
<1>5. a = q /\ session[c].todo = <<q>>
  BY <1>2, <1>3, JobOf
<1>6. q \in Calls /\ InventoryAt(c) /\ q.op \in InventoryOps
  BY <1>2, <1>3, <1>5, JobStage DEF InventoryOps
<1>7. Continues(c, <<>>, DraftJobs(q))
  BY <1>5 DEF LockItems, DraftJobs
<1>8. /\ DraftJobs(q) \in Seq(Jobs) /\ DraftJobs(q) # <<>> /\ DraftLeft(DraftJobs(q), q)
      /\ Head(DraftJobs(q)) \in Parts
  BY <1>3, <1>5, <1>6, DraftJobsAre
<1>9. AtJob(c)' /\ \E at, row : Proceed(c, <<>>, at, row, DraftJobs(q))
  BY <1>2, <1>7, <1>8, NextPart
<1>10. PICK at, row : Proceed(c, <<>>, at, row, DraftJobs(q))
  BY <1>9
<1>11. /\ session'[c].call = q /\ session'[c].todo = DraftJobs(q)
       /\ DOMAIN session'[c].mine = DOMAIN session[c].mine
  BY <1>2, <1>10, ProceedsWithout
<1>12. Wrote(c, {})'
  BY <1>2, <1>5, <1>6, <1>11, NothingYet DEF Wrote
<1>13. NewTransfer(c)'
  <2>1. NewTransfer(c)
    BY <1>3, <1>5, <1>6 DEF InventoryAt
  <2> SUFFICES ASSUME NEW w, w = <<>>
               PROVE  NewTransfer(c)'
    OBVIOUS
  <2>2. Proceed(c, w, at, row, DraftJobs(q)) /\ r \notin DOMAIN w
    BY <1>10
  <2> QED
    BY <1>2, <2>1, <2>2, NewGoesOn
<1>14. InventoryAt(c)'
  BY <1>3, <1>5, <1>8, <1>9, <1>11, <1>12, <1>13 DEF InventoryAt
<1>15. StageOK(c)'
  BY <1>3, <1>5, <1>6, <1>8, <1>11, <1>14 DEF StageOK
<1> SUFFICES ASSUME NEW w, w = <<>>
             PROVE  WorkflowInv'
  OBVIOUS
<1>16. Proceed(c, w, at, row, DraftJobs(q)) /\ DOMAIN w = {}
  BY <1>10
<1> QED
  BY <1>1, <1>4, <1>15, <1>16, StockStepKeeps DEF Inserted

LEMMA InsertTransferKeeps ==
  ASSUME WorkflowInv, NEW c \in Clients, InsertTransfer(c)
  PROVE  WorkflowInv'
<1> SUFFICES ASSUME NEW a, a = Arg(c), NEW q, q = session[c].call, NEW r, r = session[c].row,
                    NEW new, new = [status |-> "draft", from |-> a.from, to |-> a.to, lines |-> a.lines],
                    NEW w, w = RowIs(r, new)
             PROVE  WorkflowInv'
  OBVIOUS
<1>1. Ready(c, "insert") /\ Returns(c, w)
  BY DEF InsertTransfer
<1>2. /\ session[c].at = "insert" /\ session[c] # Idle /\ session[c].todo # <<>>
      /\ SessionShape /\ JobAt(c, a) /\ JobIs(a) /\ a.op \in PartOps \cup InventoryOps \cup {"close"}
  BY <1>1, Before DEF JobLabels
<1>3. a.op = "insert"
  BY <1>2 DEF JobAt, PartOps, InventoryOps
<1>4. q.op = "draft" /\ NewTransfer(c) /\ a.transfer = q.transfer
  BY <1>2, <1>3, JobOf DEF PartOps
<1>5. r = TransferRow(a.transfer) /\ r[1] = "transfer" /\ a.transfer \in Transfers
  BY <1>2, <1>3, StockKinds DEF JobAt, JobIs
<1>6. r \in StockRows /\ r \in Rows
  BY <1>5, StockRowsAre DEF Rows
<1>7. DOMAIN w = {r} /\ w[r] = new
  BY RowIsRow
<1>8. new \in TransferType /\ new.status = "draft"
  BY <1>2, <1>3 DEF TransferType, JobIs
<1>9. db[r].status = Absent
  BY <1>4, <1>5 DEF NewTransfer
<1>10. StockStep(r, db[r], new) /\ StockCall(q, r)
  BY <1>4, <1>5, <1>8, <1>9 DEF StockStep, StockCall
<1>11. r \in Locked(c) /\ r[1] \notin Inserted
  BY <1>2, <1>5, <1>6, RowsApart DEF Locked, Inserted
<1>12. \A k : ReservationRow(k) # r
  BY <1>5, StockKinds
<1>13. Status(c, r)' # Absent
  <2>1. Status(c, r)' = "draft"
    BY <1>1, <1>2, <1>7, <1>8, ReturnsSee
  <2> QED
    BY <2>1 DEF Absent
<1>14. Effect(c, a)'
  BY <1>3 DEF Effect
<1>15. a.op \in (PartOps \cup InventoryOps) \ {"draft", "revenue", "reversal", "succeed"}
  BY <1>3 DEF PartOps
<1> QED
  BY <1>1, <1>2, <1>3, <1>5, <1>6, <1>7, <1>10, <1>11, <1>12, <1>13, <1>14, <1>15, ReturnsKeeps

\* The balances that the lines of a transfer are taken from, or brought to.
LEMMA LinesAreMoves ==
  ASSUME NEW t \in TransferType, t.status # Absent, NEW op \in {"ship", "arrive"},
         NEW w \in Warehouses
  PROVE  /\ Lines(t, op, w) \in Seq(Jobs) /\ MovesLeft(Lines(t, op, w), op)
         /\ Lines(t, op, w) # <<>> =>
              Head(Lines(t, op, w)) \in Parts /\ Head(Lines(t, op, w)).op = op
<1> DEFINE p == Lines(t, op, w)
<1>1. t.lines \in Seq(StockLine)
  BY DEF TransferType
<1>2. DOMAIN t.lines = 1..Len(t.lines) /\ Len(t.lines) \in Nat
      /\ \A n \in DOMAIN t.lines : t.lines[n] \in StockLine
  BY <1>1
<1>3. \A n \in DOMAIN t.lines : [op |-> op, warehouse |-> w, item |-> t.lines[n].item,
                                 quantity |-> t.lines[n].quantity] \in MoveJobs
  BY <1>2 DEF StockLine, MoveJobs
<1>4. /\ DOMAIN p = 1..Len(t.lines) /\ p = [n \in 1..Len(t.lines) |-> p[n]]
      /\ \A n \in 1..Len(t.lines) : p[n] \in MoveJobs /\ p[n].op = op
  BY <1>2, <1>3 DEF Lines
<1>5. MoveJobs \subseteq Parts
  BY DEF Parts
<1> HIDE DEF p
<1>6. p \in [1..Len(t.lines) -> Parts]
  BY <1>4, <1>5
<1>7. p \in Seq(Parts)
  BY <1>2, <1>6
<1>8. Len(p) = Len(t.lines)
  BY <1>2, <1>4, <1>7
<1>9. p \in Seq(Jobs)
  BY <1>7, PartsAreJobs
<1>10. MovesLeft(p, op)
  BY <1>4, <1>8 DEF MovesLeft
<1>11. p # <<>> => Head(p) = p[1] /\ 1 \in 1..Len(t.lines)
  BY <1>2, <1>7, <1>8
<1>12. p # <<>> => Head(p) \in Parts /\ Head(p).op = op
  BY <1>4, <1>5, <1>11
<1> QED
  BY <1>9, <1>10, <1>12 DEF p

\* What its row becomes.
LEMMA MovedRow ==
  ASSUME NEW t \in TransferType, t.status # Absent, NEW status \in {"confirmed", "completed"},
         NEW new, new = [t EXCEPT !.status = status]
  PROVE  new \in TransferType /\ new.status = status
<1>1. /\ DOMAIN t = {"status", "from", "to", "lines"} /\ t.from \in Warehouses
      /\ t.to \in Warehouses /\ t.lines \in Seq(StockLine)
  BY DEF TransferType
<1>2. /\ new = [status |-> status, from |-> t.from, to |-> t.to, lines |-> t.lines]
      /\ new.status = status
  BY <1>1
<1>3. [status |-> status, from |-> t.from, to |-> t.to, lines |-> t.lines] \in TransferType
  BY <1>1 DEF TransferType
<1> QED
  BY <1>2, <1>3

\* A transfer goes on to status, and its lines are moved.
LEMMA MoveKeeps ==
  ASSUME WorkflowInv, NEW c \in Clients, NEW a, a = Arg(c), Ready(c, "transfer"),
         session[c].todo # <<>>, NEW r, r = session[c].row, NEW t, t = db[r],
         NEW status, NEW op, NEW w \in Warehouses, NEW new \in TransferType, new.status = status,
         \/ a.op = "confirm" /\ t.status = "draft" /\ status = "confirmed" /\ op = "ship"
         \/ a.op = "complete" /\ t.status = "confirmed" /\ status = "completed" /\ op = "arrive",
         NEW rows, DOMAIN rows = {r}, rows[r] = new, Continues(c, rows, Lines(t, op, w))
  PROVE  WorkflowInv'
<1> SUFFICES ASSUME NEW q, q = session[c].call
             PROVE  WorkflowInv'
  OBVIOUS
<1>1. a.op \in InventoryOps
  BY DEF InventoryOps
<1>2. session[c].at = "transfer" /\ session[c] # Idle /\ SessionShape /\ JobAt(c, a) /\ JobIs(a)
  BY <1>1, Before
<1>3. a = q /\ session[c].todo = <<q>>
  BY <1>1, <1>2, JobOf
<1>4. q \in Calls /\ InventoryAt(c)
  BY <1>1, <1>2, <1>3, JobStage
<1>5. r = TransferRow(q.transfer) /\ r[1] = "transfer" /\ q.transfer \in Transfers
  BY <1>2, <1>3, StockKinds DEF JobAt, JobIs
<1>6. r \in StockRows /\ r \in Rows
  BY <1>5, StockRowsAre DEF Rows
<1>7. t \in TransferType /\ t.status # Absent
  BY <1>5, <1>6 DEF WorkflowInv, Tables, StockIs, Absent
<1>9. DOMAIN rows = {r} /\ rows[r] = new
  OBVIOUS
<1>10. StockStep(r, db[r], new)
  BY <1>5 DEF StockStep
<1>11. r \in Locked(c) /\ r[1] \notin Inserted
  BY <1>2, <1>5, <1>6, RowsApart DEF Locked, Inserted
<1>12. op \in {"ship", "arrive"}
  OBVIOUS
<1>13. /\ Lines(t, op, w) \in Seq(Jobs) /\ MovesLeft(Lines(t, op, w), op)
       /\ Lines(t, op, w) # <<>> =>
            Head(Lines(t, op, w)) \in Parts /\ Head(Lines(t, op, w)).op = op
  BY <1>7, <1>12, LinesAreMoves
<1>14. AtJob(c)' /\ \E at, row : Proceed(c, rows, at, row, Lines(t, op, w))
  BY <1>2, <1>13, NextPart
<1>15. PICK at, row : Proceed(c, rows, at, row, Lines(t, op, w))
  BY <1>14
<1>16. session'[c].call = q /\ session'[c].todo = Lines(t, op, w)
  BY <1>2, <1>15, Proceeds
<1>17. Status(c, r)' = status
  BY <1>2, <1>9, <1>15, SeesThen
<1>18. Effect(c, q)'
  BY <1>3, <1>5, <1>17 DEF Effect
<1>19. Lines(t, op, w) # <<q>>
  <2>1. <<q>> # <<>> /\ Head(<<q>>) = q /\ q.op # op
    BY <1>3, HeadOfOne
  <2> QED
    BY <1>13, <2>1
<1>20. InventoryAt(c)'
  BY <1>3, <1>13, <1>14, <1>16, <1>18, <1>19 DEF InventoryAt
<1>21. StageOK(c)'
  BY <1>1, <1>3, <1>4, <1>13, <1>16, <1>20 DEF StageOK, InventoryOps
<1>22. /\ DOMAIN rows \subseteq StockRows
       /\ \A x \in DOMAIN rows : /\ StockStep(x, db[x], rows[x])
                                 /\ db[x].status # Absent
                                 /\ x \in session[c].locks \cup Locked(c)
  BY <1>6, <1>7, <1>9, <1>10, <1>11
<1> QED
  BY <1>11, <1>15, <1>21, <1>22, StockStepKeeps

\* A transfer that has already come to what is asked.
LEMMA MovedKeeps ==
  ASSUME WorkflowInv, NEW c \in Clients, NEW a, a = Arg(c), Ready(c, "transfer"),
         session[c].todo # <<>>, NEW t, t = db[session[c].row],
         \/ a.op = "confirm" /\ t.status \in {"confirmed", "completed"}
         \/ a.op = "complete" /\ t.status = "completed",
         Returns(c, <<>>)
  PROVE  WorkflowInv'
<1> SUFFICES ASSUME NEW q, q = session[c].call, NEW r, r = session[c].row
             PROVE  WorkflowInv'
  OBVIOUS
<1>1. a.op \in InventoryOps
  BY DEF InventoryOps
<1>2. session[c].at = "transfer" /\ session[c] # Idle /\ SessionShape /\ JobAt(c, a) /\ JobIs(a)
  BY <1>1, Before
<1>3. a = q /\ session[c].todo = <<q>>
  BY <1>1, <1>2, JobOf
<1>4. r = TransferRow(q.transfer) /\ r[1] = "transfer"
  BY <1>2, <1>3, StockKinds DEF JobAt
<1>5. Sees(c, r) = t
  BY <1>1, <1>2, <1>3, NothingYet
<1>6. Status(c, r)' = Status(c, r)
  <2>1. r \notin DOMAIN <<>>
    OBVIOUS
  <2> QED
    BY <1>2, <2>1, ReturnsSee
<1>7. Effect(c, a)'
  BY <1>3, <1>4, <1>5, <1>6 DEF Effect, Status
<1>8. a.op \in (PartOps \cup InventoryOps) \ {"draft", "insert", "revenue", "reversal", "succeed"}
  BY <1>1
<1> QED
  BY <1>4, <1>7, <1>8, ReturnsNothing DEF Inserted

LEMMA ConfirmTransferKeeps ==
  ASSUME WorkflowInv, NEW c \in Clients, ConfirmTransfer(c)
  PROVE  WorkflowInv'
<1> SUFFICES ASSUME NEW a, a = Arg(c), NEW r, r = session[c].row, NEW t, t = db[r]
             PROVE  WorkflowInv'
  OBVIOUS
<1>1. Ready(c, "transfer") /\ session[c].todo # <<>> /\ a.op = "confirm"
  BY DEF ConfirmTransfer, At
<1>2. JobAt(c, a) /\ JobIs(a)
  <2>1. a.op \in InventoryOps
    BY <1>1 DEF InventoryOps
  <2> QED
    BY <1>1, <2>1, Before
<1>3. r \in StockRows /\ r[1] = "transfer"
  BY <1>1, <1>2, StockRowsAre, StockKinds DEF JobAt, JobIs
<1>4. t \in TransferType
  BY <1>3 DEF WorkflowInv, Tables, StockIs
<1>5. t.status \in {Absent, "draft", "confirmed", "completed"}
      /\ (t.status # Absent => t.from \in Warehouses)
  BY <1>4 DEF TransferType
<1>6. Absent \notin {"draft", "confirmed", "completed"}
  BY DEF Absent
<1>7. CASE t.status = Absent
  <2>1. Refuse(c, "missing")
    BY <1>6, <1>7 DEF ConfirmTransfer
  <2> QED
    BY <2>1, RefuseKeeps
<1>8. CASE t.status = "draft"
  <2> DEFINE new == [t EXCEPT !.status = "confirmed"]
             rows == RowIs(r, new)
  <2>1. Continues(c, rows, Lines(t, "ship", t.from))
    BY <1>6, <1>8 DEF ConfirmTransfer
  <2>2. t.from \in Warehouses
    BY <1>5, <1>6, <1>8
  <2>3. new \in TransferType /\ new.status = "confirmed"
    BY <1>4, <1>6, <1>8, MovedRow
  <2>4. DOMAIN rows = {r} /\ rows[r] = new
    BY RowIsRow
  <2> HIDE DEF rows, new
  <2> QED
    BY <1>1, <1>8, <2>1, <2>2, <2>3, <2>4, MoveKeeps
<1>9. CASE t.status \in {"confirmed", "completed"}
  <2>1. Returns(c, <<>>)
    BY <1>6, <1>9 DEF ConfirmTransfer
  <2> QED
    BY <1>1, <1>9, <2>1, MovedKeeps
<1> QED
  BY <1>5, <1>7, <1>8, <1>9

LEMMA CompleteTransferKeeps ==
  ASSUME WorkflowInv, NEW c \in Clients, CompleteTransfer(c)
  PROVE  WorkflowInv'
<1> SUFFICES ASSUME NEW a, a = Arg(c), NEW r, r = session[c].row, NEW t, t = db[r]
             PROVE  WorkflowInv'
  OBVIOUS
<1>1. Ready(c, "transfer") /\ session[c].todo # <<>> /\ a.op = "complete"
  BY DEF CompleteTransfer, At
<1>2. JobAt(c, a) /\ JobIs(a)
  <2>1. a.op \in InventoryOps
    BY <1>1 DEF InventoryOps
  <2> QED
    BY <1>1, <2>1, Before
<1>3. r \in StockRows /\ r[1] = "transfer"
  BY <1>1, <1>2, StockRowsAre, StockKinds DEF JobAt, JobIs
<1>4. t \in TransferType
  BY <1>3 DEF WorkflowInv, Tables, StockIs
<1>5. t.status \in {Absent, "draft", "confirmed", "completed"}
      /\ (t.status # Absent => t.to \in Warehouses)
  BY <1>4 DEF TransferType
<1>6. Absent \notin {"draft", "confirmed", "completed"}
  BY DEF Absent
<1>7. CASE t.status = Absent
  <2>1. Refuse(c, "missing")
    BY <1>6, <1>7 DEF CompleteTransfer
  <2> QED
    BY <2>1, RefuseKeeps
<1>8. CASE t.status = "completed"
  <2>1. Returns(c, <<>>)
    BY <1>6, <1>8 DEF CompleteTransfer
  <2> QED
    BY <1>1, <1>8, <2>1, MovedKeeps
<1>9. CASE t.status = "confirmed"
  <2> DEFINE new == [t EXCEPT !.status = "completed"]
             rows == RowIs(r, new)
  <2>1. Continues(c, rows, Lines(t, "arrive", t.to))
    BY <1>6, <1>9 DEF CompleteTransfer
  <2>2. t.to \in Warehouses
    BY <1>5, <1>6, <1>9
  <2>3. new \in TransferType /\ new.status = "completed"
    BY <1>4, <1>6, <1>9, MovedRow
  <2>4. DOMAIN rows = {r} /\ rows[r] = new
    BY RowIsRow
  <2> HIDE DEF rows, new
  <2> QED
    BY <1>1, <1>9, <2>1, <2>2, <2>3, <2>4, MoveKeeps
<1>10. CASE t.status = "draft"
  <2>1. Refuse(c, "invalid")
    BY <1>6, <1>10 DEF CompleteTransfer
  <2> QED
    BY <2>1, RefuseKeeps
<1> QED
  BY <1>5, <1>7, <1>8, <1>9, <1>10
-----------------------------------------------------------------------------
(* The statements of the workflows and of Sales. *)

\* Jobs of Inventory and of the books have their own statements.
LEMMA OutOfJobs ==
  ASSUME NEW c \in Clients, AtJob(c)
  PROVE  /\ session[c].at \notin {"lookup", "order"}
         /\ session[c].at = "record" => session[c].row[1] \in {"correction", "reservation"}
         /\ session[c].at = "find" => session[c].todo # <<>> /\ Arg(c).op \in {"adjust", "reserve"}
<1>1. CASE session[c].todo = <<>>
  BY <1>1 DEF AtJob
<1>2. CASE session[c].todo # <<>>
  <2> SUFFICES ASSUME NEW a, a = Arg(c)
               PROVE  /\ session[c].at \notin {"lookup", "order"}
                      /\ session[c].at = "record" => session[c].row[1] \in {"correction", "reservation"}
                      /\ session[c].at = "find" => a.op \in {"adjust", "reserve"}
    BY <1>2
  <2>1. a \in Parts \cup StockCalls /\ JobAt(c, a)
    BY <1>2 DEF AtJob, Arg
  <2>2. a.op \in PartOps \cup InventoryOps \cup {"close"}
    BY <2>1, JobsAre
  <2> QED
    BY <2>1, <2>2, StockKinds DEF JobAt, PartOps, InventoryOps
<1> QED
  BY <1>1, <1>2

\* Where a call stands that is in none of them.
AtOnce(c) == LET q == session[c].call IN session[c].todo \in {<<q>>, <<AsksAgain(q)>>}

LEMMA OutOfJobsStage ==
  ASSUME WorkflowInv, NEW c \in Clients, session[c] # Idle, NEW q, q = session[c].call,
         NEW at, at = session[c].at, NEW row, row = session[c].row,
         \/ at \in {"lookup", "order"}
         \/ at = "find" /\ session[c].todo # <<>> /\ Arg(c).op \in {"cancelOrder", "fulfillOrder"}
         \/ at = "record" /\ row[1] \in {"run", "orderKey"}
  PROVE  /\ q \in Calls /\ session[c].todo \in Seq(Jobs)
         /\ q.op \in Workflows \cup {"salesConfirm", "salesCancel"}
         /\ q.op = "confirmOrder" => ~ConfirmsLines(c) /\ ConfirmingAt(c)
         /\ q.op \in {"cancelOrder", "fulfillOrder"} =>
              EndingAt(c) /\ \A k : ~EndsLines(c, k)
         /\ q.op \in {"salesConfirm", "salesCancel"} => SalesAt(c) /\ ~AtJob(c)
<1>1. /\ q \in Calls /\ session[c].todo \in Seq(Jobs)
      /\ q.op = "confirmOrder" => ConfirmingAt(c)
      /\ q.op \in {"cancelOrder", "fulfillOrder"} => EndingAt(c)
      /\ q.op \in {"salesConfirm", "salesCancel"} => SalesAt(c)
      /\ q.op = "close" => CloseAt(c)
      /\ q.op \in InventoryOps => InventoryAt(c)
  BY DEF WorkflowInv, StageOK
<1>2. q.op \in CallOps
  BY <1>1 DEF Calls
<1>3. ~AtJob(c)
  BY OutOfJobs
<1>4. ~ConfirmsLines(c) /\ (\A k : ~EndsLines(c, k)) /\ ~CloseAt(c) /\ ~InventoryAt(c)
  BY <1>3 DEF ConfirmsLines, EndsLines, CloseAt, InventoryAt
<1> QED
  BY <1>1, <1>2, <1>3, <1>4 DEF CallOps

\* A workflow's call that is sought, or looked up.
LEMMA LookupStage ==
  ASSUME WorkflowInv, NEW c \in Clients, session[c].at = "lookup", NEW q, q = session[c].call
  PROVE  /\ q \in Calls /\ q.op \in Workflows /\ session[c] # Idle /\ session[c].row = NoRow
         /\ session[c].todo \in Seq(Jobs) /\ DOMAIN session[c].mine = {}
         /\ session[c].todo # <<>> /\ Arg(c).op = q.op
         /\ q.op = "confirmOrder" => session[c].todo = <<q>>
         /\ q.op \in {"cancelOrder", "fulfillOrder"} => AtOnce(c) /\ Holds(c)
<1>1. session[c] # Idle
  BY IdleFields
<1>2. /\ q \in Calls /\ session[c].todo \in Seq(Jobs)
      /\ q.op \in Workflows \cup {"salesConfirm", "salesCancel"}
      /\ q.op = "confirmOrder" => ~ConfirmsLines(c) /\ ConfirmingAt(c)
      /\ q.op \in {"cancelOrder", "fulfillOrder"} => EndingAt(c) /\ \A k : ~EndsLines(c, k)
      /\ q.op \in {"salesConfirm", "salesCancel"} => SalesAt(c) /\ ~AtJob(c)
  BY <1>1, OutOfJobsStage
<1>3. q.op \notin {"salesConfirm", "salesCancel"}
  BY <1>2 DEF SalesAt
<1>4. q.op = "confirmOrder" => /\ session[c].row = NoRow /\ session[c].todo = <<q>>
                               /\ DOMAIN session[c].mine = {}
  BY <1>2 DEF ConfirmingAt, Wrote
<1>5. q.op \in {"cancelOrder", "fulfillOrder"} =>
        /\ session[c].row = NoRow /\ AtOnce(c) /\ Holds(c) /\ DOMAIN session[c].mine = {}
  BY <1>2 DEF EndingAt, Wrote, AtOnce
<1>6. session[c].todo # <<>> /\ Arg(c).op = q.op
  <2>1. session[c].todo \in {<<q>>, <<AsksAgain(q)>>}
    BY <1>2, <1>3, <1>4, <1>5 DEF AtOnce, Workflows
  <2>2. AsksAgain(q).op = q.op
    BY DEF AsksAgain
  <2> QED
    BY <2>1, <2>2, HeadOfOne DEF Arg
<1> QED
  BY <1>1, <1>2, <1>3, <1>4, <1>5, <1>6 DEF Workflows

LEMMA FindStage ==
  ASSUME WorkflowInv, NEW c \in Clients, session[c].at = "find", NEW q, q = session[c].call,
         session[c].todo # <<>>, Arg(c).op \in {"cancelOrder", "fulfillOrder"}
  PROVE  /\ q \in Calls /\ q.op \in {"cancelOrder", "fulfillOrder"} /\ session[c] # Idle
         /\ session[c].row = ConfirmationRow(q.order) /\ session[c].todo \in Seq(Jobs)
         /\ DOMAIN session[c].mine = {} /\ AtOnce(c)
<1>1. session[c] # Idle
  BY IdleFields
<1>2. /\ q \in Calls /\ session[c].todo \in Seq(Jobs)
      /\ q.op \in Workflows \cup {"salesConfirm", "salesCancel"}
      /\ q.op = "confirmOrder" => ~ConfirmsLines(c) /\ ConfirmingAt(c)
      /\ q.op \in {"cancelOrder", "fulfillOrder"} => EndingAt(c) /\ \A k : ~EndsLines(c, k)
      /\ q.op \in {"salesConfirm", "salesCancel"} => SalesAt(c) /\ ~AtJob(c)
  BY <1>1, OutOfJobsStage
<1>3. q.op \notin {"salesConfirm", "salesCancel"} /\ q.op # "confirmOrder"
  BY <1>2 DEF SalesAt, ConfirmingAt
<1>4. q.op \in {"cancelOrder", "fulfillOrder"}
  BY <1>2, <1>3 DEF Workflows
<1>5. session[c].row = ConfirmationRow(q.order) /\ DOMAIN session[c].mine = {} /\ AtOnce(c)
  BY <1>2, <1>4 DEF EndingAt, Wrote, AtOnce
<1> QED
  BY <1>1, <1>2, <1>4, <1>5

\* A call whose own run is being inserted.
LEMMA RecordStage ==
  ASSUME WorkflowInv, NEW c \in Clients, session[c].at = "record", NEW q, q = session[c].call,
         session[c].row = OwnRun(c)
  PROVE  /\ q \in Calls /\ q.op \in Workflows /\ session[c] # Idle
         /\ session[c].todo \in Seq(Jobs) /\ DOMAIN session[c].mine = {}
         /\ q.op = "confirmOrder" => session[c].todo = <<q>>
         /\ q.op \in {"cancelOrder", "fulfillOrder"} => AtOnce(c) /\ Holds(c) /\ FirstToEnd(c)
<1>1. session[c] # Idle
  BY IdleFields
<1>2. session[c].row[1] = "run"
  BY OwnRunIs
<1>3. /\ q \in Calls /\ session[c].todo \in Seq(Jobs)
      /\ q.op \in Workflows \cup {"salesConfirm", "salesCancel"}
      /\ q.op = "confirmOrder" => ~ConfirmsLines(c) /\ ConfirmingAt(c)
      /\ q.op \in {"cancelOrder", "fulfillOrder"} => EndingAt(c) /\ \A k : ~EndsLines(c, k)
      /\ q.op \in {"salesConfirm", "salesCancel"} => SalesAt(c) /\ ~AtJob(c)
  BY <1>1, <1>2, OutOfJobsStage
<1>4. session[c].row[1] # "orderKey" /\ \A k : KeyRow(k)[1] = "orderKey"
  BY <1>2, OrderKinds
<1>5. q.op \notin {"salesConfirm", "salesCancel"}
  BY <1>3, <1>4 DEF SalesAt
<1>6. q.op = "confirmOrder" => session[c].todo = <<q>> /\ DOMAIN session[c].mine = {}
  BY <1>3, <1>4 DEF ConfirmingAt, Wrote
<1>7. q.op \in {"cancelOrder", "fulfillOrder"} =>
        AtOnce(c) /\ Holds(c) /\ FirstToEnd(c) /\ DOMAIN session[c].mine = {}
  BY <1>3 DEF EndingAt, Wrote, AtOnce
<1> QED
  BY <1>1, <1>3, <1>5, <1>6, <1>7 DEF Workflows

\* A call that is at its order, in the workflow or in Sales.
LEMMA OrderStage ==
  ASSUME WorkflowInv, NEW c \in Clients, session[c].at = "order", NEW q, q = session[c].call
  PROVE  /\ q \in Calls /\ session[c] # Idle /\ session[c].row = OrderRow(q.order)
         /\ session[c].todo \in Seq(Jobs) /\ session[c].todo # <<>> /\ Arg(c).op = q.op
         /\ \/ q.op = "confirmOrder" /\ session[c].todo = <<q>> /\ RunOK(c)
               /\ DOMAIN session[c].mine = {OwnRun(c)}
            \/ q.op = "cancelOrder" /\ AtOnce(c) /\ Holds(c) /\ FirstToEnd(c) /\ RunOK(c)
               /\ DOMAIN session[c].mine = {OwnRun(c)}
            \/ q.op \in {"salesConfirm", "salesCancel"} /\ session[c].todo = <<q>>
               /\ DOMAIN session[c].mine = {}
<1>1. session[c] # Idle
  BY IdleFields
<1>2. /\ q \in Calls /\ session[c].todo \in Seq(Jobs)
      /\ q.op \in Workflows \cup {"salesConfirm", "salesCancel"}
      /\ q.op = "confirmOrder" => ~ConfirmsLines(c) /\ ConfirmingAt(c)
      /\ q.op \in {"cancelOrder", "fulfillOrder"} => EndingAt(c) /\ \A k : ~EndsLines(c, k)
      /\ q.op \in {"salesConfirm", "salesCancel"} => SalesAt(c) /\ ~AtJob(c)
  BY <1>1, OutOfJobsStage
<1>3. q.op \in {"salesConfirm", "salesCancel"} =>
        session[c].row = OrderRow(q.order) /\ session[c].todo = <<q>> /\ DOMAIN session[c].mine = {}
  BY <1>2 DEF SalesAt, Wrote
<1>4. q.op = "confirmOrder" => /\ session[c].row = OrderRow(q.order) /\ session[c].todo = <<q>>
                               /\ RunOK(c) /\ DOMAIN session[c].mine = {OwnRun(c)}
  BY <1>2 DEF ConfirmingAt, Wrote
<1>5. q.op \in {"cancelOrder", "fulfillOrder"} =>
        /\ q.op = "cancelOrder" /\ session[c].row = OrderRow(q.order) /\ AtOnce(c) /\ Holds(c)
        /\ FirstToEnd(c) /\ RunOK(c) /\ DOMAIN session[c].mine = {OwnRun(c)}
  BY <1>2 DEF EndingAt, Wrote, AtOnce
<1>6. session[c].todo # <<>> /\ Arg(c).op = q.op
  <2>1. session[c].todo \in {<<q>>, <<AsksAgain(q)>>}
    BY <1>2, <1>3, <1>4, <1>5 DEF AtOnce, Workflows
  <2>2. AsksAgain(q).op = q.op
    BY DEF AsksAgain
  <2> QED
    BY <2>1, <2>2, HeadOfOne DEF Arg
<1> QED
  BY <1>1, <1>2, <1>3, <1>4, <1>5, <1>6 DEF Workflows

\* A call that takes its key for the order, of which it holds the row.
LEMMA KeyStage ==
  ASSUME WorkflowInv, NEW c \in Clients, session[c].at = "record", NEW q, q = session[c].call,
         session[c].row[1] = "orderKey"
  PROVE  /\ q \in Calls /\ session[c] # Idle /\ session[c].row = KeyRow(q.key)
         /\ session[c].todo = <<q>> /\ session[c].todo \in Seq(Jobs)
         /\ OrderRow(q.order) \in session[c].locks /\ db[OrderRow(q.order)].status = "draft"
         /\ \/ q.op = "confirmOrder" /\ RunOK(c) /\ DOMAIN session[c].mine = {OwnRun(c)}
            \/ q.op = "salesConfirm" /\ DOMAIN session[c].mine = {}
<1>1. session[c] # Idle
  BY IdleFields
<1>2. /\ q \in Calls /\ session[c].todo \in Seq(Jobs)
      /\ q.op \in Workflows \cup {"salesConfirm", "salesCancel"}
      /\ q.op = "confirmOrder" => ~ConfirmsLines(c) /\ ConfirmingAt(c)
      /\ q.op \in {"cancelOrder", "fulfillOrder"} => EndingAt(c) /\ \A k : ~EndsLines(c, k)
      /\ q.op \in {"salesConfirm", "salesCancel"} => SalesAt(c) /\ ~AtJob(c)
  BY <1>1, OutOfJobsStage
<1>3. session[c].row # OwnRun(c)
  BY OwnRunIs
<1>4. q.op \notin {"cancelOrder", "fulfillOrder"}
  BY <1>2, <1>3 DEF EndingAt
<1>5. q.op = "confirmOrder" =>
        /\ session[c].row = KeyRow(q.key) /\ session[c].todo = <<q>> /\ RunOK(c)
        /\ DOMAIN session[c].mine = {OwnRun(c)}
        /\ OrderRow(q.order) \in session[c].locks /\ db[OrderRow(q.order)].status = "draft"
  BY <1>2, <1>3 DEF ConfirmingAt, Wrote
<1>6. q.op \in {"salesConfirm", "salesCancel"} =>
        /\ q.op = "salesConfirm" /\ session[c].row = KeyRow(q.key) /\ session[c].todo = <<q>>
        /\ DOMAIN session[c].mine = {}
        /\ OrderRow(q.order) \in session[c].locks /\ db[OrderRow(q.order)].status = "draft"
  BY <1>2 DEF SalesAt, Wrote
<1> QED
  BY <1>1, <1>2, <1>4, <1>5, <1>6 DEF Workflows

\* A statement of a workflow, of Sales or of the books that writes w.
LEMMA OrderStepKeeps ==
  ASSUME WorkflowInv, NEW c \in Clients, NEW label, Ready(c, label),
         label = "record" => session[c].row[1] \in Inserted /\ ~Present(session[c].row),
         NEW w, NEW at, NEW row, NEW todo, Proceed(c, w, at, row, todo),
         session[c].row[1] \in Inserted =>
           \/ Locked(c) = {}
           \/ session[c].row \in Rows
              /\ (Present(session[c].row) \/ session[c].row \in DOMAIN w \cup DOMAIN session[c].mine),
         DOMAIN w \subseteq OrderRows,
         \A r \in DOMAIN w : /\ OrderStep(session[c].call, r, db[r], w[r])
                             /\ Lock(session[c].call, r) \in session[c].locks \cup Locked(c),
         StageOK(c)'
  PROVE  WorkflowInv'
<1>1. \A d \in Clients : d # c => Locked(c) \cap session[d].locks = {}
  BY LockIsFree
<1>2. \A r \in Locked(c) : r = session[c].row
  BY DEF Locked
<1>3. ASSUME NEW r \in DOMAIN w
      PROVE  /\ Writes(session[c].call, r, db[r], w[r])
             /\ Lock(session[c].call, r) \in session[c].locks \cup Locked(c)
  <2>1. r \notin StockRows /\ r \in Rows /\ r \in OrderRows
    BY <1>3, RowsApart DEF Rows
  <2> QED
    BY <1>3, <2>1 DEF Writes
<1> QED
  BY <1>1, <1>2, <1>3, StepKeeps

\* One that writes nothing, at a row that nobody inserts.
LEMMA OrderGoesKeeps ==
  ASSUME WorkflowInv, NEW c \in Clients, NEW label, Ready(c, label), label # "record",
         NEW at, NEW row, NEW todo, Proceed(c, <<>>, at, row, todo),
         session[c].row = NoRow \/ session[c].row[1] \notin Inserted, StageOK(c)'
  PROVE  WorkflowInv'
<1>1. session[c].row = NoRow => Locked(c) = {}
  BY DEF Locked
<1> SUFFICES ASSUME NEW w, w = <<>>
             PROVE  WorkflowInv'
  OBVIOUS
<1>2. Proceed(c, w, at, row, todo)
  OBVIOUS
<1>3. DOMAIN w = {}
  OBVIOUS
<1> QED
  BY <1>1, <1>2, <1>3, OrderStepKeeps

\* What a session sees of the run that it was to insert.
LEMMA RunInput ==
  ASSUME WorkflowInv, NEW q \in Calls, q.op \in Workflows
  PROVE  /\ q.order \in Orders /\ q.key \in WorkflowKeys
         /\ RunRow(q.op, q.key) \in OrderRows /\ OrderRow(q.order) \in OrderRows
         /\ Present(RunRow(q.op, q.key)) => db[RunRow(q.op, q.key)].status = "succeeded"
<1>1. q.order \in Orders /\ q.key \in WorkflowKeys
  BY OrderAssumption DEF Calls, OrderCall
<1>2. RunIs(q.op, q.key)
  BY <1>1 DEF WorkflowInv, Tables
<1> QED
  BY <1>1, <1>2, OrderRowsAre DEF RunIs, Present

\* The result of a run is given again.
LEMMA ReplayKeeps ==
  ASSUME WorkflowInv, NEW c \in Clients, NEW q \in Calls, q = session[c].call,
         q.op \in Workflows, Present(OwnRun(c)), Replay(c, db[OwnRun(c)])
  PROVE  WorkflowInv'
<1> SUFFICES ASSUME NEW run, run = db[OwnRun(c)]
             PROVE  WorkflowInv'
  OBVIOUS
<1> DEFINE outcome == CASE run.input # Input(Asked(c)) -> "conflict"
                        [] ~EventMatches(c, run) \/ ~run.sound -> "corrupt"
                        [] OTHER -> "ok"
<1>1. Refuse(c, outcome)
  BY DEF Replay
<1>2. outcome = "ok" => run.input = Input(q)
  BY DEF Asked
<1>3. OwnRun(c) = RunRow(q.op, q.key) /\ run.status = "succeeded"
  BY RunInput, OwnRunIs
<1>4. outcome = "ok" => Told(q)
  BY <1>2, <1>3 DEF Told, Workflows
<1> HIDE DEF outcome
<1> QED
  BY <1>1, <1>4, RefuseKeeps

\* A conflict is given to the caller, or the call starts over.
LEMMA ConflictKeeps ==
  ASSUME WorkflowInv, NEW c \in Clients, NEW q \in Calls, q = session[c].call,
         q.op \in {"cancelOrder", "fulfillOrder"}, Conflict(c)
  PROVE  WorkflowInv'
<1>1. CASE Refuse(c, "conflict")
  BY <1>1, RefuseKeeps
<1>2. CASE Again(c)
  <2> DEFINE n == [Idle EXCEPT !.call = Asked(c), !.at = "find",
                               !.row = ConfirmationRow(Asked(c).order),
                               !.todo = <<[op |-> Asked(c).op, again |-> TRUE]>>]
  <2>1. session' = [session EXCEPT ![c] = n] /\ UNCHANGED db
    BY <1>2 DEF Again
  <2>2. /\ n.call = q /\ n.at = "find" /\ n.row = ConfirmationRow(q.order)
        /\ n.todo = <<AsksAgain(q)>> /\ DOMAIN n.mine = {}
    <3>1. /\ n.call = Asked(c) /\ n.at = "find" /\ n.row = ConfirmationRow(Asked(c).order)
          /\ DOMAIN n.mine = {}
      BY DEF Idle
    <3>2. n.todo = <<[op |-> Asked(c).op, again |-> TRUE]>>
      BY DEF Idle
    <3> HIDE DEF n
    <3> QED
      BY <3>1, <3>2 DEF Asked, AsksAgain
  <2> HIDE DEF n
  <2>3. session'[c] = n
    BY <2>1 DEF WorkflowInv, SessionShape
  <2>4. AsksAgain(q) \in Jobs
    BY DEF AsksAgain, Jobs, AgainJobs
  <2>5. <<AsksAgain(q)>> \in Seq(Jobs)
    BY <2>4
  <2>6. Wrote(c, {})'
    BY <2>2, <2>3 DEF Wrote
  <2>7. EndingAt(c)'
    BY <2>2, <2>3, <2>6 DEF EndingAt
  <2>8. StageOK(c)'
    BY <2>2, <2>3, <2>5, <2>7 DEF StageOK, InventoryOps
  <2> QED
    BY <1>2, <2>8, AgainKeeps
<1> QED
  BY <1>1, <1>2 DEF Conflict

\* What follows a statement of a workflow that writes nothing.
LEMMA NothingWritten ==
  ASSUME SessionShape, NEW c \in Clients, NEW at, NEW row, NEW todo, Proceed(c, <<>>, at, row, todo)
  PROVE  /\ session'[c].at = at /\ session'[c].row = row /\ session'[c].todo = todo
         /\ session'[c].call = session[c].call /\ UNCHANGED db
         /\ session'[c].locks = session[c].locks \cup Locked(c)
         /\ DOMAIN session'[c].mine = DOMAIN session[c].mine
         /\ OwnRun(c)' = OwnRun(c)
         /\ \A r : Sees(c, r)' = Sees(c, r) /\ Status(c, r)' = Status(c, r)
<1> SUFFICES ASSUME NEW w, w = <<>>
             PROVE  /\ session'[c].at = at /\ session'[c].row = row /\ session'[c].todo = todo
                    /\ session'[c].call = session[c].call /\ UNCHANGED db
                    /\ session'[c].locks = session[c].locks \cup Locked(c)
                    /\ DOMAIN session'[c].mine = DOMAIN session[c].mine
                    /\ OwnRun(c)' = OwnRun(c)
                    /\ \A r : Sees(c, r)' = Sees(c, r) /\ Status(c, r)' = Status(c, r)
  OBVIOUS
<1>1. Proceed(c, w, at, row, todo) /\ DOMAIN w = {}
  OBVIOUS
<1>2. /\ session'[c].at = at /\ session'[c].row = row /\ session'[c].todo = todo
      /\ session'[c].call = session[c].call /\ UNCHANGED db
      /\ session'[c].locks = session[c].locks \cup Locked(c)
  BY <1>1, Proceeds
<1>3. /\ DOMAIN session'[c].mine = DOMAIN w \cup DOMAIN session[c].mine
      /\ \A r : r \notin DOMAIN w => Sees(c, r)' = Sees(c, r) /\ Status(c, r)' = Status(c, r)
  BY <1>1, SeesThen
<1>4. OwnRun(c)' = OwnRun(c)
  BY <1>2 DEF OwnRun, Asked
<1> QED
  BY <1>1, <1>2, <1>3, <1>4

LEMMA LookupRunKeeps ==
  ASSUME WorkflowInv, NEW c \in Clients, LookupRun(c)
  PROVE  WorkflowInv'
<1> SUFFICES ASSUME NEW q, q = session[c].call
             PROVE  WorkflowInv'
  OBVIOUS
<1>1. Ready(c, "lookup") /\ session[c].at = "lookup" /\ Arg(c).op = "confirmOrder"
  BY DEF LookupRun, Ready, Does
<1>2. /\ q \in Calls /\ q.op = "confirmOrder" /\ session[c] # Idle /\ session[c].row = NoRow
      /\ session[c].todo = <<q>> /\ session[c].todo \in Seq(Jobs) /\ DOMAIN session[c].mine = {}
  BY <1>1, LookupStage
<1>3. CASE Present(OwnRun(c))
  <2>1. Replay(c, db[OwnRun(c)])
    BY <1>3 DEF LookupRun
  <2> QED
    BY <1>2, <1>3, <2>1, ReplayKeeps DEF Workflows
<1>4. CASE ~Present(OwnRun(c))
  <2>1. Proceed(c, <<>>, "record", OwnRun(c), session[c].todo)
    BY <1>4 DEF LookupRun, Goes
  <2>2. SessionShape
    BY DEF WorkflowInv
  <2>3. /\ session'[c].at = "record" /\ session'[c].row = OwnRun(c)' /\ session'[c].todo = <<q>>
        /\ session'[c].call = q /\ DOMAIN session'[c].mine = {}
    BY <1>2, <2>1, <2>2, NothingWritten
  <2>4. Wrote(c, {})'
    BY <2>3 DEF Wrote
  <2>5. ConfirmingAt(c)'
    BY <2>3, <2>4 DEF ConfirmingAt
  <2>6. StageOK(c)'
    BY <1>2, <2>3, <2>5 DEF StageOK, InventoryOps
  <2> QED
    BY <1>1, <1>2, <2>1, <2>6, OrderGoesKeeps
<1> QED
  BY <1>3, <1>4

\* Who finds a confirmation that succeeded finds the row of the order's.
LEMMA ConfirmationThere ==
  ASSUME WorkflowInv, NEW o \in Orders, Confirmations(o) # {}
  PROVE  Present(ConfirmationRow(o))
<1>1. Confirmations(o) = Succeeded("confirmOrder", o)
  BY DEF Confirmations, Succeeded
<1>2. PICK k \in WorkflowKeys : k \in Succeeded("confirmOrder", o)
  BY <1>1 DEF Confirmations
<1> QED
  BY <1>2 DEF WorkflowInv, Tables, RunsTell

LEMMA LoadConfirmationKeeps ==
  ASSUME WorkflowInv, NEW c \in Clients, LoadConfirmation(c)
  PROVE  WorkflowInv'
<1> SUFFICES ASSUME NEW q, q = session[c].call
             PROVE  WorkflowInv'
  OBVIOUS
<1>1. /\ Ready(c, "find") /\ session[c].at = "find" /\ session[c].todo # <<>>
      /\ Arg(c).op \in {"cancelOrder", "fulfillOrder"}
  BY DEF LoadConfirmation, Ready, Does
<1>2. /\ q \in Calls /\ q.op \in {"cancelOrder", "fulfillOrder"} /\ session[c] # Idle
      /\ session[c].row = ConfirmationRow(q.order) /\ session[c].todo \in Seq(Jobs)
      /\ DOMAIN session[c].mine = {} /\ AtOnce(c)
  BY <1>1, FindStage
<1> DEFINE keys == Confirmations(q.order)
<1>3. \/ Refuse(c, "missing") \/ Refuse(c, "corrupt")
      \/ keys # {} /\ Goes(c, <<>>, "lookup", NoRow)
  BY DEF LoadConfirmation, Asked
<1>4. CASE Refuse(c, "missing")
  BY <1>4, RefuseKeeps
<1>5. CASE Refuse(c, "corrupt")
  BY <1>5, RefuseKeeps
<1>6. CASE keys # {} /\ Goes(c, <<>>, "lookup", NoRow)
  <2>1. q.order \in Orders
    BY <1>2, RunInput DEF Workflows
  <2>2. Present(ConfirmationRow(q.order))
    BY <1>6, <2>1, ConfirmationThere
  <2>3. ConfirmationRow(q.order)[1] = "confirmation" /\ ConfirmationRow(q.order) # NoRow
    BY <2>1, OrderKinds, OrderRowsAre, RowsApart DEF Rows
  <2>4. Locked(c) = {ConfirmationRow(q.order)}
    BY <1>2, <2>2, <2>3, LockTaken
  <2>5. Proceed(c, <<>>, "lookup", NoRow, session[c].todo) /\ SessionShape
    BY <1>6 DEF Goes, WorkflowInv
  <2>6. /\ session'[c].at = "lookup" /\ session'[c].row = NoRow
        /\ session'[c].todo = session[c].todo /\ session'[c].call = q
        /\ DOMAIN session'[c].mine = {} /\ UNCHANGED db
        /\ session'[c].locks = session[c].locks \cup {ConfirmationRow(q.order)}
    BY <1>2, <2>4, <2>5, NothingWritten
  <2>7. Confirmations(q.order)' = Confirmations(q.order)
    BY <2>5, HoldsGoesOn
  <2>8. Holds(c)' /\ Wrote(c, {})'
    BY <1>6, <2>6, <2>7 DEF Holds, Wrote
  <2>9. EndingAt(c)'
    BY <1>2, <2>6, <2>8 DEF EndingAt, AtOnce
  <2>10. StageOK(c)'
    BY <1>2, <2>6, <2>9 DEF StageOK, InventoryOps
  <2>11. session[c].row[1] \notin Inserted
    BY <1>2, <2>3 DEF Inserted
  <2> QED
    BY <1>1, <2>5, <2>10, <2>11, OrderGoesKeeps
<1> QED
  BY <1>3, <1>4, <1>5, <1>6

LEMMA LookupLifecycleKeeps ==
  ASSUME WorkflowInv, NEW c \in Clients, LookupLifecycle(c)
  PROVE  WorkflowInv'
<1> SUFFICES ASSUME NEW q, q = session[c].call
             PROVE  WorkflowInv'
  OBVIOUS
<1>1. /\ Ready(c, "lookup") /\ session[c].at = "lookup"
      /\ Arg(c).op \in {"cancelOrder", "fulfillOrder"}
  BY DEF LookupLifecycle, Ready, Does
<1>2. /\ q \in Calls /\ q.op \in {"cancelOrder", "fulfillOrder"} /\ session[c] # Idle
      /\ session[c].row = NoRow /\ session[c].todo \in Seq(Jobs)
      /\ DOMAIN session[c].mine = {} /\ AtOnce(c) /\ Holds(c)
  BY <1>1, LookupStage
<1> DEFINE found == Related(q)
<1>3. IF found = {} THEN Goes(c, <<>>, "record", OwnRun(c)) ELSE ResolveLifecycle(c, found)
  BY DEF LookupLifecycle, Asked
<1>4. CASE found = {}
  <2>1. q.op \in Workflows /\ q.order \in Orders
    BY <1>2, RunInput DEF Workflows
  <2>2. FirstToEnd(c)
    <3> SUFFICES ASSUME NEW k \in Succeeded(q.op, q.order)
                 PROVE  FALSE
      BY DEF FirstToEnd
    <3>1. /\ k \in WorkflowKeys /\ db[RunRow(q.op, k)].status = "succeeded"
          /\ db[RunRow(q.op, k)].input.order = q.order
      BY DEF Succeeded
    <3>2. RunRow(q.op, k) \in RunRows /\ RunRow(q.op, k)[2] = q.op
      <4>1. RunRow(q.op, k) \in {RunRow(t, j) : t \in Workflows, j \in WorkflowKeys}
        BY <2>1, <3>1
      <4>2. RunRow(q.op, k)[2] = q.op
        BY OrderKinds
      <4>3. RunRows = {RunRow(t, j) : t \in Workflows, j \in WorkflowKeys}
        BY DEF RunRows
      <4> QED
        BY <4>1, <4>2, <4>3
    <3>3. RunRow(q.op, k) \in Related(q)
      BY <3>1, <3>2 DEF Related, Present, Absent
    <3> QED
      BY <1>4, <3>3
  <2>3. Proceed(c, <<>>, "record", OwnRun(c), session[c].todo) /\ SessionShape
    BY <1>3, <1>4 DEF Goes, WorkflowInv
  <2>4. /\ session'[c].at = "record" /\ session'[c].row = OwnRun(c)'
        /\ session'[c].todo = session[c].todo /\ session'[c].call = q
        /\ DOMAIN session'[c].mine = {}
    BY <1>2, <2>3, NothingWritten
  <2>5. Holds(c)' /\ FirstToEnd(c)' /\ Wrote(c, {})'
    BY <1>2, <2>2, <2>3, <2>4, HoldsGoesOn DEF Wrote
  <2>6. EndingAt(c)'
    BY <1>2, <2>4, <2>5 DEF EndingAt, AtOnce
  <2>7. StageOK(c)'
    BY <1>2, <2>4, <2>6 DEF StageOK, InventoryOps
  <2> QED
    BY <1>1, <1>2, <2>3, <2>7, OrderGoesKeeps
<1>5. CASE found # {}
  <2>1. \/ found = {OwnRun(c)} /\ Replay(c, db[OwnRun(c)])
        \/ Conflict(c)
    BY <1>3, <1>5 DEF ResolveLifecycle
  <2>2. CASE found = {OwnRun(c)} /\ Replay(c, db[OwnRun(c)])
    <3>1. Present(OwnRun(c))
      BY <2>2 DEF Related
    <3> QED
      BY <1>2, <2>2, <3>1, ReplayKeeps DEF Workflows
  <2>3. CASE Conflict(c)
    BY <1>2, <2>3, ConflictKeeps
  <2> QED
    BY <2>1, <2>2, <2>3
<1> QED
  BY <1>4, <1>5

\* The run of a call that has something left to do.
LEMMA RunBegins ==
  ASSUME SessionShape, NEW c \in Clients, NEW w, NEW at, NEW row, NEW todo,
         Proceed(c, w, at, row, todo), todo # <<>>,
         \/ OwnRun(c) \in DOMAIN w /\ w[OwnRun(c)].status = "running"
         \/ OwnRun(c) \notin DOMAIN w /\ RunOK(c) /\ session[c].todo # <<>>
  PROVE  RunOK(c)'
<1>1. CASE OwnRun(c) \notin DOMAIN w /\ RunOK(c) /\ session[c].todo # <<>>
  BY <1>1, RunGoesOn
<1>2. CASE OwnRun(c) \in DOMAIN w /\ w[OwnRun(c)].status = "running"
  <2>1. session'[c].call = session[c].call /\ session'[c].todo = todo
        /\ session'[c].mine = Over(w, session[c].mine)
    BY Proceeds
  <2>2. OwnRun(c)' = OwnRun(c)
    BY <2>1 DEF OwnRun, Asked
  <2>3. OwnRun(c) \in DOMAIN session'[c].mine
        /\ session'[c].mine[OwnRun(c)] = w[OwnRun(c)]
    BY <1>2, <2>1 DEF Over
  <2> QED
    BY <1>2, <2>1, <2>2, <2>3 DEF RunOK
<1> QED
  BY <1>1, <1>2

\* The plan of a confirmation begins.
LEMMA ConfirmBegins ==
  ASSUME WorkflowInv, NEW c \in Clients, NEW q \in Calls, q = session[c].call,
         q.op = "confirmOrder", NEW w, Continues(c, w, ConfirmPlan(q)),
         OwnRun(c) \notin DOMAIN w, RunOK(c), session[c].todo # <<>>,
         NEW r, r = OrderRow(q.order), r \in session[c].locks \cup Locked(c),
         r \in DOMAIN w => w[r].status = "confirmed" /\ w[r].key = q.key,
         r \notin DOMAIN w => Sees(c, r).status = "confirmed" /\ Sees(c, r).key = q.key
  PROVE  StageOK(c)' /\ \E at, row, todo : Proceed(c, w, at, row, todo)
<1> SUFFICES ASSUME NEW plan, plan = ConfirmPlan(q)
             PROVE  StageOK(c)' /\ \E at, row, todo : Proceed(c, w, at, row, todo)
  OBVIOUS
<1>1. plan \in Seq(Parts) /\ Len(plan) > 1
  <2>1. ASSUME NEW lines \in Nat \ {0}, NEW n, n = lines + 2
        PROVE  n > 1
    BY <2>1
  <2> QED
    BY <2>1, ConfirmPlanIs
<1>2. plan # <<>> /\ Head(plan) \in Parts /\ plan \in Seq(Jobs)
  BY <1>1, PartsAreJobs
<1>3. SessionShape /\ Continues(c, w, plan)
  BY DEF WorkflowInv
<1>4. AtJob(c)' /\ \E at, row : Proceed(c, w, at, row, plan)
  BY <1>2, <1>3, NextPart
<1>5. PICK at, row : Proceed(c, w, at, row, plan)
  BY <1>4
<1>6. /\ session'[c].call = q /\ session'[c].todo = plan
      /\ session'[c].locks = session[c].locks \cup Locked(c)
  BY <1>3, <1>5, Proceeds
<1>7. /\ \A x \in DOMAIN w : Sees(c, x)' = w[x] /\ Status(c, x)' = w[x].status
      /\ \A x : x \notin DOMAIN w => Sees(c, x)' = Sees(c, x) /\ Status(c, x)' = Status(c, x)
  BY <1>3, <1>5, SeesThen
<1>8. Status(c, r)' = "confirmed" /\ Sees(c, r)'.key = q.key
  BY <1>7 DEF Status
<1>9. RunOK(c)'
  BY <1>2, <1>3, <1>5, RunBegins
<1>10. Rest(plan, plan)
  BY <1>2, RestAll
<1>11. ~(Len(plan) <= 1)
  BY <1>1
<1>12. ConfirmsLines(c)'
  BY <1>2, <1>4, <1>6, <1>8, <1>9, <1>10, <1>11 DEF ConfirmsLines
<1>13. StageOK(c)'
  BY <1>2, <1>6, <1>12 DEF StageOK, ConfirmingAt, InventoryOps
<1> QED
  BY <1>5, <1>13

\* The plan of a cancellation or a fulfilment begins.
LEMMA EndPlanIs ==
  ASSUME NEW q \in Calls, q.op \in {"cancelOrder", "fulfillOrder"}, NEW k \in WorkflowKeys
  PROVE  /\ EndPlan(q, k) \in Seq(Parts) /\ EndPlan(q, k) # <<>>
         /\ Len(EndPlan(q, k)) \in Nat /\ (q.op = "cancelOrder" => Len(EndPlan(q, k)) > 1)
<1>1. q.order \in Orders
  BY OrderAssumption DEF Calls, OrderCall, Workflows
<1>2. ASSUME NEW lines \in Nat \ {0}, NEW n, n = lines + 2 \/ n = lines + 1
      PROVE  n \in Nat /\ n # 0 /\ (n = lines + 2 => n > 1)
  BY <1>2
<1>3. CASE q.op = "cancelOrder"
  <2>1. EndPlan(q, k) = CancelPlan(q, k)
    BY <1>3 DEF EndPlan
  <2>2. CancelPlan(q, k) \in Seq(Parts) /\ Len(CancelPlan(q, k)) \in Nat
        /\ Len(CancelPlan(q, k)) # 0 /\ Len(CancelPlan(q, k)) > 1
    BY <1>1, <1>2, CancelPlanIs
  <2> QED
    BY <2>1, <2>2, EmptyIs
<1>4. CASE q.op = "fulfillOrder"
  <2>1. EndPlan(q, k) = FulfilPlan(q, k)
    BY <1>4 DEF EndPlan
  <2>2. FulfilPlan(q, k) \in Seq(Parts) /\ Len(FulfilPlan(q, k)) \in Nat
        /\ Len(FulfilPlan(q, k)) # 0
    BY <1>1, <1>2, FulfilPlanIs
  <2> QED
    BY <1>4, <2>1, <2>2, EmptyIs
<1> QED
  BY <1>3, <1>4

LEMMA EndBegins ==
  ASSUME WorkflowInv, NEW c \in Clients, NEW q \in Calls, q = session[c].call,
         q.op \in {"cancelOrder", "fulfillOrder"}, NEW k \in Confirmations(q.order),
         NEW w, Continues(c, w, EndPlan(q, k)), Holds(c), FirstToEnd(c),
         \/ OwnRun(c) \in DOMAIN w /\ w[OwnRun(c)].status = "running"
         \/ OwnRun(c) \notin DOMAIN w /\ RunOK(c) /\ session[c].todo # <<>>,
         NEW r, r = OrderRow(q.order),
         q.op = "cancelOrder" =>
           /\ r \in session[c].locks \cup Locked(c)
           /\ r \in DOMAIN w => w[r].status = "cancelled"
           /\ r \notin DOMAIN w => Sees(c, r).status = "cancelled"
  PROVE  StageOK(c)' /\ \E at, row, todo : Proceed(c, w, at, row, todo)
<1> SUFFICES ASSUME NEW plan, plan = EndPlan(q, k)
             PROVE  StageOK(c)' /\ \E at, row, todo : Proceed(c, w, at, row, todo)
  OBVIOUS
<1>1. k \in WorkflowKeys
  BY DEF Confirmations
<1>2. /\ plan \in Seq(Parts) /\ plan # <<>> /\ Len(plan) \in Nat
      /\ q.op = "cancelOrder" => Len(plan) > 1
  BY <1>1, EndPlanIs
<1>3. Head(plan) \in Parts /\ plan \in Seq(Jobs)
  BY <1>2, PartsAreJobs
<1>4. SessionShape /\ Continues(c, w, plan)
  BY DEF WorkflowInv
<1>5. AtJob(c)' /\ \E at, row : Proceed(c, w, at, row, plan)
  BY <1>3, <1>4, NextPart
<1>6. PICK at, row : Proceed(c, w, at, row, plan)
  BY <1>5
<1>7. /\ session'[c].call = q /\ session'[c].todo = plan
      /\ session'[c].locks = session[c].locks \cup Locked(c)
  BY <1>4, <1>6, Proceeds
<1>8. /\ \A x \in DOMAIN w : Sees(c, x)' = w[x] /\ Status(c, x)' = w[x].status
      /\ \A x : x \notin DOMAIN w => Sees(c, x)' = Sees(c, x) /\ Status(c, x)' = Status(c, x)
  BY <1>4, <1>6, SeesThen
<1>9. q.op = "cancelOrder" => r \in session'[c].locks /\ Status(c, r)' = "cancelled"
  BY <1>7, <1>8 DEF Status
<1>10. RunOK(c)'
  BY <1>2, <1>4, <1>6, RunBegins
<1>11. Holds(c)' /\ FirstToEnd(c)' /\ k \in Confirmations(q.order)'
  BY <1>4, <1>6, HoldsGoesOn
<1>12. Rest(plan, plan)
  BY <1>3, RestAll
<1>13. \A n \in DOMAIN OrderLines[q.order] : ~(n <= Len(plan) - Len(plan))
  <2>1. q.order \in Orders
    BY OrderAssumption DEF Calls, OrderCall, Workflows
  <2>2. DOMAIN OrderLines[q.order] = 1..Len(OrderLines[q.order])
        /\ Len(OrderLines[q.order]) \in Nat
    BY <2>1, LinesAre
  <2>3. \A m \in Nat : \A n \in 1..m, l \in Nat : ~(n <= l - l)
    OBVIOUS
  <2> QED
    BY <1>2, <2>2, <2>3
<1>14. q.op = "cancelOrder" => ~(Len(plan) <= 1)
  BY <1>2
<1>15. EndsLines(c, k)'
  BY <1>5, <1>7, <1>9, <1>10, <1>11, <1>12, <1>13, <1>14 DEF EndsLines
<1>16. EndingAt(c)'
  BY <1>1, <1>15 DEF EndingAt
<1>17. StageOK(c)'
  BY <1>3, <1>7, <1>16 DEF StageOK, InventoryOps
<1> QED
  BY <1>6, <1>17

\* Which confirmation an order's lines were reserved for.
LEMMA TheConfirmationIs ==
  ASSUME NEW o, Confirmations(o) # {}
  PROVE  TheConfirmation(o) \in Confirmations(o)
BY DEF TheConfirmation

\* The row of a run that is inserted.
LEMMA RunRowIs ==
  ASSUME NEW q \in Calls, q.op \in Workflows, NEW run, run = Running(q),
         NEW r, r = RunRow(q.op, q.key), NEW old, old.status = Absent
  PROVE  OrderStep(q, r, old, run) /\ run.status = "running"
<1>1. DOMAIN run = {"status", "input", "actor", "sound"} /\ run.status = "running"
      /\ run.input = Input(q)
  BY DEF Running
<1>2. r[1] = "run"
  BY OrderKinds
<1> QED
  BY <1>1, <1>2 DEF OrderStep

LEMMA InsertRunKeeps ==
  ASSUME WorkflowInv, NEW c \in Clients, InsertRun(c)
  PROVE  WorkflowInv'
<1> SUFFICES ASSUME NEW q, q = session[c].call, NEW r, r = OwnRun(c)
             PROVE  WorkflowInv'
  OBVIOUS
<1>1. Ready(c, "record") /\ session[c].at = "record" /\ session[c].row = r
  BY DEF InsertRun, Ready
<1>2. /\ q \in Calls /\ q.op \in Workflows /\ session[c] # Idle
      /\ session[c].todo \in Seq(Jobs) /\ DOMAIN session[c].mine = {}
      /\ q.op = "confirmOrder" => session[c].todo = <<q>>
      /\ q.op \in {"cancelOrder", "fulfillOrder"} => AtOnce(c) /\ Holds(c) /\ FirstToEnd(c)
  BY <1>1, RecordStage
<1>3. r = RunRow(q.op, q.key) /\ r[1] = "run" /\ r \in OrderRows /\ r \in Rows /\ r # NoRow
  BY <1>2, OwnRunIs, RunInput, RowsApart DEF Rows
<1>4. CASE Present(r)
  <2>1. \/ q.op = "confirmOrder" /\ Replay(c, db[OwnRun(c)])
        \/ q.op # "confirmOrder" /\ Conflict(c)
    BY <1>4 DEF InsertRun, LoadExistingAfterConflict, Asked
  <2> QED
    BY <1>2, <1>4, <2>1, ReplayKeeps, ConflictKeeps DEF Workflows
<1>5. CASE ~Present(r)
  <2> SUFFICES ASSUME NEW run, run = Running(q), NEW w, w = RowIs(r, run)
               PROVE  WorkflowInv'
    OBVIOUS
  <2>1. DOMAIN w = {r} /\ w[r] = run
    BY RowIsRow
  <2>2. db[r].status = Absent
    BY <1>5 DEF Present
  <2>3. OrderStep(q, r, db[r], run) /\ run.status = "running"
    BY <1>2, <1>3, <2>2, RunRowIs
  <2>4. Lock(q, r) = r /\ Locked(c) = {r}
    BY <1>1, <1>3 DEF Lock, Locked
  <2>5. r[1] \in Inserted
    BY <1>3 DEF Inserted
  <2>6. ASSUME StageOK(c)', NEW at, NEW row, NEW todo, Proceed(c, w, at, row, todo)
        PROVE  WorkflowInv'
    BY <1>1, <1>3, <1>5, <2>1, <2>3, <2>4, <2>5, <2>6, OrderStepKeeps
  <2>7. SessionShape
    BY DEF WorkflowInv
  <2>8. \/ q.op = "fulfillOrder" /\ Continues(c, w, EndReservations(q, "fulfill") \o Complete)
        \/ q.op # "fulfillOrder" /\ Goes(c, w, "order", OrderRow(q.order))
    BY <1>5 DEF InsertRun, Asked
  <2>9. CASE q.op = "fulfillOrder" /\ Continues(c, w, EndReservations(q, "fulfill") \o Complete)
    <3>1. Holds(c) /\ FirstToEnd(c)
      BY <1>2, <2>9
    <3> SUFFICES ASSUME NEW k, k = TheConfirmation(q.order)
                 PROVE  WorkflowInv'
      OBVIOUS
    <3>2. k \in Confirmations(q.order)
      BY <3>1, TheConfirmationIs DEF Holds
    <3>3. EndReservations(q, "fulfill") \o Complete = EndPlan(q, k)
      BY <2>9 DEF EndReservations, EndPlan, FulfilPlan, EndLines
    <3>4. Continues(c, w, EndPlan(q, k))
      BY <2>9, <3>3
    <3>5. OwnRun(c) \in DOMAIN w /\ w[OwnRun(c)].status = "running" /\ q.op # "cancelOrder"
      BY <2>1, <2>3, <2>9
    <3>6. StageOK(c)' /\ \E at, row, todo : Proceed(c, w, at, row, todo)
      BY <1>2, <2>9, <3>1, <3>2, <3>4, <3>5, EndBegins
    <3> QED
      BY <2>6, <3>6
  <2>10. CASE q.op # "fulfillOrder" /\ Goes(c, w, "order", OrderRow(q.order))
    <3>1. Proceed(c, w, "order", OrderRow(q.order), session[c].todo)
      BY <2>10 DEF Goes
    <3>2. /\ session'[c].at = "order" /\ session'[c].row = OrderRow(q.order)
          /\ session'[c].todo = session[c].todo /\ session'[c].call = q
          /\ DOMAIN session'[c].mine = {r}
      BY <1>2, <2>1, <2>7, <3>1, Proceeds, SeesThen
    <3>3. session[c].todo # <<>>
      BY <1>2, <2>10 DEF AtOnce, Workflows
    <3>4. RunOK(c)'
      BY <2>1, <2>3, <2>7, <3>1, <3>3, RunBegins
    <3>5. OwnRun(c)' = r
      BY <3>2 DEF OwnRun, Asked
    <3>6. Wrote(c, {OwnRun(c)})'
      BY <3>2, <3>5 DEF Wrote
    <3>7. CASE q.op = "confirmOrder"
      <4>1. ConfirmingAt(c)'
        BY <1>2, <3>2, <3>4, <3>6, <3>7 DEF ConfirmingAt
      <4>2. StageOK(c)'
        BY <1>2, <3>2, <3>7, <4>1 DEF StageOK, InventoryOps
      <4> QED
        BY <2>6, <3>1, <4>2
    <3>8. CASE q.op = "cancelOrder"
      <4>1. Holds(c)' /\ FirstToEnd(c)'
        BY <1>2, <2>7, <3>1, <3>8, HoldsGoesOn
      <4>2. EndingAt(c)'
        BY <1>2, <3>2, <3>4, <3>6, <3>8, <4>1 DEF EndingAt, AtOnce
      <4>3. StageOK(c)'
        BY <1>2, <3>2, <3>8, <4>2 DEF StageOK, InventoryOps
      <4> QED
        BY <2>6, <3>1, <4>3
    <3> QED
      BY <1>2, <2>10, <3>7, <3>8 DEF Workflows
  <2> QED
    BY <2>8, <2>9, <2>10
<1> QED
  BY <1>4, <1>5

\* Nothing, and one thing, that is left to do.
LEMMA NothingLeft == <<>> \in Seq(Jobs)
OBVIOUS

LEMMA ContinuesWith ==
  ASSUME SessionShape, NEW c \in Clients, NEW w, NEW inputs, Continues(c, w, inputs),
         inputs # <<>> => Head(inputs) \in Parts
  PROVE  /\ AtJob(c)' /\ session'[c].call = session[c].call /\ session'[c].todo = inputs
         /\ \E at, row : Proceed(c, w, at, row, inputs)
<1>1. AtJob(c)' /\ \E at, row : Proceed(c, w, at, row, inputs)
  BY NextPart
<1>2. PICK at, row : Proceed(c, w, at, row, inputs)
  BY <1>1
<1>3. session'[c].call = session[c].call /\ session'[c].todo = inputs
  BY <1>2, Proceeds
<1> QED
  BY <1>1, <1>3

LEMMA Finishes ==
  ASSUME SessionShape, NEW c \in Clients, NEW w, Continues(c, w, <<>>)
  PROVE  /\ AtJob(c)' /\ session'[c].call = session[c].call /\ session'[c].todo = <<>>
         /\ \E at, row : Proceed(c, w, at, row, <<>>)
BY ContinuesWith

LEMMA OneLeft == \A x : <<x>> # <<>>
OBVIOUS

\* Sales has confirmed the order, writing w.
LEMMA ConfirmedKeeps ==
  ASSUME WorkflowInv, NEW c \in Clients, NEW label, Ready(c, label),
         label = "record" => session[c].row[1] \in Inserted /\ ~Present(session[c].row),
         NEW q \in Calls, q = session[c].call, session[c].todo # <<>>,
         (q.op = "confirmOrder" /\ RunOK(c)) \/ q.op = "salesConfirm",
         NEW w, Confirmed(c, w), DOMAIN w \subseteq OrderRows, OwnRun(c) \notin DOMAIN w,
         session[c].row[1] \in Inserted => session[c].row \in DOMAIN w,
         \A r \in DOMAIN w : /\ OrderStep(q, r, db[r], w[r])
                             /\ Lock(q, r) \in session[c].locks \cup Locked(c),
         NEW r, r = OrderRow(q.order), r \in session[c].locks \cup Locked(c),
         r \in DOMAIN w => w[r].status = "confirmed" /\ w[r].key = q.key,
         r \notin DOMAIN w => Sees(c, r).status = "confirmed" /\ Sees(c, r).key = q.key
  PROVE  WorkflowInv'
<1>1. ASSUME StageOK(c)', NEW at, NEW row, NEW todo, Proceed(c, w, at, row, todo)
      PROVE  WorkflowInv'
  <2>1. session[c].row[1] \in Inserted => session[c].row \in Rows /\ session[c].row \in DOMAIN w
    BY DEF Rows
  <2> QED
    BY <1>1, <2>1, OrderStepKeeps
<1>2. CASE q.op = "confirmOrder"
  <2>1. Continues(c, w, ConfirmPlan(q)) /\ RunOK(c)
    BY <1>2 DEF Confirmed, Asked, IsWorkflow, Workflows, ConfirmPlan
  <2>2. StageOK(c)' /\ \E at, row, todo : Proceed(c, w, at, row, todo)
    BY <1>2, <2>1, ConfirmBegins
  <2> QED
    BY <1>1, <2>2
<1>3. CASE q.op = "salesConfirm"
  <2>1. Continues(c, w, <<>>) /\ SessionShape
    BY <1>3 DEF Confirmed, Asked, IsWorkflow, Workflows, WorkflowInv
  <2>2. /\ AtJob(c)' /\ session'[c].call = session[c].call /\ session'[c].todo = <<>>
        /\ \E at, row : Proceed(c, w, at, row, <<>>)
    BY <2>1, Finishes
  <2>3. PICK at, row : Proceed(c, w, at, row, <<>>)
    BY <2>2
  <2>4. session'[c].call = q /\ session'[c].todo = <<>>
    BY <2>2
  <2>5. <<>> \in Seq(Jobs)
    BY NothingLeft
  <2>6. SalesAt(c)'
    BY <2>2, <2>4 DEF SalesAt
  <2>7. StageOK(c)'
    BY <1>3, <2>4, <2>5, <2>6 DEF StageOK, InventoryOps
  <2> QED
    BY <1>1, <2>3, <2>7
<1> QED
  BY <1>2, <1>3

\* An order's row, and whose it is.
LEMMA OrderIs ==
  ASSUME WorkflowInv, NEW q \in Calls, q.op \in Workflows \cup {"salesConfirm", "salesCancel"},
         NEW r, r = OrderRow(q.order)
  PROVE  /\ r \in OrderRows /\ r \in Rows /\ r[1] = "order" /\ r # NoRow /\ r[1] \notin Inserted
         /\ db[r].status \in {"draft", "confirmed", "cancelled"} /\ "status" \in DOMAIN db[r]
         /\ db[r].status # "draft" => "key" \in DOMAIN db[r]
         /\ KeyRow(q.key) \in OrderRows /\ KeyRow(q.key)[1] = "orderKey"
         /\ Lock(q, r) = r /\ Lock(q, KeyRow(q.key)) = KeyRow(q.key)
<1>1. q.order \in Orders /\ q.key \in WorkflowKeys
  BY OrderAssumption DEF Calls, OrderCall
<1>2. r \in OrderRows /\ r[1] = "order" /\ KeyRow(q.key) \in OrderRows
      /\ KeyRow(q.key)[1] = "orderKey"
  BY <1>1, OrderRowsAre, OrderKinds
<1>3. r \in Rows /\ r # NoRow /\ r[1] \notin Inserted
  BY <1>2, RowsApart DEF Rows, Inserted
<1>4. /\ db[r].status \in {"draft", "confirmed", "cancelled"} /\ "status" \in DOMAIN db[r]
      /\ db[r].status # "draft" => "key" \in DOMAIN db[r]
  BY <1>1 DEF WorkflowInv, Tables, Order
<1> QED
  BY <1>2, <1>3, <1>4 DEF Lock

LEMMA ConfirmSalesOrderKeeps ==
  ASSUME WorkflowInv, NEW c \in Clients, ConfirmSalesOrder(c)
  PROVE  WorkflowInv'
<1> SUFFICES ASSUME NEW q, q = session[c].call, NEW r, r = OrderRow(q.order), NEW o, o = db[r]
             PROVE  WorkflowInv'
  OBVIOUS
<1>1. /\ Ready(c, "order") /\ session[c].at = "order"
      /\ Arg(c).op \in {"confirmOrder", "salesConfirm"}
  BY DEF ConfirmSalesOrder, Ready, Does
<1>2. /\ q \in Calls /\ session[c] # Idle /\ session[c].row = r
      /\ session[c].todo \in Seq(Jobs) /\ session[c].todo # <<>> /\ session[c].todo = <<q>>
      /\ \/ q.op = "confirmOrder" /\ RunOK(c) /\ DOMAIN session[c].mine = {OwnRun(c)}
         \/ q.op = "salesConfirm" /\ DOMAIN session[c].mine = {}
  BY <1>1, OrderStage
<1>3. /\ r \in OrderRows /\ r[1] = "order" /\ r # NoRow /\ r[1] \notin Inserted
      /\ o.status \in {"draft", "confirmed", "cancelled"}
  BY <1>2, OrderIs DEF Workflows
<1>4. r # OwnRun(c)
  BY <1>3, OwnRunIs
<1>5. Sees(c, r) = o /\ Locked(c) = {r}
  BY <1>1, <1>2, <1>3, <1>4 DEF Sees, Locked
<1>6. SessionShape
  BY DEF WorkflowInv
<1>7. CASE o.status = "draft"
  <2>1. Proceed(c, <<>>, "record", KeyRow(q.key), session[c].todo)
    BY <1>2, <1>7 DEF ConfirmSalesOrder, Goes, Asked
  <2>2. /\ session'[c].at = "record" /\ session'[c].row = KeyRow(q.key)
        /\ session'[c].todo = <<q>> /\ session'[c].call = q /\ UNCHANGED db
        /\ session'[c].locks = session[c].locks \cup {r}
        /\ DOMAIN session'[c].mine = DOMAIN session[c].mine /\ OwnRun(c)' = OwnRun(c)
    <3>1. /\ session'[c].at = "record" /\ session'[c].row = KeyRow(q.key)
          /\ session'[c].todo = session[c].todo /\ session'[c].call = session[c].call
          /\ UNCHANGED db /\ session'[c].locks = session[c].locks \cup Locked(c)
          /\ DOMAIN session'[c].mine = DOMAIN session[c].mine /\ OwnRun(c)' = OwnRun(c)
      BY <1>6, <2>1, NothingWritten
    <3> QED
      BY <1>2, <1>5, <3>1
  <2>3. r \in session'[c].locks /\ db'[r].status = "draft"
    BY <1>7, <2>2
  <2>4. CASE q.op = "confirmOrder"
    <3>1. Wrote(c, {OwnRun(c)})'
      BY <1>2, <2>2, <2>4 DEF Wrote
    <3>2. RunOK(c)'
      <4>1. OwnRun(c) \notin DOMAIN <<>>
        OBVIOUS
      <4> QED
        BY <1>2, <1>6, <2>1, <2>4, <4>1, RunBegins
    <3>3. ConfirmingAt(c)'
      BY <2>2, <2>3, <3>1, <3>2 DEF ConfirmingAt
    <3>4. StageOK(c)'
      BY <1>2, <2>2, <2>4, <3>3 DEF StageOK, InventoryOps
    <3> QED
      BY <1>1, <1>2, <1>3, <2>1, <3>4, OrderGoesKeeps
  <2>5. CASE q.op = "salesConfirm"
    <3>1. Wrote(c, {})'
      BY <1>2, <2>2, <2>5 DEF Wrote
    <3>2. SalesAt(c)'
      BY <2>2, <2>3, <2>5, <3>1 DEF SalesAt
    <3>3. StageOK(c)'
      BY <1>2, <2>2, <2>5, <3>2 DEF StageOK, InventoryOps
    <3> QED
      BY <1>1, <1>2, <1>3, <2>1, <3>3, OrderGoesKeeps
  <2> QED
    BY <1>2, <2>4, <2>5
<1>8. CASE o.status = "confirmed"
  <2>1. \/ o.key = q.key /\ Confirmed(c, <<>>)
        \/ Refuse(c, "conflict")
    BY <1>2, <1>8 DEF ConfirmSalesOrder, Asked
  <2>2. CASE o.key = q.key /\ Confirmed(c, <<>>)
    <3> SUFFICES ASSUME NEW w, w = <<>>
                 PROVE  WorkflowInv'
      OBVIOUS
    <3>1. DOMAIN w = {} /\ Confirmed(c, w)
      BY <2>2
    <3> QED
      BY <1>1, <1>2, <1>3, <1>5, <1>8, <2>2, <3>1, ConfirmedKeeps
  <2>3. CASE Refuse(c, "conflict")
    BY <2>3, RefuseKeeps
  <2> QED
    BY <2>1, <2>2, <2>3
<1>9. CASE o.status = "cancelled"
  <2>1. Refuse(c, "invalid")
    BY <1>2, <1>9 DEF ConfirmSalesOrder
  <2> QED
    BY <2>1, RefuseKeeps
<1> QED
  BY <1>3, <1>7, <1>8, <1>9

LEMMA TakeKeyKeeps ==
  ASSUME WorkflowInv, NEW c \in Clients, TakeKey(c)
  PROVE  WorkflowInv'
<1> SUFFICES ASSUME NEW q, q = session[c].call, NEW r, r = OrderRow(q.order),
                    NEW s, s = session[c].row
             PROVE  WorkflowInv'
  OBVIOUS
<1>1. Ready(c, "record") /\ session[c].at = "record" /\ s[1] = "orderKey"
  BY DEF TakeKey, Ready
<1>2. /\ q \in Calls /\ session[c] # Idle /\ s = KeyRow(q.key)
      /\ session[c].todo = <<q>> /\ session[c].todo \in Seq(Jobs)
      /\ r \in session[c].locks /\ db[r].status = "draft"
      /\ \/ q.op = "confirmOrder" /\ RunOK(c) /\ DOMAIN session[c].mine = {OwnRun(c)}
         \/ q.op = "salesConfirm" /\ DOMAIN session[c].mine = {}
  BY <1>1, KeyStage
<1>3. /\ r \in OrderRows /\ r[1] = "order" /\ s \in OrderRows /\ Lock(q, r) = r /\ Lock(q, s) = s
      /\ s \in Rows
  BY <1>2, OrderIs DEF Workflows, Rows
<1>4. CASE Present(s)
  <2>1. Refuse(c, "conflict")
    BY <1>4 DEF TakeKey
  <2> QED
    BY <2>1, RefuseKeeps
<1>5. CASE ~Present(s)
  <2> DEFINE taken == [status |-> "taken"]
             new == [status |-> "confirmed", key |-> q.key]
             w == Over(RowIs(s, taken), RowIs(r, new))
  <2>1. Confirmed(c, w)
    BY <1>5 DEF TakeKey, Asked
  <2>2. taken.status = "taken"
    OBVIOUS
  <2>3. OrderStep(q, r, db[r], new) /\ new.status = "confirmed" /\ new.key = q.key
    <3>1. q.op \in {"confirmOrder", "salesConfirm"} /\ db[r].status = "draft"
      BY <1>2
    <3>2. DOMAIN new = {"status", "key"} /\ new.status = "confirmed" /\ new.key = q.key
      OBVIOUS
    <3> HIDE DEF new
    <3>3. OrderStep(q, r, db[r], new)
      BY <1>3, <3>1, <3>2 DEF OrderStep, Workflows
    <3> QED
      BY <3>2, <3>3
  <2> HIDE DEF taken, new
  <2>4. s # r
    BY <1>1, <1>3
  <2>5. DOMAIN w = {s} \cup {r}
    BY DEF Over, RowIs
  <2>6. w[s] = taken
    BY DEF Over, RowIs
  <2>7. w[r] = new
    BY <2>4 DEF Over, RowIs
  <2> HIDE DEF w
  <2>8. OrderStep(q, s, db[s], taken)
    BY <1>1, <2>2 DEF OrderStep, Absent
  <2>9. Locked(c) = {s}
    <3>1. s # NoRow
      BY <1>3, RowsApart
    <3> QED
      BY <1>1, <3>1 DEF Locked
  <2>10. OwnRun(c) \notin DOMAIN w
    BY <1>1, <1>3, <2>5, OwnRunIs
  <2>11. s[1] \in Inserted /\ session[c].todo # <<>> /\ DOMAIN w \subseteq OrderRows
    BY <1>1, <1>2, <1>3, <2>5, OneLeft DEF Inserted
  <2>12. \A x \in DOMAIN w : /\ OrderStep(q, x, db[x], w[x])
                             /\ Lock(q, x) \in session[c].locks \cup Locked(c)
    BY <1>2, <1>3, <2>3, <2>5, <2>6, <2>7, <2>8, <2>9
  <2>13. r \in DOMAIN w /\ w[r].status = "confirmed" /\ w[r].key = q.key /\ s \in DOMAIN w
    BY <2>3, <2>5, <2>7
  <2>14. Ready(c, "record") /\ session[c].row[1] \in Inserted /\ ~Present(session[c].row)
    BY <1>1, <1>5, <2>11
  <2>15. session[c].row \in DOMAIN w /\ session[c].todo # <<>>
    BY <2>11, <2>13
  <2>16. (q.op = "confirmOrder" /\ RunOK(c)) \/ q.op = "salesConfirm"
    BY <1>2
  <2>17. q \in Calls /\ r \in session[c].locks \cup Locked(c) /\ DOMAIN w \subseteq OrderRows
    BY <1>2, <2>11
  <2> QED
    BY <2>1, <2>10, <2>12, <2>13, <2>14, <2>15, <2>16, <2>17, ConfirmedKeeps
<1> QED
  BY <1>4, <1>5

\* Sales has cancelled the order, writing w.
LEMMA CancelledKeeps ==
  ASSUME WorkflowInv, NEW c \in Clients, Ready(c, "order"),
         NEW q \in Calls, q = session[c].call, session[c].todo # <<>>,
         \/ q.op = "cancelOrder" /\ Holds(c) /\ FirstToEnd(c) /\ RunOK(c)
         \/ q.op = "salesCancel",
         NEW w, Cancelled(c, w), DOMAIN w \subseteq OrderRows, OwnRun(c) \notin DOMAIN w,
         session[c].row[1] \notin Inserted,
         \A r \in DOMAIN w : /\ OrderStep(q, r, db[r], w[r])
                             /\ Lock(q, r) \in session[c].locks \cup Locked(c),
         NEW r, r = OrderRow(q.order), r \in session[c].locks \cup Locked(c),
         r \in DOMAIN w => w[r].status = "cancelled",
         r \notin DOMAIN w => Sees(c, r).status = "cancelled"
  PROVE  WorkflowInv'
<1>1. ASSUME StageOK(c)', NEW at, NEW row, NEW todo, Proceed(c, w, at, row, todo)
      PROVE  WorkflowInv'
  BY <1>1, OrderStepKeeps
<1>2. CASE q.op = "cancelOrder"
  <2>1. Holds(c) /\ FirstToEnd(c) /\ RunOK(c)
    BY <1>2
  <2> SUFFICES ASSUME NEW k, k = TheConfirmation(q.order)
               PROVE  WorkflowInv'
    OBVIOUS
  <2>2. k \in Confirmations(q.order)
    BY <2>1, TheConfirmationIs DEF Holds
  <2>3. EndReservations(q, "release") \o Books("reversal") \o Complete = EndPlan(q, k)
    BY <1>2 DEF EndReservations, EndPlan, CancelPlan, EndLines
  <2>4. Continues(c, w, EndReservations(q, "release") \o Books("reversal") \o Complete)
    BY <1>2 DEF Cancelled, Asked, IsWorkflow, Workflows
  <2>5. Continues(c, w, EndPlan(q, k))
    BY <2>3, <2>4
  <2>6. StageOK(c)' /\ \E at, row, todo : Proceed(c, w, at, row, todo)
    BY <1>2, <2>1, <2>2, <2>5, EndBegins
  <2> QED
    BY <1>1, <2>6
<1>3. CASE q.op = "salesCancel"
  <2>1. Continues(c, w, <<>>) /\ SessionShape
    BY <1>3 DEF Cancelled, Asked, IsWorkflow, Workflows, WorkflowInv
  <2>2. /\ AtJob(c)' /\ session'[c].call = session[c].call /\ session'[c].todo = <<>>
        /\ \E at, row : Proceed(c, w, at, row, <<>>)
    BY <2>1, Finishes
  <2>3. PICK at, row : Proceed(c, w, at, row, <<>>)
    BY <2>2
  <2>4. session'[c].call = q /\ session'[c].todo = <<>>
    BY <2>2
  <2>5. <<>> \in Seq(Jobs)
    BY NothingLeft
  <2>6. SalesAt(c)'
    BY <2>2, <2>4 DEF SalesAt
  <2>7. StageOK(c)'
    BY <1>3, <2>4, <2>5, <2>6 DEF StageOK, InventoryOps
  <2> QED
    BY <1>1, <2>3, <2>7
<1> QED
  BY <1>2, <1>3

LEMMA CancelConfirmedOrderKeeps ==
  ASSUME WorkflowInv, NEW c \in Clients, CancelConfirmedOrder(c)
  PROVE  WorkflowInv'
<1> SUFFICES ASSUME NEW q, q = session[c].call, NEW r, r = OrderRow(q.order), NEW o, o = db[r]
             PROVE  WorkflowInv'
  OBVIOUS
<1>1. /\ Ready(c, "order") /\ session[c].at = "order"
      /\ Arg(c).op \in {"cancelOrder", "salesCancel"}
  BY DEF CancelConfirmedOrder, Ready, Does
<1>2. /\ q \in Calls /\ session[c].row = r /\ session[c].todo # <<>>
      /\ \/ q.op = "cancelOrder" /\ Holds(c) /\ FirstToEnd(c) /\ RunOK(c)
            /\ DOMAIN session[c].mine = {OwnRun(c)}
         \/ q.op = "salesCancel" /\ DOMAIN session[c].mine = {}
  BY <1>1, OrderStage
<1>3. /\ r \in OrderRows /\ r[1] = "order" /\ r # NoRow /\ r[1] \notin Inserted /\ Lock(q, r) = r
      /\ o.status \in {"draft", "confirmed", "cancelled"} /\ "status" \in DOMAIN o
      /\ o.status # "draft" => "key" \in DOMAIN o
  BY <1>2, OrderIs DEF Workflows
<1>4. r # OwnRun(c)
  BY <1>3, OwnRunIs
<1>5. Sees(c, r) = o /\ Locked(c) = {r}
  BY <1>1, <1>2, <1>3, <1>4 DEF Sees, Locked
<1>6. CASE o.status = "cancelled"
  <2>1. Cancelled(c, <<>>)
    BY <1>2, <1>6 DEF CancelConfirmedOrder
  <2> SUFFICES ASSUME NEW w, w = <<>>
               PROVE  WorkflowInv'
    OBVIOUS
  <2>2. DOMAIN w = {} /\ Cancelled(c, w)
    BY <2>1
  <2> QED
    BY <1>1, <1>2, <1>3, <1>5, <1>6, <2>2, CancelledKeeps
<1>7. CASE o.status = "confirmed"
  <2> SUFFICES ASSUME NEW new, new = [o EXCEPT !.status = "cancelled"], NEW w, w = RowIs(r, new)
               PROVE  WorkflowInv'
    OBVIOUS
  <2>1. Cancelled(c, w)
    BY <1>2, <1>7 DEF CancelConfirmedOrder
  <2>2. DOMAIN w = {r} /\ w[r] = new
    BY RowIsRow
  <2>3. {"status", "key"} \subseteq DOMAIN o /\ q.op \in {"cancelOrder", "salesCancel"}
    BY <1>2, <1>3, <1>7
  <2>4. OrderStep(q, r, o, new) /\ new.status = "cancelled"
    <3>1. DOMAIN new = DOMAIN o /\ new.status = "cancelled"
      BY <2>3
    <3> QED
      BY <1>3, <1>7, <2>3, <3>1 DEF OrderStep, Workflows
  <2>5. DOMAIN w \subseteq OrderRows /\ OwnRun(c) \notin DOMAIN w /\ session[c].row[1] \notin Inserted
    BY <1>2, <1>3, <1>4, <2>2
  <2>6. \A x \in DOMAIN w : /\ OrderStep(q, x, db[x], w[x])
                            /\ Lock(q, x) \in session[c].locks \cup Locked(c)
    BY <1>3, <1>5, <2>2, <2>4
  <2>7. r \in DOMAIN w /\ w[r].status = "cancelled" /\ r \in session[c].locks \cup Locked(c)
    BY <1>5, <2>2, <2>4
  <2> QED
    BY <1>1, <1>2, <2>1, <2>5, <2>6, <2>7, CancelledKeeps
<1>8. CASE o.status = "draft"
  <2>1. Refuse(c, "invalid")
    BY <1>2, <1>8 DEF CancelConfirmedOrder
  <2> QED
    BY <2>1, RefuseKeeps
<1> QED
  BY <1>3, <1>6, <1>7, <1>8

-----------------------------------------------------------------------------
(* The books, and the end of a run. *)

LEMMA ReturnsProceeds ==
  ASSUME NEW c, NEW w, Returns(c, w)
  PROVE  \E at, row, todo : Proceed(c, w, at, row, todo)
<1>1. CASE Tail(session[c].todo) = <<>>
  BY <1>1 DEF Returns, Continues
<1>2. CASE Tail(session[c].todo) # <<>>
  BY <1>2 DEF Returns, Continues
<1> QED
  BY <1>1, <1>2

\* A journal of the order is there, or written.
LEMMA JournalKeeps ==
  ASSUME WorkflowInv, NEW c \in Clients, Ready(c, "books"), NEW kind \in {"revenue", "reversal"},
         At(c, kind), NEW q, q = session[c].call, NEW j, j = JournalRow(kind, q.order),
         NEW w, Returns(c, w),
         \/ DOMAIN w = {} /\ Present(j)
         \/ DOMAIN w = {j} /\ w[j].status # Absent
  PROVE  WorkflowInv'
<1> SUFFICES ASSUME NEW a, a = Arg(c)
             PROVE  WorkflowInv'
  OBVIOUS
<1>1. a.op = kind /\ session[c].todo # <<>> /\ a.op \in PartOps \cup InventoryOps \cup {"close"}
  BY DEF At, PartOps
<1>2. session[c].at = "books" /\ session[c] # Idle /\ SessionShape /\ JobAt(c, a)
  BY <1>1, Before
<1>3. session[c].row = BooksRow /\ session[c].row[1] = "books"
  BY <1>1, <1>2, OrderKinds DEF JobAt
<1>4. /\ kind = "revenue" => q.op = "confirmOrder"
      /\ kind = "reversal" => q.op = "cancelOrder"
  BY <1>1, <1>2, JobOf
<1>5. /\ q \in Calls
      /\ q.op = "confirmOrder" => ConfirmsLines(c)
      /\ q.op = "cancelOrder" => \E k \in WorkflowKeys : EndsLines(c, k)
  BY <1>1, <1>2, JobStage
<1>6. OrderRow(q.order) \in session[c].locks
  <2>1. CASE kind = "revenue"
    BY <1>4, <1>5, <2>1 DEF ConfirmsLines
  <2>2. CASE kind = "reversal"
    BY <1>4, <1>5, <2>2 DEF EndsLines
  <2> QED
    BY <2>1, <2>2
<1>7. q.order \in Orders
  BY <1>4, <1>5, OrderAssumption DEF Calls, OrderCall, Workflows
<1>8. j \in OrderRows /\ j[1] = "journal"
  <2>1. j[1] = "journal"
    BY DEF JournalRow
  <2>2. kind = "revenue" \/ kind = "reversal"
    OBVIOUS
  <2> QED
    BY <1>7, <2>1, <2>2, OrderRowsAre
<1>9. j # OrderRow(q.order) /\ j # OwnRun(c) /\ \A key : j # ReservationRow(key)
  BY <1>8, OrderKinds, StockKinds, OwnRunIs
<1>10. PICK at, row, todo : Proceed(c, w, at, row, todo)
  BY ReturnsProceeds
<1>11. Status(c, j)' # Absent
  <2>1. CASE j \in DOMAIN w
    BY <1>2, <1>10, <2>1, SeesThen
  <2>2. CASE j \notin DOMAIN w
    <3>1. Status(c, j) # Absent
      <4>1. CASE j \in DOMAIN session[c].mine
        <5> SUFFICES ASSUME NEW value, value = session[c].mine[j]
                     PROVE  value.status # Absent
          BY <4>1 DEF Status, Sees
        <5>1. OrderStep(q, j, db[j], value)
          BY <1>8, <4>1, MineIs
        <5> QED
          BY <1>8, <5>1 DEF OrderStep
      <4>2. CASE j \notin DOMAIN session[c].mine
        BY <2>2, <4>2 DEF Status, Sees, Present
      <4> QED
        BY <4>1, <4>2
    <3> QED
      BY <1>2, <1>10, <2>2, <3>1, SeesThen
  <2> QED
    BY <2>1, <2>2
<1>12. OrderRow(q.order) \notin DOMAIN w /\ OwnRun(c) \notin DOMAIN w
       /\ \A key : ReservationRow(key) \notin DOMAIN w
  BY <1>9
<1>13. j \in DOMAIN w => w[j].status # Absent
  OBVIOUS
<1>14. StageOK(c)'
  <2>1. CASE kind = "revenue"
    <3>1. q.op = "confirmOrder" /\ ConfirmsLines(c) /\ a.op = "revenue" /\ a.op # "succeed"
      BY <1>1, <1>4, <1>5, <2>1
    <3>2. ConfirmingAt(c)' /\ session'[c].call = q /\ session'[c].todo \in Seq(Jobs)
      BY <1>1, <1>5, <1>11, <1>12, <1>13, <2>1, <3>1, ConfirmReturns
    <3> QED
      BY <1>5, <3>1, <3>2 DEF StageOK, InventoryOps
  <2>2. CASE kind = "reversal"
    <3>1. q.op = "cancelOrder" /\ a.op = "reversal" /\ a.op # "succeed"
          /\ a.op \notin {"release", "fulfill"}
      BY <1>1, <1>4, <2>2
    <3>2. PICK k \in WorkflowKeys : EndsLines(c, k)
      BY <1>5, <3>1
    <3>3. EndingAt(c)' /\ session'[c].call = q /\ session'[c].todo \in Seq(Jobs)
      BY <1>1, <1>5, <1>11, <1>12, <1>13, <2>2, <3>1, <3>2, EndReturns
    <3> QED
      BY <1>5, <3>1, <3>3 DEF StageOK, InventoryOps
  <2> QED
    BY <2>1, <2>2
<1>15. \A r \in DOMAIN w : /\ OrderStep(q, r, db[r], w[r])
                           /\ Lock(q, r) \in session[c].locks \cup Locked(c)
  <2> SUFFICES ASSUME NEW r \in DOMAIN w
               PROVE  /\ OrderStep(q, r, db[r], w[r])
                      /\ Lock(q, r) \in session[c].locks \cup Locked(c)
    OBVIOUS
  <2>1. r = j /\ w[r].status # Absent
    OBVIOUS
  <2>2. OrderStep(q, r, db[r], w[r])
    BY <1>4, <1>8, <2>1 DEF OrderStep
  <2> QED
    BY <1>6, <1>8, <2>1, <2>2 DEF Lock
<1>16. session[c].row[1] \notin Inserted /\ DOMAIN w \subseteq OrderRows
  BY <1>3, <1>8 DEF Inserted
<1> QED
  BY <1>10, <1>14, <1>15, <1>16, OrderStepKeeps

LEMMA PostRevenueKeeps ==
  ASSUME WorkflowInv, NEW c \in Clients, PostRevenue(c)
  PROVE  WorkflowInv'
<1> SUFFICES ASSUME NEW q, q = session[c].call, NEW j, j = JournalRow("revenue", q.order)
             PROVE  WorkflowInv'
  OBVIOUS
<1>1. /\ Ready(c, "books") /\ At(c, "revenue")
      /\ \/ Present(j) /\ Returns(c, <<>>)
         \/ Refuse(c, "closed")
         \/ Returns(c, RowIs(j, [status |-> "posted"]))
  BY DEF PostRevenue, Journal, Asked
<1>2. ASSUME NEW w, Returns(c, w),
             \/ DOMAIN w = {} /\ Present(j)
             \/ DOMAIN w = {j} /\ w[j].status # Absent
      PROVE  WorkflowInv'
  BY <1>1, <1>2, JournalKeeps
<1>3. CASE Present(j) /\ Returns(c, <<>>)
  <2> SUFFICES ASSUME NEW w, w = <<>>
               PROVE  WorkflowInv'
    OBVIOUS
  <2>1. DOMAIN w = {}
    OBVIOUS
  <2> QED
    BY <1>2, <1>3, <2>1
<1>4. CASE Returns(c, RowIs(j, [status |-> "posted"]))
  <2> SUFFICES ASSUME NEW new, new = [status |-> "posted"], NEW w, w = RowIs(j, new)
               PROVE  WorkflowInv'
    OBVIOUS
  <2>1. DOMAIN w = {j} /\ w[j] = new
    BY RowIsRow
  <2>2. w[j].status # Absent
    BY <2>1 DEF Absent
  <2> QED
    BY <1>2, <1>4, <2>1, <2>2
<1> QED
  BY <1>1, <1>3, <1>4, RefuseKeeps

LEMMA ReverseRevenueKeeps ==
  ASSUME WorkflowInv, NEW c \in Clients, ReverseRevenue(c)
  PROVE  WorkflowInv'
<1> SUFFICES ASSUME NEW q, q = session[c].call, NEW j, j = JournalRow("reversal", q.order)
             PROVE  WorkflowInv'
  OBVIOUS
<1>1. /\ Ready(c, "books") /\ At(c, "reversal")
      /\ \/ Present(j) /\ Returns(c, <<>>)
         \/ Refuse(c, "closed") \/ Refuse(c, "missing")
         \/ Returns(c, RowIs(j, [status |-> "reversed"]))
  BY DEF ReverseRevenue, Journal, Asked
<1>2. ASSUME NEW w, Returns(c, w),
             \/ DOMAIN w = {} /\ Present(j)
             \/ DOMAIN w = {j} /\ w[j].status # Absent
      PROVE  WorkflowInv'
  BY <1>1, <1>2, JournalKeeps
<1>3. CASE Present(j) /\ Returns(c, <<>>)
  <2> SUFFICES ASSUME NEW w, w = <<>>
               PROVE  WorkflowInv'
    OBVIOUS
  <2>1. DOMAIN w = {}
    OBVIOUS
  <2> QED
    BY <1>2, <1>3, <2>1
<1>4. CASE Returns(c, RowIs(j, [status |-> "reversed"]))
  <2> SUFFICES ASSUME NEW new, new = [status |-> "reversed"], NEW w, w = RowIs(j, new)
               PROVE  WorkflowInv'
    OBVIOUS
  <2>1. DOMAIN w = {j} /\ w[j] = new
    BY RowIsRow
  <2>2. w[j].status # Absent
    BY <2>1 DEF Absent
  <2> QED
    BY <1>2, <1>4, <2>1, <2>2
<1> QED
  BY <1>1, <1>3, <1>4, RefuseKeeps

LEMMA ClosePeriodKeeps ==
  ASSUME WorkflowInv, NEW c \in Clients, ClosePeriod(c)
  PROVE  WorkflowInv'
<1> SUFFICES ASSUME NEW q, q = session[c].call, NEW a, a = Arg(c),
                    NEW new, new = [status |-> "closed"], NEW w, w = RowIs(BooksRow, new)
             PROVE  WorkflowInv'
  OBVIOUS
<1>1. Ready(c, "books") /\ At(c, "close") /\ Returns(c, w)
  BY DEF ClosePeriod
<1>2. a.op = "close" /\ session[c].todo # <<>> /\ a.op \in PartOps \cup InventoryOps \cup {"close"}
  BY <1>1 DEF At
<1>3. session[c].at = "books" /\ session[c] # Idle /\ SessionShape /\ JobAt(c, a)
  BY <1>1, <1>2, Before
<1>4. session[c].row = BooksRow /\ BooksRow[1] = "books" /\ BooksRow \in OrderRows
  <2>1. session[c].row = BooksRow
    BY <1>2, <1>3 DEF JobAt
  <2> QED
    BY <2>1, OrderKinds, OrderRowsAre
<1>5. a = q /\ session[c].todo = <<q>>
  BY <1>2, <1>3, JobOf
<1>6. q \in Calls
  BY <1>2, <1>3, JobStage
<1>7. BooksRow # NoRow
  BY <1>4, RowsApart DEF Rows
<1>8. Locked(c) = {BooksRow}
  BY <1>3, <1>4, <1>7, LockTaken
<1>9. DOMAIN w = {BooksRow} /\ w[BooksRow] = new
  BY RowIsRow
<1>10. new.status # Absent
  BY DEF Absent
<1>11. OrderStep(q, BooksRow, db[BooksRow], new) /\ Lock(q, BooksRow) = BooksRow
  BY <1>4, <1>10 DEF OrderStep, Lock
<1>12. Continues(c, w, <<>>)
  BY <1>1, <1>5 DEF Returns
<1>13. /\ AtJob(c)' /\ session'[c].call = q /\ session'[c].todo = <<>>
       /\ \E at, row : Proceed(c, w, at, row, <<>>)
  BY <1>3, <1>12, Finishes
<1>14. CloseAt(c)'
  BY <1>13 DEF CloseAt
<1>15. StageOK(c)'
  <2>1. <<>> \in Seq(Jobs) /\ q.op = "close"
    BY <1>2, <1>5, NothingLeft
  <2> QED
    BY <1>6, <1>13, <1>14, <2>1 DEF StageOK, InventoryOps
<1>16. PICK at, row : Proceed(c, w, at, row, <<>>)
  BY <1>13
<1>17. session[c].row[1] \notin Inserted /\ DOMAIN w \subseteq OrderRows
  BY <1>4, <1>9 DEF Inserted
<1>18. \A r \in DOMAIN w : /\ OrderStep(q, r, db[r], w[r])
                           /\ Lock(q, r) \in session[c].locks \cup Locked(c)
  BY <1>8, <1>9, <1>11
<1> QED
  BY <1>1, <1>15, <1>16, <1>17, <1>18, OrderStepKeeps

LEMMA CompleteRunKeeps ==
  ASSUME WorkflowInv, NEW c \in Clients, CompleteRun(c)
  PROVE  WorkflowInv'
<1> SUFFICES ASSUME NEW q, q = session[c].call, NEW a, a = Arg(c), NEW r, r = OwnRun(c),
                    NEW k, k = ConfirmationRow(q.order), NEW old, old = Sees(c, r),
                    NEW sound, sound = (q.op = "confirmOrder" => ConfirmationResultMatches(c)),
                    NEW new, new = [old EXCEPT !.status = "succeeded", !.sound = sound],
                    NEW found, found = [status |-> "succeeded"],
                    NEW nothing, nothing = <<>>,
                    NEW more, more = IF q.op = "confirmOrder" THEN RowIs(k, found) ELSE nothing,
                    NEW w, w = Over(RowIs(r, new), more)
             PROVE  WorkflowInv'
  OBVIOUS
<1>1. Ready(c, "succeed") /\ Returns(c, w)
  BY DEF CompleteRun, Asked
<1>2. /\ session[c].at = "succeed" /\ session[c] # Idle /\ session[c].todo # <<>>
      /\ SessionShape /\ JobAt(c, a) /\ a.op \in PartOps \cup InventoryOps \cup {"close"}
  BY <1>1, Before DEF JobLabels
<1>3. a.op = "succeed"
  BY <1>2 DEF JobAt, PartOps, InventoryOps
<1>4. session[c].row = NoRow /\ q.op \in Workflows
  BY <1>2, <1>3, JobOf DEF JobAt, JobLabels
<1>5. /\ q \in Calls
      /\ q.op = "confirmOrder" => ConfirmsLines(c)
      /\ q.op \in {"cancelOrder", "fulfillOrder"} => \E key \in WorkflowKeys : EndsLines(c, key)
  BY <1>2, JobStage DEF JobLabels
<1>6. RunOK(c) /\ (q.op = "confirmOrder" => OrderRow(q.order) \in session[c].locks)
  BY <1>4, <1>5 DEF ConfirmsLines, EndsLines, Workflows
<1>7. r \in DOMAIN session[c].mine /\ old = session[c].mine[r]
  BY <1>6 DEF RunOK, Sees
<1>8. /\ r = RunRow(q.op, q.key) /\ r[1] = "run" /\ r \in OrderRows
      /\ k \in OrderRows /\ k[1] = "confirmation" /\ r # k
      /\ \A key : ReservationRow(key) \notin {r, k}
      /\ \A kind, o : JournalRow(kind, o) \notin {r, k}
      /\ \A o : OrderRow(o) \notin {r, k}
  <2>1. q.order \in Orders /\ q.key \in WorkflowKeys
    BY <1>4, <1>5, OrderAssumption DEF Calls, OrderCall
  <2>2. r = RunRow(q.op, q.key) /\ r[1] = "run" /\ k[1] = "confirmation"
    BY OwnRunIs, OrderKinds
  <2>3. r \in OrderRows /\ k \in OrderRows
    BY <1>4, <2>1, <2>2 DEF OrderRows, RunRows
  <2>4. /\ \A key : ReservationRow(key) # r /\ ReservationRow(key) # k
        /\ \A o : OrderRow(o) # r /\ OrderRow(o) # k
    BY <2>2, OrderKinds, StockKinds
  <2>5. \A kind, o : JournalRow(kind, o) # r /\ JournalRow(kind, o) # k
    <3> SUFFICES ASSUME NEW kind, NEW o, NEW j, j = JournalRow(kind, o)
                 PROVE  j # r /\ j # k
      OBVIOUS
    <3>1. j[1] = "journal"
      BY OrderKinds
    <3> QED
      BY <2>2, <3>1
  <2>6. r # k
    BY <2>2
  <2> QED
    BY <2>2, <2>3, <2>4, <2>5, <2>6
<1>9. OrderStep(q, r, db[r], old) /\ Lock(q, r) \in session[c].locks
  BY <1>7, <1>8, MineIs
<1>10. /\ db[r].status = Absent /\ {"status", "input"} \subseteq DOMAIN old
       /\ old.input = Input(q)
  BY <1>8, <1>9 DEF OrderStep
<1>11. DOMAIN new = DOMAIN old /\ new.status = "succeeded" /\ new.input = Input(q)
  BY <1>10
<1>12. OrderStep(q, r, db[r], new)
  BY <1>4, <1>8, <1>10, <1>11 DEF OrderStep
<1>13. found.status = "succeeded" /\ found.status # Absent
  BY DEF Absent
<1>14. DOMAIN nothing = {}
  OBVIOUS
<1>15. DOMAIN w = {r} \cup DOMAIN more
  BY DEF Over, RowIs
<1>16. w[r] = new
  BY DEF Over, RowIs
<1>17. q.op = "confirmOrder" => DOMAIN more = {k} /\ more[k] = found
  BY RowIsRow
<1>18. q.op # "confirmOrder" => DOMAIN more = {}
  BY <1>14
<1>19. k \in DOMAIN more => w[k] = more[k]
  <2>1. DOMAIN RowIs(r, new) = {r}
    BY RowIsRow
  <2> QED
    BY <1>8, <2>1 DEF Over
<1>20. DOMAIN w \subseteq {r, k} /\ (q.op # "confirmOrder" => DOMAIN w = {r})
       /\ (q.op = "confirmOrder" => k \in DOMAIN w /\ w[k] = found) /\ r \in DOMAIN w
  BY <1>15, <1>17, <1>18, <1>19
<1>21. OrderRow(q.order) \notin DOMAIN w /\ (\A kind : JournalRow(kind, q.order) \notin DOMAIN w)
       /\ \A key : ReservationRow(key) \notin DOMAIN w
  BY <1>8, <1>20
<1>22. \A x \in DOMAIN w : /\ OrderStep(q, x, db[x], w[x])
                           /\ Lock(q, x) \in session[c].locks \cup Locked(c)
  <2> SUFFICES ASSUME NEW x \in DOMAIN w
               PROVE  /\ OrderStep(q, x, db[x], w[x])
                      /\ Lock(q, x) \in session[c].locks \cup Locked(c)
    OBVIOUS
  <2>1. CASE x = r
    BY <1>9, <1>12, <1>16, <2>1
  <2>2. CASE x # r
    <3>1. x = k /\ q.op = "confirmOrder" /\ w[x] = found
      BY <1>20, <2>2
    <3>2. OrderStep(q, x, db[x], w[x])
      BY <1>8, <1>13, <3>1 DEF OrderStep
    <3>3. Lock(q, x) = OrderRow(q.order)
      BY <1>8, <3>1 DEF Lock
    <3> QED
      BY <1>6, <3>1, <3>2, <3>3
  <2> QED
    BY <2>1, <2>2
<1>23. StageOK(c)'
  <2>1. CASE q.op = "confirmOrder"
    <3>1. OwnRun(c) \in DOMAIN w /\ w[OwnRun(c)].status = "succeeded"
          /\ ConfirmationRow(q.order) \in DOMAIN w
      BY <1>11, <1>16, <1>20, <2>1
    <3>2. ConfirmsLines(c) /\ a.op # "revenue"
      BY <1>3, <1>5, <2>1
    <3>3. ConfirmingAt(c)' /\ session'[c].call = q /\ session'[c].todo \in Seq(Jobs)
      BY <1>1, <1>2, <1>3, <1>5, <1>21, <2>1, <3>1, <3>2, ConfirmReturns
    <3> QED
      BY <1>5, <2>1, <3>3 DEF StageOK, InventoryOps
  <2>2. CASE q.op # "confirmOrder"
    <3>1. OwnRun(c) \in DOMAIN w /\ w[OwnRun(c)].status = "succeeded"
      BY <1>11, <1>16, <1>20, <2>2
    <3>2. q.op \in {"cancelOrder", "fulfillOrder"}
      BY <1>4, <2>2 DEF Workflows
    <3>3. PICK key \in WorkflowKeys : EndsLines(c, key)
      BY <1>5, <3>2
    <3>4. a.op # "reversal" /\ a.op \notin {"release", "fulfill"}
      BY <1>3
    <3>5. EndingAt(c)' /\ session'[c].call = q /\ session'[c].todo \in Seq(Jobs)
      BY <1>1, <1>2, <1>3, <1>5, <1>21, <3>1, <3>2, <3>3, <3>4, EndReturns
    <3> QED
      BY <1>5, <3>2, <3>5 DEF StageOK, InventoryOps
  <2> QED
    BY <2>1, <2>2
<1>24. Locked(c) = {}
  BY <1>2, <1>4 DEF Locked
<1>25. DOMAIN w \subseteq OrderRows
  BY <1>8, <1>20
<1>26. PICK at, row, todo : Proceed(c, w, at, row, todo)
  BY <1>1, ReturnsProceeds
<1> QED
  BY <1>1, <1>22, <1>23, <1>24, <1>25, <1>26, OrderStepKeeps

-----------------------------------------------------------------------------
(* A call begins. *)

\* The first statement of a call of Inventory.
LEMMA FirstOfCall ==
  ASSUME NEW q, q.op \in InventoryOps, InventoryCall(q)
  PROVE  /\ q.op = "receive" => First(q) = <<"warehouse", WarehouseRow(q.warehouse)>>
         /\ q.op = "adjust" => First(q) = <<"find", CorrectionRow(q.key)>>
         /\ q.op = "reserve" => First(q) \in {<<"warehouse", WarehouseRow(q.warehouse)>>,
                                              <<"find", ReservationRow(q.key)>>}
         /\ q.op \in {"release", "fulfill"} => First(q) = <<"reservation", ReservationRow(q.key)>>
         /\ q.op = "draft" => First(q) = <<"warehouse", WarehouseRow(q.from)>>
         /\ q.op \in {"confirm", "complete"} => First(q) = <<"transfer", TransferRow(q.transfer)>>
BY DEF First, InventoryCall

\* Who has begun a call has it to do, and has nothing else.
LEMMA Begun ==
  ASSUME WorkflowInv, NEW c \in Clients, NEW q \in Calls, NEW at, NEW row,
         Begin(c, q, at, row, <<q>>)
  PROVE  /\ session'[c].call = q /\ session'[c].at = at /\ session'[c].row = row
         /\ session'[c].todo = <<q>> /\ Wrote(c, {})' /\ UNCHANGED db
         /\ \A d \in Clients : d # c => session'[d] = session[d]
         /\ <<q>> \in Seq(Jobs) /\ <<q>> # <<>> /\ Head(<<q>>) = q
<1>1. /\ Alone(c) /\ session'[c].call = q /\ session'[c].at = at /\ session'[c].row = row
      /\ session'[c].todo = <<q>> /\ DOMAIN session'[c].mine = {} /\ UNCHANGED <<db, answers>>
  BY Begins DEF WorkflowInv
<1>2. q \in Jobs
  BY DEF Jobs
<1>3. <<q>> \in Seq(Jobs)
  BY <1>2
<1> QED
  BY <1>1, <1>3, OneLeft, HeadOfOne DEF Wrote, Alone

LEMMA CallKeeps ==
  ASSUME WorkflowInv, NEW c \in Clients, NEW q \in Requests, Call(c, q)
  PROVE  WorkflowInv'
<1>1. /\ q.op \in InventoryOps /\ NewDraft(q)
      /\ \/ Begin(c, q, First(q)[1], First(q)[2], <<q>>)
         \/ q.op = "draft" /\ Begin(c, q, "warehouse", WarehouseRow(q.to), <<q>>)
  BY DEF Call
<1>2. q \in Calls /\ q \in StockCalls /\ InventoryCall(q)
  BY <1>1, InventoryAssumption DEF Calls, CallOps, StockCalls
<1>3. PICK at, row : /\ Begin(c, q, at, row, <<q>>)
                     /\ \/ at = First(q)[1] /\ row = First(q)[2]
                        \/ q.op = "draft" /\ at = "warehouse" /\ row = WarehouseRow(q.to)
  BY <1>1
<1>4. /\ session'[c].call = q /\ session'[c].at = at /\ session'[c].row = row
      /\ session'[c].todo = <<q>> /\ Wrote(c, {})' /\ UNCHANGED db
      /\ \A d \in Clients : d # c => session'[d] = session[d]
      /\ <<q>> \in Seq(Jobs) /\ <<q>> # <<>> /\ Head(<<q>>) = q
  BY <1>2, <1>3, Begun
<1>5. /\ q.op = "receive" => at = "warehouse" /\ row = WarehouseRow(q.warehouse)
      /\ q.op = "adjust" => at = "find" /\ row = CorrectionRow(q.key)
      /\ q.op = "reserve" => \/ at = "warehouse" /\ row = WarehouseRow(q.warehouse)
                             \/ at = "find" /\ row = ReservationRow(q.key)
      /\ q.op \in {"release", "fulfill"} => at = "reservation" /\ row = ReservationRow(q.key)
      /\ q.op = "draft" => at = "warehouse" /\ row \in {WarehouseRow(q.from), WarehouseRow(q.to)}
      /\ q.op \in {"confirm", "complete"} => at = "transfer" /\ row = TransferRow(q.transfer)
  BY <1>1, <1>2, <1>3, FirstOfCall
<1>6. JobAt(c, q)'
  BY <1>1, <1>4, <1>5 DEF JobAt, InventoryOps
<1>7. AtJob(c)'
  BY <1>2, <1>4, <1>6 DEF AtJob
<1>8. q.op = "draft" => NewTransfer(c)'
  BY <1>1, <1>4 DEF NewTransfer, NewDraft, Present, Wrote
<1>9. InventoryAt(c)'
  BY <1>4, <1>7, <1>8 DEF InventoryAt
<1>10. StageOK(c)'
  BY <1>1, <1>2, <1>4, <1>9 DEF StageOK, InventoryOps
<1> QED
  BY <1>1, <1>3, <1>10, BeginKeeps

LEMMA CallOthersKeeps ==
  ASSUME WorkflowInv, NEW c \in Clients, NEW q \in Requests,
         CallWorkflow(c, q) \/ CallSales(c, q) \/ CallClose(c, q)
  PROVE  WorkflowInv'
<1>1. ASSUME NEW at, NEW row, Begin(c, q, at, row, <<q>>), q \in Calls, q.op # "draft", StageOK(c)'
      PROVE  WorkflowInv'
  <2>1. NewDraft(q)
    BY <1>1 DEF NewDraft
  <2> QED
    BY <1>1, <2>1, BeginKeeps
<1>2. CASE q.op = "confirmOrder" /\ Begin(c, q, "lookup", NoRow, <<q>>)
  <2>1. q \in Calls /\ q.op # "draft"
    BY <1>2 DEF Calls, CallOps, Workflows
  <2>2. /\ session'[c].call = q /\ session'[c].at = "lookup" /\ session'[c].row = NoRow
        /\ session'[c].todo = <<q>> /\ Wrote(c, {})' /\ <<q>> \in Seq(Jobs)
    BY <1>2, <2>1, Begun
  <2>3. StageOK(c)'
    BY <1>2, <2>1, <2>2 DEF StageOK, ConfirmingAt, InventoryOps
  <2> QED
    BY <1>1, <1>2, <2>1, <2>3
<1>3. CASE /\ q.op \in {"cancelOrder", "fulfillOrder"}
           /\ Begin(c, q, "find", ConfirmationRow(q.order), <<q>>)
  <2>1. q \in Calls /\ q.op # "draft"
    BY <1>3 DEF Calls, CallOps, Workflows
  <2>2. /\ session'[c].call = q /\ session'[c].at = "find"
        /\ session'[c].row = ConfirmationRow(q.order)
        /\ session'[c].todo = <<q>> /\ Wrote(c, {})' /\ <<q>> \in Seq(Jobs)
    BY <1>3, <2>1, Begun
  <2>3. StageOK(c)'
    BY <1>3, <2>1, <2>2 DEF StageOK, EndingAt, InventoryOps
  <2> QED
    BY <1>1, <1>3, <2>1, <2>3
<1>4. CASE CallSales(c, q)
  <2>1. /\ q.op \in {"salesConfirm", "salesCancel"} /\ q \in Calls /\ q.op # "draft"
        /\ Begin(c, q, "order", OrderRow(q.order), <<q>>)
    BY <1>4 DEF CallSales, Calls, CallOps
  <2>2. /\ session'[c].call = q /\ session'[c].at = "order"
        /\ session'[c].row = OrderRow(q.order)
        /\ session'[c].todo = <<q>> /\ Wrote(c, {})' /\ <<q>> \in Seq(Jobs)
    <3>1. q \in Calls /\ Begin(c, q, "order", OrderRow(q.order), <<q>>)
      BY <2>1
    <3> QED
      BY <3>1, Begun
  <2>3. StageOK(c)'
    BY <2>1, <2>2 DEF StageOK, SalesAt, InventoryOps
  <2> QED
    BY <1>1, <2>1, <2>3
<1>5. CASE CallClose(c, q)
  <2>1. /\ q.op = "close" /\ q \in Calls /\ q \in StockCalls /\ q.op # "draft"
        /\ Begin(c, q, "books", BooksRow, <<q>>)
    BY <1>5 DEF CallClose, Calls, CallOps, StockCalls
  <2>2. /\ session'[c].call = q /\ session'[c].at = "books" /\ session'[c].row = BooksRow
        /\ session'[c].todo = <<q>> /\ <<q>> \in Seq(Jobs) /\ <<q>> # <<>> /\ Head(<<q>>) = q
    BY <2>1, Begun
  <2>3. JobAt(c, q)'
    BY <2>1, <2>2 DEF JobAt
  <2>4. AtJob(c)'
    BY <2>1, <2>2, <2>3 DEF AtJob
  <2>5. CloseAt(c)'
    BY <2>2, <2>4 DEF CloseAt
  <2>6. StageOK(c)'
    BY <2>1, <2>2, <2>5 DEF StageOK, InventoryOps
  <2> QED
    BY <1>1, <2>1, <2>6
<1> QED
  BY <1>2, <1>3, <1>4, <1>5 DEF CallWorkflow

-----------------------------------------------------------------------------
(* The invariant. *)

LEMMA InitialRows ==
  ASSUME OrderInit
  PROVE  /\ DOMAIN db = Rows
         /\ \A r \in StockRows : db[r] = InitialStock[r]
         /\ \A r \in OrderRows : db[r] = InitialOrders[r]
<1>1. db = Over(InitialOrders, InitialStock)
  BY DEF OrderInit
<1>2. DOMAIN InitialOrders = OrderRows /\ DOMAIN InitialStock = StockRows
  BY DEF InitialOrders, InitialStock
<1>3. DOMAIN db = OrderRows \cup StockRows
  BY <1>1, <1>2 DEF Over
<1>4. \A r \in OrderRows : db[r] = InitialOrders[r]
  BY <1>1, <1>2 DEF Over
<1>5. \A r \in StockRows : db[r] = InitialStock[r]
  BY <1>1, <1>2, RowsApart DEF Over
<1> QED
  BY <1>3, <1>4, <1>5 DEF Rows

LEMMA InitialStockIs ==
  ASSUME OrderInit
  PROVE  StockIs(db)
<1> SUFFICES ASSUME NEW r \in StockRows
             PROVE  /\ r[1] = "balance" => InStock(db[r])
                    /\ r[1] = "reservation" => db[r] \in ReservationType
                    /\ r[1] = "correction" => db[r] \in CorrectionType
                    /\ r[1] = "transfer" => db[r] \in TransferType
  BY DEF StockIs
<1>1. db[r] = InitialStock[r]
  BY InitialRows
<1>2. CASE r[1] = "balance"
  <2>1. PICK w \in Warehouses, i \in Items : r = BalanceRow(w, i)
    BY <1>2, StockRowKinds
  <2>2. r[2] = w /\ r[3] = i
    BY <2>1 DEF BalanceRow
  <2>8. <<w, i>> \in Balances
    BY DEF Balances
  <2>9. Stock[<<w, i>>] \in Nat
    BY <2>8, InventoryAssumption
  <2> SUFFICES ASSUME NEW n \in Nat, n = Stock[<<w, i>>]
               PROVE  InStock(db[r])
    BY <1>2, <2>9
  <2>3. db[r] = [status |-> IF n = 0 THEN Absent ELSE "stocked",
                 onHand |-> n, reserved |-> 0, received |-> n]
    BY <1>1, <1>2, <2>2 DEF InitialStock
  <2>4. db[r] \in BalanceType
    BY <2>3 DEF BalanceType
  <2>5. db[r].reserved = 0 /\ db[r].onHand = n
    BY <2>3
  <2>6. db[r].status = Absent => n = 0
    BY <2>3 DEF Absent
  <2>7. InStock(db[r])
    BY <2>4, <2>5, <2>6 DEF InStock
  <2> QED
    BY <1>2, <2>7
<1>3. CASE r[1] # "balance"
  <2>1. db[r] = [status |-> Absent]
    BY <1>1, <1>3 DEF InitialStock
  <2>2. db[r] \in [status : {Absent}]
    BY <2>1
  <2> QED
    BY <1>3, <2>2 DEF ReservationType, CorrectionType, TransferType
<1> QED
  BY <1>2, <1>3

LEMMA WorkflowInvInit ==
  ASSUME OrderInit
  PROVE  WorkflowInv
<1>1. DOMAIN db = Rows /\ \A r \in OrderRows : db[r] = InitialOrders[r]
  BY InitialRows
<1>2. /\ session = [c \in Clients |-> Idle] /\ answers = [q \in Requests |-> {}] /\ calls = 0
  BY DEF OrderInit
<1>3. ASSUME NEW r \in OrderRows
      PROVE  /\ "status" \in DOMAIN db[r]
             /\ r[1] = "order" => db[r].status = "draft"
             /\ r[1] \in {"run", "journal", "confirmation", "orderKey"} => db[r].status = Absent
  <2>1. db[r] = InitialOrders[r]
    BY <1>1
  <2>2. DOMAIN db[r] = {"status"}
    BY <2>1 DEF InitialOrders
  <2>3. r[1] = "order" => db[r].status = "draft"
    BY <2>1 DEF InitialOrders
  <2>4. r[1] \in {"run", "journal", "confirmation", "orderKey"} => db[r].status = Absent
    <3>1. r[1] \in {"run", "journal", "confirmation", "orderKey"} =>
            r[1] # "order" /\ r[1] # "books"
      OBVIOUS
    <3>2. r[1] # "order" /\ r[1] # "books" => db[r].status = Absent
      BY <2>1 DEF InitialOrders
    <3> QED
      BY <3>1, <3>2
  <2> QED
    BY <2>2, <2>3, <2>4
<1>4. \A t \in Workflows, k \in WorkflowKeys : db[RunRow(t, k)].status = Absent
  <2> TAKE t \in Workflows, k \in WorkflowKeys
  <2>1. RunRow(t, k) \in OrderRows /\ RunRow(t, k)[1] = "run"
    BY OrderRowsAre, OrderKinds
  <2> QED
    BY <1>3, <2>1
<1>5. \A t \in Workflows, o \in Orders : Succeeded(t, o) = {}
  BY <1>4 DEF Succeeded, Absent
<1>6. \A o \in Orders : ~Revenue(o) /\ ~Reversal(o)
  <2> TAKE o \in Orders
  <2>1. /\ JournalRow("revenue", o) \in OrderRows /\ JournalRow("revenue", o)[1] = "journal"
        /\ JournalRow("reversal", o) \in OrderRows /\ JournalRow("reversal", o)[1] = "journal"
    BY OrderRowsAre, OrderKinds
  <2>2. /\ db[JournalRow("revenue", o)].status = Absent
        /\ db[JournalRow("reversal", o)].status = Absent
    BY <1>3, <2>1
  <2> QED
    BY <2>2 DEF Revenue, Reversal, Present
<1>7. \A o \in Orders : Order(o) = "draft" /\ "status" \in DOMAIN db[OrderRow(o)]
  BY <1>3, OrderRowsAre, OrderKinds DEF Order
<1>8. \A t \in Workflows, k \in WorkflowKeys : RunIs(t, k)
  BY <1>4 DEF RunIs, Absent
<1>9. RunsTell /\ EndsTell /\ JournalsTell
  BY <1>5, <1>6 DEF RunsTell, EndsTell, JournalsTell, Workflows
<1>10. Tables
  BY <1>1, <1>7, <1>8, <1>9, InitialStockIs DEF Tables
<1>11. \A c \in Clients : session[c] = Idle
  BY <1>2
<1>12. SessionShape /\ DOMAIN answers = Requests /\ calls \in 0..MaxCalls
  BY <1>2, InventoryAssumption DEF SessionShape
<1>13. \A c \in Clients : session[c].locks = {} /\ DOMAIN session[c].mine = {}
  BY <1>11, IdleFields
<1>14. LocksOK
  BY <1>13 DEF LocksOK
<1>15. \A c \in Clients : MineOK(c) /\ StageOK(c)
  BY <1>11, <1>13 DEF MineOK, StageOK
<1>16. AnswersAreTrue /\ AnswersAreOwn
  BY <1>2 DEF AnswersAreTrue, AnswersAreOwn
<1> QED
  BY <1>10, <1>12, <1>14, <1>15, <1>16 DEF WorkflowInv

LEMMA StutterKeeps ==
  ASSUME WorkflowInv, UNCHANGED sessionVars
  PROVE  WorkflowInv'
<1>1. session' = session /\ UNCHANGED db /\ answers' = answers /\ calls' = calls
  BY DEF sessionVars
<1>2. Grew /\ Tables' /\ \A r : Present(r)' <=> Present(r)
  BY <1>1, NothingGrew, TablesStay DEF WorkflowInv
<1>3. \A d \in Clients : Undisturbed(d)
  BY <1>1 DEF Undisturbed, FirstToEnd, Succeeded, NewTransfer
<1>4. \A d \in Clients : StageOK(d)' /\ MineOK(d)'
  BY <1>2, <1>3, StageStays, MineStays DEF WorkflowInv
<1>5. LocksOK'
  BY <1>1, <1>2 DEF WorkflowInv, LocksOK
<1>6. SessionShape' /\ DOMAIN answers' = Requests /\ calls' \in 0..MaxCalls
  BY <1>1 DEF WorkflowInv, SessionShape
<1>7. AnswersAreTrue' /\ AnswersAreOwn'
  <2>1. \A q \in Requests : "ok" \in answers[q] => Told(q)
    BY AnswersTell DEF WorkflowInv
  <2>2. \A q \in Requests : "ok" \in answers'[q] => Told(q)'
    BY <1>1, <1>2, <2>1, ToldStays
  <2>3. ((AnswersAreTrue /\ AnswersAreOwn) <=> \A p \in Requests : "ok" \in answers[p] => Told(p))'
    BY AnswersTellThen
  <2> QED
    BY <2>2, <2>3
<1> QED
  BY <1>2, <1>4, <1>5, <1>6, <1>7 DEF WorkflowInv

LEMMA StatementKeeps ==
  ASSUME WorkflowInv, NEW c \in Clients, Statement(c)
  PROVE  WorkflowInv'
<1>1. CASE ReceiveStock(c) \/ Receipt(c)
  BY <1>1, ReceiveStockKeeps, ReceiptKeeps
<1>2. CASE FindCorrection(c) \/ LockItem(c) \/ Adjust(c) \/ AdjustNothing(c) \/ AdjustFirst(c)
  BY <1>2, FindCorrectionKeeps, LockItemKeeps, AdjustKeeps, AdjustNothingKeeps, AdjustFirstKeeps
<1>3. CASE RecordCorrection(c) \/ ReserveStock(c) \/ FindReservation(c) \/ Reserve(c)
           \/ RecordReservation(c)
  BY <1>3, RecordCorrectionKeeps, ReserveStockKeeps, FindReservationKeeps, ReserveKeeps,
     RecordReservationKeeps
<1>4. CASE LockReservation(c) \/ Release(c) \/ Fulfill(c)
  BY <1>4, LockReservationKeeps, ReleaseKeeps, FulfillKeeps
<1>5. CASE LockWarehouses(c) \/ LockItems(c) \/ LockItemOfLine(c) \/ InsertTransfer(c)
  BY <1>5, LockWarehousesKeeps, LockItemsKeeps, LockItemOfLineKeeps, InsertTransferKeeps
<1>6. CASE ConfirmTransfer(c) \/ Ship(c) \/ CompleteTransfer(c) \/ Arrive(c)
  BY <1>6, ConfirmTransferKeeps, ShipKeeps, CompleteTransferKeeps, ArriveKeeps
<1> QED
  BY <1>1, <1>2, <1>3, <1>4, <1>5, <1>6 DEF Statement

LEMMA OrderStatementKeeps ==
  ASSUME WorkflowInv, NEW c \in Clients, OrderStatement(c)
  PROVE  WorkflowInv'
<1>1. CASE LookupRun(c) \/ LoadConfirmation(c) \/ LookupLifecycle(c) \/ InsertRun(c)
  BY <1>1, LookupRunKeeps, LoadConfirmationKeeps, LookupLifecycleKeeps, InsertRunKeeps
<1>2. CASE ConfirmSalesOrder(c) \/ TakeKey(c) \/ CancelConfirmedOrder(c)
  BY <1>2, ConfirmSalesOrderKeeps, TakeKeyKeeps, CancelConfirmedOrderKeeps
<1>3. CASE PostRevenue(c) \/ ReverseRevenue(c) \/ ClosePeriod(c) \/ CompleteRun(c)
  BY <1>3, PostRevenueKeeps, ReverseRevenueKeeps, ClosePeriodKeeps, CompleteRunKeeps
<1> QED
  BY <1>1, <1>2, <1>3 DEF OrderStatement

LEMMA WorkflowInvNext ==
  ASSUME WorkflowInv, [OrderNext]_sessionVars
  PROVE  WorkflowInv'
<1>1. CASE UNCHANGED sessionVars
  BY <1>1, StutterKeeps
<1>2. CASE OrderNext
  <2> PICK c \in Clients :
        \/ \E q \in Requests : Call(c, q) \/ CallWorkflow(c, q) \/ CallSales(c, q) \/ CallClose(c, q)
        \/ Statement(c) \/ OrderStatement(c)
        \/ Commit(c) \/ CommitOrder(c) \/ Abort(c) \/ DeadlockVictim(c)
    BY <1>2 DEF OrderNext
  <2>1. CASE \E q \in Requests : Call(c, q) \/ CallWorkflow(c, q) \/ CallSales(c, q)
                                 \/ CallClose(c, q)
    BY <2>1, CallKeeps, CallOthersKeeps
  <2>2. CASE Statement(c) \/ OrderStatement(c)
    BY <2>2, StatementKeeps, OrderStatementKeeps
  <2>3. CASE Commit(c) \/ CommitOrder(c)
    BY <2>3, CommitKeeps DEF Commit, CommitOrder
  <2>4. CASE Abort(c) \/ DeadlockVictim(c)
    <3>1. Refuse(c, "unknown")
      BY <2>4 DEF Abort, DeadlockVictim
    <3> QED
      BY <3>1, RefuseKeeps
  <2> QED
    BY <2>1, <2>2, <2>3, <2>4
<1> QED
  BY <1>1, <1>2

\* The tables of Sales, Inventory, Accounting and the workflow agree, and every
\* call in progress holds the rows, has written the values and has left to do the
\* jobs of its stage, after any interleaving of the statements of
\* modules/process/src/postgres.ts and modules/inventory/src/postgres.ts.
THEOREM WorkflowInvHolds == OrderSpec => []WorkflowInv
<1>1. OrderInit => WorkflowInv
  BY WorkflowInvInit
<1>2. WorkflowInv /\ [OrderNext]_sessionVars => WorkflowInv'
  BY WorkflowInvNext
<1> QED
  BY <1>1, <1>2, PTL DEF OrderSpec

-----------------------------------------------------------------------------
(* What the invariant says of the properties that the runs check. *)

LEMMA RowTypes ==
  ASSUME WorkflowInv
  PROVE  OrderTypeOK
<1>1. /\ DOMAIN db = StockRows \cup OrderRows /\ StockIs(db) /\ calls \in 0..MaxCalls
      /\ \A t \in Workflows, k \in WorkflowKeys : RunIs(t, k)
      /\ \A o \in Orders : Order(o) \in {"draft", "confirmed", "cancelled"}
  BY DEF WorkflowInv, Tables, Rows
<1>2. Types(StockRows)
  <2>1. ASSUME NEW r \in StockRows
        PROVE  /\ r[1] = "balance" => db[r] \in BalanceType
               /\ r[1] = "reservation" => db[r] \in FactType({"active", "released", "fulfilled"})
               /\ r[1] = "correction" => db[r] \in FactType({"recorded"})
               /\ r[1] = "transfer" => db[r].status \in {Absent, "draft", "confirmed", "completed"}
    <3> SUFFICES ASSUME NEW row, row = db[r],
                        /\ r[1] = "balance" => InStock(row)
                        /\ r[1] = "reservation" => row \in ReservationType
                        /\ r[1] = "correction" => row \in CorrectionType
                        /\ r[1] = "transfer" => row \in TransferType
                 PROVE  /\ r[1] = "balance" => row \in BalanceType
                        /\ r[1] = "reservation" => row \in FactType({"active", "released", "fulfilled"})
                        /\ r[1] = "correction" => row \in FactType({"recorded"})
                        /\ r[1] = "transfer" => row.status \in {Absent, "draft", "confirmed", "completed"}
      BY <1>1 DEF StockIs
    <3>1. row \in ReservationType => row \in FactType({"active", "released", "fulfilled"})
      <4>1. CASE row \in [status : {Absent}]
        BY <4>1 DEF FactType
      <4>2. CASE row \in [status : {"active"} \cup Outcomes, warehouse : Warehouses,
                          item : Items, quantity : Quantities]
        <5>1. row \in [status : {"active", "released", "fulfilled"}, warehouse : Warehouses,
                       item : Items, quantity : Int]
          BY <4>2 DEF Outcomes, Quantities
        <5> QED
          BY <5>1 DEF FactType
      <4> QED
        BY <4>1, <4>2 DEF ReservationType
    <3>2. row \in CorrectionType => row \in FactType({"recorded"})
      BY DEF CorrectionType, FactType
    <3>3. row \in TransferType => row.status \in {Absent, "draft", "confirmed", "completed"}
      BY DEF TransferType
    <3> QED
      BY <3>1, <3>2, <3>3 DEF InStock
  <2> QED
    BY <2>1 DEF Types
<1>3. \A r \in RunRows : db[r].status \in {Absent, "succeeded"}
  BY <1>1 DEF RunRows, RunIs
<1> QED
  BY <1>1, <1>2, <1>3 DEF OrderTypeOK

LEMMA AtMostOne ==
  ASSUME NEW S, \A j, k \in S : j = k
  PROVE  Cardinality(S) <= 1
<1>1. CASE S = {}
  BY <1>1, FS_EmptySet
<1>2. CASE S # {}
  <2> PICK k : k \in S
    BY <1>2
  <2>1. S = {k}
    OBVIOUS
  <2> QED
    BY <2>1, FS_Singleton
<1> QED
  BY <1>1, <1>2

\* The lines of an order that has ended in one way.
LEMMA LinesOfEnd ==
  ASSUME WorkflowInv, NEW o \in Orders, NEW type \in {"cancelOrder", "fulfillOrder"},
         Succeeded(type, o) # {}
  PROVE  /\ TheConfirmation(o) \in Succeeded("confirmOrder", o)
         /\ \A k \in Succeeded("confirmOrder", o), n \in DOMAIN OrderLines[o] :
              db[ReservationRow(<<k, n>>)].status =
                IF type = "cancelOrder" THEN "released" ELSE "fulfilled"
<1>1. PICK k \in Confirmations(o) : \A n \in DOMAIN OrderLines[o] :
        db[ReservationRow(<<k, n>>)].status =
          IF type = "cancelOrder" THEN "released" ELSE "fulfilled"
  BY DEF WorkflowInv, Tables, EndsTell
<1>2. Confirmations(o) = Succeeded("confirmOrder", o)
  BY DEF Confirmations, Succeeded
<1>3. \A j \in Succeeded("confirmOrder", o) : j = k
  <2>1. \A j \in Succeeded("confirmOrder", o) : j \in WorkflowKeys /\ db[OrderRow(o)].key = j
    BY DEF WorkflowInv, Tables, RunsTell, Succeeded
  <2> QED
    BY <1>1, <1>2, <2>1
<1>4. TheConfirmation(o) \in Confirmations(o)
  BY <1>1, TheConfirmationIs
<1> QED
  BY <1>1, <1>2, <1>3, <1>4

LEMMA LinesStockIs ==
  ASSUME WorkflowInv, NEW o \in Orders, NEW type \in {"cancelOrder", "fulfillOrder"},
         Succeeded(type, o) # {}
  PROVE  LinesStock(o) = {IF type = "cancelOrder" THEN "released" ELSE "fulfilled"}
<1> SUFFICES ASSUME NEW k, k = TheConfirmation(o),
                    NEW status, status = IF type = "cancelOrder" THEN "released" ELSE "fulfilled"
             PROVE  LinesStock(o) = {status}
  OBVIOUS
<1>1. k \in Succeeded("confirmOrder", o)
      /\ \A n \in DOMAIN OrderLines[o] : db[ReservationRow(<<k, n>>)].status = status
  BY LinesOfEnd
<1>2. Range(Reservations(o, k)) = {<<k, n>> : n \in DOMAIN OrderLines[o]}
  BY DEF Range, Reservations
<1>3. LinesStock(o) = {db[ReservationRow(x)].status : x \in {<<k, n>> : n \in DOMAIN OrderLines[o]}}
  BY <1>1, <1>2 DEF LinesStock
<1>4. \A x \in {<<k, n>> : n \in DOMAIN OrderLines[o]} : db[ReservationRow(x)].status = status
  BY <1>1
<1>5. 1 \in DOMAIN OrderLines[o]
  <2>1. DOMAIN OrderLines[o] = 1..Len(OrderLines[o]) /\ Len(OrderLines[o]) \in Nat \ {0}
    BY LinesAre
  <2> QED
    BY <2>1
<1>6. <<k, 1>> \in {<<k, n>> : n \in DOMAIN OrderLines[o]}
  BY <1>5
<1> QED
  BY <1>3, <1>4, <1>6

LEMMA OneOutcomeInvariant ==
  ASSUME WorkflowInv
  PROVE  OneOutcome
<1> SUFFICES ASSUME NEW o \in Orders
             PROVE  /\ \A type \in Workflows : Cardinality(Succeeded(type, o)) <= 1
                    /\ Succeeded("cancelOrder", o) = {} \/ Succeeded("fulfillOrder", o) = {}
  BY DEF OneOutcome
<1>1. ASSUME NEW type \in Workflows
      PROVE  Cardinality(Succeeded(type, o)) <= 1
  <2>1. CASE type = "confirmOrder"
    <3>1. \A k \in Succeeded("confirmOrder", o) : db[OrderRow(o)].key = k
      BY DEF WorkflowInv, Tables, RunsTell, Succeeded
    <3> QED
      BY <2>1, <3>1, AtMostOne
  <2>2. CASE type \in {"cancelOrder", "fulfillOrder"}
    <3>1. \A j, k \in Succeeded(type, o) : j = k
      BY <2>2 DEF WorkflowInv, Tables, EndsTell
    <3> QED
      BY <3>1, AtMostOne
  <2> QED
    BY <2>1, <2>2 DEF Workflows
<1>2. ASSUME Succeeded("cancelOrder", o) # {}, Succeeded("fulfillOrder", o) # {}
      PROVE  FALSE
  <2>1. LinesStock(o) = {"released"}
    BY <1>2, LinesStockIs
  <2>2. LinesStock(o) = {"fulfilled"}
    BY <1>2, LinesStockIs
  <2> QED
    BY <2>1, <2>2
<1> QED
  BY <1>1, <1>2

LEMMA RevenueInvariant ==
  ASSUME WorkflowInv
  PROVE  RevenueFollowsOrder
<1> SUFFICES ASSUME NEW o \in Orders
             PROVE  /\ Revenue(o) <=> Succeeded("confirmOrder", o) # {}
                    /\ Reversal(o) <=> Succeeded("cancelOrder", o) # {}
                    /\ Revenue(o) => Order(o) # "draft"
                    /\ Reversal(o) => Order(o) = "cancelled" /\ LinesStock(o) = {"released"}
                    /\ Succeeded("fulfillOrder", o) # {} => LinesStock(o) = {"fulfilled"}
  BY DEF RevenueFollowsOrder
<1>1. \A k \in Succeeded("confirmOrder", o) : Order(o) # "draft" /\ Revenue(o)
  BY DEF WorkflowInv, Tables, RunsTell, Succeeded
<1>2. \A k \in Succeeded("cancelOrder", o) : Order(o) = "cancelled" /\ Reversal(o)
  BY DEF WorkflowInv, Tables, RunsTell, Succeeded
<1>3. /\ Revenue(o) => Succeeded("confirmOrder", o) # {}
      /\ Reversal(o) => Succeeded("cancelOrder", o) # {}
  BY DEF WorkflowInv, Tables, JournalsTell
<1>4. Succeeded("cancelOrder", o) # {} => LinesStock(o) = {"released"}
  BY LinesStockIs
<1>5. Succeeded("fulfillOrder", o) # {} => LinesStock(o) = {"fulfilled"}
  BY LinesStockIs
<1> QED
  BY <1>1, <1>2, <1>3, <1>4, <1>5

LEMMA OneHolder ==
  ASSUME WorkflowInv
  PROVE  RowsHaveOneHolder
<1>1. \A c, d \in Clients : c # d => session[c].locks \cap session[d].locks = {}
  BY DEF WorkflowInv, LocksOK
<1>2. ASSUME NEW c \in Clients, NEW r \in DOMAIN session[c].mine \cap StockRows
      PROVE  r \in session[c].locks
  <2>1. Lock(session[c].call, r) \in session[c].locks
    BY <1>2, MineIs
  <2>2. r[1] \notin {"journal", "confirmation"}
    BY <1>2, StockRowKinds
  <2> QED
    BY <2>1, <2>2 DEF Lock
<1> QED
  BY <1>1, <1>2 DEF RowsHaveOneHolder

LEMMA ReservedStays ==
  ASSUME WorkflowInv
  PROVE  ReservedStaysOnHand
<1> SUFFICES ASSUME NEW c \in Clients, NEW b \in Balances, NEW r, r = BalanceRow(b[1], b[2])
             PROVE  0 <= Sees(c, r).reserved /\ Sees(c, r).reserved <= Sees(c, r).onHand
  BY DEF ReservedStaysOnHand
<1>1. b[1] \in Warehouses /\ b[2] \in Items
  BY DEF Balances
<1>2. r \in StockRows /\ r[1] = "balance"
  BY <1>1, StockRowsAre, StockKinds
<1>3. InStock(Sees(c, r))
  BY <1>2, SeesStock
<1> QED
  BY <1>3 DEF InStock

-----------------------------------------------------------------------------
(* Theorems. *)

\* An order is confirmed by one run, ends by one run, and is not both cancelled
\* and fulfilled, however many calls of confirmOrder, cancelOrder and fulfillOrder
\* run at once, are repeated with other keys or are cut off, and whatever is asked
\* of Sales and Inventory directly meanwhile.
THEOREM OneOutcomeAlways == OrderSpec => []OneOutcome
BY WorkflowInvHolds, OneOutcomeInvariant, PTL

\* An order's revenue is posted if and only if its confirmation has succeeded and
\* reversed if and only if its cancellation has; and all of the lines that were
\* reserved have ended with it.
THEOREM RevenueAlwaysFollows == OrderSpec => []RevenueFollowsOrder
BY WorkflowInvHolds, RevenueInvariant, PTL

\* Rows have the shape that their tables give them, no run is committed that has
\* not succeeded, and who was told that a workflow call succeeded has a succeeded
\* run of its own input.
THEOREM OrderInvariant == OrderSpec => []OrderInv
<1>1. WorkflowInv => OrderInv
  BY RowTypes DEF WorkflowInv, OrderInv
<1> QED
  BY <1>1, WorkflowInvHolds, PTL

\* What Inventory has told a caller is committed with the caller's own input, also
\* when orders are confirmed, cancelled and fulfilled meanwhile.
THEOREM AnswersAlwaysTrue == OrderSpec => []AnswersAreTrue
<1>1. WorkflowInv => AnswersAreTrue
  BY DEF WorkflowInv
<1> QED
  BY <1>1, WorkflowInvHolds, PTL

-----------------------------------------------------------------------------
(* What is reserved adds up.                                               *)

\* The reservations of balance b that are active in rows v, and their sum.
Active(v, b) == {k \in Keys : LET r == v[ReservationRow(k)] IN r.status = "active" /\ On(r, b)}
Amounts(v, b) == [k \in Active(v, b) |-> v[ReservationRow(k)].quantity]
Row(b) == BalanceRow(b[1], b[2])

\* In rows v, balance b has n more reserved than its reservations add up to.
Adds(v, b, n) ==
  /\ IsFiniteSet(Active(v, b))
  /\ v[Row(b)].reserved = SumFunctionOnSet(Amounts(v, b), Active(v, b)) + n

View(c) == [r \in Rows |-> Sees(c, r)]

\* Client c has reserved what it has not recorded yet.
Recording(c) == session[c].at = "record" /\ At(c, "reserve")
Pending(c, b) == IF Recording(c) /\ Balance(c) = Row(b) THEN Arg(c).quantity ELSE 0

\* The reservations that are still to be made are not made yet, and each once.
Fresh(mine, inputs) ==
  \A i \in 1..Len(inputs) : inputs[i].op = "reserve" =>
    /\ ReservationRow(inputs[i].key) \notin DOMAIN mine
    /\ \A j \in 1..Len(inputs) :
         inputs[j].op = "reserve" /\ inputs[j].key = inputs[i].key => j = i

\* Who has written a reservation has written its balance; and where a client has
\* written a balance it adds up.
SumsOK(c) ==
  LET mine == session[c].mine IN
  /\ \A k \in Keys : ReservationRow(k) \in DOMAIN mine =>
       BalanceRow(mine[ReservationRow(k)].warehouse, mine[ReservationRow(k)].item) \in DOMAIN mine
  /\ Recording(c) => Balance(c) \in DOMAIN mine
  /\ Fresh(mine, session[c].todo)
  /\ \A b \in Balances : Row(b) \in DOMAIN mine => Adds(View(c), b, Pending(c, b))

SumInv == /\ \A b \in Balances : Adds(db, b, 0)
          /\ \A c \in Clients : SumsOK(c)

LEMMA RowOfBalance ==
  ASSUME NEW b \in Balances
  PROVE  /\ Row(b) \in StockRows /\ Row(b) \in Rows /\ Row(b)[1] = "balance"
         /\ b[1] \in Warehouses /\ b[2] \in Items
         /\ \A w, i : BalanceRow(w, i) = Row(b) <=> w = b[1] /\ i = b[2]
         /\ \A r : On(r, b) <=> BalanceRow(r.warehouse, r.item) = Row(b)
<1>1. b[1] \in Warehouses /\ b[2] \in Items
  BY DEF Balances
<1>2. Row(b) \in StockRows /\ Row(b)[1] = "balance"
  BY <1>1, StockRowsAre, StockKinds DEF Row
<1>3. \A w, i : BalanceRow(w, i) = Row(b) <=> w = b[1] /\ i = b[2]
  BY DEF BalanceRow, Row
<1>4. \A r : On(r, b) <=> BalanceRow(r.warehouse, r.item) = Row(b)
  BY <1>3 DEF On
<1> QED
  BY <1>1, <1>2, <1>3, <1>4 DEF Rows

\* Rows that tell the same of a balance.
LEMMA AddsAlike ==
  ASSUME NEW u, NEW v, NEW b, NEW n, Adds(u, b, n), v[Row(b)].reserved = u[Row(b)].reserved,
         \A k \in Keys : k \in Active(u, b) \cup Active(v, b) =>
           u[ReservationRow(k)] = v[ReservationRow(k)]
  PROVE  Adds(v, b, n)
<1>1. Active(u, b) = Active(v, b)
  <2>1. \A k \in Keys : k \in Active(u, b) <=> k \in Active(v, b)
    BY DEF Active
  <2> QED
    BY <2>1 DEF Active
<1>2. Amounts(u, b) = Amounts(v, b)
  <2>1. \A k \in Active(v, b) : u[ReservationRow(k)].quantity = v[ReservationRow(k)].quantity
    BY DEF Active
  <2> QED
    BY <1>1, <2>1 DEF Amounts
<1> QED
  BY <1>1, <1>2 DEF Adds

LEMMA OneMore ==
  ASSUME NEW A, NEW f, NEW g, NEW k, NEW n, IsFiniteSet(A), k \notin A, \A j \in A : f[j] \in Int,
         \A j \in A : g[j] = f[j], g[k] = n, n \in Int
  PROVE  SumFunctionOnSet(g, A \cup {k}) = SumFunctionOnSet(f, A) + n
<1>1. IsFiniteSet(A) /\ k \notin A /\ (\A j \in A : f[j] \in Int) /\ (\A j \in A : g[j] = f[j])
  OBVIOUS
<1>2. g[k] \in Int
  OBVIOUS
<1>3. SumFunctionOnSet(g, A \cup {k}) = SumFunctionOnSet(f, A) + g[k]
  BY ONLY <1>1, <1>2, SumAdds
<1> QED
  BY <1>3

\* A reservation more.
LEMMA AddsMore ==
  ASSUME NEW u, NEW v, NEW b, NEW k \in Keys, NEW n, n = v[ReservationRow(k)].quantity, n \in Int,
         Adds(u, b, n), v[Row(b)].reserved = u[Row(b)].reserved,
         k \notin Active(u, b), k \in Active(v, b),
         \A j \in Active(u, b) : u[ReservationRow(j)].quantity \in Int,
         \A j \in Keys : j # k => u[ReservationRow(j)] = v[ReservationRow(j)]
  PROVE  Adds(v, b, 0)
<1> DEFINE A == Active(u, b)
           f == Amounts(u, b)
           g == Amounts(v, b)
<1>1. Active(v, b) = A \cup {k}
  BY DEF Active
<1>2. IsFiniteSet(A)
  BY DEF Adds
<1>3. (\A j \in A : f[j] \in Int) /\ (\A j \in A : g[j] = f[j])
  BY <1>1 DEF Amounts, Active
<1>4. g[k] = n /\ g[k] \in Int
  BY DEF Amounts
<1>5. k \notin A
  OBVIOUS
<1> HIDE DEF A, f, g
<1>6. SumFunctionOnSet(g, A \cup {k}) = SumFunctionOnSet(f, A) + n
  <2>1. /\ IsFiniteSet(A) /\ k \notin A /\ (\A j \in A : f[j] \in Int) /\ (\A j \in A : g[j] = f[j])
        /\ g[k] = n /\ n \in Int
    BY <1>2, <1>3, <1>4, <1>5
  <2> QED
    BY ONLY <2>1, OneMore
<1>7. SumFunctionOnSet(f, A) \in Int
  BY <1>2, <1>3, SumInt
<1>8. u[Row(b)].reserved = SumFunctionOnSet(f, A) + n
  BY DEF Adds, A, f
<1>9. v[Row(b)].reserved = SumFunctionOnSet(g, A \cup {k}) + 0
  BY <1>6, <1>7, <1>8
<1>10. IsFiniteSet(A \cup {k})
  BY <1>2, FS_AddElement
<1> QED
  BY <1>1, <1>9, <1>10 DEF Adds, g

\* A reservation less.
LEMMA AddsLess ==
  ASSUME NEW u, NEW v, NEW b, NEW k \in Keys, NEW n, n = u[ReservationRow(k)].quantity, n \in Int,
         Adds(u, b, 0), v[Row(b)].reserved = u[Row(b)].reserved - n,
         k \in Active(u, b), k \notin Active(v, b),
         \A j \in Active(u, b) : u[ReservationRow(j)].quantity \in Int,
         \A j \in Keys : j # k => u[ReservationRow(j)] = v[ReservationRow(j)]
  PROVE  Adds(v, b, 0)
<1> DEFINE A == Active(v, b)
           f == Amounts(v, b)
           g == Amounts(u, b)
<1>1. Active(u, b) = A \cup {k}
  BY DEF Active
<1>2. IsFiniteSet(A)
  <2>1. IsFiniteSet(Active(u, b)) /\ A \in SUBSET Active(u, b)
    BY <1>1 DEF Adds
  <2> QED
    BY <2>1, FS_Subset
<1>3. (\A j \in A : f[j] \in Int) /\ (\A j \in A : g[j] = f[j])
  BY <1>1 DEF Amounts, Active
<1>4. g[k] = n /\ g[k] \in Int
  BY DEF Amounts
<1>5. k \notin A
  OBVIOUS
<1> HIDE DEF A, f, g
<1>6. SumFunctionOnSet(g, A \cup {k}) = SumFunctionOnSet(f, A) + n
  <2>1. /\ IsFiniteSet(A) /\ k \notin A /\ (\A j \in A : f[j] \in Int) /\ (\A j \in A : g[j] = f[j])
        /\ g[k] = n /\ n \in Int
    BY <1>2, <1>3, <1>4, <1>5
  <2> QED
    BY ONLY <2>1, OneMore
<1>7. SumFunctionOnSet(f, A) \in Int
  BY <1>2, <1>3, SumInt
<1>8. u[Row(b)].reserved = SumFunctionOnSet(g, A \cup {k}) + 0
  BY <1>1 DEF Adds, A, g
<1>9. v[Row(b)].reserved = SumFunctionOnSet(f, A) + 0
  BY <1>6, <1>7, <1>8
<1> QED
  BY <1>2, <1>9 DEF Adds, A, f

-----------------------------------------------------------------------------
(* What a client sees of a balance that it has not written is committed. *)

LEMMA FromDb ==
  ASSUME WorkflowInv, SumInv, NEW c \in Clients, NEW b \in Balances,
         Row(b) \notin DOMAIN session[c].mine
  PROVE  Adds(View(c), b, 0) /\ Pending(c, b) = 0
<1> DEFINE mine == session[c].mine
<1>1. Adds(db, b, 0) /\ SumsOK(c)
  BY DEF SumInv
<1>2. Row(b) \in Rows /\ View(c)[Row(b)] = db[Row(b)]
  BY RowOfBalance DEF View, Sees
<1>3. ASSUME NEW k \in Keys, k \in Active(db, b) \cup Active(View(c), b)
      PROVE  db[ReservationRow(k)] = View(c)[ReservationRow(k)]
  <2> DEFINE r == ReservationRow(k)
  <2>1. r \in StockRows /\ r \in Rows /\ r[1] = "reservation"
    BY StockRowsAre, StockKinds DEF Rows
  <2>2. View(c)[r] = Sees(c, r)
    BY <2>1 DEF View
  <2>3. CASE r \notin DOMAIN mine
    BY <2>2, <2>3 DEF Sees
  <2>4. CASE r \in DOMAIN mine
    <3>1. Sees(c, r) = mine[r]
      BY <2>4 DEF Sees
    <3>2. BalanceRow(mine[r].warehouse, mine[r].item) \in DOMAIN mine
      BY <1>1, <2>4 DEF SumsOK
    <3>3. ~On(mine[r], b)
      BY <3>2, RowOfBalance
    <3>4. StockStep(r, db[r], mine[r])
      BY <2>1, <2>4, MineIs
    <3>5. k \notin Active(View(c), b)
      BY <2>2, <3>1, <3>3 DEF Active
    <3>6. db[r].status = "active" /\ On(db[r], b)
      BY <1>3, <3>5 DEF Active
    <3>7. PICK s \in Outcomes : mine[r] = [db[r] EXCEPT !.status = s]
      BY <2>1, <3>4, <3>6 DEF StockStep, Absent
    <3>8. mine[r].warehouse = db[r].warehouse /\ mine[r].item = db[r].item
      BY <3>7
    <3> QED
      BY <3>3, <3>6, <3>8 DEF On
  <2> QED
    BY <2>3, <2>4
<1>4. Adds(View(c), b, 0)
  BY <1>1, <1>2, <1>3, AddsAlike
<1>5. Pending(c, b) = 0
  BY <1>1 DEF SumsOK, Pending
<1> QED
  BY <1>4, <1>5

\* So everything that a client sees adds up.
LEMMA SeenAdds ==
  ASSUME WorkflowInv, SumInv, NEW c \in Clients, NEW b \in Balances
  PROVE  Adds(View(c), b, Pending(c, b))
<1>1. CASE Row(b) \in DOMAIN session[c].mine
  BY <1>1 DEF SumInv, SumsOK
<1>2. CASE Row(b) \notin DOMAIN session[c].mine
  BY <1>2, FromDb
<1> QED
  BY <1>1, <1>2

-----------------------------------------------------------------------------
(* Steps of one client. *)

LEMMA RowsSeen ==
  ASSUME NEW c, NEW r \in Rows
  PROVE  View(c)[r] = Sees(c, r) /\ View(c)'[r] = Sees(c, r)'
BY DEF View

\* The others see what they saw.
LEMMA OthersSums ==
  ASSUME SumInv, NEW c \in Clients, Alone(c), UNCHANGED db, SumsOK(c)'
  PROVE  SumInv'
<1>1. \A b \in Balances : Adds(db, b, 0)'
  BY DEF SumInv
<1>2. ASSUME NEW d \in Clients, d # c
      PROVE  SumsOK(d)'
  <2>1. session'[d] = session[d]
    BY <1>2 DEF Alone
  <2>2. \A r : Sees(d, r)' = Sees(d, r)
    BY <2>1 DEF Sees
  <2>3. View(d)' = View(d)
    BY <2>2 DEF View
  <2>4. Arg(d)' = Arg(d) /\ Balance(d)' = Balance(d)
    BY <2>1 DEF Arg, Balance
  <2>5. Recording(d)' <=> Recording(d)
    BY <2>1, <2>4 DEF Recording, At
  <2>6. \A b : Pending(d, b)' = Pending(d, b)
    BY <2>4, <2>5 DEF Pending
  <2>7. SumsOK(d)
    BY DEF SumInv
  <2> QED
    BY <2>1, <2>3, <2>4, <2>5, <2>6, <2>7 DEF SumsOK
<1> QED
  BY <1>1, <1>2 DEF SumInv

\* A call that begins, or is over, has written nothing.
LEMMA BackSums ==
  ASSUME SumInv, NEW c \in Clients, Alone(c), UNCHANGED db, DOMAIN session'[c].mine = {},
         session'[c].at # "record", NEW todo, todo = session'[c].todo,
         todo = <<>> \/ \E x : todo = <<x>>
  PROVE  SumInv'
<1>1. ~Recording(c)'
  BY DEF Recording
<1>2. \A i, j \in 1..Len(todo) : i = j
  <2>1. CASE todo = <<>>
    BY <2>1
  <2>2. CASE \E x : todo = <<x>>
    <3> PICK x : todo = <<x>>
      BY <2>2
    <3>1. Len(todo) = 1
      OBVIOUS
    <3> QED
      BY <3>1
  <2> QED
    BY <2>1, <2>2
<1>3. Fresh(session'[c].mine, todo)
  BY <1>2 DEF Fresh
<1>4. \A r : r \notin DOMAIN session'[c].mine
  OBVIOUS
<1>5. SumsOK(c)'
  BY <1>1, <1>3, <1>4 DEF SumsOK
<1> QED
  BY <1>5, OthersSums

LEMMA RefuseSums ==
  ASSUME WorkflowInv, SumInv, NEW c \in Clients, NEW outcome, Refuse(c, outcome)
  PROVE  SumInv'
<1>1. Alone(c) /\ session'[c] = Idle /\ UNCHANGED db
  BY Answers DEF WorkflowInv, Refuse
<1>2. DOMAIN session'[c].mine = {} /\ session'[c].at # "record" /\ session'[c].todo = <<>>
  BY <1>1, IdleFields
<1> QED
  BY <1>1, <1>2, BackSums

LEMMA BeginSums ==
  ASSUME WorkflowInv, SumInv, NEW c \in Clients, NEW q, NEW at, NEW row,
         Begin(c, q, at, row, <<q>>), at # "record"
  PROVE  SumInv'
<1>1. /\ Alone(c) /\ session'[c].at = at /\ session'[c].todo = <<q>>
      /\ DOMAIN session'[c].mine = {} /\ UNCHANGED db
  BY Begins DEF WorkflowInv
<1> QED
  BY <1>1, BackSums

LEMMA ConflictSums ==
  ASSUME WorkflowInv, SumInv, NEW c \in Clients, Conflict(c)
  PROVE  SumInv'
<1>1. CASE Refuse(c, "conflict")
  BY <1>1, RefuseSums
<1>2. CASE Again(c)
  <2> SUFFICES ASSUME NEW x, x = [op |-> Asked(c).op, again |-> TRUE]
               PROVE  SumInv'
    OBVIOUS
  <2> DEFINE n == [Idle EXCEPT !.call = Asked(c), !.at = "find",
                               !.row = ConfirmationRow(Asked(c).order), !.todo = <<x>>]
  <2>1. session' = [session EXCEPT ![c] = n] /\ UNCHANGED db
    BY <1>2 DEF Again
  <2>2. DOMAIN n.mine = {} /\ n.at = "find" /\ n.todo = <<x>>
    BY IdleFields DEF Idle
  <2> HIDE DEF n
  <2>3. session'[c] = n /\ Alone(c)
    BY <2>1 DEF WorkflowInv, SessionShape, Alone
  <2>4. DOMAIN session'[c].mine = {} /\ session'[c].at # "record" /\ session'[c].todo = <<x>>
    BY <2>2, <2>3
  <2> QED
    BY <2>1, <2>3, <2>4, BackSums
<1> QED
  BY <1>1, <1>2 DEF Conflict

\* What w writes: no reservation, and nothing of what is reserved.
Quiet(c, w) ==
  \A r \in DOMAIN w : /\ r[1] # "reservation"
                      /\ r[1] = "balance" => w[r].reserved = Sees(c, r).reserved

LEMMA ProceedSums ==
  ASSUME WorkflowInv, SumInv, NEW c \in Clients, NEW w, NEW at, NEW row, NEW todo,
         Proceed(c, w, at, row, todo), ~Recording(c), Quiet(c, w),
         at = "record" => todo = <<>> \/ Head(todo).op # "reserve",
         Fresh(session[c].mine, todo)
  PROVE  SumInv'
<1> DEFINE mine == session[c].mine
           then == session'[c].mine
<1>1. SessionShape
  BY DEF WorkflowInv
<1>2. /\ Alone(c) /\ session'[c].at = at /\ session'[c].todo = todo /\ UNCHANGED db
      /\ then = Over(w, mine)
  BY <1>1, Proceeds
<1>3. DOMAIN then = DOMAIN w \cup DOMAIN mine
      /\ \A r \in DOMAIN then : then[r] = IF r \in DOMAIN w THEN w[r] ELSE mine[r]
  BY <1>2 DEF Over
<1>4. /\ \A r \in DOMAIN w : Sees(c, r)' = w[r]
      /\ \A r : r \notin DOMAIN w => Sees(c, r)' = Sees(c, r)
  BY <1>1, SeesThen
<1>5. \A k : ReservationRow(k) \notin DOMAIN w
  BY StockKinds DEF Quiet
<1>6. ~Recording(c)'
  BY <1>2 DEF Recording, At, Arg
<1>7. \A b : Pending(c, b) = 0 /\ Pending(c, b)' = 0
  BY <1>6 DEF Pending
<1>8. SumsOK(c)
  BY DEF SumInv
<1> HIDE DEF mine, then
<1>9. \A k \in Keys : ReservationRow(k) \in DOMAIN then =>
        BalanceRow(then[ReservationRow(k)].warehouse, then[ReservationRow(k)].item) \in DOMAIN then
  <2> SUFFICES ASSUME NEW k \in Keys, NEW r, r = ReservationRow(k), r \in DOMAIN then
               PROVE  BalanceRow(then[r].warehouse, then[r].item) \in DOMAIN then
    OBVIOUS
  <2>1. r \in DOMAIN mine /\ then[r] = mine[r]
    BY <1>3, <1>5
  <2>2. BalanceRow(mine[r].warehouse, mine[r].item) \in DOMAIN mine
    BY <1>8, <2>1 DEF SumsOK, mine
  <2> QED
    BY <1>3, <2>1, <2>2
<1>10. Fresh(then, todo)
  <2>1. \A k : ReservationRow(k) \in DOMAIN then => ReservationRow(k) \in DOMAIN mine
    BY <1>3, <1>5
  <2> QED
    BY <2>1 DEF Fresh, mine
<1>11. ASSUME NEW b \in Balances
       PROVE  Adds(View(c)', b, 0)
  <2>1. Row(b) \in Rows /\ Row(b)[1] = "balance"
    BY RowOfBalance
  <2>2. Adds(View(c), b, 0)
    BY <1>7, SeenAdds
  <2>3. View(c)'[Row(b)].reserved = View(c)[Row(b)].reserved
    BY <1>4, <2>1, RowsSeen DEF Quiet
  <2>4. ASSUME NEW k \in Keys
        PROVE  View(c)[ReservationRow(k)] = View(c)'[ReservationRow(k)]
    <3>1. ReservationRow(k) \in Rows
      BY StockRowsAre DEF Rows
    <3> QED
      BY <1>4, <1>5, <3>1, RowsSeen
  <2> QED
    BY <2>2, <2>3, <2>4, AddsAlike
<1>12. SumsOK(c)'
  BY <1>2, <1>6, <1>7, <1>9, <1>10, <1>11 DEF SumsOK, then
<1> QED
  BY <1>2, <1>12, OthersSums

LEMMA GoesSums ==
  ASSUME WorkflowInv, SumInv, NEW c \in Clients, NEW w, NEW at, NEW row, Goes(c, w, at, row),
         ~Recording(c), Quiet(c, w), at = "record" => ~At(c, "reserve")
  PROVE  SumInv'
<1>1. Proceed(c, w, at, row, session[c].todo)
  BY DEF Goes
<1>2. Fresh(session[c].mine, session[c].todo)
  BY DEF SumInv, SumsOK
<1>3. at = "record" => session[c].todo = <<>> \/ Head(session[c].todo).op # "reserve"
  BY DEF At, Arg
<1> QED
  BY <1>1, <1>2, <1>3, ProceedSums

LEMMA ElsewhereFirst ==
  ASSUME NEW a, a.op = "reserve"
  PROVE  First(a)[1] # "record"
BY DEF First

LEMMA ContinuesProceeds ==
  ASSUME NEW c, NEW w, NEW inputs, Continues(c, w, inputs)
  PROVE  \E at, row : /\ Proceed(c, w, at, row, inputs)
                      /\ at = "record" => inputs = <<>> \/ Head(inputs).op # "reserve"
<1>1. CASE inputs = <<>>
  BY <1>1 DEF Continues
<1>2. CASE inputs # <<>>
  BY <1>2, ElsewhereFirst DEF Continues
<1> QED
  BY <1>1, <1>2

LEMMA ContinuesSums ==
  ASSUME WorkflowInv, SumInv, NEW c \in Clients, NEW w, NEW inputs, Continues(c, w, inputs),
         ~Recording(c), Quiet(c, w), Fresh(session[c].mine, inputs)
  PROVE  SumInv'
<1>1. PICK at, row : /\ Proceed(c, w, at, row, inputs)
                     /\ at = "record" => inputs = <<>> \/ Head(inputs).op # "reserve"
  BY ContinuesProceeds
<1> QED
  BY <1>1, ProceedSums

LEMMA FreshTail ==
  ASSUME NEW S, NEW todo \in Seq(S), todo # <<>>, NEW mine, Fresh(mine, todo)
  PROVE  /\ Fresh(mine, Tail(todo))
         /\ Head(todo).op = "reserve" =>
              /\ ReservationRow(Head(todo).key) \notin DOMAIN mine
              /\ \A i \in 1..Len(Tail(todo)) :
                   Tail(todo)[i].op = "reserve" => Tail(todo)[i].key # Head(todo).key
<1>1. /\ Len(todo) \in Nat \ {0} /\ Len(Tail(todo)) = Len(todo) - 1 /\ Head(todo) = todo[1]
      /\ \A i \in 1..Len(Tail(todo)) : Tail(todo)[i] = todo[i + 1]
  BY TailIs
<1>2. \A i \in 1..Len(Tail(todo)) : i + 1 \in 1..Len(todo) /\ i + 1 # 1
  BY <1>1
<1>3. 1 \in 1..Len(todo)
  BY <1>1
<1>4. ASSUME NEW i \in 1..Len(Tail(todo)), Tail(todo)[i].op = "reserve"
      PROVE  /\ ReservationRow(Tail(todo)[i].key) \notin DOMAIN mine
             /\ \A j \in 1..Len(Tail(todo)) :
                  Tail(todo)[j].op = "reserve" /\ Tail(todo)[j].key = Tail(todo)[i].key => j = i
             /\ Head(todo).op = "reserve" => Tail(todo)[i].key # Head(todo).key
  <2>1. i + 1 \in 1..Len(todo) /\ todo[i + 1].op = "reserve"
    BY <1>1, <1>2, <1>4
  <2>2. /\ ReservationRow(todo[i + 1].key) \notin DOMAIN mine
        /\ \A j \in 1..Len(todo) :
             todo[j].op = "reserve" /\ todo[j].key = todo[i + 1].key => j = i + 1
    BY <2>1 DEF Fresh
  <2>3. \A j \in 1..Len(Tail(todo)) :
          Tail(todo)[j].op = "reserve" /\ Tail(todo)[j].key = Tail(todo)[i].key => j + 1 = i + 1
    BY <1>1, <1>2, <2>2
  <2>4. \A j \in 1..Len(Tail(todo)) : j + 1 = i + 1 => j = i
    BY <1>1
  <2> QED
    BY <1>1, <1>2, <1>3, <2>2, <2>3, <2>4
<1> QED
  BY <1>1, <1>3, <1>4 DEF Fresh

LEMMA TodoIs ==
  ASSUME WorkflowInv, NEW c \in Clients, session[c] # Idle
  PROVE  session[c].todo \in Seq(Jobs)
BY DEF WorkflowInv, StageOK

LEMMA ReturnsSums ==
  ASSUME WorkflowInv, SumInv, NEW c \in Clients, session[c] # Idle, session[c].todo # <<>>,
         NEW w, Returns(c, w), ~Recording(c), Quiet(c, w)
  PROVE  SumInv'
<1>1. Fresh(session[c].mine, session[c].todo)
  BY DEF SumInv, SumsOK
<1>2. Fresh(session[c].mine, Tail(session[c].todo))
  BY <1>1, TodoIs, FreshTail
<1>3. Continues(c, w, Tail(session[c].todo))
  BY DEF Returns
<1> QED
  BY <1>2, <1>3, ContinuesSums

-----------------------------------------------------------------------------
(* The statements that change what is reserved. *)

LEMMA AmountsSeen ==
  ASSUME WorkflowInv, NEW c \in Clients, NEW b \in Balances
  PROVE  \A k \in Active(View(c), b) : View(c)[ReservationRow(k)].quantity \in Int
<1> SUFFICES ASSUME NEW k \in Active(View(c), b), NEW r, r = ReservationRow(k)
             PROVE  View(c)[r].quantity \in Int
  OBVIOUS
<1>1. k \in Keys /\ View(c)[r].status = "active"
  BY DEF Active
<1>2. r \in StockRows /\ r \in Rows /\ r[1] = "reservation"
  BY <1>1, StockRowsAre, StockKinds DEF Rows
<1>3. Sees(c, r) \in ReservationType /\ View(c)[r] = Sees(c, r)
  BY <1>2, SeesStock, RowsSeen
<1> QED
  BY <1>1, <1>3 DEF ReservationType, Absent, Quantities

\* A balance that has more reserved, which is not recorded yet.
LEMMA AddsPending ==
  ASSUME NEW u, NEW v, NEW b, NEW n \in Int, Adds(u, b, 0),
         \A k \in Active(u, b) : u[ReservationRow(k)].quantity \in Int,
         v[Row(b)].reserved = u[Row(b)].reserved + n,
         \A k \in Keys : u[ReservationRow(k)] = v[ReservationRow(k)]
  PROVE  Adds(v, b, n)
<1>1. Active(u, b) = Active(v, b)
  BY DEF Active
<1>2. Amounts(u, b) = Amounts(v, b)
  BY <1>1 DEF Amounts, Active
<1>3. \A k \in Active(u, b) : Amounts(u, b)[k] \in Int
  BY DEF Amounts
<1>4. IsFiniteSet(Active(u, b)) /\ u[Row(b)].reserved = SumFunctionOnSet(Amounts(u, b), Active(u, b)) + 0
  BY DEF Adds
<1>5. SumFunctionOnSet(Amounts(u, b), Active(u, b)) \in Int
  BY <1>3, <1>4, SumInt
<1>6. v[Row(b)].reserved = SumFunctionOnSet(Amounts(u, b), Active(u, b)) + n
  BY <1>4, <1>5
<1> QED
  BY <1>1, <1>2, <1>4, <1>6 DEF Adds

LEMMA ReserveSums ==
  ASSUME WorkflowInv, SumInv, NEW c \in Clients, Reserve(c)
  PROVE  SumInv'
<1> SUFFICES ASSUME NEW a, a = Arg(c), NEW s, s = Balance(c), NEW b, b = Sees(c, s),
                    NEW new, new = [b EXCEPT !.reserved = b.reserved + a.quantity],
                    NEW mine, mine = session[c].mine, NEW then, then = session'[c].mine
             PROVE  SumInv'
  OBVIOUS
<1>1. Ready(c, "update") /\ session[c].todo # <<>> /\ a.op = "reserve"
  BY DEF Reserve, At
<1>2. a.op \in InventoryOps
  BY <1>1 DEF InventoryOps
<1>3. session[c].at = "update" /\ SessionShape /\ JobIs(a)
  BY <1>1, <1>2, Before
<1>4. s \in StockRows /\ s[1] = "balance" /\ a.quantity \in Quantities /\ a.quantity \in Int
  BY <1>1, <1>3, IsBalance DEF JobIs, Quantities
<1>5. new = [b EXCEPT !.reserved = @ + a.quantity]
  OBVIOUS
<1>6. CASE ~Available(b, a.quantity)
  <2>1. Refuse(c, "unavailable")
    BY <1>6 DEF Reserve
  <2> QED
    BY <2>1, RefuseSums
<1>7. CASE Available(b, a.quantity)
  <2> SUFFICES ASSUME NEW w, w = RowIs(s, new)
               PROVE  SumInv'
    OBVIOUS
  <2>1. DOMAIN w = {s} /\ w[s] = new
    BY RowIsRow
  <2>2. Proceed(c, w, "record", ReservationRow(a.key), session[c].todo)
    BY <1>5, <1>7 DEF Reserve, Goes
  <2>3. /\ Alone(c) /\ session'[c].at = "record" /\ session'[c].todo = session[c].todo
        /\ UNCHANGED db /\ then = Over(w, mine)
    BY <1>3, <2>2, Proceeds
  <2>4. DOMAIN then = DOMAIN w \cup DOMAIN mine
        /\ \A r \in DOMAIN then : then[r] = IF r \in DOMAIN w THEN w[r] ELSE mine[r]
    BY <2>3 DEF Over
  <2>5. Sees(c, s)' = new /\ \A r : r # s => Sees(c, r)' = Sees(c, r)
    BY <1>3, <2>1, <2>2, SeesThen
  <2>6. \A k : ReservationRow(k) # s
    BY <1>4, StockKinds
  <2>7. Arg(c)' = a /\ Balance(c)' = s
    BY <2>3 DEF Arg, Balance
  <2>8. ~Recording(c) /\ \A x : Pending(c, x) = 0
    BY <1>3 DEF Recording, Pending
  <2>9. \A x : Pending(c, x)' = IF Row(x) = s THEN a.quantity ELSE 0
    <3>1. Recording(c)'
      BY <1>1, <2>3, <2>7 DEF Recording, At
    <3> QED
      BY <2>7, <3>1 DEF Pending
  <2>10. SumsOK(c)
    BY DEF SumInv
  <2>11. \A k \in Keys : ReservationRow(k) \in DOMAIN then =>
           BalanceRow(then[ReservationRow(k)].warehouse, then[ReservationRow(k)].item) \in DOMAIN then
    <3> SUFFICES ASSUME NEW k \in Keys, NEW r, r = ReservationRow(k), r \in DOMAIN then
                 PROVE  BalanceRow(then[r].warehouse, then[r].item) \in DOMAIN then
      OBVIOUS
    <3>1. r \in DOMAIN mine /\ then[r] = mine[r]
      BY <2>1, <2>4, <2>6
    <3>2. BalanceRow(mine[r].warehouse, mine[r].item) \in DOMAIN mine
      BY <2>10, <3>1 DEF SumsOK
    <3> QED
      BY <2>4, <3>1, <3>2
  <2>12. Fresh(then, session[c].todo)
    <3>1. \A k : ReservationRow(k) \in DOMAIN then => ReservationRow(k) \in DOMAIN mine
      BY <2>1, <2>4, <2>6
    <3>2. Fresh(mine, session[c].todo)
      BY <2>10 DEF SumsOK
    <3> QED
      BY <3>1, <3>2 DEF Fresh
  <2>13. ASSUME NEW x \in Balances
         PROVE  Adds(View(c)', x, Pending(c, x)')
    <3>1. Row(x) \in Rows
      BY RowOfBalance
    <3>2. Adds(View(c), x, 0)
      BY <2>8, SeenAdds
    <3>3. ASSUME NEW k \in Keys
          PROVE  View(c)[ReservationRow(k)] = View(c)'[ReservationRow(k)]
      <4>1. ReservationRow(k) \in Rows
        BY StockRowsAre DEF Rows
      <4> QED
        BY <2>5, <2>6, <4>1, RowsSeen
    <3>4. CASE Row(x) = s
      <4>1. View(c)[s] = b /\ View(c)'[s] = new
        BY <2>5, <3>1, <3>4, RowsSeen
      <4>2. InStock(b)
        BY <1>4, SeesStock
      <4>3. new.reserved = b.reserved + a.quantity
        BY <4>2, InStockIs
      <4>4. View(c)'[Row(x)].reserved = View(c)[Row(x)].reserved + a.quantity
        BY <3>4, <4>1, <4>3
      <4>5. Adds(View(c)', x, a.quantity)
        BY <1>4, <3>2, <3>3, <4>4, AmountsSeen, AddsPending
      <4> QED
        BY <2>9, <3>4, <4>5
    <3>5. CASE Row(x) # s
      <4>1. View(c)'[Row(x)] = View(c)[Row(x)]
        BY <2>5, <3>1, <3>5, RowsSeen
      <4>2. Adds(View(c)', x, 0)
        BY <3>2, <3>3, <4>1, AddsAlike
      <4> QED
        BY <2>9, <3>5, <4>2
    <3> QED
      BY <3>4, <3>5
  <2>14. SumsOK(c)'
    BY <2>1, <2>3, <2>4, <2>7, <2>11, <2>12, <2>13 DEF SumsOK
  <2> QED
    BY <2>3, <2>14, OthersSums
<1> QED
  BY <1>6, <1>7

LEMMA DuplicateSums ==
  ASSUME WorkflowInv, SumInv, NEW c \in Clients, NEW r, Duplicate(c, r)
  PROVE  SumInv'
BY RefuseSums DEF Duplicate

\* The next job of a client that returns from one.
LEMMA ReturnsTo ==
  ASSUME WorkflowInv, NEW c \in Clients, session[c] # Idle, session[c].todo # <<>>,
         NEW w, Returns(c, w)
  PROVE  /\ \E at, row : Proceed(c, w, at, row, Tail(session[c].todo))
         /\ Alone(c) /\ session'[c].todo = Tail(session[c].todo) /\ UNCHANGED db
         /\ session'[c].mine = Over(w, session[c].mine)
         /\ ~Recording(c)'
<1>1. SessionShape
  BY DEF WorkflowInv
<1>2. Continues(c, w, Tail(session[c].todo))
  BY DEF Returns
<1>3. PICK at, row : /\ Proceed(c, w, at, row, Tail(session[c].todo))
                     /\ at = "record" => \/ Tail(session[c].todo) = <<>>
                                         \/ Head(Tail(session[c].todo)).op # "reserve"
  BY <1>2, ContinuesProceeds
<1>4. /\ Alone(c) /\ session'[c].at = at /\ session'[c].todo = Tail(session[c].todo)
      /\ UNCHANGED db /\ session'[c].mine = Over(w, session[c].mine)
  BY <1>1, <1>3, Proceeds
<1>5. ~Recording(c)'
  BY <1>3, <1>4 DEF Recording, At, Arg
<1> QED
  BY <1>3, <1>4, <1>5

LEMMA RecordReservationSums ==
  ASSUME WorkflowInv, SumInv, NEW c \in Clients, RecordReservation(c)
  PROVE  SumInv'
<1> SUFFICES ASSUME NEW a, a = Arg(c), NEW k, k = a.key, NEW r, r = ReservationRow(k),
                    NEW new, new = Fact(a, "active"), NEW w, w = RowIs(r, new),
                    NEW mine, mine = session[c].mine, NEW then, then = session'[c].mine,
                    NEW todo, todo = session[c].todo, NEW n, n = a.quantity
             PROVE  SumInv'
  OBVIOUS
<1>1. Ready(c, "record") /\ todo # <<>> /\ a.op = "reserve"
  BY DEF RecordReservation, At
<1>2. a.op \in InventoryOps
  BY <1>1 DEF InventoryOps
<1>3. session[c].at = "record" /\ session[c] # Idle /\ SessionShape /\ JobAt(c, a) /\ JobIs(a)
  BY <1>1, <1>2, Before
<1>4. session[c].row = r /\ r[1] = "reservation"
  BY <1>1, <1>3, StockKinds DEF JobAt
<1>5. r \in StockRows /\ r \in Rows /\ k \in Keys /\ n \in Int
  BY <1>1, <1>3, StockRowsAre DEF JobIs, Rows, Quantities
<1>6. CASE Present(r)
  BY <1>4, <1>6, DuplicateSums DEF RecordReservation
<1>7. CASE ~Present(r)
  <2>1. Returns(c, w)
    BY <1>4, <1>7 DEF RecordReservation
  <2>2. DOMAIN w = {r} /\ w[r] = new
    BY RowIsRow
  <2>3. /\ Alone(c) /\ session'[c].todo = Tail(todo) /\ UNCHANGED db
        /\ then = Over(w, mine) /\ ~Recording(c)'
    BY <1>1, <1>3, <2>1, ReturnsTo
  <2>4. DOMAIN then = DOMAIN w \cup DOMAIN mine
        /\ \A x \in DOMAIN then : then[x] = IF x \in DOMAIN w THEN w[x] ELSE mine[x]
    BY <2>3 DEF Over
  <2>5. Sees(c, r)' = new /\ \A x : x # r => Sees(c, x)' = Sees(c, x)
    BY <1>3, <2>1, <2>2, ReturnsSee
  <2>6. /\ new.status = "active" /\ new.warehouse = a.warehouse /\ new.item = a.item
        /\ new.quantity = n
    BY DEF Fact
  <2>7. SumsOK(c) /\ Recording(c)
    BY <1>1, <1>3 DEF SumInv, Recording, At
  <2>8. Balance(c) \in DOMAIN mine /\ Balance(c) = BalanceRow(a.warehouse, a.item)
    BY <2>7 DEF SumsOK, Balance
  <2>9. Fresh(mine, todo) /\ todo \in Seq(Jobs) /\ Head(todo) = a
    BY <1>3, <2>7, TodoIs DEF SumsOK, Arg
  <2>10. /\ Fresh(mine, Tail(todo)) /\ r \notin DOMAIN mine
         /\ \A i \in 1..Len(Tail(todo)) : Tail(todo)[i].op = "reserve" => Tail(todo)[i].key # k
    BY <1>1, <2>9, FreshTail
  <2>11. \A j : ReservationRow(j) = r => j = k
    BY SameRow
  <2>12. Fresh(then, Tail(todo))
    BY <2>2, <2>4, <2>10, <2>11 DEF Fresh
  <2>13. \A j \in Keys : ReservationRow(j) \in DOMAIN then =>
           BalanceRow(then[ReservationRow(j)].warehouse, then[ReservationRow(j)].item) \in DOMAIN then
    <3> SUFFICES ASSUME NEW j \in Keys, NEW x, x = ReservationRow(j), x \in DOMAIN then
                 PROVE  BalanceRow(then[x].warehouse, then[x].item) \in DOMAIN then
      OBVIOUS
    <3>1. CASE x = r
      BY <2>2, <2>4, <2>6, <2>8, <3>1
    <3>2. CASE x # r
      <4>1. x \in DOMAIN mine /\ then[x] = mine[x]
        BY <2>2, <2>4, <3>2
      <4>2. BalanceRow(mine[x].warehouse, mine[x].item) \in DOMAIN mine
        BY <2>7, <4>1 DEF SumsOK
      <4> QED
        BY <2>4, <4>1, <4>2
    <3> QED
      BY <3>1, <3>2
  <2>14. Sees(c, r).status = Absent
    BY <1>7, <2>10 DEF Sees, Present
  <2>15. ASSUME NEW b \in Balances
         PROVE  Adds(View(c)', b, 0)
    <3>1. Row(b) \in Rows /\ Row(b)[1] = "balance"
      BY RowOfBalance
    <3>2. Adds(View(c), b, Pending(c, b))
      BY SeenAdds
    <3>3. \A j \in Keys : j # k => View(c)[ReservationRow(j)] = View(c)'[ReservationRow(j)]
      <4> SUFFICES ASSUME NEW j \in Keys, j # k
                   PROVE  View(c)[ReservationRow(j)] = View(c)'[ReservationRow(j)]
        OBVIOUS
      <4>1. ReservationRow(j) \in Rows /\ ReservationRow(j) # r
        BY <2>11, StockRowsAre DEF Rows
      <4> QED
        BY <2>5, <4>1, RowsSeen
    <3>4. View(c)'[Row(b)].reserved = View(c)[Row(b)].reserved
      BY <1>4, <2>5, <3>1, RowsSeen
    <3>5. View(c)[r].status = Absent /\ View(c)'[r] = new
      BY <1>5, <2>5, <2>14, RowsSeen
    <3>6. k \notin Active(View(c), b)
      BY <3>5 DEF Active, Absent
    <3>7. k \in Active(View(c)', b) <=> On(new, b)
      BY <1>5, <2>6, <3>5 DEF Active
    <3>8. On(new, b) <=> Balance(c) = Row(b)
      BY <2>6, <2>8, RowOfBalance
    <3>9. CASE Balance(c) = Row(b)
      <4>1. Pending(c, b) = n
        BY <2>7, <3>9 DEF Pending
      <4>2. Adds(View(c), b, n) /\ n = View(c)'[ReservationRow(k)].quantity
        BY <2>6, <3>2, <3>5, <4>1
      <4>3. k \in Active(View(c)', b)
        BY <3>7, <3>8, <3>9
      <4>4. \A j \in Active(View(c), b) : View(c)[ReservationRow(j)].quantity \in Int
        BY AmountsSeen
      <4> QED
        BY <1>5, <3>3, <3>4, <3>6, <4>2, <4>3, <4>4, AddsMore
    <3>10. CASE Balance(c) # Row(b)
      <4>1. Adds(View(c), b, 0)
        BY <3>2, <3>10 DEF Pending
      <4>2. k \notin Active(View(c)', b)
        BY <3>7, <3>8, <3>10
      <4>3. \A j \in Keys : j \in Active(View(c), b) \cup Active(View(c)', b) =>
              View(c)[ReservationRow(j)] = View(c)'[ReservationRow(j)]
        BY <3>3, <3>6, <4>2
      <4> QED
        BY <3>4, <4>1, <4>3, AddsAlike
    <3> QED
      BY <3>9, <3>10
  <2>16. \A b : Pending(c, b)' = 0
    BY <2>3 DEF Pending
  <2>17. SumsOK(c)'
    BY <2>3, <2>12, <2>13, <2>15, <2>16 DEF SumsOK
  <2> QED
    BY <2>3, <2>17, OthersSums
<1> QED
  BY <1>6, <1>7

\* Ending the lines of an order reserves nothing.
LEMMA EndPlanOps ==
  ASSUME NEW q \in Calls, q.op \in {"cancelOrder", "fulfillOrder"}, NEW k \in WorkflowKeys
  PROVE  \A i \in 1..Len(EndPlan(q, k)) : EndPlan(q, k)[i].op # "reserve"
<1>1. q.order \in Orders
  BY OrderAssumption DEF Calls, OrderCall, Workflows
<1>2. Revenues.op # "reserve" /\ Reversals.op # "reserve" /\ Succeeds.op # "reserve"
  BY DEF Revenues, Reversals, Succeeds
<1>3. \A m \in Nat : \A i \in 1..(m + 2) : i \in 1..m \/ i = m + 1 \/ i = m + 2
  OBVIOUS
<1>4. \A m \in Nat : \A i \in 1..(m + 1) : i \in 1..m \/ i = m + 1
  OBVIOUS
<1> SUFFICES ASSUME NEW m, m = Len(OrderLines[q.order]), NEW p, p = EndPlan(q, k),
                    NEW i \in 1..Len(p)
             PROVE  p[i].op # "reserve"
  OBVIOUS
<1>5. CASE q.op = "cancelOrder"
  <2>1. p = CancelPlan(q, k)
    BY <1>5 DEF EndPlan
  <2>2. /\ m \in Nat /\ Len(p) = m + 2
        /\ \A j \in 1..m : p[j] = [op |-> "release", key |-> <<k, j>>]
        /\ p[m + 1] = Reversals /\ p[m + 2] = Succeeds
    BY <1>1, <2>1, CancelPlanIs
  <2>3. i \in 1..m \/ i = m + 1 \/ i = m + 2
    BY <1>3, <2>2
  <2>4. i \in 1..m => p[i].op = "release"
    BY <2>2, EndFields
  <2> QED
    BY <1>2, <2>2, <2>3, <2>4
<1>6. CASE q.op = "fulfillOrder"
  <2>1. p = FulfilPlan(q, k)
    BY <1>6 DEF EndPlan
  <2>2. /\ m \in Nat /\ Len(p) = m + 1
        /\ \A j \in 1..m : p[j] = [op |-> "fulfill", key |-> <<k, j>>]
        /\ p[m + 1] = Succeeds
    BY <1>1, <2>1, FulfilPlanIs
  <2>3. i \in 1..m \/ i = m + 1
    BY <1>4, <2>2
  <2>4. i \in 1..m => p[i].op = "fulfill"
    BY <2>2, EndFields
  <2> QED
    BY <1>2, <2>2, <2>3, <2>4
<1> QED
  BY <1>5, <1>6

LEMMA RestOps ==
  ASSUME NEW plan, Len(plan) \in Nat, NEW todo, Rest(todo, plan),
         \A i \in 1..Len(plan) : plan[i].op # "reserve"
  PROVE  \A i \in 1..Len(todo) : todo[i].op # "reserve"
<1>1. todo \in Seq(Jobs) /\ Len(todo) <= Len(plan)
  BY DEF Rest
<1>2. Len(todo) \in Nat
  BY <1>1
<1>3. ASSUME NEW i \in 1..Len(todo)
      PROVE  todo[i].op # "reserve"
  <2>1. Len(plan) - Len(todo) + i \in 1..Len(plan)
    BY <1>1, <1>2
  <2>2. todo[i] = plan[Len(plan) - Len(todo) + i]
    BY DEF Rest
  <2> QED
    BY <2>1, <2>2
<1> QED
  BY <1>3

LEMMA EndingReserves ==
  ASSUME WorkflowInv, NEW c \in Clients, session[c] # Idle, session[c].todo # <<>>,
         NEW a, a = Arg(c), a.op \in {"release", "fulfill"}
  PROVE  \A i \in 1..Len(Tail(session[c].todo)) : Tail(session[c].todo)[i].op # "reserve"
<1> SUFFICES ASSUME NEW q, q = session[c].call, NEW todo, todo = Tail(session[c].todo)
             PROVE  \A i \in 1..Len(todo) : todo[i].op # "reserve"
  OBVIOUS
<1>1. Arg(c).op \in PartOps \cup InventoryOps
  BY DEF PartOps
<1>2. q.op \in {"release", "fulfill", "cancelOrder", "fulfillOrder"}
  BY <1>1, JobOf
<1>3. /\ q \in Calls
      /\ q.op \in {"cancelOrder", "fulfillOrder"} => \E k \in WorkflowKeys : EndsLines(c, k)
      /\ q.op \in InventoryOps => InventoryAt(c)
  BY <1>1, JobStage
<1>4. CASE q.op \in {"release", "fulfill"}
  <2>1. session[c].todo = <<q>>
    BY <1>3, <1>4 DEF InventoryAt, InventoryOps
  <2>2. todo = <<>>
    BY <2>1
  <2>3. 1..Len(todo) = {}
    BY <2>2
  <2> QED
    BY <2>3
<1>5. CASE q.op \in {"cancelOrder", "fulfillOrder"}
  <2>1. PICK k \in WorkflowKeys : EndsLines(c, k)
    BY <1>3, <1>5
  <2>2. Rest(session[c].todo, EndPlan(q, k))
    BY <2>1 DEF EndsLines
  <2>3. EndPlan(q, k) \in Seq(Parts) /\ EndPlan(q, k) \in Seq(Jobs) /\ Len(EndPlan(q, k)) \in Nat
    BY <1>3, <1>5, EndPlanIs, PartsAreJobs
  <2>4. Rest(todo, EndPlan(q, k))
    BY <2>2, <2>3, RestTail
  <2>5. \A i \in 1..Len(EndPlan(q, k)) : EndPlan(q, k)[i].op # "reserve"
    BY <1>3, <1>5, EndPlanOps
  <2> QED
    BY <2>3, <2>4, <2>5, RestOps
<1> QED
  BY <1>2, <1>4, <1>5

LEMMA NoneFresh ==
  ASSUME NEW inputs, \A i \in 1..Len(inputs) : inputs[i].op # "reserve"
  PROVE  \A mine : Fresh(mine, inputs)
BY DEF Fresh

\* A reservation is ended, and its balance has so much less reserved.
LEMMA EndSums ==
  ASSUME WorkflowInv, SumInv, NEW c \in Clients, NEW a, a = Arg(c), Ready(c, "balance"),
         session[c].todo # <<>>, a.op \in {"release", "fulfill"},
         NEW r, r = ReservationRow(a.key), NEW s, s = session[c].row,
         NEW old, old = db[r], NEW o \in Outcomes, NEW ended, ended = [old EXCEPT !.status = o],
         NEW new, new.reserved = Sees(c, s).reserved - old.quantity,
         NEW w, DOMAIN w = {s, r}, w[s] = new, w[r] = ended, Returns(c, w)
  PROVE  SumInv'
<1> SUFFICES ASSUME NEW k, k = a.key, NEW todo, todo = session[c].todo, NEW n, n = old.quantity,
                    NEW mine, mine = session[c].mine, NEW then, then = session'[c].mine
             PROVE  SumInv'
  OBVIOUS
<1>1. a.op \in PartOps /\ a.op \in InventoryOps
  BY DEF PartOps, InventoryOps
<1>2. session[c].at = "balance" /\ session[c] # Idle /\ SessionShape /\ JobAt(c, a) /\ JobIs(a)
  BY <1>1, Before
<1>3. k \in Keys /\ Ending(c, k)
  BY <1>2 DEF JobAt, JobIs
<1>4. r \notin DOMAIN mine /\ s = BalanceRow(old.warehouse, old.item)
  BY <1>3 DEF Ending
<1>5. /\ r \in StockRows /\ r[1] = "reservation" /\ old.status = "active"
      /\ old \in ReservationType /\ n \in Quantities /\ s[1] = "balance"
  BY EndingIs
<1>6. /\ ended.status = o /\ ended.warehouse = old.warehouse /\ ended.item = old.item
      /\ n \in Int /\ r \in Rows /\ o # "active"
  BY <1>5 DEF ReservationType, Absent, Quantities, Rows, Outcomes
<1>7. /\ Alone(c) /\ session'[c].todo = Tail(todo) /\ UNCHANGED db
      /\ then = Over(w, mine) /\ ~Recording(c)'
  BY <1>2, ReturnsTo
<1>8. DOMAIN then = DOMAIN w \cup DOMAIN mine
      /\ \A x \in DOMAIN then : then[x] = IF x \in DOMAIN w THEN w[x] ELSE mine[x]
  BY <1>7 DEF Over
<1>9. /\ Sees(c, r)' = ended /\ Sees(c, s)' = new
      /\ \A x : x \notin {r, s} => Sees(c, x)' = Sees(c, x)
  BY <1>2, ReturnsSee
<1>10. SumsOK(c) /\ ~Recording(c)
  BY <1>2 DEF SumInv, Recording
<1>11. \A j : (ReservationRow(j) = r => j = k) /\ ReservationRow(j) # s
  BY <1>5, SameRow, StockKinds
<1>12. Fresh(then, Tail(todo))
  <2>1. \A i \in 1..Len(Tail(todo)) : Tail(todo)[i].op # "reserve"
    BY <1>2, EndingReserves
  <2> QED
    BY <2>1, NoneFresh
<1>13. \A j \in Keys : ReservationRow(j) \in DOMAIN then =>
         BalanceRow(then[ReservationRow(j)].warehouse, then[ReservationRow(j)].item) \in DOMAIN then
  <2> SUFFICES ASSUME NEW j \in Keys, NEW x, x = ReservationRow(j), x \in DOMAIN then
               PROVE  BalanceRow(then[x].warehouse, then[x].item) \in DOMAIN then
    OBVIOUS
  <2>1. CASE x = r
    <3>1. then[x] = ended /\ s \in DOMAIN then
      BY <1>5, <1>8, <2>1
    <3> QED
      BY <1>4, <1>6, <3>1
  <2>2. CASE x # r
    <3>1. x \in DOMAIN mine /\ then[x] = mine[x]
      BY <1>8, <1>11, <2>2
    <3>2. BalanceRow(mine[x].warehouse, mine[x].item) \in DOMAIN mine
      BY <1>10, <3>1 DEF SumsOK
    <3> QED
      BY <1>8, <3>1, <3>2
  <2> QED
    BY <2>1, <2>2
<1>14. ASSUME NEW b \in Balances
       PROVE  Adds(View(c)', b, 0)
  <2>1. Row(b) \in Rows /\ Row(b)[1] = "balance"
    BY RowOfBalance
  <2>2. Adds(View(c), b, 0)
    <3>1. Adds(View(c), b, Pending(c, b))
      BY SeenAdds
    <3> QED
      BY <1>10, <3>1 DEF Pending
  <2>3. \A j \in Keys : j # k => View(c)[ReservationRow(j)] = View(c)'[ReservationRow(j)]
    <3> SUFFICES ASSUME NEW j \in Keys, j # k
                 PROVE  View(c)[ReservationRow(j)] = View(c)'[ReservationRow(j)]
      OBVIOUS
    <3>1. ReservationRow(j) \in Rows /\ ReservationRow(j) \notin {r, s}
      BY <1>11, StockRowsAre DEF Rows
    <3> QED
      BY <1>9, <3>1, RowsSeen
  <2>4. View(c)[r] = old /\ View(c)'[r] = ended
    <3>1. Sees(c, r) = old
      BY <1>4 DEF Sees
    <3> QED
      BY <1>6, <1>9, <3>1, RowsSeen
  <2>5. k \notin Active(View(c)', b)
    BY <1>6, <2>4 DEF Active
  <2>6. On(old, b) <=> Row(b) = s
    BY <1>4, RowOfBalance
  <2>7. CASE Row(b) = s
    <3>1. k \in Active(View(c), b)
      BY <1>3, <1>5, <2>4, <2>6, <2>7 DEF Active
    <3>2. View(c)'[Row(b)].reserved = View(c)[Row(b)].reserved - n
      BY <1>9, <2>1, <2>7, RowsSeen
    <3>3. \A j \in Active(View(c), b) : View(c)[ReservationRow(j)].quantity \in Int
      BY AmountsSeen
    <3>4. n = View(c)[ReservationRow(k)].quantity
      BY <2>4
    <3> QED
      BY <1>3, <1>6, <2>2, <2>3, <2>5, <3>1, <3>2, <3>3, <3>4, AddsLess
  <2>8. CASE Row(b) # s
    <3>1. k \notin Active(View(c), b)
      BY <2>4, <2>6, <2>8 DEF Active
    <3>2. View(c)'[Row(b)].reserved = View(c)[Row(b)].reserved
      BY <1>5, <1>9, <2>1, <2>8, RowsSeen
    <3>3. \A j \in Keys : j \in Active(View(c), b) \cup Active(View(c)', b) =>
            View(c)[ReservationRow(j)] = View(c)'[ReservationRow(j)]
      BY <2>3, <2>5, <3>1
    <3> QED
      BY <2>2, <3>2, <3>3, AddsAlike
  <2> QED
    BY <2>7, <2>8
<1>15. \A b : Pending(c, b)' = 0
  BY <1>7 DEF Pending
<1>16. SumsOK(c)'
  BY <1>7, <1>12, <1>13, <1>14, <1>15 DEF SumsOK
<1> QED
  BY <1>7, <1>16, OthersSums

LEMMA ReleaseSums ==
  ASSUME WorkflowInv, SumInv, NEW c \in Clients, Release(c)
  PROVE  SumInv'
<1> SUFFICES ASSUME NEW a, a = Arg(c), NEW r, r = ReservationRow(a.key),
                    NEW s, s = session[c].row, NEW b, b = Sees(c, s),
                    NEW v, v = Reservation(c), NEW n, n = v.quantity,
                    NEW o, o = Ends[a.op]
             PROVE  SumInv'
  OBVIOUS
<1>1. Ready(c, "balance") /\ session[c].todo # <<>> /\ a.op = "release"
  BY DEF Release, At
<1>2. r[1] = "reservation" /\ v = db[r] /\ InStock(b) /\ s # r
  BY <1>1, EndingIs
<1>3. CASE b.reserved >= n
  <2> DEFINE new == [b EXCEPT !.reserved = b.reserved - n]
             ended == [v EXCEPT !.status = o]
             w == Over(RowIs(s, new), RowIs(r, ended))
  <2>1. Returns(c, w)
    BY <1>1, <1>3 DEF Release
  <2>2. new.reserved = b.reserved - n
    BY <1>2, InStockIs
  <2>3. o \in Outcomes
    BY <1>1 DEF Ends, Outcomes
  <2>4. ended = [db[r] EXCEPT !.status = o]
    BY <1>2
  <2> HIDE DEF new, ended
  <2>5. DOMAIN w = {s, r} /\ w[s] = new /\ w[r] = ended
    <3>1. DOMAIN w = {s} \cup {r}
      BY DEF Over, RowIs
    <3>2. w[s] = new
      BY DEF Over, RowIs
    <3>3. w[r] = ended
      BY <1>2 DEF Over, RowIs
    <3> QED
      BY <3>1, <3>2, <3>3
  <2> HIDE DEF w
  <2>6. new.reserved = Sees(c, s).reserved - db[r].quantity
    BY <1>2, <2>2
  <2>7. a.op \in {"release", "fulfill"}
    BY <1>1
  <2> QED
    BY <1>1, <2>1, <2>3, <2>4, <2>5, <2>6, <2>7, EndSums
<1>4. CASE ~(b.reserved >= n)
  <2>1. Refuse(c, "unavailable")
    BY <1>4 DEF Release
  <2> QED
    BY <2>1, RefuseSums
<1> QED
  BY <1>3, <1>4

LEMMA FulfillSums ==
  ASSUME WorkflowInv, SumInv, NEW c \in Clients, Fulfill(c)
  PROVE  SumInv'
<1> SUFFICES ASSUME NEW a, a = Arg(c), NEW r, r = ReservationRow(a.key),
                    NEW s, s = session[c].row, NEW b, b = Sees(c, s),
                    NEW v, v = Reservation(c), NEW n, n = v.quantity,
                    NEW o, o = Ends[a.op]
             PROVE  SumInv'
  OBVIOUS
<1>1. Ready(c, "balance") /\ session[c].todo # <<>> /\ a.op = "fulfill"
  BY DEF Fulfill, At
<1>2. r[1] = "reservation" /\ v = db[r] /\ InStock(b) /\ s # r
  BY <1>1, EndingIs
<1>3. CASE b.onHand >= n /\ b.reserved >= n
  <2> DEFINE new == [b EXCEPT !.onHand = b.onHand - n, !.reserved = b.reserved - n]
             ended == [v EXCEPT !.status = o]
             w == Over(RowIs(s, new), RowIs(r, ended))
  <2>1. Returns(c, w)
    BY <1>1, <1>3 DEF Fulfill
  <2>2. new.reserved = b.reserved - n
    BY <1>2, InStockIs
  <2>3. o \in Outcomes
    BY <1>1 DEF Ends, Outcomes
  <2>4. ended = [db[r] EXCEPT !.status = o]
    BY <1>2
  <2> HIDE DEF new, ended
  <2>5. DOMAIN w = {s, r} /\ w[s] = new /\ w[r] = ended
    <3>1. DOMAIN w = {s} \cup {r}
      BY DEF Over, RowIs
    <3>2. w[s] = new
      BY DEF Over, RowIs
    <3>3. w[r] = ended
      BY <1>2 DEF Over, RowIs
    <3> QED
      BY <3>1, <3>2, <3>3
  <2> HIDE DEF w
  <2>6. new.reserved = Sees(c, s).reserved - db[r].quantity
    BY <1>2, <2>2
  <2>7. a.op \in {"release", "fulfill"}
    BY <1>1
  <2> QED
    BY <1>1, <2>1, <2>3, <2>4, <2>5, <2>6, <2>7, EndSums
<1>4. CASE ~(b.onHand >= n /\ b.reserved >= n)
  <2>1. Refuse(c, "unavailable")
    BY <1>4 DEF Fulfill
  <2> QED
    BY <2>1, RefuseSums
<1> QED
  BY <1>3, <1>4

-----------------------------------------------------------------------------
(* A transaction commits. *)

\* A client that has written a balance knows its reservations.
LEMMA ReservationsKept ==
  ASSUME WorkflowInv, SumInv, NEW c \in Clients, NEW d \in Clients, d # c,
         NEW b \in Balances, Row(b) \in DOMAIN session[d].mine,
         NEW k \in Keys, NEW r, r = ReservationRow(k), r \in DOMAIN session[c].mine
  PROVE  ~On(session[c].mine[r], b) /\ ~(db[r].status = "active" /\ On(db[r], b))
<1> SUFFICES ASSUME NEW mine, mine = session[c].mine, NEW s, s = BalanceRow(mine[r].warehouse, mine[r].item)
             PROVE  ~On(mine[r], b) /\ ~(db[r].status = "active" /\ On(db[r], b))
  OBVIOUS
<1>1. SumsOK(c)
  BY DEF SumInv
<1>2. s \in DOMAIN mine
  BY <1>1 DEF SumsOK
<1>3. s[1] = "balance" /\ Row(b)[1] = "balance"
  BY StockKinds DEF Row
<1>4. Lock(session[c].call, s) = s /\ Lock(session[d].call, Row(b)) = Row(b)
  BY <1>3 DEF Lock
<1>5. s \in session[c].locks /\ Row(b) \in session[d].locks
  BY <1>2, <1>4, MineIs
<1>6. s # Row(b)
  BY <1>5 DEF WorkflowInv, LocksOK
<1>7. ~On(mine[r], b)
  BY <1>6, RowOfBalance
<1>8. r \in StockRows /\ r[1] = "reservation"
  BY StockRowsAre, StockKinds
<1>9. StockStep(r, db[r], mine[r])
  BY <1>8, MineIs
<1>10. ASSUME db[r].status = "active"
       PROVE  ~On(db[r], b)
  <2>1. PICK o \in Outcomes : mine[r] = [db[r] EXCEPT !.status = o]
    BY <1>8, <1>9, <1>10 DEF StockStep, Absent
  <2>2. mine[r].warehouse = db[r].warehouse /\ mine[r].item = db[r].item
    BY <2>1
  <2> QED
    BY <1>7, <2>2 DEF On
<1> QED
  BY <1>7, <1>10

LEMMA CommitSums ==
  ASSUME WorkflowInv, SumInv, NEW c \in Clients, session[c].at = "done", Commits(c)
  PROVE  SumInv'
<1> SUFFICES ASSUME NEW mine, mine = session[c].mine
             PROVE  SumInv'
  OBVIOUS
<1>1. db' = Over(mine, db)
  BY DEF Commits
<1>2. /\ DOMAIN db' = Rows
      /\ \A r \in Rows : db'[r] = Sees(c, r)
      /\ \A r \in Rows : r \notin DOMAIN mine => db'[r] = db[r]
  BY <1>1, CommitsRows
<1>3. Alone(c) /\ session'[c] = Idle
  BY Answers DEF WorkflowInv, Commits
<1>4. \A b : Pending(c, b) = 0
  BY DEF Pending, Recording
<1>5. ASSUME NEW b \in Balances
      PROVE  Adds(db, b, 0)'
  <2>1. Adds(View(c), b, 0)
    BY <1>4, SeenAdds
  <2>2. Row(b) \in Rows
    BY RowOfBalance
  <2>3. db'[Row(b)].reserved = View(c)[Row(b)].reserved
    BY <1>2, <2>2, RowsSeen
  <2>4. \A k \in Keys : View(c)[ReservationRow(k)] = db'[ReservationRow(k)]
    <3> SUFFICES ASSUME NEW k \in Keys
                 PROVE  View(c)[ReservationRow(k)] = db'[ReservationRow(k)]
      OBVIOUS
    <3>1. ReservationRow(k) \in Rows
      BY StockRowsAre DEF Rows
    <3> QED
      BY <1>2, <3>1, RowsSeen
  <2>5. Adds(db', b, 0)
    BY <2>1, <2>3, <2>4, AddsAlike
  <2> QED
    BY <2>5 DEF Adds, Active, Amounts
<1>6. SumsOK(c)'
  <2>1. DOMAIN session'[c].mine = {} /\ session'[c].at # "record" /\ session'[c].todo = <<>>
    BY <1>3, IdleFields
  <2>2. ~Recording(c)'
    BY <2>1 DEF Recording
  <2>3. 1..Len(session'[c].todo) = {}
    BY <2>1
  <2>4. Fresh(session'[c].mine, session'[c].todo)
    BY <2>3 DEF Fresh
  <2> QED
    BY <2>1, <2>2, <2>4 DEF SumsOK
<1>7. ASSUME NEW d \in Clients, d # c
      PROVE  SumsOK(d)'
  <2>1. session'[d] = session[d] /\ SumsOK(d)
    BY <1>3, <1>7 DEF Alone, SumInv
  <2>2. Arg(d)' = Arg(d) /\ Balance(d)' = Balance(d)
    BY <2>1 DEF Arg, Balance
  <2>3. Recording(d)' <=> Recording(d)
    BY <2>1, <2>2 DEF Recording, At
  <2>4. \A b : Pending(d, b)' = Pending(d, b)
    BY <2>2, <2>3 DEF Pending
  <2>5. ASSUME NEW b \in Balances, Row(b) \in DOMAIN session[d].mine
        PROVE  Adds(View(d)', b, Pending(d, b))
    <3>1. Adds(View(d), b, Pending(d, b))
      BY <2>1, <2>5 DEF SumsOK
    <3>2. Row(b) \in Rows
      BY RowOfBalance
    <3>3. View(d)'[Row(b)].reserved = View(d)[Row(b)].reserved
      <4>1. Sees(d, Row(b))' = Sees(d, Row(b))
        BY <2>1, <2>5 DEF Sees
      <4> QED
        BY <3>2, <4>1, RowsSeen
    <3>4. ASSUME NEW k \in Keys, k \in Active(View(d), b) \cup Active(View(d)', b)
          PROVE  View(d)[ReservationRow(k)] = View(d)'[ReservationRow(k)]
      <4> SUFFICES ASSUME NEW r, r = ReservationRow(k)
                   PROVE  View(d)[r] = View(d)'[r]
        OBVIOUS
      <4>1. r \in Rows
        BY StockRowsAre DEF Rows
      <4>2. View(d)[r] = Sees(d, r) /\ View(d)'[r] = Sees(d, r)'
        BY <4>1, RowsSeen
      <4>3. CASE r \in DOMAIN session[d].mine \/ r \notin DOMAIN mine
        <5>1. Sees(d, r)' = Sees(d, r)
          BY <1>2, <2>1, <4>1, <4>3 DEF Sees
        <5> QED
          BY <4>2, <5>1
      <4>4. CASE r \notin DOMAIN session[d].mine /\ r \in DOMAIN mine
        <5>1. Sees(d, r) = db[r] /\ Sees(d, r)' = db'[r] /\ db'[r] = mine[r]
          BY <1>2, <2>1, <4>1, <4>4 DEF Sees
        <5>2. ~On(mine[r], b) /\ ~(db[r].status = "active" /\ On(db[r], b))
          BY <1>7, <2>5, <4>4, ReservationsKept
        <5>3. k \notin Active(View(d), b) /\ k \notin Active(View(d)', b)
          BY <4>2, <5>1, <5>2 DEF Active
        <5> QED
          BY <3>4, <5>3
      <4> QED
        BY <4>3, <4>4
    <3> QED
      BY <3>1, <3>3, <3>4, AddsAlike
  <2> QED
    BY <2>1, <2>2, <2>3, <2>4, <2>5 DEF SumsOK
<1> QED
  BY <1>5, <1>6, <1>7 DEF SumInv

LEMMA SumInit ==
  ASSUME OrderInit
  PROVE  SumInv
<1>1. \A c \in Clients : session[c] = Idle
  BY DEF OrderInit
<1>2. ASSUME NEW c \in Clients
      PROVE  SumsOK(c)
  <2>1. DOMAIN session[c].mine = {} /\ session[c].at = "idle" /\ session[c].todo = <<>>
    BY <1>1, IdleFields
  <2>2. ~Recording(c)
    BY <2>1 DEF Recording
  <2>3. 1..Len(session[c].todo) = {}
    BY <2>1
  <2>4. Fresh(session[c].mine, session[c].todo)
    BY <2>3 DEF Fresh
  <2> QED
    BY <2>1, <2>2, <2>4 DEF SumsOK
<1>3. ASSUME NEW b \in Balances
      PROVE  Adds(db, b, 0)
  <2>1. \A k \in Keys : db[ReservationRow(k)].status = Absent
    <3> SUFFICES ASSUME NEW k \in Keys, NEW r, r = ReservationRow(k)
                 PROVE  db[r].status = Absent
      OBVIOUS
    <3>1. r \in StockRows /\ r[1] # "balance"
      BY StockRowsAre, StockKinds
    <3>2. db[r] = [status |-> Absent]
      BY <3>1, InitialRows DEF InitialStock
    <3> QED
      BY <3>2
  <2>2. Active(db, b) = {}
    BY <2>1 DEF Active, Absent
  <2>3. db[Row(b)].reserved = 0
    <3>1. Row(b) \in StockRows /\ Row(b)[1] = "balance"
      BY RowOfBalance
    <3> SUFFICES ASSUME NEW n, n = Stock[<<Row(b)[2], Row(b)[3]>>]
                 PROVE  db[Row(b)].reserved = 0
      OBVIOUS
    <3>2. db[Row(b)] = [status |-> IF n = 0 THEN Absent ELSE "stocked",
                        onHand |-> n, reserved |-> 0, received |-> n]
      BY <3>1, InitialRows DEF InitialStock
    <3> QED
      BY <3>2
  <2>4. SumFunctionOnSet(Amounts(db, b), {}) = 0
    BY SumOfNone
  <2> QED
    BY <2>2, <2>3, <2>4, FS_EmptySet DEF Adds
<1> QED
  BY <1>2, <1>3 DEF SumInv

-----------------------------------------------------------------------------
(* Statements that leave alone what is reserved. *)

LEMMA Underway ==
  ASSUME NEW c, NEW label, Ready(c, label), label \notin {"idle", "record"}
  PROVE  session[c] # Idle /\ ~Recording(c)
BY IdleFields DEF Ready, Recording

LEMMA QuietNothing ==
  ASSUME NEW c, NEW w, DOMAIN w = {}
  PROVE  Quiet(c, w)
BY DEF Quiet

LEMMA QuietRow ==
  ASSUME NEW c, NEW r, NEW new, r[1] # "reservation",
         r[1] = "balance" => new.reserved = Sees(c, r).reserved
  PROVE  Quiet(c, RowIs(r, new))
<1> SUFFICES ASSUME NEW w, w = RowIs(r, new)
             PROVE  Quiet(c, w)
  OBVIOUS
<1>1. DOMAIN w = {r} /\ w[r] = new
  BY RowIsRow
<1> QED
  BY <1>1 DEF Quiet

LEMMA GoesNowhere ==
  ASSUME WorkflowInv, SumInv, NEW c \in Clients, NEW label, Ready(c, label),
         label \notin {"idle", "record"}, NEW at, NEW row, Goes(c, <<>>, at, row),
         at = "record" => ~At(c, "reserve")
  PROVE  SumInv'
<1> SUFFICES ASSUME NEW w, w = <<>>
             PROVE  SumInv'
  OBVIOUS
<1>1. Goes(c, w, at, row) /\ DOMAIN w = {}
  OBVIOUS
<1> QED
  BY <1>1, Underway, QuietNothing, GoesSums

LEMMA ReturnsNowhere ==
  ASSUME WorkflowInv, SumInv, NEW c \in Clients, NEW label, Ready(c, label),
         label \notin {"idle", "record"}, session[c].todo # <<>>, Returns(c, <<>>)
  PROVE  SumInv'
<1> SUFFICES ASSUME NEW w, w = <<>>
             PROVE  SumInv'
  OBVIOUS
<1>1. Returns(c, w) /\ DOMAIN w = {}
  OBVIOUS
<1> QED
  BY <1>1, Underway, QuietNothing, ReturnsSums

LEMMA ReturnsRow ==
  ASSUME WorkflowInv, SumInv, NEW c \in Clients, NEW label, Ready(c, label),
         label \notin {"idle", "record"}, session[c].todo # <<>>,
         NEW r, NEW new, r[1] # "reservation",
         r[1] = "balance" => new.reserved = Sees(c, r).reserved, Returns(c, RowIs(r, new))
  PROVE  SumInv'
BY Underway, QuietRow, ReturnsSums

LEMMA SameReserved ==
  ASSUME NEW b, InStock(b), NEW n
  PROVE  /\ Received(b, n).reserved = b.reserved
         /\ Adjusted(b, n).reserved = b.reserved
         /\ [b EXCEPT !.onHand = @ - n].reserved = b.reserved
         /\ [b EXCEPT !.status = "stocked", !.onHand = @ + n].reserved = b.reserved
<1>1. DOMAIN b = {"status", "onHand", "reserved", "received"}
  BY InStockIs
<1> QED
  BY <1>1 DEF Received, Adjusted

LEMMA FindSums ==
  ASSUME WorkflowInv, SumInv, NEW c \in Clients,
         \/ ReceiveStock(c) \/ FindCorrection(c) \/ LockItem(c) \/ AdjustNothing(c)
         \/ ReserveStock(c) \/ FindReservation(c) \/ LockWarehouses(c) \/ LockItemOfLine(c)
  PROVE  SumInv'
<1>1. CASE ReceiveStock(c) \/ LockItem(c) \/ ReserveStock(c)
  BY <1>1, GoesNowhere DEF ReceiveStock, LockItem, ReserveStock
<1>2. CASE FindCorrection(c)
  BY <1>2, GoesNowhere, ReturnsNowhere, RefuseSums DEF FindCorrection, At
<1>3. CASE AdjustNothing(c)
  BY <1>3, GoesNowhere, RefuseSums DEF AdjustNothing
<1>4. CASE FindReservation(c)
  BY <1>4, GoesNowhere, ReturnsNowhere, RefuseSums DEF FindReservation, At
<1>5. CASE LockWarehouses(c)
  BY <1>5, GoesNowhere DEF LockWarehouses
<1>6. CASE LockItemOfLine(c)
  BY <1>6, ReturnsNowhere DEF LockItemOfLine, At
<1> QED
  BY <1>1, <1>2, <1>3, <1>4, <1>5, <1>6

LEMMA LockReservationSums ==
  ASSUME WorkflowInv, SumInv, NEW c \in Clients, LockReservation(c)
  PROVE  SumInv'
<1> SUFFICES ASSUME NEW r, r = Sees(c, session[c].row)
             PROVE  SumInv'
  OBVIOUS
<1>1. Ready(c, "reservation")
  BY DEF LockReservation
<1>2. session[c].todo # <<>>
  BY <1>1, Before DEF JobLabels
<1>3. \/ \E outcome : Refuse(c, outcome)
      \/ Returns(c, <<>>)
      \/ Goes(c, <<>>, "balance", BalanceRow(r.warehouse, r.item))
  BY DEF LockReservation
<1> QED
  BY <1>1, <1>2, <1>3, RefuseSums, ReturnsNowhere, GoesNowhere

LEMMA ReceiptSums ==
  ASSUME WorkflowInv, SumInv, NEW c \in Clients, Receipt(c)
  PROVE  SumInv'
<1> SUFFICES ASSUME NEW a, a = Arg(c), NEW r, r = Balance(c), NEW b, b = Sees(c, r)
             PROVE  SumInv'
  OBVIOUS
<1>1. /\ Ready(c, "balance") /\ session[c].todo # <<>> /\ a.op = "receive"
      /\ Returns(c, RowIs(r, Received(b, a.quantity)))
  BY DEF Receipt, At
<1>2. a.op \in InventoryOps
  BY <1>1 DEF InventoryOps
<1>3. JobIs(a)
  BY <1>1, <1>2, Before
<1>4. r \in StockRows /\ r[1] = "balance"
  BY <1>1, <1>3, IsBalance DEF JobIs
<1>5. Received(b, a.quantity).reserved = b.reserved
  BY <1>4, SeesStock, SameReserved
<1> QED
  BY <1>1, <1>4, <1>5, ReturnsRow

LEMMA AdjustSums ==
  ASSUME WorkflowInv, SumInv, NEW c \in Clients, Adjust(c)
  PROVE  SumInv'
<1> SUFFICES ASSUME NEW a, a = Arg(c), NEW r, r = CorrectionRow(a.key), NEW s, s = Balance(c),
                    NEW b, b = db[s], NEW new, new = Adjusted(b, a.quantity)
             PROVE  SumInv'
  OBVIOUS
<1>1. Ready(c, "update") /\ session[c].todo # <<>> /\ a.op = "adjust"
  BY DEF Adjust, At
<1>2. a.op \in InventoryOps
  BY <1>1 DEF InventoryOps
<1>3. session[c].at = "update" /\ session[c] # Idle /\ JobIs(a)
  BY <1>1, <1>2, Before
<1>4. s \in StockRows /\ s[1] = "balance"
  BY <1>1, <1>3, IsBalance DEF JobIs
<1>5. CASE Goes(c, RowIs(s, new), "record", r)
  <2>1. a = session[c].call /\ session[c].todo = <<a>>
    BY <1>1, <1>2, <1>3, JobOf
  <2>2. Sees(c, s) = b
    BY <1>2, <1>3, <2>1, NothingYet
  <2>3. new.reserved = b.reserved
    BY <1>4, <2>2, SeesStock, SameReserved
  <2>4. Quiet(c, RowIs(s, new))
    BY <1>4, <2>2, <2>3, QuietRow
  <2>5. ~At(c, "reserve")
    BY <1>1 DEF At
  <2> QED
    BY <1>1, <1>5, <2>4, <2>5, Underway, GoesSums
<1>6. \/ \E outcome : Refuse(c, outcome)
      \/ Returns(c, <<>>)
      \/ Goes(c, RowIs(s, new), "record", r)
  BY DEF Adjust
<1> QED
  BY <1>1, <1>5, <1>6, RefuseSums, ReturnsNowhere

LEMMA AdjustFirstSums ==
  ASSUME WorkflowInv, SumInv, NEW c \in Clients, AdjustFirst(c)
  PROVE  SumInv'
<1> SUFFICES ASSUME NEW a, a = Arg(c), NEW s, s = Balance(c), NEW b, b = Sees(c, s),
                    NEW new, new = Adjusted(b, a.quantity)
             PROVE  SumInv'
  OBVIOUS
<1>1. /\ Ready(c, "upsert") /\ session[c].todo # <<>> /\ a.op = "adjust"
      /\ Goes(c, RowIs(s, new), "record", CorrectionRow(a.key))
  BY DEF AdjustFirst, At
<1>2. a.op \in InventoryOps
  BY <1>1 DEF InventoryOps
<1>3. JobIs(a)
  BY <1>1, <1>2, Before
<1>4. s \in StockRows /\ s[1] = "balance"
  BY <1>1, <1>3, IsBalance DEF JobIs
<1>5. Quiet(c, RowIs(s, new))
  BY <1>4, SeesStock, SameReserved, QuietRow
<1>6. ~At(c, "reserve")
  BY <1>1 DEF At
<1> QED
  BY <1>1, <1>5, <1>6, Underway, GoesSums

LEMMA RecordCorrectionSums ==
  ASSUME WorkflowInv, SumInv, NEW c \in Clients, RecordCorrection(c)
  PROVE  SumInv'
<1> SUFFICES ASSUME NEW a, a = Arg(c), NEW r, r = session[c].row,
                    NEW new, new = Fact(a, "recorded")
             PROVE  SumInv'
  OBVIOUS
<1>1. Ready(c, "record") /\ session[c].todo # <<>> /\ a.op = "adjust"
  BY DEF RecordCorrection, At
<1>2. a.op \in InventoryOps
  BY <1>1 DEF InventoryOps
<1>3. session[c].at = "record" /\ session[c] # Idle /\ JobAt(c, a)
  BY <1>1, <1>2, Before
<1>4. r[1] = "correction"
  BY <1>1, <1>3, StockKinds DEF JobAt
<1>5. CASE Returns(c, RowIs(r, new))
  <2>1. Quiet(c, RowIs(r, new))
    BY <1>4, QuietRow
  <2>2. ~Recording(c)
    BY <1>1 DEF Recording, At
  <2> QED
    BY <1>1, <1>3, <1>5, <2>1, <2>2, ReturnsSums
<1> QED
  BY <1>5, DuplicateSums DEF RecordCorrection

LEMMA MovesSums ==
  ASSUME WorkflowInv, SumInv, NEW c \in Clients, Ship(c) \/ Arrive(c)
  PROVE  SumInv'
<1> SUFFICES ASSUME NEW a, a = Arg(c), NEW r, r = Balance(c), NEW b, b = Sees(c, r), NEW n, n = a.quantity
             PROVE  SumInv'
  OBVIOUS
<1>1. Ready(c, "balance") /\ session[c].todo # <<>> /\ a.op \in {"ship", "arrive"}
  BY DEF Ship, Arrive, At
<1>2. a.op \in PartOps
  BY <1>1 DEF PartOps
<1>3. JobIs(a)
  BY <1>1, <1>2, Before
<1>4. r \in StockRows /\ r[1] = "balance"
  BY <1>1, <1>3, IsBalance DEF JobIs
<1>5. /\ [b EXCEPT !.onHand = @ - n].reserved = b.reserved
      /\ [b EXCEPT !.status = "stocked", !.onHand = @ + n].reserved = b.reserved
  BY <1>4, SeesStock, SameReserved
<1>6. \/ Refuse(c, "unavailable")
      \/ Returns(c, RowIs(r, [b EXCEPT !.onHand = @ - n]))
      \/ Returns(c, RowIs(r, [b EXCEPT !.status = "stocked", !.onHand = @ + n]))
  BY DEF Ship, Arrive
<1> QED
  BY <1>1, <1>4, <1>5, <1>6, RefuseSums, ReturnsRow

LEMMA InsertTransferSums ==
  ASSUME WorkflowInv, SumInv, NEW c \in Clients, InsertTransfer(c)
  PROVE  SumInv'
<1> SUFFICES ASSUME NEW a, a = Arg(c), NEW r, r = session[c].row,
                    NEW new, new = [status |-> "draft", from |-> a.from, to |-> a.to, lines |-> a.lines]
             PROVE  SumInv'
  OBVIOUS
<1>1. Ready(c, "insert") /\ Returns(c, RowIs(r, new))
  BY DEF InsertTransfer
<1>2. session[c].todo # <<>> /\ JobAt(c, a) /\ a.op \in PartOps \cup InventoryOps \cup {"close"}
      /\ session[c].at = "insert"
  BY <1>1, Before DEF JobLabels
<1>3. a.op = "insert"
  BY <1>2 DEF JobAt, PartOps, InventoryOps
<1>4. r[1] = "transfer"
  BY <1>2, <1>3, StockKinds DEF JobAt
<1> QED
  BY <1>1, <1>2, <1>4, ReturnsRow

LEMMA LockItemsSums ==
  ASSUME WorkflowInv, SumInv, NEW c \in Clients, LockItems(c)
  PROVE  SumInv'
<1> SUFFICES ASSUME NEW a, a = Arg(c), NEW q, q = session[c].call, NEW p, p = DraftJobs(q),
                    NEW w, w = <<>>
             PROVE  SumInv'
  OBVIOUS
<1>1. Ready(c, "second")
  BY DEF LockItems
<1>2. /\ session[c].at = "second" /\ session[c] # Idle /\ session[c].todo # <<>>
      /\ JobAt(c, a) /\ a.op \in PartOps \cup InventoryOps \cup {"close"}
  BY <1>1, Before DEF JobLabels
<1>3. a.op = "draft"
  BY <1>2 DEF JobAt, PartOps, InventoryOps
<1>4. a = q
  BY <1>2, <1>3, JobOf
<1>5. q \in Calls
  BY <1>2, JobStage DEF JobLabels
<1>6. Continues(c, w, p)
  BY <1>4 DEF LockItems, DraftJobs
<1>7. DraftLeft(p, q)
  BY <1>3, <1>4, <1>5, DraftJobsAre
<1>8. \A i \in 1..Len(p) : p[i].op # "reserve"
  <2>1. [q EXCEPT !.op = "insert"].op = "insert"
    BY <1>3, <1>4, <1>5, InsertJob
  <2>2. \A x \in ItemJobs : x.op = "item"
    BY DEF ItemJobs
  <2> QED
    BY <1>7, <2>1, <2>2 DEF DraftLeft
<1>9. Fresh(session[c].mine, p)
  BY <1>8, NoneFresh
<1>10. DOMAIN w = {}
  OBVIOUS
<1> QED
  BY <1>1, <1>6, <1>9, <1>10, Underway, QuietNothing, ContinuesSums

LEMMA MoveSums ==
  ASSUME WorkflowInv, SumInv, NEW c \in Clients, Ready(c, "transfer"),
         NEW r, r[1] = "transfer", NEW new,
         NEW t \in TransferType, t.status # Absent, NEW op \in {"ship", "arrive"},
         NEW w \in Warehouses, Continues(c, RowIs(r, new), Lines(t, op, w))
  PROVE  SumInv'
<1>1. MovesLeft(Lines(t, op, w), op)
  BY LinesAreMoves
<1>2. \A i \in 1..Len(Lines(t, op, w)) : Lines(t, op, w)[i].op # "reserve"
  BY <1>1 DEF MovesLeft
<1>3. Fresh(session[c].mine, Lines(t, op, w))
  BY <1>2, NoneFresh
<1>4. Quiet(c, RowIs(r, new))
  BY QuietRow
<1> QED
  BY <1>3, <1>4, Underway, ContinuesSums

LEMMA TransferSums ==
  ASSUME WorkflowInv, SumInv, NEW c \in Clients, ConfirmTransfer(c) \/ CompleteTransfer(c)
  PROVE  SumInv'
<1> SUFFICES ASSUME NEW a, a = Arg(c), NEW r, r = session[c].row, NEW t, t = db[r]
             PROVE  SumInv'
  OBVIOUS
<1>1. Ready(c, "transfer") /\ session[c].todo # <<>> /\ a.op \in {"confirm", "complete"}
  BY DEF ConfirmTransfer, CompleteTransfer, At
<1>2. JobAt(c, a) /\ JobIs(a)
  <2>1. a.op \in InventoryOps
    BY <1>1 DEF InventoryOps
  <2> QED
    BY <1>1, <2>1, Before
<1>3. r \in StockRows /\ r[1] = "transfer"
  BY <1>1, <1>2, StockRowsAre, StockKinds DEF JobAt, JobIs
<1>4. t \in TransferType
  BY <1>3 DEF WorkflowInv, Tables, StockIs
<1>5. t.status # Absent => t.from \in Warehouses /\ t.to \in Warehouses
  BY <1>4 DEF TransferType
<1>6. \/ \E outcome : Refuse(c, outcome)
      \/ Returns(c, <<>>)
      \/ t.status = "draft" /\ Continues(c, RowIs(r, [t EXCEPT !.status = "confirmed"]),
                                         Lines(t, "ship", t.from))
      \/ t.status = "confirmed" /\ Continues(c, RowIs(r, [t EXCEPT !.status = "completed"]),
                                             Lines(t, "arrive", t.to))
  BY DEF ConfirmTransfer, CompleteTransfer, Absent
<1>7. "draft" # Absent /\ "confirmed" # Absent
  BY DEF Absent
<1>8. CASE t.status = "draft" /\ Continues(c, RowIs(r, [t EXCEPT !.status = "confirmed"]),
                                           Lines(t, "ship", t.from))
  BY <1>1, <1>3, <1>4, <1>5, <1>7, <1>8, MoveSums
<1>9. CASE t.status = "confirmed" /\ Continues(c, RowIs(r, [t EXCEPT !.status = "completed"]),
                                               Lines(t, "arrive", t.to))
  BY <1>1, <1>3, <1>4, <1>5, <1>7, <1>9, MoveSums
<1> QED
  BY <1>1, <1>6, <1>8, <1>9, RefuseSums, ReturnsNowhere

LEMMA StatementSums ==
  ASSUME WorkflowInv, SumInv, NEW c \in Clients, Statement(c)
  PROVE  SumInv'
<1>1. CASE \/ ReceiveStock(c) \/ FindCorrection(c) \/ LockItem(c) \/ AdjustNothing(c)
           \/ ReserveStock(c) \/ FindReservation(c) \/ LockWarehouses(c) \/ LockItemOfLine(c)
  BY <1>1, FindSums
<1>2. CASE Receipt(c) \/ Adjust(c) \/ AdjustFirst(c) \/ RecordCorrection(c)
  BY <1>2, ReceiptSums, AdjustSums, AdjustFirstSums, RecordCorrectionSums
<1>3. CASE Reserve(c) \/ RecordReservation(c) \/ LockReservation(c) \/ Release(c) \/ Fulfill(c)
  BY <1>3, ReserveSums, RecordReservationSums, LockReservationSums, ReleaseSums, FulfillSums
<1>4. CASE LockItems(c) \/ InsertTransfer(c) \/ ConfirmTransfer(c) \/ Ship(c) \/ CompleteTransfer(c)
           \/ Arrive(c)
  BY <1>4, LockItemsSums, InsertTransferSums, TransferSums, MovesSums
<1> QED
  BY <1>1, <1>2, <1>3, <1>4 DEF Statement

-----------------------------------------------------------------------------
(* The workflows and Sales: a confirmation has reserved nothing before its  *)
(* lines, and has a reservation of its own for each.                        *)

LEMMA ConfirmFresh ==
  ASSUME NEW q \in Calls, q.op = "confirmOrder", NEW mine,
         \A r \in DOMAIN mine : r[1] # "reservation"
  PROVE  Fresh(mine, ConfirmPlan(q))
<1> SUFFICES ASSUME NEW p, p = ConfirmPlan(q), NEW a, a = ReserveLines(q),
                    NEW m, m = Len(OrderLines[q.order])
             PROVE  Fresh(mine, p)
  OBVIOUS
<1>1. q.order \in Orders /\ a \in Seq(Parts) /\ Len(a) = m
  BY ReservingLines
<1>2. m \in Nat /\ DOMAIN OrderLines[q.order] = 1..m
  BY <1>1, LinesAre
<1>3. \A i \in 1..m : a[i].key = <<q.key, i>>
  BY <1>2 DEF ReserveLines
<1>4. /\ Len(p) = m + 2 /\ \A i \in 1..m : p[i] = a[i]
      /\ p[m + 1] = Revenues /\ p[m + 2] = Succeeds
  <2>1. p = a \o <<Revenues>> \o <<Succeeds>>
    BY DEF ConfirmPlan, Books, Complete, Revenues, Succeeds
  <2>2. Revenues \in Parts /\ Succeeds \in Parts
    BY LastParts
  <2> DEFINE z == a \o <<Revenues>> \o <<Succeeds>>
  <2>3. /\ z \in Seq(Parts) /\ Len(z) = Len(a) + 2 /\ \A i \in 1..Len(a) : z[i] = a[i]
        /\ z[Len(a) + 1] = Revenues /\ z[Len(a) + 2] = Succeeds
    <3>1. a \in Seq(Parts) /\ Revenues \in Parts /\ Succeeds \in Parts
      BY <1>1, <2>2
    <3> QED
      BY ONLY <3>1, WithTwo
  <2>4. p = z
    BY <2>1
  <2> HIDE DEF z
  <2> QED
    BY <1>1, <2>3, <2>4
<1>5. Revenues.op # "reserve" /\ Succeeds.op # "reserve"
  BY DEF Revenues, Succeeds
<1>6. \A i \in 1..Len(p) : p[i].op = "reserve" => i \in 1..m /\ p[i].key = <<q.key, i>>
  <2> SUFFICES ASSUME NEW i \in 1..Len(p), p[i].op = "reserve"
               PROVE  i \in 1..m /\ p[i].key = <<q.key, i>>
    OBVIOUS
  <2>1. i \in 1..m \/ i = m + 1 \/ i = m + 2
    BY <1>2, <1>4
  <2>2. i \in 1..m
    BY <1>4, <1>5, <2>1
  <2> QED
    BY <1>3, <1>4, <2>2
<1>7. \A k : ReservationRow(k) \notin DOMAIN mine
  BY StockKinds
<1>8. \A i, j : <<q.key, j>> = <<q.key, i>> => j = i
  OBVIOUS
<1> QED
  BY <1>6, <1>7, <1>8 DEF Fresh

LEMMA NothingFresh == \A mine : Fresh(mine, <<>>)
<1>1. Len(<<>>) = 0
  OBVIOUS
<1>2. \A i \in 1..Len(<<>>) : FALSE
  BY <1>1
<1> QED
  BY <1>2 DEF Fresh

LEMMA ReplaySums ==
  ASSUME WorkflowInv, SumInv, NEW c \in Clients, NEW run, Replay(c, run)
  PROVE  SumInv'
BY RefuseSums DEF Replay

LEMMA LookupSums ==
  ASSUME WorkflowInv, SumInv, NEW c \in Clients,
         LookupRun(c) \/ LoadConfirmation(c) \/ LookupLifecycle(c)
  PROVE  SumInv'
<1>1. CASE LookupRun(c)
  <2>1. ~At(c, "reserve")
    BY <1>1 DEF LookupRun, Does, At
  <2> QED
    BY <1>1, <2>1, ReplaySums, GoesNowhere DEF LookupRun
<1>2. CASE LoadConfirmation(c)
  BY <1>2, RefuseSums, GoesNowhere DEF LoadConfirmation
<1>3. CASE LookupLifecycle(c)
  <2>1. ~At(c, "reserve")
    BY <1>3 DEF LookupLifecycle, Does, At
  <2>2. \/ Goes(c, <<>>, "record", OwnRun(c))
        \/ Replay(c, db[OwnRun(c)])
        \/ Conflict(c)
    BY <1>3 DEF LookupLifecycle, ResolveLifecycle
  <2>3. Ready(c, "lookup")
    BY <1>3 DEF LookupLifecycle
  <2> QED
    BY <2>1, <2>2, <2>3, ReplaySums, ConflictSums, GoesNowhere
<1> QED
  BY <1>1, <1>2, <1>3

LEMMA InsertRunSums ==
  ASSUME WorkflowInv, SumInv, NEW c \in Clients, InsertRun(c)
  PROVE  SumInv'
<1> SUFFICES ASSUME NEW q, q = session[c].call, NEW r, r = OwnRun(c),
                    NEW run, run = Running(q)
             PROVE  SumInv'
  OBVIOUS
<1>1. Ready(c, "record") /\ session[c].at = "record" /\ session[c].row = r
  BY DEF InsertRun, Ready
<1>2. /\ q \in Calls /\ q.op \in Workflows
      /\ q.op = "confirmOrder" => session[c].todo = <<q>>
      /\ q.op \in {"cancelOrder", "fulfillOrder"} => AtOnce(c) /\ Holds(c)
  BY <1>1, RecordStage
<1>3. r[1] = "run"
  BY OwnRunIs
<1>4. ~At(c, "reserve") /\ ~Recording(c)
  <2>1. session[c].todo \in {<<q>>, <<AsksAgain(q)>>}
    BY <1>2 DEF AtOnce, Workflows
  <2>2. AsksAgain(q).op = q.op
    BY DEF AsksAgain
  <2>3. Arg(c) \in {q, AsksAgain(q)}
    BY <2>1, HeadOfOne DEF Arg
  <2> QED
    BY <1>2, <2>2, <2>3 DEF At, Recording, Workflows
<1>5. Quiet(c, RowIs(r, run))
  BY <1>3, QuietRow
<1>6. \/ Replay(c, db[r])
      \/ Conflict(c)
      \/ q.op = "fulfillOrder" /\ Continues(c, RowIs(r, run), EndReservations(q, "fulfill") \o Complete)
      \/ Goes(c, RowIs(r, run), "order", OrderRow(q.order))
  BY DEF InsertRun, LoadExistingAfterConflict, Asked
<1>7. CASE /\ q.op = "fulfillOrder"
           /\ Continues(c, RowIs(r, run), EndReservations(q, "fulfill") \o Complete)
  <2> SUFFICES ASSUME NEW k, k = TheConfirmation(q.order)
               PROVE  SumInv'
    OBVIOUS
  <2>1. k \in Confirmations(q.order)
    BY <1>2, <1>7, TheConfirmationIs DEF Holds
  <2>2. k \in WorkflowKeys
    BY <2>1 DEF Confirmations
  <2>3. EndReservations(q, "fulfill") \o Complete = EndPlan(q, k)
    BY <1>7 DEF EndReservations, EndPlan, FulfilPlan, EndLines
  <2>4. Fresh(session[c].mine, EndPlan(q, k))
    BY <1>2, <1>7, <2>2, EndPlanOps, NoneFresh
  <2>5. Continues(c, RowIs(r, run), EndPlan(q, k))
    BY <1>7, <2>3
  <2> QED
    BY <1>4, <1>5, <2>4, <2>5, ContinuesSums
<1>8. CASE Goes(c, RowIs(r, run), "order", OrderRow(q.order))
  BY <1>4, <1>5, <1>8, GoesSums
<1> QED
  BY <1>6, <1>7, <1>8, ReplaySums, ConflictSums

LEMMA ConfirmedSums ==
  ASSUME WorkflowInv, SumInv, NEW c \in Clients, NEW q \in Calls, q = session[c].call,
         q.op \in {"confirmOrder", "salesConfirm"}, ~Recording(c),
         \A r \in DOMAIN session[c].mine : r[1] # "reservation",
         NEW w, Quiet(c, w), Confirmed(c, w)
  PROVE  SumInv'
<1> SUFFICES ASSUME NEW mine, mine = session[c].mine, NEW none, none = <<>>
             PROVE  SumInv'
  OBVIOUS
<1>1. CASE q.op = "confirmOrder"
  <2>1. Continues(c, w, ConfirmPlan(q))
    BY <1>1 DEF Confirmed, ConfirmPlan, IsWorkflow, Asked, Workflows
  <2>2. Fresh(mine, ConfirmPlan(q))
    BY <1>1, ConfirmFresh
  <2> QED
    BY <2>1, <2>2, ContinuesSums
<1>2. CASE q.op = "salesConfirm"
  <2>1. Continues(c, w, none)
    BY <1>2 DEF Confirmed, IsWorkflow, Asked, Workflows
  <2>2. Fresh(mine, none)
    BY NothingFresh
  <2> QED
    BY <2>1, <2>2, ContinuesSums
<1> QED
  BY <1>1, <1>2

LEMMA ConfirmSalesOrderSums ==
  ASSUME WorkflowInv, SumInv, NEW c \in Clients, ConfirmSalesOrder(c)
  PROVE  SumInv'
<1> SUFFICES ASSUME NEW q, q = session[c].call, NEW w, w = <<>>
             PROVE  SumInv'
  OBVIOUS
<1>1. /\ Ready(c, "order") /\ session[c].at = "order"
      /\ Arg(c).op \in {"confirmOrder", "salesConfirm"}
  BY DEF ConfirmSalesOrder, Ready, Does
<1>2. /\ q \in Calls /\ q.op \in {"confirmOrder", "salesConfirm"}
      /\ DOMAIN session[c].mine \subseteq {OwnRun(c)}
  BY <1>1, OrderStage
<1>3. \A r \in DOMAIN session[c].mine : r[1] # "reservation"
  BY <1>2, OwnRunIs
<1>4. ~At(c, "reserve") /\ ~Recording(c)
  BY <1>1 DEF At, Recording
<1>7. DOMAIN w = {}
  OBVIOUS
<1>5. \/ \E outcome : Refuse(c, outcome)
      \/ Goes(c, <<>>, "record", KeyRow(Asked(c).key))
      \/ Confirmed(c, w)
  BY DEF ConfirmSalesOrder
<1>6. CASE Confirmed(c, w)
  BY <1>2, <1>3, <1>4, <1>6, <1>7, QuietNothing, ConfirmedSums
<1> QED
  BY <1>1, <1>4, <1>5, <1>6, RefuseSums, GoesNowhere

LEMMA TakeKeySums ==
  ASSUME WorkflowInv, SumInv, NEW c \in Clients, TakeKey(c)
  PROVE  SumInv'
<1> SUFFICES ASSUME NEW q, q = session[c].call, NEW s, s = session[c].row, NEW r, r = OrderRow(q.order),
                    NEW x, x = [status |-> "taken"], NEW y, y = [status |-> "confirmed", key |-> q.key],
                    NEW w, w = Over(RowIs(s, x), RowIs(r, y))
             PROVE  SumInv'
  OBVIOUS
<1>1. Ready(c, "record") /\ session[c].at = "record" /\ s[1] = "orderKey"
  BY DEF TakeKey, Ready
<1>2. /\ q \in Calls /\ q.op \in {"confirmOrder", "salesConfirm"} /\ session[c].todo = <<q>>
      /\ DOMAIN session[c].mine \subseteq {OwnRun(c)}
  BY <1>1, KeyStage
<1>3. \A z \in DOMAIN session[c].mine : z[1] # "reservation"
  BY <1>2, OwnRunIs
<1>4. ~Recording(c)
  <2>1. Arg(c) = q
    BY <1>2, HeadOfOne DEF Arg
  <2> QED
    BY <1>2, <2>1 DEF At, Recording
<1>5. Quiet(c, w)
  <2>1. DOMAIN w = {s} \cup {r}
    BY DEF Over, RowIs
  <2>2. r[1] = "order"
    BY OrderKinds
  <2> QED
    BY <1>1, <2>1, <2>2 DEF Quiet
<1>6. Refuse(c, "conflict") \/ Confirmed(c, w)
  BY DEF TakeKey, Asked
<1> QED
  BY <1>2, <1>3, <1>4, <1>5, <1>6, RefuseSums, ConfirmedSums

LEMMA CancelledSums ==
  ASSUME WorkflowInv, SumInv, NEW c \in Clients, NEW q \in Calls, q = session[c].call,
         \/ q.op = "cancelOrder" /\ Holds(c)
         \/ q.op = "salesCancel",
         ~Recording(c), NEW w, Quiet(c, w), Cancelled(c, w)
  PROVE  SumInv'
<1> SUFFICES ASSUME NEW mine, mine = session[c].mine, NEW none, none = <<>>,
                    NEW k, k = TheConfirmation(q.order)
             PROVE  SumInv'
  OBVIOUS
<1>1. CASE q.op = "cancelOrder"
  <2>1. k \in Confirmations(q.order)
    BY <1>1, TheConfirmationIs DEF Holds
  <2>2. k \in WorkflowKeys
    BY <2>1 DEF Confirmations
  <2>3. Continues(c, w, EndPlan(q, k))
    BY <1>1 DEF Cancelled, EndReservations, EndPlan, CancelPlan, EndLines, IsWorkflow, Asked, Workflows
  <2>4. Fresh(mine, EndPlan(q, k))
    BY <1>1, <2>2, EndPlanOps, NoneFresh
  <2> QED
    BY <2>3, <2>4, ContinuesSums
<1>2. CASE q.op = "salesCancel"
  <2>1. Continues(c, w, none)
    BY <1>2 DEF Cancelled, IsWorkflow, Asked, Workflows
  <2>2. Fresh(mine, none)
    BY NothingFresh
  <2> QED
    BY <2>1, <2>2, ContinuesSums
<1> QED
  BY <1>1, <1>2

LEMMA CancelConfirmedOrderSums ==
  ASSUME WorkflowInv, SumInv, NEW c \in Clients, CancelConfirmedOrder(c)
  PROVE  SumInv'
<1> SUFFICES ASSUME NEW q, q = session[c].call, NEW r, r = session[c].row, NEW o, o = db[r],
                    NEW new, new = [o EXCEPT !.status = "cancelled"], NEW w, w = <<>>
             PROVE  SumInv'
  OBVIOUS
<1>1. /\ Ready(c, "order") /\ session[c].at = "order"
      /\ Arg(c).op \in {"cancelOrder", "salesCancel"}
  BY DEF CancelConfirmedOrder, Ready, Does
<1>2. /\ q \in Calls /\ r = OrderRow(q.order)
      /\ \/ q.op = "cancelOrder" /\ Holds(c)
         \/ q.op = "salesCancel"
  BY <1>1, OrderStage
<1>3. r[1] = "order" /\ ~Recording(c)
  BY <1>1, <1>2, OrderKinds DEF Recording
<1>7. DOMAIN w = {}
  OBVIOUS
<1>4. Quiet(c, RowIs(r, new)) /\ Quiet(c, w)
  BY <1>3, <1>7, QuietRow, QuietNothing
<1>5. \/ \E outcome : Refuse(c, outcome)
      \/ Cancelled(c, w)
      \/ Cancelled(c, RowIs(r, new))
  BY DEF CancelConfirmedOrder
<1>6. CASE Cancelled(c, w) \/ Cancelled(c, RowIs(r, new))
  BY <1>2, <1>3, <1>4, <1>6, CancelledSums
<1> QED
  BY <1>5, <1>6, RefuseSums

LEMMA BooksSums ==
  ASSUME WorkflowInv, SumInv, NEW c \in Clients, PostRevenue(c) \/ ReverseRevenue(c) \/ ClosePeriod(c)
  PROVE  SumInv'
<1> SUFFICES ASSUME NEW j, j = Journal(c, "revenue"), NEW k, k = Journal(c, "reversal"),
                    NEW posted, posted = [status |-> "posted"],
                    NEW reversed, reversed = [status |-> "reversed"],
                    NEW closed, closed = [status |-> "closed"]
             PROVE  SumInv'
  OBVIOUS
<1>1. Ready(c, "books") /\ session[c].todo # <<>>
  BY DEF PostRevenue, ReverseRevenue, ClosePeriod, At
<1>2. j[1] = "journal" /\ k[1] = "journal" /\ BooksRow[1] = "books"
  <2>1. j = JournalRow("revenue", Asked(c).order) /\ k = JournalRow("reversal", Asked(c).order)
    BY DEF Journal
  <2>2. \A kind, o : JournalRow(kind, o)[1] = "journal"
    BY DEF JournalRow
  <2>3. BooksRow[1] = "books"
    BY OrderKinds
  <2> QED
    BY <2>1, <2>2, <2>3
<1>3. \/ \E outcome : Refuse(c, outcome)
      \/ Returns(c, <<>>)
      \/ Returns(c, RowIs(j, posted)) \/ Returns(c, RowIs(k, reversed))
      \/ Returns(c, RowIs(BooksRow, closed))
  BY DEF PostRevenue, ReverseRevenue, ClosePeriod
<1> QED
  BY <1>1, <1>2, <1>3, RefuseSums, ReturnsNowhere, ReturnsRow

LEMMA CompleteRunSums ==
  ASSUME WorkflowInv, SumInv, NEW c \in Clients, CompleteRun(c)
  PROVE  SumInv'
<1> SUFFICES ASSUME NEW q, q = session[c].call, NEW r, r = OwnRun(c),
                    NEW k, k = ConfirmationRow(q.order), NEW old, old = Sees(c, r),
                    NEW sound, sound = (q.op = "confirmOrder" => ConfirmationResultMatches(c)),
                    NEW new, new = [old EXCEPT !.status = "succeeded", !.sound = sound],
                    NEW found, found = [status |-> "succeeded"],
                    NEW nothing, nothing = <<>>,
                    NEW more, more = IF q.op = "confirmOrder" THEN RowIs(k, found) ELSE nothing,
                    NEW w, w = Over(RowIs(r, new), more)
             PROVE  SumInv'
  OBVIOUS
<1>1. Ready(c, "succeed") /\ Returns(c, w)
  BY DEF CompleteRun, Asked
<1>2. session[c].todo # <<>>
  BY <1>1, Before DEF JobLabels
<1>3. r[1] = "run" /\ k[1] = "confirmation"
  BY OwnRunIs, OrderKinds
<1>4. DOMAIN w \subseteq {r, k}
  <2>1. DOMAIN more \subseteq {k}
    BY DEF RowIs
  <2>2. DOMAIN w = {r} \cup DOMAIN more
    BY DEF Over, RowIs
  <2> QED
    BY <2>1, <2>2
<1>5. Quiet(c, w)
  BY <1>3, <1>4 DEF Quiet
<1> QED
  BY <1>1, <1>2, <1>5, Underway, ReturnsSums

LEMMA OrderStatementSums ==
  ASSUME WorkflowInv, SumInv, NEW c \in Clients, OrderStatement(c)
  PROVE  SumInv'
<1>1. CASE LookupRun(c) \/ LoadConfirmation(c) \/ LookupLifecycle(c) \/ InsertRun(c)
  BY <1>1, LookupSums, InsertRunSums
<1>2. CASE ConfirmSalesOrder(c) \/ TakeKey(c) \/ CancelConfirmedOrder(c)
  BY <1>2, ConfirmSalesOrderSums, TakeKeySums, CancelConfirmedOrderSums
<1>3. CASE PostRevenue(c) \/ ReverseRevenue(c) \/ ClosePeriod(c) \/ CompleteRun(c)
  BY <1>3, BooksSums, CompleteRunSums
<1> QED
  BY <1>1, <1>2, <1>3 DEF OrderStatement

LEMMA CallSums ==
  ASSUME WorkflowInv, SumInv, NEW c \in Clients, NEW q \in Requests,
         Call(c, q) \/ CallWorkflow(c, q) \/ CallSales(c, q) \/ CallClose(c, q)
  PROVE  SumInv'
<1>1. CASE Call(c, q)
  <2>1. q.op \in InventoryOps /\ InventoryCall(q)
    BY <1>1, InventoryAssumption DEF Call
  <2>2. First(q)[1] # "record"
    BY <2>1, FirstOfCall DEF InventoryOps
  <2> QED
    BY <1>1, <2>2, BeginSums DEF Call
<1>2. CASE CallWorkflow(c, q) \/ CallSales(c, q) \/ CallClose(c, q)
  BY <1>2, BeginSums DEF CallWorkflow, CallSales, CallClose
<1> QED
  BY <1>1, <1>2

LEMMA SumInvNext ==
  ASSUME WorkflowInv, SumInv, [OrderNext]_sessionVars
  PROVE  SumInv'
<1>1. CASE UNCHANGED sessionVars
  <2>1. UNCHANGED <<db, session>>
    BY <1>1 DEF sessionVars
  <2>2. \A b \in Balances : Adds(db, b, 0)'
    BY <2>1 DEF SumInv
  <2>3. ASSUME NEW d \in Clients
        PROVE  SumsOK(d)'
    <3>1. \A r : Sees(d, r)' = Sees(d, r)
      BY <2>1 DEF Sees
    <3>2. View(d)' = View(d)
      BY <3>1 DEF View
    <3>3. Arg(d)' = Arg(d) /\ Balance(d)' = Balance(d)
      BY <2>1 DEF Arg, Balance
    <3>4. Recording(d)' <=> Recording(d)
      BY <2>1, <3>3 DEF Recording, At
    <3>5. \A b : Pending(d, b)' = Pending(d, b)
      BY <3>3, <3>4 DEF Pending
    <3>6. SumsOK(d)
      BY DEF SumInv
    <3> QED
      BY <2>1, <3>2, <3>3, <3>4, <3>5, <3>6 DEF SumsOK
  <2> QED
    BY <2>2, <2>3 DEF SumInv
<1>2. CASE OrderNext
  <2> PICK c \in Clients :
        \/ \E q \in Requests : Call(c, q) \/ CallWorkflow(c, q) \/ CallSales(c, q) \/ CallClose(c, q)
        \/ Statement(c) \/ OrderStatement(c)
        \/ Commit(c) \/ CommitOrder(c) \/ Abort(c) \/ DeadlockVictim(c)
    BY <1>2 DEF OrderNext
  <2>1. CASE \E q \in Requests : Call(c, q) \/ CallWorkflow(c, q) \/ CallSales(c, q)
                                 \/ CallClose(c, q)
    BY <2>1, CallSums
  <2>2. CASE Statement(c) \/ OrderStatement(c)
    BY <2>2, StatementSums, OrderStatementSums
  <2>3. CASE Commit(c) \/ CommitOrder(c)
    BY <2>3, CommitSums DEF Commit, CommitOrder
  <2>4. CASE Abort(c) \/ DeadlockVictim(c)
    <3>1. Refuse(c, "unknown")
      BY <2>4 DEF Abort, DeadlockVictim
    <3> QED
      BY <3>1, RefuseSums
  <2> QED
    BY <2>1, <2>2, <2>3, <2>4
<1> QED
  BY <1>1, <1>2

-----------------------------------------------------------------------------
LEMMA ActiveReserved ==
  ASSUME WorkflowInv, SumInv
  PROVE  ReservedIsActive
<1> SUFFICES ASSUME NEW b \in Balances
             PROVE  BalanceOf(b).reserved = SumOver(Reserved(b, {"active"}), Quantity)
  BY DEF ReservedIsActive
<1>1. Adds(db, b, 0)
  BY DEF SumInv
<1>2. Active(db, b) = Reserved(b, {"active"})
  <2>1. \A k \in Keys : k \in Active(db, b) <=> k \in Reserved(b, {"active"})
    BY DEF Active, Reserved
  <2> QED
    BY <2>1 DEF Active, Reserved
<1>3. Amounts(db, b) = [k \in Reserved(b, {"active"}) |-> Quantity(k)]
  BY <1>2 DEF Amounts, Quantity
<1> DEFINE n == SumOver(Reserved(b, {"active"}), Quantity)
<1>4. n = SumFunctionOnSet(Amounts(db, b), Active(db, b))
  BY <1>2, <1>3 DEF SumOver
<1>5. BalanceOf(b).reserved = n + 0
  BY <1>1, <1>4 DEF Adds, BalanceOf, Row
<1>6. n \in Int
  <2>1. IsFiniteSet(Active(db, b))
    BY <1>1 DEF Adds
  <2>2. \A k \in Active(db, b) : db[ReservationRow(k)].quantity \in Int
    <3> SUFFICES ASSUME NEW k \in Active(db, b), NEW r, r = ReservationRow(k)
                 PROVE  db[r].quantity \in Int
      OBVIOUS
    <3>1. k \in Keys /\ db[r].status = "active"
      BY DEF Active
    <3>2. r \in StockRows /\ r[1] = "reservation"
      BY <3>1, StockRowsAre, StockKinds
    <3>3. db[r] \in ReservationType
      BY <3>2 DEF WorkflowInv, Tables, StockIs
    <3> QED
      BY <3>1, <3>3 DEF ReservationType, Absent, Quantities
  <2>4. \A k \in Active(db, b) : Amounts(db, b)[k] \in Int
    BY <2>2 DEF Amounts
  <2>3. SumFunctionOnSet(Amounts(db, b), Active(db, b)) \in Int
    BY ONLY <2>1, <2>4, SumInt
  <2> QED
    BY <1>4, <2>3
<1> HIDE DEF n
<1>7. BalanceOf(b).reserved = n
  BY <1>5, <1>6
<1> QED
  BY <1>7 DEF n

\* What every statement of Inventory can rely on, for any clients, orders, lines
\* and quantities: rows have their shape, a row has one holder, what is reserved
\* is what the active reservations add up to, and it stays on hand.
THEOREM StockAlwaysHolds == OrderSpec => []StockInv
<1>1. OrderInit => WorkflowInv /\ SumInv
  BY WorkflowInvInit, SumInit
<1>2. WorkflowInv /\ SumInv /\ [OrderNext]_sessionVars => (WorkflowInv /\ SumInv)'
  <2>1. ASSUME WorkflowInv, SumInv, [OrderNext]_sessionVars
        PROVE  (WorkflowInv /\ SumInv)'
    BY <2>1, WorkflowInvNext, SumInvNext
  <2> QED
    BY <2>1
<1>3. WorkflowInv /\ SumInv => StockInv
  <2> SUFFICES ASSUME WorkflowInv, SumInv
               PROVE  StockInv
    OBVIOUS
  <2>1. InventoryTypeOK
    BY RowTypes DEF OrderTypeOK, InventoryTypeOK
  <2>2. RowsHaveOneHolder /\ ReservedStaysOnHand
    BY OneHolder, ReservedStays
  <2>3. ReservedIsActive
    BY ActiveReserved
  <2> QED
    BY <2>1, <2>2, <2>3 DEF StockInv
<1> QED
  BY <1>1, <1>2, <1>3, PTL DEF OrderSpec
=============================================================================
