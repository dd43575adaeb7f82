--------------------------- MODULE Communication ---------------------------
(***************************************************************************)
(* The mail that follows a confirmed purchase order: consumeOnce of        *)
(* modules/messaging/src/postgres.ts, run by the communication service     *)
(* (modules/communication/src/service.ts) on the events that Procurement   *)
(* confirms.                                                               *)
(*                                                                         *)
(* The receipt of a consumer is a row; the communication it stands for is  *)
(* in the memory of the process, set while the transaction is still open   *)
(* and gone when the process starts again.  Clients are the calls that     *)
(* this one process runs at once.  Recipients, contexts, templates and     *)
(* what a mail says are left out; the key of an event is the idempotency   *)
(* key of its communication.                                               *)
(***************************************************************************)
EXTENDS Procurement

CONSTANTS MaxRestarts   \* bound on the restarts of the process

VARIABLES memory,    \* the communications of the process, by their number
          byEvent,   \* the last of them stored for each event, or 0
          sent,      \* mails given to the transport for each event
          restarts

mailVars == <<memory, byEvent, sent, restarts>>
vars == <<sessionVars, mailVars>>

ConsumerRow(k) == <<"consumer receipt", k>>
ConsumerRows == [r \in {ConsumerRow(k) : k \in ConfirmationKeys} |-> [status |-> Absent]]

Known(n) == n \in DOMAIN memory
NewNumber == Len(memory) + 1

CallCommunication(c, q) ==
  /\ \/ q.op = "notify" /\ Begin(c, q, "source", ConsumerRow(q.key), <<q>>)
     \/ q.op \in {"deliver", "retry"} /\ Begin(c, q, "attempts", NoRow, <<q>>)
  /\ UNCHANGED mailVars

-----------------------------------------------------------------------------
(* processPurchaseOrderConfirmed *)

AnswerDuplicate(c) ==
  IF Known(byEvent[Asked(c).key]) THEN Refuse(c, "ok") ELSE Refuse(c, "no communication")

(* consumeOnce reads the event and its receipt, without a lock.            *)
FindSource(c) ==
  /\ session[c].at = "source" /\ At(c, "notify")
  /\ IF ~Present(ConfirmedEventRow(Asked(c).key)) THEN Refuse(c, "no event")
     ELSE IF Present(session[c].row) THEN AnswerDuplicate(c)
     ELSE Goes(c, <<>>, "derive", NoRow)
  /\ UNCHANGED mailVars

(* processEvent: a communication that is stored under the key stands for   *)
(* this event too.                                                         *)
Derive(c) ==
  /\ session[c].at = "derive" /\ At(c, "notify")
  /\ IF Known(byEvent[Asked(c).key]) THEN Goes(c, <<>>, "record", ConsumerRow(Asked(c).key))
     ELSE Goes(c, <<>>, "render", NoRow)
  /\ UNCHANGED mailVars

(* Mutant: the communication is not entered under its event.               *)
StoreUnindexed(c) ==
  /\ session[c].at = "render" /\ At(c, "notify")
  /\ LET k == Asked(c).key IN
     /\ memory' = Append(memory, [event |-> k, attempts |-> 0])
     /\ Goes(c, <<>>, "record", ConsumerRow(k))
  /\ UNCHANGED <<byEvent, sent, restarts>>

(* Rendering takes time; what others stored meanwhile is written over.     *)
Store(c) ==
  /\ session[c].at = "render" /\ At(c, "notify")
  /\ LET k == Asked(c).key IN
     /\ memory' = Append(memory, [event |-> k, attempts |-> 0])
     /\ byEvent' = [byEvent EXCEPT ![k] = NewNumber]
     /\ Goes(c, <<>>, "record", ConsumerRow(k))
  /\ UNCHANGED <<sent, restarts>>

(* The receipt; who loses its key is a duplicate.                          *)
RecordConsumer(c) ==
  /\ Ready(c, "record") /\ At(c, "notify")
  /\ IF Present(session[c].row) THEN AnswerDuplicate(c)
     ELSE Returns(c, session[c].row :> [status |-> "recorded"])
  /\ UNCHANGED mailVars

-----------------------------------------------------------------------------
(* deliver, retry *)

CheckAttempts(c) ==
  /\ session[c].at = "attempts"
  /\ LET n == Asked(c).number IN
     IF ~Known(n) THEN Refuse(c, "not found")
     ELSE IF (At(c, "deliver") /\ memory[n].attempts = 0)
             \/ (At(c, "retry") /\ memory[n].attempts > 0)
     THEN Goes(c, <<>>, "send", NoRow)
     ELSE Refuse(c, "invalid")
  /\ UNCHANGED mailVars

(* External: the transport takes the mail, or fails with or without it.    *)
Send(c) ==
  /\ session[c].at = "send"
  /\ \/ /\ sent' = [sent EXCEPT ![memory[Asked(c).number].event] = @ + 1]
        /\ \/ Goes(c, <<>>, "receipt", NoRow) \/ Refuse(c, "unknown")
     \/ UNCHANGED sent /\ Refuse(c, "unknown")
  /\ UNCHANGED <<memory, byEvent, restarts>>

(* The attempt is counted when the transport has answered.                 *)
CountAttempt(c) ==
  /\ session[c].at = "receipt"
  /\ memory' = [memory EXCEPT ![Asked(c).number].attempts = @ + 1]
  /\ Refuse(c, "ok")
  /\ UNCHANGED <<byEvent, sent, restarts>>

-----------------------------------------------------------------------------

(* The process starts again: its calls are cut off, its memory is empty.   *)
Restart ==
  /\ restarts < MaxRestarts
  /\ restarts' = restarts + 1
  /\ memory' = <<>>
  /\ byEvent' = [k \in ConfirmationKeys |-> 0]
  /\ session' = [c \in Clients |-> Idle]
  /\ UNCHANGED <<db, answers, calls, sent>>

CommunicationInit ==
  /\ db = InitialPurchases @@ InitialStock @@ ConsumerRows
  /\ session = [c \in Clients |-> Idle]
  /\ answers = [q \in Requests |-> {}]
  /\ calls = 0
  /\ memory = <<>>
  /\ byEvent = [k \in ConfirmationKeys |-> 0]
  /\ sent = [k \in ConfirmationKeys |-> 0]
  /\ restarts = 0

CommunicationStep(c) ==
  \/ FindSource(c) \/ Derive(c) \/ Store(c) \/ RecordConsumer(c)
  \/ CheckAttempts(c) \/ Send(c) \/ CountAttempt(c)

CommunicationNext ==
  \/ ProcurementNext /\ UNCHANGED mailVars
  \/ \E c \in Clients : CommunicationStep(c) \/ \E q \in Requests : CallCommunication(c, q)
  \/ Restart

CommunicationSpec == CommunicationInit /\ [][CommunicationNext]_vars

-----------------------------------------------------------------------------
(***************************************************************************)
(* What holds of purchase orders, their receipts, the stock they bring and *)
(* their mail, whatever calls run at once, are repeated, or are cut off.   *)
(***************************************************************************)

PurchaseRequests ==
  {q \in Requests : q.op \in {"create account", "create purchase", "confirm purchase",
                              "cancel purchase", "receive purchase"}}

\* The adapters agree: orders, announcements, receipts, stock and every answer to
\* a caller are what the memory adapter, which does one operation at a time, would
\* come to.  So an order is announced once, never received beyond what was ordered
\* by receipts that ran at once, never both cancelled and received, and a request
\* sent again while its first call commits meets no conflict with itself.
Memory ==
  INSTANCE ProcurementMemory WITH
    Requests <- PurchaseRequests, Ordered <- PurchaseLines,
    InitialStock <- Stock, Unstored <- [status |-> Absent],
    accounts <- [s \in Suppliers |-> db[AccountRow(s)]],
    orders <- [p \in Purchases |-> db[PurchaseRow(p)]],
    announced <- [k \in ConfirmationKeys |-> db[ConfirmedEventRow(k)]],
    storedReceipts <- [k \in ReceiptKeys |-> db[ReceiptRow(k)]],
    receivedQuantities <-
      [p \in Purchases |-> [l \in DOMAIN PurchaseLines[p] |-> ReceivedOf(p, l)]],
    onHand <- [b \in Balances |-> db[BalanceRow(b[1], b[2])].onHand],
    answers <- [q \in PurchaseRequests |-> answers[q]]

PurchasesBehaveAsMemory == Memory!Spec

\* As long as the process lives, an event that counts as consumed has its
\* communication: whoever asks for it again, also the loser of a race for the
\* receipt, is answered with one, whatever transactions failed in between.
ConsumedIsKnown ==
  restarts = 0 =>
    \A k \in ConfirmationKeys : Present(ConsumerRow(k)) =>
      Known(byEvent[k]) /\ memory[byEvent[k]].event = k
=============================================================================
