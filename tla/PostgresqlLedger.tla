-------------------------- MODULE PostgresqlLedger --------------------------
(***************************************************************************)
(* The PostgreSQL ledger (modules/accounting/src/postgresql-ledger.ts) as  *)
(* the engine of the financial operations that a worker runs               *)
(* (submit of modules/accounting/src/financial-operations.ts).             *)
(*                                                                         *)
(* A run is a call of several transactions.  Those that lock one row and   *)
(* write it are one step here; the posting, which locks the operation and  *)
(* then its accounts in any order, goes statement by statement.  Runs of   *)
(* one operation overlap when a lease is lost: each has the generation of  *)
(* its lease, later ones a higher one (the number of the call).            *)
(*                                                                         *)
(* Left out: whether posting is enabled, the period and the actor's        *)
(* authorization, which FinancialOperations has, and every comparison of   *)
(* mappings and identities of transfers: both sides derive them from the   *)
(* same journal.                                                           *)
(***************************************************************************)
EXTENDS Sessions, FiniteSetsExt

CONSTANTS Operations, Accounts,
          Movement,       \* debits less credits of each account, by operation
          DebitNormal     \* accounts of type asset and expense

ASSUME LedgerAssumption ==
  /\ IsFiniteSet(Operations) /\ Movement \in [Operations -> [Accounts -> Int]]
  /\ DebitNormal \subseteq Accounts

OperationRow(o) == <<"operation", o>>
AccountRow(a) == <<"account", a>>
ConfigurationOf(e) == <<"configuration", e>>
ConfigurationRow == ConfigurationOf("entity")   \* of the legal entity of the operations

Configured(engine, posting) == [status |-> engine, posting |-> posting]

NewOperation(status, engine) ==
  [status |-> status, engine |-> engine, posted |-> status = "reconciled",
   fence |-> 0, reconcile |-> FALSE]

(* The rows at first, with these operations.                               *)
LedgerRows(operations) ==
  Over([r \in {OperationRow(o) : o \in Operations} |-> operations[r[2]]],
       Over([r \in {AccountRow(a) : a \in Accounts} |-> [status |-> "open"]],
            RowIs(ConfigurationRow, Configured("postgresql", TRUE))))

Asked(c) == session[c].call
At(c, op) == session[c] # Idle /\ Asked(c).op = op
Row(c) == db[session[c].row]

Generation(c) == session[c].todo[1]
Reconciles(c) == session[c].todo[2]
Outcome(c) == session[c].todo[3]

-----------------------------------------------------------------------------
(* The transactions of a call.                                             *)

(* One commits w and what it has written, and the call goes on.            *)
CommitThen(c, w, at, row, todo) ==
  /\ db' = Over(w, Over(session[c].mine, db))
  /\ session' = [session EXCEPT ![c] =
       [Idle EXCEPT !.call = Asked(c), !.at = at, !.row = row, !.todo = todo]]
  /\ UNCHANGED <<answers, calls>>

(* One commits w and what it has written, and the call returns.            *)
CommitLast(c, w, outcome) == db' = Over(w, Over(session[c].mine, db)) /\ Answer(c, outcome)

(* The run has what it writes in its receipt.                              *)
Receive(c, w, out) ==
  CommitThen(c, w, "receipt", OperationRow(Asked(c).operation),
             <<Generation(c), Reconciles(c), out>>)

-----------------------------------------------------------------------------
(* A run. *)

(* enforce_financial_operation_transition, of the database.                *)
NextStatuses ==
  [intent |-> {"submitted", "manual_recovery"},
   submitted |-> {"accepted", "reconciled", "rejected", "unknown", "manual_recovery"},
   unknown |-> {"submitted", "manual_recovery"},
   accepted |-> {"reconciled", "manual_recovery"},
   reconciled |-> {"manual_recovery"}, rejected |-> {}, manual_recovery |-> {}]

MayBecome(from, to) == to = from \/ to \in NextStatuses[from]

Pending == {"intent", "submitted", "accepted", "unknown"}
Decided == {"reconciled", "rejected", "manual_recovery"}

(* A worker runs the submit job of an operation, or the reconcile job that *)
(* an unknown outcome has left.                                            *)
CallRun(c, q) ==
  /\ q.op = "run"
  /\ Present(OperationRow(q.operation))
  /\ q.reconcile => db[OperationRow(q.operation)].reconcile
  /\ Begin(c, q, "state", OperationRow(q.operation), <<calls + 1, q.reconcile, "none">>)

(* acceptExecutionFence: an older generation is refused, a newer one       *)
(* stays in the row.                                                       *)
Stale(c) == Generation(c) < db[OperationRow(Asked(c).operation)].fence
Fenced(c, row) == [row EXCEPT !.fence = Generation(c)]

(* submit: an operation that was submitted before is looked up first.      *)
LookedUp(c, row) == row.status # "intent" \/ Reconciles(c)
Attempted(row) == IF row.status \in {"intent", "unknown"}
                  THEN [row EXCEPT !.status = "submitted"] ELSE row

ReadState(c) ==
  /\ Ready(c, "state") /\ At(c, "run")
  /\ LET r == session[c].row
         row == Fenced(c, Row(c))
     IN IF Stale(c) THEN Refuse(c, "stale")
        ELSE CASE row.status \in Decided -> CommitLast(c, RowIs(r, row), "ok")
               [] row.status \in Pending /\ row.engine # "postgresql" ->
                    Receive(c, RowIs(r, row), "manual_recovery")
               [] row.status \in Pending /\ row.engine = "postgresql" ->
                    IF LookedUp(c, row)
                    THEN CommitThen(c, RowIs(r, Attempted(row)), "accounts", r,
                                    <<Generation(c), TRUE, "none">>)
                    ELSE Goes(c, RowIs(r, row), "configuration", ConfigurationRow)

(* An intent: the engine of the legal entity is compared under its lock.   *)
SubmitIntent(c) ==
  /\ Ready(c, "configuration") /\ At(c, "run")
  /\ LET o == OperationRow(Asked(c).operation)
         row == Sees(c, o)
     IN IF Row(c).status # row.engine THEN Receive(c, RowIs(o, row), "manual_recovery")
        ELSE CommitThen(c, RowIs(o, Attempted(row)), "accounts", o, <<Generation(c), FALSE, "none">>)

(* createExecutionAccount reads the accounts, which exist; then the fence  *)
(* is checked again.  A failure to read is an unknown outcome.             *)
FindAccounts(c) ==
  /\ Ready(c, "accounts") /\ At(c, "run")
  /\ \/ Receive(c, <<>>, "unknown")
     \/ Stale(c) /\ Refuse(c, "stale")
     \/ ~Stale(c) /\ CommitThen(c, RowIs(session[c].row, Fenced(c, Row(c))),
                                IF Reconciles(c) THEN "lookup" ELSE "post",
                                session[c].row, session[c].todo)

(* reconcileJournal, without a lock; the journal of an accepted operation  *)
(* is posted with it.                                                      *)
LookupJournal(c) ==
  /\ session[c].at = "lookup" /\ At(c, "run")
  /\ LET status == Row(c).status IN
     IF status \in {"accepted", "reconciled"} THEN Receive(c, <<>>, "accepted")
     ELSE IF status \in {"rejected", "manual_recovery"} THEN Receive(c, <<>>, status)
     ELSE CommitThen(c, <<>>, "post", session[c].row, session[c].todo)

Touched(o) == {a \in Accounts : Movement[o][a] # 0}
Unlocked(c) == {a \in Touched(Asked(c).operation) : AccountRow(a) \notin session[c].locks}

(* postJournal, under the lock of the operation.                           *)
PostOperation(c) ==
  /\ Ready(c, "post") /\ At(c, "run")
  /\ LET status == Row(c).status IN
     IF status \in {"accepted", "reconciled"} THEN Receive(c, <<>>, "accepted")
     ELSE IF status \in {"rejected", "manual_recovery"} THEN Receive(c, <<>>, status)
     ELSE \E a \in Unlocked(c) : Goes(c, <<>>, "account", AccountRow(a))

(* readPostedLines counts the operations it takes for posted.              *)
Counted(o) == Present(OperationRow(o)) /\ LET row == db[OperationRow(o)] IN
              row.engine = "postgresql" /\ row.posted
              /\ row.status \in {"accepted", "reconciled"}

BalanceOf(S, a) == SumFunctionOnSet([o \in Operations |-> Movement[o][a]], S)

Within(S, a) == IF a \in DebitNormal THEN BalanceOf(S, a) >= 0 ELSE BalanceOf(S, a) <= 0

Holds(o) == \A a \in Touched(o) :
              Within({p \in Operations : Counted(p)} \cup {o}, a)

Accepted(row) == [row EXCEPT !.status = "accepted", !.posted = TRUE]

(* Mutant: the accounts are read without FOR UPDATE.                       *)
PostUnlocked(c) ==
  /\ session[c].at = "account" /\ At(c, "run")
  /\ LET o == Asked(c).operation
         r == OperationRow(o)
     IN IF Holds(o) THEN Goes(c, RowIs(r, Accepted(db[r])), "commit", NoRow)
        ELSE Receive(c, <<>>, "rejected")

(* With the last account's lock the balances are read and the operation is *)
(* accepted with its journal, or rejected with nothing written.            *)
LockAccount(c) ==
  /\ Ready(c, "account") /\ At(c, "run")
  /\ LET o == Asked(c).operation
         r == OperationRow(o)
         rest == {a \in Unlocked(c) : AccountRow(a) # session[c].row}
     IN CASE rest # {} -> \E a \in rest : Goes(c, <<>>, "account", AccountRow(a))
          [] rest = {} /\ Holds(o) -> Goes(c, RowIs(r, Accepted(db[r])), "commit", NoRow)
          [] OTHER -> Receive(c, <<>>, "rejected")

CommitPosting(c) ==
  /\ session[c].at = "commit" /\ At(c, "run")
  /\ \E out \in {"accepted", "lost"} : Receive(c, <<>>, out)

(* A DatabaseFailure of the ledger before its commit: the outcome is for   *)
(* an operation "unknown", whatever was asked for.                         *)
LedgerFails(c) ==
  /\ session[c].at \in {"lookup", "post", "account", "commit"} /\ At(c, "run")
  /\ session' = [session EXCEPT ![c] =
       [Idle EXCEPT !.call = Asked(c), !.at = "receipt",
                    !.row = OperationRow(Asked(c).operation),
                    !.todo = <<Generation(c), Reconciles(c), "lost">>]]
  /\ UNCHANGED <<db, answers, calls>>

(* writeReceipt.  An outcome of another operation's name needs an          *)
(* operator, whatever is known; what the database's trigger refuses fails. *)
StatusFor(out) == IF out = "lost" THEN "manual_recovery" ELSE out

Received(row, out) == [row EXCEPT !.status = StatusFor(out), !.reconcile = @ \/ out = "unknown"]

WriteReceipt(c) ==
  /\ Ready(c, "receipt") /\ At(c, "run")
  /\ LET r == session[c].row
         row == Fenced(c, Row(c))
         out == Outcome(c)
         stays == out # "lost" /\ row.status = "reconciled"
         conflicts == out \notin {"lost", "accepted"} /\ row.status = "accepted"
     IN IF Stale(c) THEN Refuse(c, "stale")
        ELSE CASE stays -> CommitLast(c, RowIs(r, row), "ok")
               [] conflicts -> Refuse(c, "conflict")
               [] ~stays /\ ~conflicts ->
                    IF ~MayBecome(row.status, StatusFor(out)) THEN Refuse(c, "unknown")
                    ELSE IF out = "accepted"
                    THEN CommitThen(c, RowIs(r, Received(row, out)), "finalize", r, session[c].todo)
                    ELSE CommitLast(c, RowIs(r, Received(row, out)), "ok")

(* finalizeAccepted; the journal is posted already.                        *)
Finalize(c) ==
  /\ Ready(c, "finalize") /\ At(c, "run")
  /\ LET r == session[c].row
         row == Fenced(c, Row(c))
     IN IF Stale(c) THEN Refuse(c, "stale")
        ELSE CommitLast(c, RowIs(r, IF row.status = "accepted"
                                      THEN [row EXCEPT !.status = "reconciled"] ELSE row), "ok")

RunStep(c) ==
  \/ ReadState(c) \/ SubmitIntent(c) \/ FindAccounts(c) \/ LookupJournal(c) \/ PostOperation(c)
  \/ LockAccount(c) \/ CommitPosting(c) \/ LedgerFails(c) \/ WriteReceipt(c) \/ Finalize(c)
=============================================================================
