------------------------------ MODULE Cutover ------------------------------
(***************************************************************************)
(* Moving a legal entity from the PostgreSQL ledger to TigerBeetle         *)
(* (modules/accounting/src/postgres.ts), while intents are created, runs   *)
(* of PostgresqlLedger go on and revenue is posted by the legacy path.     *)
(*                                                                         *)
(* The evidence that approving verifies (artifact, signature, checkpoint)  *)
(* is taken for valid and always the same.  Nothing in the code writes     *)
(* verification_pending.  The account, period and profile rows that an     *)
(* intent locks after the rows here only make others wait.                 *)
(***************************************************************************)
EXTENDS Accounting

CONSTANTS Scenes   \* what may be asked, and the operations at first

ControlRow == <<"control", "entity">>

(* The rows of the move, and of the operations and their accounts.         *)
CutoverRows == {ConfigurationRow, ControlRow} \cup {OperationRow(o) : o \in Operations}
               \cup {AccountRow(a) : a \in Accounts}

(* The operations at first are stored as any other, or not there; those    *)
(* that were posted leave no account beyond its constraint, unless one was *)
(* given up since.                                                         *)
StoredAsPosted(row) == row.engine = "postgresql"
                       /\ row.status \in {"accepted", "reconciled", "manual_recovery"}

PostedOf(rows) == {o \in Operations : rows[o].status # Absent /\ rows[o].posted}

ASSUME CutoverAssumption ==
  /\ NoRow \notin CutoverRows
  /\ \A q \in Requests : q.op \in {"run", "intent"} => q.operation \in Operations
  /\ \A scene \in Scenes :
       /\ scene.asked \subseteq Requests /\ DOMAIN scene.operations = Operations
       /\ \A o \in Operations : LET row == scene.operations[o] IN
            row.status # Absent => /\ row.status \in Pending \cup Decided
                                   /\ DOMAIN row = DOMAIN NewOperation("intent", "postgresql")
                                   /\ row.posted => StoredAsPosted(row)
       /\ LET posted == PostedOf(scene.operations) IN
          (\A o \in posted : scene.operations[o].status # "manual_recovery")
            => \A a \in Accounts : Within(posted, a)

Engine == db[ConfigurationRow].status

CallCutover(c, q) ==
  \/ q.op = "intent" /\ Begin(c, q, "find", OperationRow(q.operation), <<>>)
  \/ q.op = "prepare" /\ Begin(c, q, "configuration", ConfigurationRow, <<>>)
  \/ q.op \in {"approve", "activate"} /\ Begin(c, q, "control", ControlRow, <<>>)

-----------------------------------------------------------------------------
(* createJournalIntent.  A process is deployed with one ledger, or none.   *)

FindIntent(c) ==
  /\ Ready(c, "find") /\ At(c, "intent")
  /\ IF Present(session[c].row) THEN CommitLast(c, <<>>, "ok")
     ELSE Goes(c, <<>>, "configuration", ConfigurationRow)

LockConfiguration(c) ==
  /\ Ready(c, "configuration") /\ (At(c, "intent") \/ At(c, "prepare"))
  /\ Goes(c, <<>>, "control", ControlRow)

AdmitIntent(c) ==
  /\ Ready(c, "control") /\ At(c, "intent")
  /\ IF Asked(c).authority \in {"none", Engine} /\ db[ControlRow].status = Engine
     THEN Goes(c, <<>>, "record", OperationRow(Asked(c).operation))
     ELSE Refuse(c, "not activated")

(* Who loses the unique key reads the operation that won it.               *)
RecordIntent(c) ==
  /\ Ready(c, "record") /\ At(c, "intent")
  /\ LET r == session[c].row IN
     IF Present(r) THEN Refuse(c, "ok")
     ELSE CommitLast(c, RowIs(r, NewOperation("intent", Engine)), "ok")

-----------------------------------------------------------------------------
(* prepareTigerBeetleCutover, approveTigerBeetleCutover *)

Control(status) == RowIs(ControlRow, [status |-> status])
Routed(engine) == RowIs(ConfigurationRow, [db[ConfigurationRow] EXCEPT !.status = engine])

Prepare(c) ==
  /\ Ready(c, "control") /\ At(c, "prepare")
  /\ CASE db[ControlRow].status = "tigerbeetle" \/ Engine = "tigerbeetle" ->
            Refuse(c, "activated")
       [] db[ControlRow].status = "postgresql" /\ Engine = "postgresql" ->
            CommitLast(c, Control("preparing_tigerbeetle"), "ok")
       [] OTHER -> CommitLast(c, <<>>, "ok")

LockControl(c) ==
  /\ Ready(c, "control") /\ At(c, "approve")
  /\ LET status == db[ControlRow].status IN
     CASE status \in {"tigerbeetle", "approved"} -> CommitLast(c, <<>>, "ok")
       [] status = "postgresql" -> Refuse(c, "not prepared")
       [] OTHER -> Goes(c, <<>>, "configuration", ConfigurationRow)

Unresolved == {o \in Operations : Present(OperationRow(o))
                                  /\ db[OperationRow(o)].status
                                       \in Pending \cup {"manual_recovery"}}

(* Mutant: what is unresolved is not looked for.                           *)
ApproveUnchecked(c) ==
  /\ Ready(c, "configuration") /\ At(c, "approve")
  /\ IF Engine = "postgresql" /\ db[ControlRow].status = "preparing_tigerbeetle"
     THEN CommitLast(c, Control("approved"), "ok") ELSE Refuse(c, "blocked")

(* The evidence that a call names is in order, and its checkpoint verified.*)
Approvable == Engine = "postgresql" /\ Unresolved = {}

(* An activation that has begun is not approved again: the database's      *)
(* trigger refuses it.                                                     *)
Approve(c) ==
  /\ Ready(c, "configuration") /\ At(c, "approve")
  /\ IF Approvable /\ db[ControlRow].status = "preparing_tigerbeetle"
     THEN CommitLast(c, Control("approved"), "ok") ELSE Refuse(c, "blocked")

-----------------------------------------------------------------------------
(* activateTigerBeetleCutover *)

BeginActivation(c) ==
  /\ Ready(c, "control") /\ At(c, "activate")
  /\ LET status == db[ControlRow].status IN
     CASE status = "tigerbeetle" -> CommitLast(c, <<>>, "ok")
       [] status \in {"approved", "activating"} ->
            Goes(c, <<>>, "configuration", ConfigurationRow)
       [] OTHER -> Refuse(c, "blocked")

MarkActivating(c) ==
  /\ Ready(c, "configuration") /\ At(c, "activate")
  /\ IF Engine # "postgresql" THEN Refuse(c, "blocked")
     ELSE CommitThen(c, Control("activating"), "provision", NoRow, <<>>)

(* Each account is created at TigerBeetle; one that is not accepted ends   *)
(* the call and leaves the control as it is.                               *)
Provision(c) ==
  /\ session[c].at = "provision" /\ At(c, "activate")
  /\ \/ Goes(c, <<>>, "switch", ConfigurationRow)
     \/ Refuse(c, "blocked")

(* Mutant: the switch is a transaction of its own.                         *)
SwitchAlone(c) ==
  /\ Ready(c, "switch") /\ At(c, "activate")
  /\ IF Engine = "postgresql" /\ db[ControlRow].status # "activating" THEN Refuse(c, "unknown")
     ELSE CommitThen(c, Routed("tigerbeetle"), "complete", ControlRow, <<>>)

(* The database's trigger lets the engine change only while activating.    *)
Switch(c) ==
  /\ Ready(c, "switch") /\ At(c, "activate")
  /\ IF Engine = "postgresql" /\ db[ControlRow].status # "activating" THEN Refuse(c, "unknown")
     ELSE Goes(c, Routed("tigerbeetle"), "complete", ControlRow)

Complete(c) ==
  /\ Ready(c, "complete") /\ At(c, "activate")
  /\ CASE db[ControlRow].status = "activating" -> CommitLast(c, Control("tigerbeetle"), "ok")
       [] db[ControlRow].status = "tigerbeetle" -> CommitLast(c, <<>>, "ok")
       [] OTHER -> Refuse(c, "blocked")

-----------------------------------------------------------------------------

CutoverInit ==
  /\ \E scene \in Scenes :
       /\ db = Over(Control("postgresql"), Over(LedgerRows(scene.operations), BooksRows))
       /\ answers = [q \in scene.asked |-> {}]
  /\ session = [c \in Clients |-> Idle]
  /\ calls = 0

CutoverStep(c) ==
  \/ FindIntent(c) \/ LockConfiguration(c) \/ AdmitIntent(c) \/ RecordIntent(c)
  \/ Prepare(c) \/ LockControl(c) \/ Approve(c)
  \/ BeginActivation(c) \/ MarkActivating(c) \/ Provision(c) \/ Switch(c) \/ Complete(c)

CutoverNext ==
  \E c \in Clients :
    \/ \E q \in DOMAIN answers : CallRun(c, q) \/ CallCutover(c, q) \/ CallBooks(c, q)
    \/ RunStep(c) \/ CutoverStep(c) \/ BooksStep(c) \/ Abort(c) \/ DeadlockVictim(c)

CutoverSpec == CutoverInit /\ [][CutoverNext]_sessionVars

-----------------------------------------------------------------------------
(***************************************************************************)
(* What holds of the books of a legal entity on the PostgreSQL ledger, and *)
(* of its move to TigerBeetle, whatever runs and calls overlap or fail.    *)
(***************************************************************************)

PostedOperations == {o \in Operations : Present(OperationRow(o)) /\ db[OperationRow(o)].posted}

\* No account is drawn beyond its balance constraint by the operations that were
\* posted, also by runs that read the balances at once, as long as none of them
\* was given up for manual recovery after it was posted.
BalancesHold ==
  (\A o \in PostedOperations : db[OperationRow(o)].status # "manual_recovery")
    => \A a \in Accounts : Within(PostedOperations, a)

\* The ADR's promise for the PostgreSQL ledger: the constraint holds of all that
\* was posted, whatever became of the operations since.
PostedBalancesHold == \A a \in Accounts : Within(PostedOperations, a)

\* Once the entity is on TigerBeetle nothing is left that only the PostgreSQL
\* ledger could finish: intents that were being created, and runs that were going
\* on, when the move was approved and activated did not slip through.
CutoverIsClean ==
  Engine = "tigerbeetle" =>
    \A o \in Operations : LET row == db[OperationRow(o)] IN
      Present(OperationRow(o)) /\ row.engine = "postgresql" => row.status \in Decided

\* The route and the control change together: no committed state has one on
\* TigerBeetle and the other not, through activations that overlap, fail between
\* their transactions or are started again.
EngineFollowsControl == Engine = "tigerbeetle" <=> db[ControlRow].status = "tigerbeetle"

BooksOps == {"configure entity", "create account", "configure revenue", "open period",
             "close period", "cancel order", "post revenue", "reverse revenue", "post journal"}

BooksOf(rows) ==
  <<[e \in Entities |-> rows[ConfigurationOf(e)]], [e \in Entities |-> rows[ProfileRow(e)]],
    [e \in Entities |-> [p \in Periods |-> rows[PeriodRow(e, p)]]],
    [a \in Codes |-> rows[AccountCodeRow(a)]]>>

\* The adapters agree: the books and every answer to a caller are what the memory
\* adapter, which does one operation at a time, would come to.  So an order's
\* revenue is posted once and only while it is confirmed, reversed once, and
\* neither is posted into a period that was closed meanwhile; a reference is given
\* to one journal, and who asks again gets that journal and no other's.
Memory ==
  INSTANCE AccountingMemory WITH
    Unstored <- [status |-> Absent],
    Books <- BooksOf(Over(RowIs(ConfigurationRow, Configured("postgresql", TRUE)), BooksRows)),
    configurations <- BooksOf(db)[1], profiles <- BooksOf(db)[2], periods <- BooksOf(db)[3],
    storedAccounts <- BooksOf(db)[4],
    storedJournals <- [x \in References |-> db[JournalRow(x)]],
    announced <- [o \in Orders |-> db[RevenueEventRow(o)]],
    orders <- [o \in Orders |-> db[OrderRow(o)].status],
    answers <- [q \in {q \in DOMAIN answers : q.op \in BooksOps} |-> answers[q]]

BooksBehaveAsMemory == Memory!Spec
=============================================================================
