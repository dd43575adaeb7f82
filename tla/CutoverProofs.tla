--------------------------- MODULE CutoverProofs ---------------------------
(***************************************************************************)
(* Proofs about the books of a legal entity and its move to TigerBeetle,   *)
(* of any number of clients, operations, accounts and entities: no account *)
(* is overdrawn, the route follows the control, and nothing is left        *)
(* behind.                                                                 *)
(***************************************************************************)
EXTENDS Cutover, SessionsProofs

-----------------------------------------------------------------------------
(* The inductive invariant.                                                *)

IsOperation(row) ==
  /\ DOMAIN row = DOMAIN NewOperation("intent", "postgresql")
  /\ row.status \in Pending \cup Decided
  /\ row.posted => StoredAsPosted(row)

\* What an operation becomes keeps its ledger and what was posted, and is not
\* undecided again.
MovesOn(from, to) ==
  /\ IsOperation(to) /\ to.engine = from.engine /\ to.posted = from.posted
  /\ from.status \in Decided => to.status \in Decided
  /\ from.status = "manual_recovery" => to.status = "manual_recovery"

NoneGivenUp == \A o \in PostedOperations : db[OperationRow(o)].status # "manual_recovery"

\* From the approval on no operation of the PostgreSQL ledger is undecided.
Settling == Engine = "tigerbeetle" \/ db[ControlRow].status \in {"approved", "activating", "tigerbeetle"}

NoneLeftBehind ==
  \A o \in Operations : LET row == db[OperationRow(o)] IN
    Present(OperationRow(o)) /\ row.engine = "postgresql" => row.status \in Decided

Tables ==
  /\ CutoverRows \subseteq DOMAIN db
  /\ Engine \in {"postgresql", "tigerbeetle"} /\ "status" \in DOMAIN db[ConfigurationRow]
  /\ \A o \in Operations : Present(OperationRow(o)) => IsOperation(db[OperationRow(o)])
  /\ EngineFollowsControl
  /\ Settling => NoneLeftBehind
  /\ BalancesHold

\* The run of an operation has written what its row becomes, and holds it.
Opens(c, r) ==
  /\ r \in session[c].locks /\ DOMAIN session[c].mine = {r}
  /\ MovesOn(db[r], session[c].mine[r]) /\ db[r].status \in Pending

\* It has posted its operation, holds the accounts, and leaves them as they may be.
Holding(c, o) == \A a \in Touched(o) : AccountRow(a) \in session[c].locks

Fits(o) == NoneGivenUp => \A a \in Touched(o) : Within(PostedOperations \cup {o}, a)

HasPosted(c, o) ==
  LET r == OperationRow(o) IN
  /\ r \in session[c].locks /\ DOMAIN session[c].mine = {r}
  /\ session[c].mine[r] = Accepted(db[r]) /\ db[r].status \in Pending
  /\ Holding(c, o) /\ Fits(o)

RunStages == {"state", "accounts", "lookup", "post", "receipt", "finalize"}

\* Where a run goes only with an operation of the PostgreSQL ledger.
LedgerStages == {"configuration", "accounts", "lookup", "post", "account", "commit"}

RunIsAt(c) ==
  LET s == session[c]
      r == OperationRow(s.call.operation)
  IN  /\ s.call.operation \in Operations /\ Present(r)
      /\ s.at \in LedgerStages => db[r].engine = "postgresql"
      /\ \/ s.at \in RunStages /\ s.row = r /\ DOMAIN s.mine = {}
         \/ s.at = "configuration" /\ s.row = ConfigurationRow /\ Opens(c, r)
         \/ /\ s.at = "account" /\ s.row \in {AccountRow(a) : a \in Accounts} /\ DOMAIN s.mine = {}
            /\ r \in s.locks /\ db[r].status \in Pending
         \/ s.at = "commit" /\ s.row = NoRow /\ HasPosted(c, s.call.operation)

IntentIsAt(c) ==
  LET s == session[c]
      r == OperationRow(s.call.operation)
  IN  /\ s.call.operation \in Operations /\ DOMAIN s.mine = {}
      /\ \/ s.at = "find" /\ s.row = r
         \/ s.at = "configuration" /\ s.row = ConfigurationRow
         \/ s.at = "control" /\ s.row = ControlRow /\ ConfigurationRow \in s.locks
         \/ /\ s.at = "record" /\ s.row = r /\ {ConfigurationRow, ControlRow} \subseteq s.locks
            /\ db[ControlRow].status = Engine

PrepareIsAt(c) ==
  LET s == session[c] IN
  /\ DOMAIN s.mine = {}
  /\ \/ s.at = "configuration" /\ s.row = ConfigurationRow
     \/ s.at = "control" /\ s.row = ControlRow

ApproveIsAt(c) ==
  LET s == session[c] IN
  /\ DOMAIN s.mine = {}
  /\ \/ s.at = "control" /\ s.row = ControlRow
     \/ s.at = "configuration" /\ s.row = ConfigurationRow /\ ControlRow \in s.locks

ActivateIsAt(c) ==
  LET s == session[c] IN
  \/ s.at = "control" /\ s.row = ControlRow /\ DOMAIN s.mine = {}
  \/ /\ s.at = "configuration" /\ s.row = ConfigurationRow /\ DOMAIN s.mine = {}
     /\ ControlRow \in s.locks /\ db[ControlRow].status \in {"approved", "activating"}
  \/ s.at = "provision" /\ s.row = NoRow /\ DOMAIN s.mine = {}
  \/ s.at = "switch" /\ s.row = ConfigurationRow /\ DOMAIN s.mine = {}
  \/ /\ s.at = "complete" /\ s.row = ControlRow /\ DOMAIN s.mine = {ConfigurationRow}
     /\ ConfigurationRow \in s.locks
     /\ "status" \in DOMAIN s.mine[ConfigurationRow] /\ s.mine[ConfigurationRow].status = "tigerbeetle"

\* Calls of the books leave the rows of the move alone, but may lock the
\* configuration.
Elsewhere(at, row) == at = "posting" \/ row \notin CutoverRows

BooksIsAt(c) ==
  /\ DOMAIN session[c].mine \cap CutoverRows = {}
  /\ Elsewhere(session[c].at, session[c].row)

Where(c) ==
  session[c] # Idle =>
    LET op == session[c].call.op IN
    /\ session[c].call \in DOMAIN answers
    /\ op \in {"run", "intent", "prepare", "approve", "activate"} \cup BooksOps
    /\ op = "run" => RunIsAt(c)
    /\ op = "intent" => IntentIsAt(c)
    /\ op = "prepare" => PrepareIsAt(c)
    /\ op = "approve" => ApproveIsAt(c)
    /\ op = "activate" => ActivateIsAt(c)
    /\ op \in BooksOps => BooksIsAt(c)

\* None of these rows is held by another client.
Mine(c, r) == \A d \in Clients : d # c => r \notin session[d].locks

\* The tables agree, each call is where the rows and the locks it has taken tell,
\* and no two calls hold the same row of the move.
CutoverInv ==
  /\ Tables
  /\ SessionShape /\ DOMAIN answers \subseteq Requests
  /\ \A c \in Clients : Where(c)
  /\ \A c \in Clients, r \in CutoverRows : r \in session[c].locks => Mine(c, r)

-----------------------------------------------------------------------------
(* Rows. *)

LEMMA Rows ==
  /\ ConfigurationRow \in CutoverRows /\ ControlRow \in CutoverRows /\ NoRow \notin CutoverRows
  /\ \A o \in Operations : OperationRow(o) \in CutoverRows
  /\ \A a \in Accounts : AccountRow(a) \in CutoverRows
  /\ ConfigurationRow # ControlRow
  /\ \A o : OperationRow(o) # ConfigurationRow /\ OperationRow(o) # ControlRow
  /\ \A a : AccountRow(a) # ConfigurationRow /\ AccountRow(a) # ControlRow
  /\ \A o, a : OperationRow(o) # AccountRow(a)
  /\ \A o, p : OperationRow(o) = OperationRow(p) => o = p
BY CutoverAssumption
  DEF CutoverRows, ConfigurationRow, ConfigurationOf, ControlRow, OperationRow, AccountRow

LEMMA RowsElsewhere ==
  /\ \A a : AccountCodeRow(a) \notin CutoverRows
  /\ \A e : ProfileRow(e) \notin CutoverRows
  /\ \A e, p : PeriodRow(e, p) \notin CutoverRows
  /\ \A o : OrderRow(o) \notin CutoverRows /\ RevenueEventRow(o) \notin CutoverRows
  /\ \A x : JournalRow(x) \notin CutoverRows
<1>1. \A r \in CutoverRows : r[1] \in {"operation", "configuration", "control", "account"}
  BY DEF CutoverRows, ConfigurationRow, ConfigurationOf, ControlRow, OperationRow, AccountRow
<1>2. /\ \A a : AccountCodeRow(a)[1] = "accountCode"
      /\ \A e : ProfileRow(e)[1] = "profile"
      /\ \A e, p : PeriodRow(e, p)[1] = "period"
      /\ \A o : OrderRow(o)[1] = "order" /\ RevenueEventRow(o)[1] = "revenueEvent"
      /\ \A x : JournalRow(x)[1] = "journal"
  BY DEF AccountCodeRow, ProfileRow, PeriodRow, OrderRow, RevenueEventRow, JournalRow
<1> QED
  BY <1>1, <1>2

\* What a commit writes over the rows.
LEMMA Writes ==
  ASSUME NEW w, NEW mine, db' = Over(w, Over(mine, db))
  PROVE  /\ DOMAIN db' = DOMAIN w \cup DOMAIN mine \cup DOMAIN db
         /\ \A r \in DOMAIN w : db'[r] = w[r]
         /\ \A r \in DOMAIN mine \ DOMAIN w : db'[r] = mine[r]
         /\ \A r \in DOMAIN db \ (DOMAIN w \cup DOMAIN mine) : db'[r] = db[r]
<1> DEFINE rows == Over(mine, db)
<1>1. /\ DOMAIN rows = DOMAIN mine \cup DOMAIN db
      /\ \A r \in DOMAIN mine : rows[r] = mine[r]
      /\ \A r \in DOMAIN db \ DOMAIN mine : rows[r] = db[r]
  BY DEF Over
<1> HIDE DEF rows
<1>2. db' = Over(w, rows)
  BY DEF rows
<1>3. /\ DOMAIN db' = DOMAIN w \cup DOMAIN rows
      /\ \A r \in DOMAIN w : db'[r] = w[r]
      /\ \A r \in DOMAIN rows \ DOMAIN w : db'[r] = rows[r]
  BY <1>2 DEF Over
<1> QED
  BY <1>1, <1>3

\* It writes one row, or what the call had written.
LEMMA WritesOne ==
  ASSUME Tables, NEW c, NEW r, NEW v, DOMAIN session[c].mine \subseteq {r},
         db' = Over(RowIs(r, v), Over(session[c].mine, db))
  PROVE  /\ CutoverRows \subseteq DOMAIN db' /\ db'[r] = v
         /\ \A s \in CutoverRows : s # r => db'[s] = db[s]
<1> DEFINE mine == session[c].mine
           w == RowIs(r, v)
<1>1. DOMAIN w = {r} /\ w[r] = v
  BY RowIsRow
<1> HIDE DEF mine, w
<1>2. db' = Over(w, Over(mine, db))
  BY DEF mine, w
<1>3. /\ DOMAIN db' = DOMAIN w \cup DOMAIN mine \cup DOMAIN db
      /\ \A x \in DOMAIN w : db'[x] = w[x]
      /\ \A x \in DOMAIN mine \ DOMAIN w : db'[x] = mine[x]
      /\ \A x \in DOMAIN db \ (DOMAIN w \cup DOMAIN mine) : db'[x] = db[x]
  BY <1>2, Writes
<1> QED
  BY <1>1, <1>2, <1>3 DEF Tables, mine, w

LEMMA WritesHeld ==
  ASSUME Tables, NEW c, db' = Over(<<>>, Over(session[c].mine, db))
  PROVE  /\ CutoverRows \subseteq DOMAIN db'
         /\ \A r \in DOMAIN session[c].mine : db'[r] = session[c].mine[r]
         /\ \A s \in CutoverRows : s \notin DOMAIN session[c].mine => db'[s] = db[s]
<1> DEFINE mine == session[c].mine
<1>1. DOMAIN <<>> = {}
  OBVIOUS
<1> HIDE DEF mine
<1>2. db' = Over(<<>>, Over(mine, db))
  BY DEF mine
<1>3. /\ DOMAIN db' = DOMAIN <<>> \cup DOMAIN mine \cup DOMAIN db
      /\ \A x \in DOMAIN <<>> : db'[x] = <<>>[x]
      /\ \A x \in DOMAIN mine \ DOMAIN <<>> : db'[x] = mine[x]
      /\ \A x \in DOMAIN db \ (DOMAIN <<>> \cup DOMAIN mine) : db'[x] = db[x]
  BY <1>2, Writes
<1> QED
  BY <1>1, <1>2, <1>3 DEF Tables, mine

LEMMA WritesBoth ==
  ASSUME Tables, NEW c, NEW r, NEW v, NEW s, s # r, DOMAIN session[c].mine = {s},
         db' = Over(RowIs(r, v), Over(session[c].mine, db))
  PROVE  /\ CutoverRows \subseteq DOMAIN db' /\ db'[r] = v /\ db'[s] = session[c].mine[s]
         /\ \A x \in CutoverRows : x \notin {r, s} => db'[x] = db[x]
<1> DEFINE mine == session[c].mine
           w == RowIs(r, v)
<1>1. DOMAIN w = {r} /\ w[r] = v
  BY RowIsRow
<1> HIDE DEF mine, w
<1>2. db' = Over(w, Over(mine, db))
  BY DEF mine, w
<1>3. /\ DOMAIN db' = DOMAIN w \cup DOMAIN mine \cup DOMAIN db
      /\ \A x \in DOMAIN w : db'[x] = w[x]
      /\ \A x \in DOMAIN mine \ DOMAIN w : db'[x] = mine[x]
      /\ \A x \in DOMAIN db \ (DOMAIN w \cup DOMAIN mine) : db'[x] = db[x]
  BY <1>2, Writes
<1> QED
  BY <1>1, <1>2, <1>3 DEF Tables, mine, w

\* It writes elsewhere.
LEMMA WritesNone ==
  ASSUME Tables, NEW c, NEW w, DOMAIN w \cap CutoverRows = {},
         DOMAIN session[c].mine \cap CutoverRows = {},
         db' = Over(w, Over(session[c].mine, db))
  PROVE  /\ CutoverRows \subseteq DOMAIN db'
         /\ \A s \in CutoverRows : db'[s] = db[s]
<1> DEFINE mine == session[c].mine
<1> HIDE DEF mine
<1>2. db' = Over(w, Over(mine, db))
  BY DEF mine
<1>3. /\ DOMAIN db' = DOMAIN w \cup DOMAIN mine \cup DOMAIN db
      /\ \A x \in DOMAIN w : db'[x] = w[x]
      /\ \A x \in DOMAIN mine \ DOMAIN w : db'[x] = mine[x]
      /\ \A x \in DOMAIN db \ (DOMAIN w \cup DOMAIN mine) : db'[x] = db[x]
  BY <1>2, Writes
<1> QED
  BY <1>2, <1>3 DEF Tables, mine

-----------------------------------------------------------------------------
(* The tables. *)

OperationsKeep ==
  \A o \in Operations : Present(OperationRow(o)) =>
    Present(OperationRow(o))' /\ db'[OperationRow(o)].engine = db[OperationRow(o)].engine

\* The operations stay or come or move on, and none is posted.
OperationsStay ==
  OperationsKeep /\ PostedOperations' = PostedOperations /\ (NoneGivenUp' => NoneGivenUp)

\* The operation of client c is posted, whose accounts it holds.
OperationPosted(c) ==
  /\ OperationsKeep /\ (NoneGivenUp' => NoneGivenUp)
  /\ \E o \in Operations : PostedOperations' = PostedOperations \cup {o} /\ Holding(c, o)

\* What is posted stays within the constraints, when nothing more is.
LEMMA BalancesStay ==
  ASSUME BalancesHold, PostedOperations' = PostedOperations, NoneGivenUp' => NoneGivenUp
  PROVE  BalancesHold'
BY DEF BalancesHold, NoneGivenUp, Within, BalanceOf

LEMMA TablesStay ==
  ASSUME Tables, CutoverRows \subseteq DOMAIN db', \A r \in CutoverRows : db'[r] = db[r]
  PROVE  Tables' /\ OperationsStay
<1>1. \A o \in Operations : db'[OperationRow(o)] = db[OperationRow(o)]
  BY Rows
<1>2. OperationsStay
  BY <1>1 DEF OperationsStay, OperationsKeep, PostedOperations, NoneGivenUp, Present
<1>3. BalancesHold'
  BY <1>2, BalancesStay DEF Tables, OperationsStay
<1> QED
  BY <1>2, <1>3, Rows DEF Tables, Engine, EngineFollowsControl, Settling, NoneLeftBehind, Present

\* An operation moves on, and is not undecided again.
LEMMA OperationMoves ==
  ASSUME Tables, NEW o \in Operations, Present(OperationRow(o)), NEW v,
         CutoverRows \subseteq DOMAIN db', db'[OperationRow(o)] = v,
         \A r \in CutoverRows : r # OperationRow(o) => db'[r] = db[r],
         MovesOn(db[OperationRow(o)], v)
  PROVE  Tables' /\ OperationsStay
<1>1. db'[ConfigurationRow] = db[ConfigurationRow] /\ db'[ControlRow] = db[ControlRow]
  BY Rows
<1>2. \A p \in Operations : p # o => db'[OperationRow(p)] = db[OperationRow(p)]
  BY Rows
<1>3. v.status # Absent
  BY DEF MovesOn, IsOperation, Pending, Decided, Absent
<1>4. OperationsKeep
  BY <1>2, <1>3 DEF OperationsKeep, Present, MovesOn
<1>5. \A p \in Operations : Present(OperationRow(p))' => IsOperation(db'[OperationRow(p)])
  BY <1>2 DEF Tables, Present, MovesOn
<1>6. NoneLeftBehind => NoneLeftBehind'
  BY <1>2 DEF NoneLeftBehind, Present, MovesOn
<1>7. PostedOperations' = PostedOperations
  BY <1>2, <1>3 DEF PostedOperations, Present, MovesOn
<1>8. NoneGivenUp' => NoneGivenUp
  BY <1>2, <1>7 DEF NoneGivenUp, PostedOperations, MovesOn
<1>9. BalancesHold'
  BY <1>7, <1>8, BalancesStay DEF Tables
<1> QED
  BY <1>1, <1>4, <1>5, <1>6, <1>7, <1>8, <1>9
    DEF Tables, Engine, EngineFollowsControl, Settling, OperationsStay

\* An operation is created while the control and the route agree.
LEMMA OperationComes ==
  ASSUME Tables, NEW o \in Operations, ~Present(OperationRow(o)),
         CutoverRows \subseteq DOMAIN db', db'[OperationRow(o)] = NewOperation("intent", Engine),
         \A r \in CutoverRows : r # OperationRow(o) => db'[r] = db[r],
         db[ControlRow].status = Engine
  PROVE  Tables' /\ OperationsStay
<1>1. db'[ConfigurationRow] = db[ConfigurationRow] /\ db'[ControlRow] = db[ControlRow]
  BY Rows
<1>2. \A p \in Operations : p # o => db'[OperationRow(p)] = db[OperationRow(p)]
  BY Rows
<1> DEFINE v == NewOperation("intent", Engine)
<1>3. /\ v.status = "intent" /\ v.engine = Engine /\ ~v.posted
      /\ DOMAIN v = DOMAIN NewOperation("intent", "postgresql")
  BY DEF NewOperation
<1> HIDE DEF v
<1>4. db'[OperationRow(o)] = v
  BY DEF v
<1>5. IsOperation(v) /\ v.status # Absent
  BY <1>3 DEF IsOperation, Pending, Absent
<1>6. OperationsKeep
  BY <1>2 DEF OperationsKeep, Present
<1>7. \A p \in Operations : Present(OperationRow(p))' => IsOperation(db'[OperationRow(p)])
  BY <1>2, <1>4, <1>5 DEF Tables, Present
<1>8. PostedOperations' = PostedOperations
  BY <1>2, <1>3, <1>4 DEF PostedOperations, Present
<1>9. NoneGivenUp' => NoneGivenUp
  BY <1>2, <1>8 DEF NoneGivenUp, PostedOperations
<1>10. OperationsStay /\ BalancesHold'
  BY <1>6, <1>8, <1>9, BalancesStay DEF Tables, OperationsStay
<1>11. CASE Engine = "postgresql"
  BY <1>1, <1>7, <1>10, <1>11 DEF Tables, Engine, EngineFollowsControl, Settling
<1>12. CASE Engine = "tigerbeetle"
  <2>1. NoneLeftBehind'
    BY <1>2, <1>3, <1>4, <1>12 DEF Tables, Settling, NoneLeftBehind, Present
  <2> QED
    BY <1>1, <1>7, <1>10, <2>1 DEF Tables, Engine, EngineFollowsControl, Settling
<1> QED
  BY <1>11, <1>12 DEF Tables

\* The control, and the route, move.
LEMMA ControlMoves ==
  ASSUME Tables, CutoverRows \subseteq DOMAIN db',
         \A r \in CutoverRows \ {ConfigurationRow, ControlRow} : db'[r] = db[r],
         "status" \in DOMAIN db'[ConfigurationRow], Engine' \in {"postgresql", "tigerbeetle"},
         EngineFollowsControl', Settling' => NoneLeftBehind
  PROVE  Tables' /\ OperationsStay
<1>1. \A p \in Operations : db'[OperationRow(p)] = db[OperationRow(p)]
  BY Rows
<1>2. NoneLeftBehind' = NoneLeftBehind
  BY <1>1 DEF NoneLeftBehind, Present
<1>3. OperationsStay
  BY <1>1 DEF OperationsStay, OperationsKeep, PostedOperations, NoneGivenUp, Present
<1>4. BalancesHold'
  BY <1>3, BalancesStay DEF Tables, OperationsStay
<1> QED
  BY <1>1, <1>2, <1>3, <1>4 DEF Tables, Present

-----------------------------------------------------------------------------
(* Balances. *)

\* What an operation does not touch is left as it was.
LEMMA Untouched ==
  ASSUME NEW S \in SUBSET Operations, NEW o \in Operations, NEW a \in Accounts, a \notin Touched(o)
  PROVE  Within(S \cup {o}, a) <=> Within(S, a)
<1> DEFINE f == [p \in Operations |-> Movement[p][a]]
<1>1. IsFiniteSet(S) /\ \A p \in Operations : f[p] \in Int
  BY LedgerAssumption, FS_Subset
<1>2. f[o] = 0
  BY DEF Touched
<1> HIDE DEF f
<1>3. SumFunctionOnSet(f, S) \in Int
  BY <1>1, SumInt
<1>4. SumFunctionOnSet(f, S \cup {o}) = SumFunctionOnSet(f, S)
  <2>1. CASE o \in S
    <3>1. S \cup {o} = S
      BY <2>1
    <3> QED
      BY <3>1
  <2>2. CASE o \notin S
    <3>1. SumFunctionOnSet(f, S \cup {o}) = SumFunctionOnSet(f, S) + f[o]
      <4>1. /\ \A y \in S : f[y] \in Int /\ f[y] = f[y]
            /\ f[o] \in Int
        BY <1>1
      <4> QED
        BY <1>1, <2>2, <4>1, SumAdds
    <3> QED
      BY <1>2, <1>3, <3>1
  <2> QED
    BY <2>1, <2>2
<1>5. BalanceOf(S \cup {o}, a) = BalanceOf(S, a)
  BY <1>4 DEF BalanceOf, f
<1> QED
  BY <1>5 DEF Within

\* An operation that fits is posted.
LEMMA OperationPosts ==
  ASSUME Tables, NEW o \in Operations, Present(OperationRow(o)), NEW c,
         CutoverRows \subseteq DOMAIN db', db'[OperationRow(o)] = Accepted(db[OperationRow(o)]),
         \A r \in CutoverRows : r # OperationRow(o) => db'[r] = db[r],
         db[OperationRow(o)].engine = "postgresql", db[OperationRow(o)].status \in Pending,
         Holding(c, o), Fits(o)
  PROVE  Tables' /\ OperationPosted(c)
<1> DEFINE v == Accepted(db[OperationRow(o)])
<1>1. db'[ConfigurationRow] = db[ConfigurationRow] /\ db'[ControlRow] = db[ControlRow]
  BY Rows
<1>2. \A p \in Operations : p # o => db'[OperationRow(p)] = db[OperationRow(p)]
  BY Rows
<1>3. /\ IsOperation(v) /\ v.status = "accepted" /\ v.engine = db[OperationRow(o)].engine
      /\ v.posted
  <2>1. DOMAIN db[OperationRow(o)] = {"status", "engine", "posted", "fence", "reconcile"}
    BY DEF Tables, IsOperation, NewOperation
  <2> QED
    BY <2>1 DEF Tables, IsOperation, Accepted, Pending, StoredAsPosted
<1> HIDE DEF v
<1>4. db'[OperationRow(o)] = v
  BY DEF v
<1>5. OperationsKeep
  BY <1>2, <1>3, <1>4 DEF OperationsKeep, Present, Absent
<1>6. \A p \in Operations : Present(OperationRow(p))' => IsOperation(db'[OperationRow(p)])
  BY <1>2, <1>3, <1>4 DEF Tables, Present
<1>7. ~NoneLeftBehind
  BY DEF NoneLeftBehind, Pending, Decided
<1>8. PostedOperations' = PostedOperations \cup {o}
  BY <1>2, <1>3, <1>4 DEF PostedOperations, Present, Absent
<1>9. NoneGivenUp' => NoneGivenUp
  BY <1>2, <1>8 DEF NoneGivenUp, PostedOperations, Pending
<1>10. BalancesHold'
  <2>1. SUFFICES ASSUME NoneGivenUp', NEW a \in Accounts  PROVE Within(PostedOperations \cup {o}, a)
    BY <1>8 DEF BalancesHold, NoneGivenUp, Within, BalanceOf
  <2>2. CASE a \in Touched(o)
    BY <1>9, <2>1, <2>2 DEF Fits
  <2>3. CASE a \notin Touched(o)
    <3>1. Within(PostedOperations, a)
      BY <1>9, <2>1 DEF Tables, BalancesHold, NoneGivenUp
    <3> QED
      BY <2>3, <3>1, Untouched DEF PostedOperations
  <2> QED
    BY <2>2, <2>3
<1>11. OperationPosted(c)
  BY <1>5, <1>8, <1>9 DEF OperationPosted
<1> QED
  BY <1>1, <1>6, <1>7, <1>10, <1>11 DEF Tables, Engine, EngineFollowsControl, Settling

\* Another's posting leaves room for the one that holds its accounts.
LEMMA StillFits ==
  ASSUME CutoverInv, NEW c \in Clients, NEW d \in Clients, c # d, OperationPosted(c),
         NEW o \in Operations, Holding(d, o), Fits(o)
  PROVE  Fits(o)'
<1>1. PICK p \in Operations : PostedOperations' = PostedOperations \cup {p} /\ Holding(c, p)
  BY DEF OperationPosted
<1>2. SUFFICES ASSUME NoneGivenUp', NEW a \in Touched(o)
               PROVE  Within(PostedOperations \cup {p} \cup {o}, a)
  BY <1>1 DEF Fits, Within, BalanceOf
<1>3. Within(PostedOperations \cup {o}, a) /\ a \in Accounts
  BY <1>2 DEF OperationPosted, Fits, Touched
<1>4. a \notin Touched(p)
  <2>1. AccountRow(a) \in CutoverRows /\ AccountRow(a) \in session[d].locks
    BY <1>2, <1>3, Rows DEF Holding
  <2>2. AccountRow(a) \notin session[c].locks
    BY <2>1 DEF CutoverInv, Mine
  <2> QED
    BY <1>1, <2>2 DEF Holding
<1>5. /\ PostedOperations \cup {o} \in SUBSET Operations
      /\ PostedOperations \cup {p} \cup {o} = (PostedOperations \cup {o}) \cup {p}
  BY DEF PostedOperations
<1> QED
  BY <1>3, <1>4, <1>5, Untouched

-----------------------------------------------------------------------------
(* The steps of a call. *)

\* A transaction is committed and the call goes on.
LEMMA CommitsThen ==
  ASSUME SessionShape, NEW c \in Clients, NEW w, NEW at, NEW row, NEW todo,
         CommitThen(c, w, at, row, todo)
  PROVE  /\ SessionShape' /\ Alone(c) /\ answers' = answers
         /\ session'[c].call = session[c].call /\ session'[c].at = at /\ session'[c].row = row
         /\ session'[c].todo = todo /\ session'[c].locks = {} /\ DOMAIN session'[c].mine = {}
         /\ db' = Over(w, Over(session[c].mine, db))
<1> DEFINE n == [Idle EXCEPT !.call = session[c].call, !.at = at, !.row = row, !.todo = todo]
<1>1. /\ session' = [session EXCEPT ![c] = n] /\ answers' = answers
      /\ db' = Over(w, Over(session[c].mine, db))
  BY DEF CommitThen, Asked
<1>2. DOMAIN n = DOMAIN Idle
  BY IdleFields
<1>3. n.call = session[c].call /\ n.at = at /\ n.row = row /\ n.todo = todo
  BY DEF Idle
<1>4. n.locks = {} /\ DOMAIN n.mine = {}
  BY IdleFields DEF Idle
<1> HIDE DEF n
<1>5. session'[c] = n /\ SessionShape' /\ Alone(c)
  BY <1>1, <1>2 DEF SessionShape, Alone
<1> QED
  BY <1>1, <1>3, <1>4, <1>5

\* A step of client c keeps the invariant, if it leaves alone what others hold,
\* takes no lock of theirs, and its call is where it should be.
LEMMA StepKeeps ==
  ASSUME CutoverInv, NEW c \in Clients, SessionShape', Alone(c), DOMAIN answers' = DOMAIN answers,
         Tables', OperationsStay \/ OperationPosted(c),
         \A r \in CutoverRows :
           \/ db'[r] = db[r] \/ Mine(c, r)
           \/ r \notin {ConfigurationRow, ControlRow} /\ ~Present(r),
         \A r \in CutoverRows : r \in session'[c].locks => r \in session[c].locks \/ Mine(c, r),
         Where(c)'
  PROVE  CutoverInv'
<1>1. ASSUME NEW d \in Clients, d # c PROVE Where(d)'
  <2>1. session'[d] = session[d] /\ Where(d)
    BY <1>1 DEF Alone, CutoverInv
  <2> SUFFICES ASSUME session[d] # Idle PROVE Where(d)'
    BY <2>1 DEF Where
  <2>2. \A r \in CutoverRows \cap session[d].locks :
          db'[r] = db[r] \/ (r \notin {ConfigurationRow, ControlRow} /\ ~Present(r))
    BY <1>1 DEF Mine
  <2>3. RunIsAt(d) => RunIsAt(d)'
    <3>1. SUFFICES ASSUME RunIsAt(d)  PROVE RunIsAt(d)'
      OBVIOUS
    <3>2. PICK o \in Operations : o = session[d].call.operation /\ Present(OperationRow(o))
      BY <3>1 DEF RunIsAt
    <3>3. PICK r \in CutoverRows : r = OperationRow(o)
      BY Rows
    <3>4. Present(r)' /\ db'[r].engine = db[r].engine
      BY <3>2, <3>3 DEF OperationsStay, OperationPosted, OperationsKeep
    <3>5. r \in session[d].locks => db'[r] = db[r]
      BY <2>2, <3>2, <3>3
    <3>6. Opens(d, r) => Opens(d, r)'
      BY <2>1, <3>5 DEF Opens
    <3>7. Holding(d, o) => Holding(d, o)'
      BY <2>1 DEF Holding
    <3>8. Holding(d, o) /\ Fits(o) => Fits(o)'
      <4>1. CASE OperationsStay
        BY <4>1 DEF OperationsStay, Fits
      <4>2. CASE OperationPosted(c)
        BY <1>1, <4>2, StillFits
      <4> QED
        BY <4>1, <4>2
    <3>9. HasPosted(d, o) => HasPosted(d, o)'
      BY <2>1, <3>3, <3>5, <3>7, <3>8 DEF HasPosted
    <3> QED
      BY <2>1, <3>1, <3>2, <3>3, <3>4, <3>5, <3>6, <3>9 DEF RunIsAt
  <2>4. IntentIsAt(d) => IntentIsAt(d)'
    BY <2>1, <2>2, Rows DEF IntentIsAt, Engine
  <2>5. /\ PrepareIsAt(d) => PrepareIsAt(d)'
        /\ ApproveIsAt(d) => ApproveIsAt(d)'
        /\ BooksIsAt(d) => BooksIsAt(d)'
    BY <2>1 DEF PrepareIsAt, ApproveIsAt, BooksIsAt
  <2>6. ActivateIsAt(d) => ActivateIsAt(d)'
    BY <2>1, <2>2, Rows DEF ActivateIsAt
  <2> QED
    BY <2>1, <2>3, <2>4, <2>5, <2>6 DEF Where
<1>2. \A d \in Clients, r \in CutoverRows : r \in session'[d].locks => Mine(d, r)'
  BY DEF CutoverInv, Mine, Alone
<1> QED
  BY <1>1, <1>2 DEF CutoverInv

\* Who holds a row holds it alone, and who was not kept waiting gets one alone.
LEMMA Gets ==
  ASSUME CutoverInv, NEW c \in Clients, NEW at, Ready(c, at), at # "record",
         NEW r \in CutoverRows, r \in Locked(c)
  PROVE  Mine(c, r)
BY DEF Ready, Waits, Held, Mine

LEMMA GetsRow ==
  ASSUME CutoverInv, NEW c \in Clients, NEW at, Ready(c, at), at # "record",
         session[c].row \in CutoverRows, at \in {"find", "again", "update"} => Present(session[c].row)
  PROVE  Mine(c, session[c].row)
<1>1. session[c].row \in Locked(c)
  BY Rows DEF Locked, Ready
<1> QED
  BY <1>1, Gets

LEMMA Has ==
  ASSUME CutoverInv, NEW c \in Clients, NEW r \in CutoverRows, r \in session[c].locks
  PROVE  Mine(c, r)
BY DEF CutoverInv

\* An idle client is nowhere.
LEMMA IdleHere ==
  ASSUME NEW c, session'[c] = Idle
  PROVE  Where(c)' /\ session'[c].locks = {}
BY IdleFields DEF Where

\* A refusal keeps the invariant.
LEMMA RefusalKeeps ==
  ASSUME CutoverInv, NEW c \in Clients, NEW outcome, Refuse(c, outcome)
  PROVE  CutoverInv'
<1>1. /\ SessionShape' /\ Alone(c) /\ session'[c] = Idle /\ db' = db
      /\ DOMAIN answers' = DOMAIN answers
  BY Answers DEF Refuse, CutoverInv
<1>2. Tables' /\ OperationsStay
  BY <1>1, TablesStay DEF CutoverInv, Tables
<1> QED
  BY <1>1, <1>2, IdleHere, StepKeeps

-----------------------------------------------------------------------------
(* Runs. *)

OnLedger(c) == db[OperationRow(session[c].call.operation)].engine = "postgresql"

\* The run of an operation goes on with its next transaction, or is over.
RunGoesOn(c) ==
  /\ SessionShape' /\ Alone(c) /\ DOMAIN answers' = DOMAIN answers
  /\ \/ session'[c] = Idle
     \/ /\ session'[c].call = session[c].call /\ session'[c].at \in RunStages
        /\ session'[c].row = OperationRow(session[c].call.operation)
        /\ session'[c].locks = {} /\ DOMAIN session'[c].mine = {}
        /\ session'[c].at \in LedgerStages => OnLedger(c)

RunCommits(c, w) ==
  \/ \E at \in RunStages : \E todo :
       /\ at \in LedgerStages => OnLedger(c)
       /\ CommitThen(c, w, at, OperationRow(session[c].call.operation), todo)
  \/ \E outcome : CommitLast(c, w, outcome)

LEMMA RunAfterCommit ==
  ASSUME CutoverInv, NEW c \in Clients, NEW w, RunCommits(c, w)
  PROVE  RunGoesOn(c) /\ db' = Over(w, Over(session[c].mine, db))
<1> DEFINE o == OperationRow(session[c].call.operation)
<1>1. ASSUME NEW at \in RunStages, NEW todo, CommitThen(c, w, at, o, todo),
             at \in LedgerStages => OnLedger(c)
      PROVE  RunGoesOn(c) /\ db' = Over(w, Over(session[c].mine, db))
  BY <1>1, CommitsThen DEF CutoverInv, RunGoesOn
<1>2. ASSUME NEW outcome, CommitLast(c, w, outcome)
      PROVE  RunGoesOn(c) /\ db' = Over(w, Over(session[c].mine, db))
  BY <1>2, Answers DEF CutoverInv, RunGoesOn, CommitLast
<1> QED
  BY <1>1, <1>2 DEF RunCommits

LEMMA RunThere ==
  ASSUME NEW c, session'[c].call.op = "run", session'[c].call \in DOMAIN answers', RunIsAt(c)'
  PROVE  Where(c)'
BY DEF Where, BooksOps

\* What a run's step leaves keeps the invariant.
LEMMA RunKeeps ==
  ASSUME CutoverInv, NEW c \in Clients, session[c] # Idle, session[c].call.op = "run", RunGoesOn(c),
         Tables', OperationsStay \/ OperationPosted(c),
         \A r \in CutoverRows : db'[r] = db[r] \/ Mine(c, r)
  PROVE  CutoverInv'
<1>1. RunIsAt(c) /\ session[c].call \in DOMAIN answers
  BY DEF CutoverInv, Where
<1>2. CASE session'[c] = Idle
  BY <1>2, IdleHere, StepKeeps DEF RunGoesOn
<1>3. CASE session'[c] # Idle
  <2>1. RunIsAt(c)'
    <3>1. PICK o \in Operations : o = session[c].call.operation /\ Present(OperationRow(o))
      BY <1>1 DEF RunIsAt
    <3>2. /\ Present(OperationRow(o))'
          /\ db'[OperationRow(o)].engine = db[OperationRow(o)].engine
      BY <3>1 DEF OperationsStay, OperationPosted, OperationsKeep
    <3> QED
      BY <1>3, <3>1, <3>2 DEF RunIsAt, RunGoesOn, OnLedger
  <2>2. session'[c].call = session[c].call /\ DOMAIN answers' = DOMAIN answers
    BY <1>3 DEF RunGoesOn
  <2>3. Where(c)'
    BY <1>1, <2>1, <2>2, RunThere
  <2> QED
    BY <1>3, <2>3, StepKeeps DEF RunGoesOn
<1> QED
  BY <1>2, <1>3

\* A run commits its operation's row.
LEMMA RunMoves ==
  ASSUME CutoverInv, NEW c \in Clients, session[c] # Idle, session[c].call.op = "run",
         NEW r, r = OperationRow(session[c].call.operation), NEW v, RunCommits(c, RowIs(r, v)),
         DOMAIN session[c].mine \subseteq {r}, Mine(c, r), MovesOn(db[r], v)
  PROVE  CutoverInv'
<1>1. RunIsAt(c)
  BY DEF CutoverInv, Where
<1>2. RunGoesOn(c) /\ db' = Over(RowIs(r, v), Over(session[c].mine, db))
  BY RunAfterCommit
<1>3. /\ CutoverRows \subseteq DOMAIN db' /\ db'[r] = v
      /\ \A s \in CutoverRows : s # r => db'[s] = db[s]
  BY <1>2, WritesOne DEF CutoverInv
<1>4. session[c].call.operation \in Operations /\ Present(r)
  BY <1>1 DEF RunIsAt
<1>5. Tables' /\ OperationsStay
  BY <1>3, <1>4, OperationMoves DEF CutoverInv
<1> QED
  BY <1>2, <1>3, <1>5, RunKeeps

\* A run commits what it had written, or nothing.
LEMMA RunStays ==
  ASSUME CutoverInv, NEW c \in Clients, session[c] # Idle, session[c].call.op = "run",
         \/ RunCommits(c, <<>>) /\ DOMAIN session[c].mine = {}
         \/ RunGoesOn(c) /\ db' = db
  PROVE  CutoverInv'
<1>1. /\ RunGoesOn(c) /\ CutoverRows \subseteq DOMAIN db'
      /\ \A s \in CutoverRows : db'[s] = db[s]
  <2>1. CASE RunCommits(c, <<>>) /\ DOMAIN session[c].mine = {}
    BY <2>1, RunAfterCommit, WritesHeld DEF CutoverInv
  <2>2. CASE RunGoesOn(c) /\ db' = db
    BY <2>2 DEF CutoverInv, Tables
  <2> QED
    BY <2>1, <2>2
<1>2. Tables' /\ OperationsStay
  BY <1>1, TablesStay DEF CutoverInv
<1> QED
  BY <1>1, <1>2, RunKeeps

\* A run commits its posting.
LEMMA RunPosts ==
  ASSUME CutoverInv, NEW c \in Clients, session[c] # Idle, session[c].call.op = "run",
         NEW o \in Operations, o = session[c].call.operation, RunCommits(c, <<>>), HasPosted(c, o),
         OnLedger(c)
  PROVE  CutoverInv'
<1>1. RunIsAt(c)
  BY DEF CutoverInv, Where
<1>2. RunGoesOn(c) /\ db' = Over(<<>>, Over(session[c].mine, db))
  BY RunAfterCommit
<1>3. PICK r \in CutoverRows : r = OperationRow(o)
  BY Rows
<1>4. /\ CutoverRows \subseteq DOMAIN db' /\ db'[r] = Accepted(db[r])
      /\ \A s \in CutoverRows : s # r => db'[s] = db[s]
  BY <1>2, <1>3, WritesHeld DEF CutoverInv, HasPosted
<1>5. /\ Present(r) /\ db[r].engine = "postgresql" /\ db[r].status \in Pending
      /\ Holding(c, o) /\ Fits(o) /\ r \in session[c].locks
  BY <1>1, <1>3 DEF RunIsAt, HasPosted, OnLedger
<1>6. Tables' /\ OperationPosted(c)
  BY <1>3, <1>4, <1>5, OperationPosts DEF CutoverInv
<1>7. Mine(c, r)
  BY <1>5, Has
<1> QED
  BY <1>2, <1>4, <1>6, <1>7, RunKeeps

\* Where a run's transaction with statements is at next.
LEMMA RunProceeds ==
  ASSUME CutoverInv, NEW c \in Clients, session[c] # Idle, session[c].call.op = "run",
         NEW w, NEW at, NEW row, NEW todo, Proceed(c, w, at, row, todo),
         \A r \in CutoverRows \cap Locked(c) : Mine(c, r),
         RunIsAt(c)'
  PROVE  CutoverInv'
<1>1. /\ SessionShape' /\ Alone(c) /\ UNCHANGED <<db, answers>>
      /\ session'[c].call = session[c].call
      /\ session'[c].locks = session[c].locks \cup Locked(c)
  BY Proceeds DEF CutoverInv
<1>2. Tables' /\ OperationsStay
  BY <1>1, TablesStay DEF CutoverInv, Tables
<1>3. session[c].call \in DOMAIN answers
  BY DEF CutoverInv, Where
<1>4. Where(c)'
  BY <1>1, <1>3, RunThere
<1> QED
  BY <1>1, <1>2, <1>4, StepKeeps

\* What a run finds at its step.
LEMMA RunHere ==
  ASSUME CutoverInv, NEW c \in Clients, At(c, "run")
  PROVE  LET s == session[c]
             r == OperationRow(s.call.operation)
         IN  /\ s # Idle /\ s.call.op = "run" /\ RunIsAt(c)
             /\ s.call.operation \in Operations /\ r \in CutoverRows
             /\ Present(r) /\ IsOperation(db[r])
             /\ s.at \in RunStages => s.row = r /\ DOMAIN s.mine = {}
             /\ s.at \in LedgerStages => OnLedger(c)
BY Rows DEF At, Asked, CutoverInv, Where, RunIsAt, RunStages, Tables, OnLedger

\* What the row of an operation may become.
LEMMA RowsOfOperations ==
  ASSUME NEW row, IsOperation(row)
  PROVE  /\ \A n : LET x == [row EXCEPT !.fence = n] IN
                   MovesOn(row, x) /\ x.status = row.status
         /\ \A status \in Pending \cup Decided : LET x == [row EXCEPT !.status = status] IN
                   /\ x.status = status /\ x.engine = row.engine /\ x.posted = row.posted
                   /\ (row.posted => StoredAsPosted(x)) => IsOperation(x)
<1>1. DOMAIN row = {"status", "engine", "posted", "fence", "reconcile"}
  BY DEF IsOperation, NewOperation
<1> QED
  BY <1>1 DEF IsOperation, MovesOn, StoredAsPosted

LEMMA FencedRow ==
  ASSUME NEW c, NEW row, IsOperation(row)
  PROVE  MovesOn(row, Fenced(c, row)) /\ Fenced(c, row).status = row.status
BY RowsOfOperations DEF Fenced

LEMMA AttemptedRow ==
  ASSUME NEW row, IsOperation(row)
  PROVE  MovesOn(row, Attempted(row))
<1>1. CASE row.status \in {"intent", "unknown"}
  <2> DEFINE x == [row EXCEPT !.status = "submitted"]
  <2>1. /\ x.status = "submitted" /\ x.engine = row.engine /\ x.posted = row.posted
        /\ (row.posted => StoredAsPosted(x)) => IsOperation(x)
    BY RowsOfOperations DEF Pending
  <2> HIDE DEF x
  <2>2. ~row.posted
    BY <1>1 DEF IsOperation, StoredAsPosted
  <2>3. Attempted(row) = x
    BY <1>1 DEF Attempted, x
  <2> QED
    BY <1>1, <2>1, <2>2, <2>3 DEF MovesOn, Decided
<1>2. CASE row.status \notin {"intent", "unknown"}
  BY <1>2 DEF Attempted, MovesOn
<1> QED
  BY <1>1, <1>2

LEMMA MovesOnTwice ==
  ASSUME NEW row, NEW x, NEW y, MovesOn(row, x), MovesOn(x, y)
  PROVE  MovesOn(row, y)
BY DEF MovesOn

LEMMA ReadStateKeeps ==
  ASSUME CutoverInv, NEW c \in Clients, ReadState(c)
  PROVE  CutoverInv'
<1> DEFINE r == OperationRow(session[c].call.operation)
           row == Fenced(c, db[r])
<1>1. /\ At(c, "run") /\ session[c].at = "state" /\ session[c] # Idle /\ session[c].call.op = "run"
      /\ session[c].row = r /\ DOMAIN session[c].mine = {} /\ r \in CutoverRows /\ Present(r)
      /\ session[c].call.operation \in Operations /\ IsOperation(db[r])
  BY RunHere DEF ReadState, Ready, RunStages
<1>2. Mine(c, r)
  BY <1>1, GetsRow DEF ReadState
<1>3. /\ MovesOn(db[r], row) /\ row.status = db[r].status /\ row.engine = db[r].engine
      /\ IsOperation(row)
  BY <1>1, FencedRow DEF MovesOn
<1>4. MovesOn(db[r], Attempted(row))
  BY <1>3, AttemptedRow, MovesOnTwice
<1>5. \/ \E outcome : Refuse(c, outcome)
      \/ RunCommits(c, RowIs(r, row)) \/ RunCommits(c, RowIs(r, Attempted(row)))
      \/ /\ row.status = "intent" /\ OnLedger(c)
         /\ Goes(c, RowIs(r, row), "configuration", ConfigurationRow)
  <2>1. "receipt" \in RunStages /\ "accounts" \in RunStages /\ "receipt" \notin LedgerStages
    BY DEF RunStages, LedgerStages
  <2> HIDE DEF row
  <2>2. row = Fenced(c, Row(c)) /\ row.status \in Pending \cup Decided
    BY <1>1, <1>3 DEF row, Row, IsOperation
  <2> QED
    BY <1>1, <1>3, <2>1, <2>2 DEF ReadState, Receive, RunCommits, LookedUp, Asked, OnLedger
<1> HIDE DEF row
<1>6. CASE /\ row.status = "intent" /\ OnLedger(c)
           /\ Goes(c, RowIs(r, row), "configuration", ConfigurationRow)
  <2>1. Proceed(c, RowIs(r, row), "configuration", ConfigurationRow, session[c].todo)
    BY <1>6 DEF Goes
  <2>2. /\ session'[c].call = session[c].call /\ session'[c].at = "configuration"
        /\ session'[c].row = ConfigurationRow /\ session'[c].mine[r] = row
        /\ DOMAIN session'[c].mine = {r} \cup DOMAIN session[c].mine
        /\ session'[c].locks = session[c].locks \cup Locked(c) /\ db' = db
    BY <2>1, ProceedsWith DEF CutoverInv
  <2>3. Locked(c) = {r}
    BY <1>1, Rows DEF Locked
  <2>4. RunIsAt(c)'
    BY <1>1, <1>3, <1>6, <2>2, <2>3 DEF RunIsAt, Opens, OnLedger, Pending, Present
  <2> QED
    BY <1>1, <1>2, <2>1, <2>3, <2>4, RunProceeds
<1> QED
  BY <1>1, <1>2, <1>3, <1>4, <1>5, <1>6, RefusalKeeps, RunMoves

LEMMA SubmitIntentKeeps ==
  ASSUME CutoverInv, NEW c \in Clients, SubmitIntent(c)
  PROVE  CutoverInv'
<1> DEFINE r == OperationRow(session[c].call.operation)
           row == session[c].mine[r]
<1>1. /\ At(c, "run") /\ session[c].at = "configuration" /\ session[c] # Idle
      /\ session[c].call.op = "run" /\ r \in CutoverRows /\ Opens(c, r) /\ OnLedger(c)
  BY RunHere DEF SubmitIntent, Ready, RunStages, RunIsAt, LedgerStages
<1>2. Mine(c, r) /\ MovesOn(db[r], row) /\ IsOperation(row) /\ Sees(c, r) = row
  BY <1>1, Has DEF Opens, Sees, MovesOn
<1> HIDE DEF row
<1>3. MovesOn(db[r], Attempted(row))
  BY <1>2, AttemptedRow, MovesOnTwice
<1>4. RunCommits(c, RowIs(r, row)) \/ RunCommits(c, RowIs(r, Attempted(row)))
  BY <1>1, <1>2 DEF SubmitIntent, Receive, RunCommits, RunStages, LedgerStages, Asked
<1> QED
  BY <1>1, <1>2, <1>3, <1>4, RunMoves DEF Opens

LEMMA FindAccountsKeeps ==
  ASSUME CutoverInv, NEW c \in Clients, FindAccounts(c)
  PROVE  CutoverInv'
<1> DEFINE r == OperationRow(session[c].call.operation)
           row == Fenced(c, db[r])
<1>1. /\ session[c] # Idle /\ session[c].call.op = "run" /\ session[c].at = "accounts"
      /\ session[c].row = r /\ DOMAIN session[c].mine = {} /\ r \in CutoverRows /\ IsOperation(db[r])
      /\ OnLedger(c)
  BY RunHere DEF FindAccounts, Ready, RunStages, LedgerStages
<1>2. Mine(c, r)
  BY <1>1, GetsRow DEF FindAccounts
<1>3. MovesOn(db[r], row)
  BY <1>1, FencedRow
<1>4. \/ RunCommits(c, <<>>) \/ RunCommits(c, RowIs(r, row))
      \/ \E outcome : Refuse(c, outcome)
  <2>1. /\ "receipt" \in RunStages /\ "lookup" \in RunStages /\ "post" \in RunStages
        /\ "receipt" \notin LedgerStages
    BY DEF RunStages, LedgerStages
  <2> QED
    BY <1>1, <2>1 DEF FindAccounts, Receive, RunCommits, Row, Asked
<1> QED
  BY <1>1, <1>2, <1>3, <1>4, RefusalKeeps, RunMoves, RunStays

LEMMA LookupJournalKeeps ==
  ASSUME CutoverInv, NEW c \in Clients, LookupJournal(c)
  PROVE  CutoverInv'
<1>1. /\ session[c] # Idle /\ session[c].call.op = "run" /\ session[c].at = "lookup"
      /\ session[c].row = OperationRow(session[c].call.operation) /\ DOMAIN session[c].mine = {}
      /\ OnLedger(c)
  BY RunHere DEF LookupJournal, RunStages, LedgerStages
<1>2. RunCommits(c, <<>>)
  BY <1>1 DEF LookupJournal, Receive, RunCommits, RunStages, LedgerStages, Asked
<1> QED
  BY <1>1, <1>2, RunStays

LEMMA PostOperationKeeps ==
  ASSUME CutoverInv, NEW c \in Clients, PostOperation(c)
  PROVE  CutoverInv'
<1> DEFINE r == OperationRow(session[c].call.operation)
<1>1. /\ session[c] # Idle /\ session[c].call.op = "run" /\ session[c].at = "post"
      /\ session[c].row = r /\ DOMAIN session[c].mine = {} /\ r \in CutoverRows /\ IsOperation(db[r])
      /\ session[c].call.operation \in Operations /\ Present(r) /\ OnLedger(c)
  BY RunHere DEF PostOperation, Ready, RunStages, LedgerStages
<1>2. Mine(c, r)
  BY <1>1, GetsRow DEF PostOperation
<1>3. \/ RunCommits(c, <<>>)
      \/ /\ db[r].status \in Pending
         /\ \E a \in Accounts : Goes(c, <<>>, "account", AccountRow(a))
  BY <1>1 DEF PostOperation, Receive, RunCommits, RunStages, LedgerStages, Asked, Row, Unlocked,
    Touched, IsOperation, Pending, Decided
<1>4. ASSUME db[r].status \in Pending, NEW a \in Accounts, Goes(c, <<>>, "account", AccountRow(a))
      PROVE  CutoverInv'
  <2>1. Proceed(c, <<>>, "account", AccountRow(a), session[c].todo)
    BY <1>4 DEF Goes
  <2>2. /\ session'[c].call = session[c].call /\ session'[c].at = "account"
        /\ session'[c].row = AccountRow(a) /\ DOMAIN session'[c].mine = DOMAIN session[c].mine
        /\ session'[c].locks = session[c].locks \cup Locked(c) /\ db' = db
    BY <2>1, ProceedsWithout DEF CutoverInv
  <2>3. Locked(c) = {r}
    BY <1>1, Rows DEF Locked
  <2>4. RunIsAt(c)'
    BY <1>1, <1>4, <2>2, <2>3 DEF RunIsAt, OnLedger, Present
  <2> QED
    BY <1>1, <1>2, <2>1, <2>3, <2>4, RunProceeds
<1> QED
  BY <1>1, <1>3, <1>4, RunStays

\* While none was given up, what the ledger counts is what was posted.
LEMMA CountsPosted ==
  ASSUME Tables, NoneGivenUp
  PROVE  {p \in Operations : Counted(p)} = PostedOperations
BY DEF Tables, NoneGivenUp, Counted, PostedOperations, IsOperation, StoredAsPosted

LEMMA HoldsFits ==
  ASSUME Tables, NEW o \in Operations, Holds(o)
  PROVE  Fits(o)
BY CountsPosted DEF Holds, Fits

LEMMA LockAccountKeeps ==
  ASSUME CutoverInv, NEW c \in Clients, LockAccount(c)
  PROVE  CutoverInv'
<1>1. PICK o \in Operations : o = session[c].call.operation
  BY RunHere DEF LockAccount
<1> DEFINE r == OperationRow(o)
           last == \A a \in Touched(o) : AccountRow(a) \in session[c].locks \cup {session[c].row}
<1>2. /\ session[c] # Idle /\ session[c].call.op = "run" /\ session[c].at = "account"
      /\ DOMAIN session[c].mine = {} /\ r \in CutoverRows /\ IsOperation(db[r])
      /\ Present(r) /\ db[r].engine = "postgresql"
      /\ r \in session[c].locks /\ db[r].status \in Pending
      /\ session[c].row \in {AccountRow(a) : a \in Accounts}
  BY <1>1, RunHere DEF LockAccount, Ready, RunStages, LedgerStages, RunIsAt, OnLedger
<1>3. session[c].row \in CutoverRows /\ Locked(c) = {session[c].row}
  BY <1>2, Rows DEF Locked
<1>4. Mine(c, session[c].row)
  BY <1>2, <1>3, GetsRow DEF LockAccount
<1>5. \/ RunCommits(c, <<>>)
      \/ last /\ Holds(o) /\ Goes(c, RowIs(r, Accepted(db[r])), "commit", NoRow)
      \/ \E a \in Accounts : Goes(c, <<>>, "account", AccountRow(a))
  BY <1>1, <1>2 DEF LockAccount, Receive, RunCommits, RunStages, LedgerStages, Asked, Unlocked, Touched
<1>6. ASSUME NEW a \in Accounts, Goes(c, <<>>, "account", AccountRow(a))
      PROVE  CutoverInv'
  <2>1. Proceed(c, <<>>, "account", AccountRow(a), session[c].todo)
    BY <1>6 DEF Goes
  <2>2. /\ session'[c].call = session[c].call /\ session'[c].at = "account"
        /\ session'[c].row = AccountRow(a) /\ DOMAIN session'[c].mine = DOMAIN session[c].mine
        /\ session'[c].locks = session[c].locks \cup Locked(c) /\ db' = db
    BY <2>1, ProceedsWithout DEF CutoverInv
  <2>3. RunIsAt(c)'
    BY <1>1, <1>2, <2>2 DEF RunIsAt, Present
  <2> QED
    BY <1>2, <1>3, <1>4, <2>1, <2>3, RunProceeds
<1>7. CASE last /\ Holds(o) /\ Goes(c, RowIs(r, Accepted(db[r])), "commit", NoRow)
  <2> DEFINE v == Accepted(db[r])
  <2> HIDE DEF v
  <2>1. Proceed(c, RowIs(r, v), "commit", NoRow, session[c].todo)
    BY <1>7 DEF Goes, v
  <2>2. /\ session'[c].call = session[c].call /\ session'[c].at = "commit"
        /\ session'[c].row = NoRow /\ session'[c].mine[r] = v
        /\ DOMAIN session'[c].mine = {r} \cup DOMAIN session[c].mine
        /\ session'[c].locks = session[c].locks \cup Locked(c) /\ db' = db
    BY <2>1, ProceedsWith DEF CutoverInv
  <2>3. Fits(o)'
    <3>1. Fits(o)
      BY <1>7, HoldsFits DEF CutoverInv
    <3> QED
      BY <2>2, <3>1 DEF Fits, NoneGivenUp, PostedOperations, Present
  <2>4. Holding(c, o)'
    BY <1>3, <1>7, <2>2 DEF Holding
  <2>5. HasPosted(c, o)'
    BY <1>2, <2>2, <2>3, <2>4 DEF HasPosted, v
  <2>6. RunIsAt(c)'
    BY <1>1, <1>2, <2>2, <2>5 DEF RunIsAt, Present
  <2> QED
    BY <1>2, <1>3, <1>4, <2>1, <2>6, RunProceeds
<1> QED
  BY <1>2, <1>5, <1>6, <1>7, RunStays

LEMMA CommitPostingKeeps ==
  ASSUME CutoverInv, NEW c \in Clients, CommitPosting(c)
  PROVE  CutoverInv'
<1>1. PICK o \in Operations : o = session[c].call.operation
  BY RunHere DEF CommitPosting
<1>2. session[c] # Idle /\ session[c].call.op = "run" /\ HasPosted(c, o) /\ OnLedger(c)
  BY <1>1, RunHere DEF CommitPosting, RunStages, LedgerStages, RunIsAt
<1>3. RunCommits(c, <<>>)
  BY DEF CommitPosting, Receive, RunCommits, RunStages, LedgerStages, Asked
<1> QED
  BY <1>1, <1>2, <1>3, RunPosts

LEMMA LedgerFailsKeeps ==
  ASSUME CutoverInv, NEW c \in Clients, LedgerFails(c)
  PROVE  CutoverInv'
<1> DEFINE n == [Idle EXCEPT !.call = session[c].call, !.at = "receipt",
                             !.row = OperationRow(session[c].call.operation),
                             !.todo = <<Generation(c), Reconciles(c), "lost">>]
<1>1. session' = [session EXCEPT ![c] = n] /\ db' = db /\ answers' = answers
  BY DEF LedgerFails, Asked
<1>2. DOMAIN n = DOMAIN Idle
  BY IdleFields
<1>3. /\ n.call = session[c].call /\ n.at = "receipt"
      /\ n.row = OperationRow(session[c].call.operation)
  BY DEF Idle
<1>4. n.locks = {} /\ DOMAIN n.mine = {}
  BY IdleFields DEF Idle
<1> HIDE DEF n
<1>5. session'[c] = n /\ SessionShape' /\ Alone(c)
  BY <1>1, <1>2 DEF CutoverInv, SessionShape, Alone
<1>6. RunGoesOn(c)
  BY <1>1, <1>3, <1>4, <1>5 DEF RunGoesOn, RunStages, LedgerStages
<1>7. session[c] # Idle /\ session[c].call.op = "run"
  BY RunHere DEF LedgerFails
<1> QED
  BY <1>1, <1>6, <1>7, RunStays

\* The trigger of the database lets nothing decided be undecided again, and nothing
\* that was posted be anything else.
LEMMA StatusMovesOn ==
  ASSUME NEW row, IsOperation(row), NEW x, DOMAIN x = DOMAIN row,
         x.engine = row.engine, x.posted = row.posted, MayBecome(row.status, x.status)
  PROVE  MovesOn(row, x)
<1>1. row.status \in {"intent", "submitted", "accepted", "unknown", "reconciled", "rejected",
                      "manual_recovery"}
  BY DEF IsOperation, Pending, Decided
<1>2. /\ x.status \in Pending \cup Decided
      /\ row.status \in Decided => x.status \in Decided
      /\ row.status = "manual_recovery" => x.status = "manual_recovery"
      /\ row.status \in {"accepted", "reconciled", "manual_recovery"}
           => x.status \in {"accepted", "reconciled", "manual_recovery"}
  BY <1>1 DEF MayBecome, NextStatuses, Pending, Decided
<1> QED
  BY <1>2 DEF MovesOn, IsOperation, StoredAsPosted

LEMMA ReceivedRow ==
  ASSUME NEW row, IsOperation(row), NEW out
  PROVE  LET x == Received(row, out) IN
         /\ DOMAIN x = DOMAIN row /\ x.status = StatusFor(out)
         /\ x.engine = row.engine /\ x.posted = row.posted
<1>1. DOMAIN row = {"status", "engine", "posted", "fence", "reconcile"}
  BY DEF IsOperation, NewOperation
<1> QED
  BY <1>1 DEF Received

LEMMA WriteReceiptKeeps ==
  ASSUME CutoverInv, NEW c \in Clients, WriteReceipt(c)
  PROVE  CutoverInv'
<1> DEFINE r == OperationRow(session[c].call.operation)
           row == Fenced(c, db[r])
           out == Outcome(c)
<1>1. /\ session[c] # Idle /\ session[c].call.op = "run" /\ session[c].at = "receipt"
      /\ session[c].row = r /\ DOMAIN session[c].mine = {} /\ r \in CutoverRows /\ IsOperation(db[r])
  BY RunHere DEF WriteReceipt, Ready, RunStages
<1>2. Mine(c, r)
  BY <1>1, GetsRow DEF WriteReceipt
<1>3. MovesOn(db[r], row) /\ IsOperation(row)
  BY <1>1, FencedRow DEF MovesOn
<1>4. Row(c) = db[r]
  BY <1>1 DEF Row
<1> HIDE DEF row, out
<1>5. \/ \E outcome : Refuse(c, outcome)
      \/ RunCommits(c, RowIs(r, row))
      \/ MayBecome(row.status, StatusFor(out)) /\ RunCommits(c, RowIs(r, Received(row, out)))
  <2>1. /\ "finalize" \in RunStages /\ "finalize" \notin LedgerStages
        /\ row = Fenced(c, Row(c)) /\ out = Outcome(c)
    BY <1>4 DEF RunStages, LedgerStages, row, out
  <2> QED
    BY <1>1, <2>1 DEF WriteReceipt, RunCommits
<1>6. CASE MayBecome(row.status, StatusFor(out)) /\ RunCommits(c, RowIs(r, Received(row, out)))
  <2> DEFINE v == Received(row, out)
  <2>1. /\ DOMAIN v = DOMAIN row /\ v.status = StatusFor(out)
        /\ v.engine = row.engine /\ v.posted = row.posted
    BY <1>3, ReceivedRow
  <2> HIDE DEF v
  <2>2. MovesOn(row, v)
    BY <1>3, <1>6, <2>1, StatusMovesOn
  <2>3. RunCommits(c, RowIs(r, v))
    BY <1>6 DEF v
  <2> QED
    BY <1>1, <1>2, <1>3, <2>2, <2>3, MovesOnTwice, RunMoves
<1> QED
  BY <1>1, <1>2, <1>3, <1>5, <1>6, RefusalKeeps, RunMoves

LEMMA FinalizeKeeps ==
  ASSUME CutoverInv, NEW c \in Clients, Finalize(c)
  PROVE  CutoverInv'
<1> DEFINE r == OperationRow(session[c].call.operation)
           row == Fenced(c, db[r])
           v == IF row.status = "accepted" THEN [row EXCEPT !.status = "reconciled"] ELSE row
<1>1. /\ session[c] # Idle /\ session[c].call.op = "run" /\ session[c].at = "finalize"
      /\ session[c].row = r /\ DOMAIN session[c].mine = {} /\ r \in CutoverRows /\ IsOperation(db[r])
  BY RunHere DEF Finalize, Ready, RunStages
<1>2. Mine(c, r)
  BY <1>1, GetsRow DEF Finalize
<1>3. MovesOn(db[r], row) /\ IsOperation(row)
  BY <1>1, FencedRow DEF MovesOn
<1> HIDE DEF row
<1>4. MovesOn(row, v)
  <2>1. CASE row.status = "accepted"
    <3> DEFINE x == [row EXCEPT !.status = "reconciled"]
    <3>1. /\ x.status = "reconciled" /\ x.engine = row.engine /\ x.posted = row.posted
          /\ (row.posted => StoredAsPosted(x)) => IsOperation(x)
      BY <1>3, RowsOfOperations DEF Decided
    <3> HIDE DEF x
    <3>2. v = x
      BY <2>1 DEF x
    <3> QED
      BY <1>3, <2>1, <3>1, <3>2 DEF MovesOn, IsOperation, StoredAsPosted, Decided
  <2>2. CASE row.status # "accepted"
    BY <1>3, <2>2 DEF MovesOn
  <2> QED
    BY <2>1, <2>2
<1> HIDE DEF v
<1>5. (\E outcome : Refuse(c, outcome)) \/ RunCommits(c, RowIs(r, v))
  <2>1. row = Fenced(c, Row(c))
    BY <1>1 DEF Row, row
  <2> QED
    BY <1>1, <2>1 DEF Finalize, RunCommits, v
<1> QED
  BY <1>1, <1>2, <1>3, <1>4, <1>5, MovesOnTwice, RefusalKeeps, RunMoves

LEMMA RunStepKeeps ==
  ASSUME CutoverInv, NEW c \in Clients, RunStep(c)
  PROVE  CutoverInv'
BY ReadStateKeeps, SubmitIntentKeeps, FindAccountsKeeps, LookupJournalKeeps, PostOperationKeeps,
  LockAccountKeeps, CommitPostingKeeps, LedgerFailsKeeps, WriteReceiptKeeps, FinalizeKeeps DEF RunStep

-----------------------------------------------------------------------------
(* The steps of any call. *)

\* A statement of a call is done.
LEMMA CallProceeds ==
  ASSUME CutoverInv, NEW c \in Clients, NEW w, NEW at, NEW row, NEW todo,
         Proceed(c, w, at, row, todo),
         \A r \in CutoverRows \cap Locked(c) : Mine(c, r),
         Where(c)'
  PROVE  CutoverInv'
<1>1. /\ SessionShape' /\ Alone(c) /\ UNCHANGED <<db, answers>>
      /\ session'[c].locks = session[c].locks \cup Locked(c)
  BY Proceeds DEF CutoverInv
<1>2. Tables' /\ OperationsStay
  BY <1>1, TablesStay DEF CutoverInv, Tables
<1> QED
  BY <1>1, <1>2, StepKeeps

\* A call commits and ends.
LEMMA CommitsLast ==
  ASSUME SessionShape, NEW c \in Clients, NEW w, NEW outcome, CommitLast(c, w, outcome)
  PROVE  /\ SessionShape' /\ Alone(c) /\ session'[c] = Idle /\ DOMAIN answers' = DOMAIN answers
         /\ db' = Over(w, Over(session[c].mine, db))
<1>1. Answer(c, outcome) /\ db' = Over(w, Over(session[c].mine, db))
  BY DEF CommitLast
<1> QED
  BY <1>1, Answers

\* A call ends, and had written nothing.
LEMMA CallStays ==
  ASSUME CutoverInv, NEW c \in Clients, NEW outcome, CommitLast(c, <<>>, outcome),
         DOMAIN session[c].mine = {}
  PROVE  CutoverInv'
<1>1. /\ SessionShape' /\ Alone(c) /\ session'[c] = Idle /\ DOMAIN answers' = DOMAIN answers
      /\ db' = Over(<<>>, Over(session[c].mine, db))
  BY CommitsLast DEF CutoverInv
<1>2. CutoverRows \subseteq DOMAIN db' /\ \A r \in CutoverRows : db'[r] = db[r]
  BY <1>1, WritesHeld DEF CutoverInv
<1>3. Tables' /\ OperationsStay
  BY <1>2, TablesStay DEF CutoverInv
<1> QED
  BY <1>1, <1>2, <1>3, IdleHere, StepKeeps

-----------------------------------------------------------------------------
(* Intents. *)

LEMMA FindIntentKeeps ==
  ASSUME CutoverInv, NEW c \in Clients, FindIntent(c)
  PROVE  CutoverInv'
<1> DEFINE r == OperationRow(session[c].call.operation)
<1>1. /\ session[c] # Idle /\ session[c].call.op = "intent" /\ session[c].at = "find"
      /\ DOMAIN session[c].mine = {} /\ session[c].row = r /\ r \in CutoverRows
      /\ session[c].call \in DOMAIN answers /\ session[c].call.operation \in Operations
  BY Rows DEF FindIntent, Ready, At, Asked, CutoverInv, Where, IntentIsAt
<1>2. CASE Present(r)
  <2>1. CommitLast(c, <<>>, "ok")
    BY <1>1, <1>2 DEF FindIntent
  <2> QED
    BY <1>1, <2>1, CallStays
<1>3. CASE ~Present(r)
  <2>1. Proceed(c, <<>>, "configuration", ConfigurationRow, session[c].todo)
    BY <1>1, <1>3 DEF FindIntent, Goes
  <2>2. /\ session'[c].call = session[c].call /\ session'[c].at = "configuration"
        /\ session'[c].row = ConfigurationRow /\ DOMAIN session'[c].mine = DOMAIN session[c].mine
        /\ UNCHANGED answers
    BY <2>1, ProceedsWithout DEF CutoverInv
  <2>3. Where(c)'
    BY <1>1, <2>2 DEF Where, IntentIsAt, BooksOps
  <2>4. Locked(c) = {}
    BY <1>1, <1>3 DEF Locked
  <2> QED
    BY <2>1, <2>3, <2>4, CallProceeds
<1> QED
  BY <1>2, <1>3

\* Intents and preparations lock the configuration first, then the control.
LEMMA LockConfigurationKeeps ==
  ASSUME CutoverInv, NEW c \in Clients, LockConfiguration(c)
  PROVE  CutoverInv'
<1>1. /\ session[c] # Idle /\ session[c].call.op \in {"intent", "prepare"}
      /\ session[c].at = "configuration" /\ Ready(c, "configuration")
      /\ session[c].call \in DOMAIN answers
      /\ session[c].call.op = "intent" => IntentIsAt(c)
      /\ session[c].call.op = "prepare" => PrepareIsAt(c)
  BY DEF LockConfiguration, Ready, At, Asked, CutoverInv, Where
<1>2. session[c].row = ConfigurationRow /\ DOMAIN session[c].mine = {}
  BY <1>1 DEF IntentIsAt, PrepareIsAt
<1>3. Proceed(c, <<>>, "control", ControlRow, session[c].todo)
  BY DEF LockConfiguration, Goes
<1>4. /\ session'[c].call = session[c].call /\ session'[c].at = "control"
      /\ session'[c].row = ControlRow /\ DOMAIN session'[c].mine = DOMAIN session[c].mine
      /\ session'[c].locks = session[c].locks \cup Locked(c) /\ UNCHANGED answers
  BY <1>3, ProceedsWithout DEF CutoverInv
<1>5. Locked(c) = {ConfigurationRow}
  BY <1>1, <1>2, Rows DEF Locked
<1>6. Where(c)'
  BY <1>1, <1>2, <1>4, <1>5 DEF Where, IntentIsAt, PrepareIsAt, BooksOps
<1>7. Mine(c, ConfigurationRow)
  BY <1>1, <1>2, Rows, GetsRow
<1> QED
  BY <1>3, <1>5, <1>6, <1>7, CallProceeds

LEMMA AdmitIntentKeeps ==
  ASSUME CutoverInv, NEW c \in Clients, AdmitIntent(c)
  PROVE  CutoverInv'
<1> DEFINE r == OperationRow(session[c].call.operation)
<1>1. /\ session[c] # Idle /\ session[c].call.op = "intent" /\ session[c].at = "control"
      /\ DOMAIN session[c].mine = {} /\ session[c].row = ControlRow
      /\ ConfigurationRow \in session[c].locks /\ Ready(c, "control")
      /\ session[c].call \in DOMAIN answers /\ session[c].call.operation \in Operations
  BY DEF AdmitIntent, Ready, At, Asked, CutoverInv, Where, IntentIsAt
<1>2. \/ Refuse(c, "not activated")
      \/ db[ControlRow].status = Engine /\ Proceed(c, <<>>, "record", r, session[c].todo)
  BY DEF AdmitIntent, Goes, Asked
<1>3. CASE db[ControlRow].status = Engine /\ Proceed(c, <<>>, "record", r, session[c].todo)
  <2>1. /\ session'[c].call = session[c].call /\ session'[c].at = "record"
        /\ session'[c].row = r /\ DOMAIN session'[c].mine = DOMAIN session[c].mine
        /\ session'[c].locks = session[c].locks \cup Locked(c) /\ UNCHANGED <<db, answers>>
    BY <1>3, ProceedsWithout DEF CutoverInv
  <2>2. Locked(c) = {ControlRow}
    BY <1>1, Rows DEF Locked
  <2>3. Where(c)'
    BY <1>1, <1>3, <2>1, <2>2 DEF Where, IntentIsAt, BooksOps, Engine
  <2>4. Mine(c, ControlRow)
    BY <1>1, Rows, GetsRow
  <2> QED
    BY <1>3, <2>2, <2>3, <2>4, CallProceeds
<1> QED
  BY <1>2, <1>3, RefusalKeeps

LEMMA RecordIntentKeeps ==
  ASSUME CutoverInv, NEW c \in Clients, RecordIntent(c)
  PROVE  CutoverInv'
<1> DEFINE o == session[c].call.operation
           r == OperationRow(o)
<1>1. /\ session[c] # Idle /\ DOMAIN session[c].mine = {} /\ session[c].row = r
      /\ {ConfigurationRow, ControlRow} \subseteq session[c].locks
      /\ db[ControlRow].status = Engine /\ o \in Operations
  BY DEF RecordIntent, Ready, At, Asked, CutoverInv, Where, IntentIsAt
<1>2. Refuse(c, "ok") \/ (~Present(r) /\ CommitLast(c, RowIs(r, NewOperation("intent", Engine)), "ok"))
  BY <1>1 DEF RecordIntent
<1>3. ASSUME ~Present(r), CommitLast(c, RowIs(r, NewOperation("intent", Engine)), "ok")
      PROVE  CutoverInv'
  <2> DEFINE v == NewOperation("intent", Engine)
  <2> HIDE DEF v
  <2>1. CommitLast(c, RowIs(r, v), "ok")
    BY <1>3 DEF v
  <2>2. /\ SessionShape' /\ Alone(c) /\ session'[c] = Idle /\ DOMAIN answers' = DOMAIN answers
        /\ db' = Over(RowIs(r, v), Over(session[c].mine, db))
    BY <2>1, CommitsLast DEF CutoverInv
  <2>3. /\ CutoverRows \subseteq DOMAIN db' /\ db'[r] = v
        /\ \A s \in CutoverRows : s # r => db'[s] = db[s]
    <3>1. Tables /\ DOMAIN session[c].mine \subseteq {r}
      BY <1>1 DEF CutoverInv
    <3> HIDE DEF r
    <3> QED
      BY <2>2, <3>1, WritesOne
  <2>4. Tables' /\ OperationsStay
    BY <1>1, <1>3, <2>3, OperationComes DEF CutoverInv, v
  <2>5. r \notin {ConfigurationRow, ControlRow}
    BY Rows
  <2> QED
    BY <1>3, <2>2, <2>3, <2>4, <2>5, IdleHere, StepKeeps
<1> QED
  BY <1>2, <1>3, RefusalKeeps

-----------------------------------------------------------------------------
(* Preparing, approving and activating. *)

\* A commit of the control writes no other row.
LEMMA WritesControl ==
  ASSUME Tables, NEW c, NEW status, DOMAIN session[c].mine = {},
         db' = Over(Control(status), Over(session[c].mine, db))
  PROVE  /\ CutoverRows \subseteq DOMAIN db' /\ db'[ControlRow].status = status
         /\ \A s \in CutoverRows : s # ControlRow => db'[s] = db[s]
<1> DEFINE mine == session[c].mine
           w == Control(status)
           v == [status |-> status]
<1>1. DOMAIN w = {ControlRow} /\ w[ControlRow] = v
  BY RowIsRow DEF Control
<1>2. v.status = status
  OBVIOUS
<1> HIDE DEF mine, w, v
<1>3. db' = Over(w, Over(mine, db))
  BY DEF mine, w
<1>4. /\ DOMAIN db' = DOMAIN w \cup DOMAIN mine \cup DOMAIN db
      /\ \A x \in DOMAIN w : db'[x] = w[x]
      /\ \A x \in DOMAIN mine \ DOMAIN w : db'[x] = mine[x]
      /\ \A x \in DOMAIN db \ (DOMAIN w \cup DOMAIN mine) : db'[x] = db[x]
  BY <1>3, Writes
<1>5. DOMAIN mine = {}
  BY DEF mine
<1> QED
  BY <1>1, <1>2, <1>4, <1>5 DEF Tables

\* The control moves short of the last step, by who holds it.
LEMMA ControlMovesOn ==
  ASSUME CutoverInv, NEW c \in Clients, DOMAIN session[c].mine = {}, Mine(c, ControlRow),
         NEW status, status # "tigerbeetle", Engine = "postgresql",
         status \in {"approved", "activating"} => NoneLeftBehind,
         db' = Over(Control(status), Over(session[c].mine, db))
  PROVE  /\ Tables' /\ OperationsStay
         /\ \A r \in CutoverRows : db'[r] = db[r] \/ Mine(c, r)
<1>1. Tables
  BY DEF CutoverInv
<1>2. /\ CutoverRows \subseteq DOMAIN db' /\ db'[ControlRow].status = status
      /\ \A s \in CutoverRows : s # ControlRow => db'[s] = db[s]
  BY <1>1, WritesControl
<1>3. db'[ConfigurationRow] = db[ConfigurationRow]
  BY <1>2, Rows
<1>4. /\ "status" \in DOMAIN db'[ConfigurationRow] /\ Engine' = "postgresql"
      /\ EngineFollowsControl' /\ (Settling' => NoneLeftBehind)
  BY <1>1, <1>2, <1>3 DEF Tables, Engine, EngineFollowsControl, Settling
<1>5. Tables' /\ OperationsStay
  BY <1>1, <1>2, <1>4, ControlMoves
<1> QED
  BY <1>2, <1>5

\* A call moves the control and ends.
LEMMA ControlEnds ==
  ASSUME CutoverInv, NEW c \in Clients, DOMAIN session[c].mine = {}, Mine(c, ControlRow),
         NEW status, status # "tigerbeetle", Engine = "postgresql",
         status \in {"approved", "activating"} => NoneLeftBehind,
         CommitLast(c, Control(status), "ok")
  PROVE  CutoverInv'
<1>1. /\ SessionShape' /\ Alone(c) /\ session'[c] = Idle /\ DOMAIN answers' = DOMAIN answers
      /\ db' = Over(Control(status), Over(session[c].mine, db))
  BY CommitsLast DEF CutoverInv
<1>2. /\ Tables' /\ OperationsStay
      /\ \A r \in CutoverRows : db'[r] = db[r] \/ Mine(c, r)
  BY <1>1, ControlMovesOn
<1> QED
  BY <1>1, <1>2, IdleHere, StepKeeps

LEMMA PrepareKeeps ==
  ASSUME CutoverInv, NEW c \in Clients, Prepare(c)
  PROVE  CutoverInv'
<1>1. /\ session[c] # Idle /\ Ready(c, "control") /\ DOMAIN session[c].mine = {}
      /\ session[c].row = ControlRow
  BY DEF Prepare, Ready, At, Asked, CutoverInv, Where, PrepareIsAt
<1>2. Mine(c, ControlRow)
  BY <1>1, Rows, GetsRow
<1>3. \/ Refuse(c, "activated") \/ CommitLast(c, <<>>, "ok")
      \/ Engine = "postgresql" /\ CommitLast(c, Control("preparing_tigerbeetle"), "ok")
  BY DEF Prepare
<1> QED
  BY <1>1, <1>2, <1>3, RefusalKeeps, CallStays, ControlEnds

LEMMA LockControlKeeps ==
  ASSUME CutoverInv, NEW c \in Clients, LockControl(c)
  PROVE  CutoverInv'
<1>1. /\ session[c] # Idle /\ session[c].call.op = "approve" /\ Ready(c, "control")
      /\ session[c].at = "control" /\ DOMAIN session[c].mine = {} /\ session[c].row = ControlRow
      /\ session[c].call \in DOMAIN answers
  BY DEF LockControl, Ready, At, Asked, CutoverInv, Where, ApproveIsAt
<1>2. \/ Refuse(c, "not prepared") \/ CommitLast(c, <<>>, "ok")
      \/ Proceed(c, <<>>, "configuration", ConfigurationRow, session[c].todo)
  BY DEF LockControl, Goes
<1>3. CASE Proceed(c, <<>>, "configuration", ConfigurationRow, session[c].todo)
  <2>1. /\ session'[c].call = session[c].call /\ session'[c].at = "configuration"
        /\ session'[c].row = ConfigurationRow /\ DOMAIN session'[c].mine = DOMAIN session[c].mine
        /\ session'[c].locks = session[c].locks \cup Locked(c) /\ UNCHANGED answers
    BY <1>3, ProceedsWithout DEF CutoverInv
  <2>2. Locked(c) = {ControlRow}
    BY <1>1, Rows DEF Locked
  <2>3. Where(c)'
    BY <1>1, <2>1, <2>2 DEF Where, ApproveIsAt, BooksOps
  <2>4. Mine(c, ControlRow)
    BY <1>1, Rows, GetsRow
  <2> QED
    BY <1>3, <2>2, <2>3, <2>4, CallProceeds
<1> QED
  BY <1>1, <1>2, <1>3, RefusalKeeps, CallStays

\* Nothing is left behind where nothing is unresolved.
LEMMA NoneUnresolved ==
  ASSUME Tables, Unresolved = {}
  PROVE  NoneLeftBehind
<1>1. ASSUME NEW o \in Operations, Present(OperationRow(o))
      PROVE  db[OperationRow(o)].status \in Decided
  BY <1>1 DEF Tables, IsOperation, Unresolved
<1> QED
  BY <1>1 DEF NoneLeftBehind

LEMMA ApproveKeeps ==
  ASSUME CutoverInv, NEW c \in Clients, Approve(c)
  PROVE  CutoverInv'
<1>1. /\ session[c] # Idle /\ DOMAIN session[c].mine = {} /\ ControlRow \in session[c].locks
  BY DEF Approve, Ready, At, Asked, CutoverInv, Where, ApproveIsAt
<1>2. Mine(c, ControlRow)
  BY <1>1, Rows, Has
<1>3. \/ Refuse(c, "blocked")
      \/ Engine = "postgresql" /\ Unresolved = {} /\ CommitLast(c, Control("approved"), "ok")
  BY DEF Approve, Approvable
<1> QED
  BY <1>1, <1>2, <1>3, NoneUnresolved, RefusalKeeps, ControlEnds DEF CutoverInv

LEMMA BeginActivationKeeps ==
  ASSUME CutoverInv, NEW c \in Clients, BeginActivation(c)
  PROVE  CutoverInv'
<1>1. /\ session[c] # Idle /\ session[c].call.op = "activate" /\ Ready(c, "control")
      /\ session[c].at = "control" /\ DOMAIN session[c].mine = {} /\ session[c].row = ControlRow
      /\ session[c].call \in DOMAIN answers
  BY DEF BeginActivation, Ready, At, Asked, CutoverInv, Where, ActivateIsAt
<1>2. \/ Refuse(c, "blocked") \/ CommitLast(c, <<>>, "ok")
      \/ /\ db[ControlRow].status \in {"approved", "activating"}
         /\ Proceed(c, <<>>, "configuration", ConfigurationRow, session[c].todo)
  BY DEF BeginActivation, Goes
<1>3. CASE /\ db[ControlRow].status \in {"approved", "activating"}
           /\ Proceed(c, <<>>, "configuration", ConfigurationRow, session[c].todo)
  <2>1. /\ session'[c].call = session[c].call /\ session'[c].at = "configuration"
        /\ session'[c].row = ConfigurationRow /\ DOMAIN session'[c].mine = DOMAIN session[c].mine
        /\ session'[c].locks = session[c].locks \cup Locked(c) /\ UNCHANGED <<db, answers>>
    BY <1>3, ProceedsWithout DEF CutoverInv
  <2>2. Locked(c) = {ControlRow}
    BY <1>1, Rows DEF Locked
  <2>3. ActivateIsAt(c)'
    BY <1>1, <1>3, <2>1, <2>2 DEF ActivateIsAt
  <2>4. Where(c)'
    BY <1>1, <2>1, <2>3 DEF Where, BooksOps
  <2>5. Mine(c, ControlRow)
    BY <1>1, Rows, GetsRow
  <2> QED
    BY <1>3, <2>2, <2>4, <2>5, CallProceeds
<1> QED
  BY <1>1, <1>2, <1>3, RefusalKeeps, CallStays

LEMMA MarkActivatingKeeps ==
  ASSUME CutoverInv, NEW c \in Clients, MarkActivating(c)
  PROVE  CutoverInv'
<1>1. /\ session[c] # Idle /\ session[c].call.op = "activate" /\ DOMAIN session[c].mine = {}
      /\ session[c].call \in DOMAIN answers /\ ControlRow \in session[c].locks
      /\ db[ControlRow].status \in {"approved", "activating"}
  BY DEF MarkActivating, Ready, At, Asked, CutoverInv, Where, ActivateIsAt
<1>2. \/ Refuse(c, "blocked")
      \/ Engine = "postgresql" /\ CommitThen(c, Control("activating"), "provision", NoRow, <<>>)
  BY DEF MarkActivating
<1>3. ASSUME Engine = "postgresql", CommitThen(c, Control("activating"), "provision", NoRow, <<>>)
      PROVE  CutoverInv'
  <2>1. /\ SessionShape' /\ Alone(c) /\ answers' = answers
        /\ session'[c].call = session[c].call /\ session'[c].at = "provision"
        /\ session'[c].row = NoRow /\ session'[c].locks = {} /\ DOMAIN session'[c].mine = {}
        /\ db' = Over(Control("activating"), Over(session[c].mine, db))
    BY <1>3, CommitsThen DEF CutoverInv
  <2>2. Mine(c, ControlRow) /\ NoneLeftBehind
    BY <1>1, Rows, Has DEF CutoverInv, Tables, Settling
  <2>3. /\ Tables' /\ OperationsStay
        /\ \A r \in CutoverRows : db'[r] = db[r] \/ Mine(c, r)
    BY <1>1, <1>3, <2>1, <2>2, ControlMovesOn
  <2>4. ActivateIsAt(c)'
    BY <2>1 DEF ActivateIsAt
  <2>5. Where(c)'
    BY <1>1, <2>1, <2>4 DEF Where, BooksOps
  <2> QED
    BY <2>1, <2>3, <2>5, StepKeeps
<1> QED
  BY <1>2, <1>3, RefusalKeeps

LEMMA ProvisionKeeps ==
  ASSUME CutoverInv, NEW c \in Clients, Provision(c)
  PROVE  CutoverInv'
<1>1. /\ session[c] # Idle /\ session[c].call.op = "activate" /\ DOMAIN session[c].mine = {}
      /\ session[c].row = NoRow /\ session[c].call \in DOMAIN answers
      /\ session[c].at = "provision"
  BY DEF Provision, At, Asked, CutoverInv, Where, ActivateIsAt
<1>2. Refuse(c, "blocked") \/ Proceed(c, <<>>, "switch", ConfigurationRow, session[c].todo)
  BY DEF Provision, Goes
<1>3. CASE Proceed(c, <<>>, "switch", ConfigurationRow, session[c].todo)
  <2>1. /\ session'[c].call = session[c].call /\ session'[c].at = "switch"
        /\ session'[c].row = ConfigurationRow /\ DOMAIN session'[c].mine = DOMAIN session[c].mine
        /\ UNCHANGED answers
    BY <1>3, ProceedsWithout DEF CutoverInv
  <2>2. ActivateIsAt(c)'
    BY <1>1, <2>1 DEF ActivateIsAt
  <2>3. Where(c)'
    BY <1>1, <2>1, <2>2 DEF Where, BooksOps
  <2>4. Locked(c) = {}
    BY <1>1 DEF Locked
  <2> QED
    BY <1>3, <2>3, <2>4, CallProceeds
<1> QED
  BY <1>2, <1>3, RefusalKeeps

LEMMA SwitchKeeps ==
  ASSUME CutoverInv, NEW c \in Clients, Switch(c)
  PROVE  CutoverInv'
<1> DEFINE v == [db[ConfigurationRow] EXCEPT !.status = "tigerbeetle"]
<1>1. /\ session[c] # Idle /\ session[c].call.op = "activate" /\ DOMAIN session[c].mine = {}
      /\ session[c].row = ConfigurationRow /\ session[c].call \in DOMAIN answers
      /\ session[c].at = "switch" /\ Ready(c, "switch")
  BY DEF Switch, Ready, At, Asked, CutoverInv, Where, ActivateIsAt
<1>2. "status" \in DOMAIN v /\ v.status = "tigerbeetle"
  BY DEF CutoverInv, Tables
<1>3. \/ Refuse(c, "unknown")
      \/ Proceed(c, RowIs(ConfigurationRow, v), "complete", ControlRow, session[c].todo)
  BY DEF Switch, Goes, Routed
<1> HIDE DEF v
<1>4. CASE Proceed(c, RowIs(ConfigurationRow, v), "complete", ControlRow, session[c].todo)
  <2>1. /\ session'[c].call = session[c].call /\ session'[c].at = "complete"
        /\ session'[c].row = ControlRow /\ session'[c].mine[ConfigurationRow] = v
        /\ DOMAIN session'[c].mine = {ConfigurationRow} \cup DOMAIN session[c].mine
        /\ session'[c].locks = session[c].locks \cup Locked(c) /\ UNCHANGED answers
    BY <1>4, ProceedsWith DEF CutoverInv
  <2>2. Locked(c) = {ConfigurationRow}
    BY <1>1, Rows DEF Locked
  <2>3. ActivateIsAt(c)'
    BY <1>1, <1>2, <2>1, <2>2 DEF ActivateIsAt
  <2>4. Where(c)'
    BY <1>1, <2>1, <2>3 DEF Where, BooksOps
  <2>5. Mine(c, ConfigurationRow)
    BY <1>1, Rows, GetsRow
  <2> QED
    BY <1>4, <2>2, <2>4, <2>5, CallProceeds
<1> QED
  BY <1>3, <1>4, RefusalKeeps

\* The route and the control are switched by one commit.
LEMMA CompleteKeeps ==
  ASSUME CutoverInv, NEW c \in Clients, Complete(c)
  PROVE  CutoverInv'
<1> DEFINE v == session[c].mine[ConfigurationRow]
<1>1. /\ session[c] # Idle /\ session[c].row = ControlRow /\ Ready(c, "complete")
      /\ ConfigurationRow \in session[c].locks /\ DOMAIN session[c].mine = {ConfigurationRow}
      /\ "status" \in DOMAIN v /\ v.status = "tigerbeetle"
  BY DEF Complete, Ready, At, Asked, CutoverInv, Where, ActivateIsAt
<1> HIDE DEF v
<1>2. Mine(c, ControlRow) /\ Mine(c, ConfigurationRow)
  BY <1>1, Rows, GetsRow, Has
<1>3. \/ Refuse(c, "blocked")
      \/ db[ControlRow].status = "tigerbeetle" /\ CommitLast(c, <<>>, "ok")
      \/ db[ControlRow].status = "activating" /\ CommitLast(c, Control("tigerbeetle"), "ok")
  BY DEF Complete
<1>4. ASSUME /\ SessionShape' /\ Alone(c) /\ session'[c] = Idle /\ DOMAIN answers' = DOMAIN answers
             /\ CutoverRows \subseteq DOMAIN db' /\ db'[ConfigurationRow] = v
             /\ \A s \in CutoverRows \ {ConfigurationRow, ControlRow} : db'[s] = db[s],
             db[ControlRow].status \in {"tigerbeetle", "activating"},
             db'[ControlRow].status = "tigerbeetle"
      PROVE  CutoverInv'
  <2>1. /\ "status" \in DOMAIN db'[ConfigurationRow] /\ Engine' = "tigerbeetle"
        /\ EngineFollowsControl' /\ NoneLeftBehind
    BY <1>1, <1>4 DEF CutoverInv, Tables, Engine, EngineFollowsControl, Settling
  <2>2. Tables' /\ OperationsStay
    BY <1>4, <2>1, ControlMoves DEF CutoverInv
  <2> QED
    BY <1>2, <1>4, <2>2, IdleHere, StepKeeps
<1>5. ASSUME db[ControlRow].status = "tigerbeetle", CommitLast(c, <<>>, "ok")
      PROVE  CutoverInv'
  <2>1. /\ SessionShape' /\ Alone(c) /\ session'[c] = Idle /\ DOMAIN answers' = DOMAIN answers
        /\ db' = Over(<<>>, Over(session[c].mine, db))
    BY <1>5, CommitsLast DEF CutoverInv
  <2>2. /\ CutoverRows \subseteq DOMAIN db' /\ db'[ConfigurationRow] = v
        /\ \A s \in CutoverRows : s # ConfigurationRow => db'[s] = db[s]
    BY <1>1, <2>1, WritesHeld DEF CutoverInv, v
  <2> QED
    BY <1>4, <1>5, <2>1, <2>2, Rows
<1>6. ASSUME db[ControlRow].status = "activating", CommitLast(c, Control("tigerbeetle"), "ok")
      PROVE  CutoverInv'
  <2> DEFINE x == [status |-> "tigerbeetle"]
  <2>1. x.status = "tigerbeetle"
    OBVIOUS
  <2>2. CommitLast(c, RowIs(ControlRow, x), "ok")
    BY <1>6 DEF Control
  <2> HIDE DEF x
  <2>3. /\ SessionShape' /\ Alone(c) /\ session'[c] = Idle /\ DOMAIN answers' = DOMAIN answers
        /\ db' = Over(RowIs(ControlRow, x), Over(session[c].mine, db))
    BY <2>2, CommitsLast DEF CutoverInv
  <2>4. Tables /\ ConfigurationRow # ControlRow
    BY Rows DEF CutoverInv
  <2>5. /\ CutoverRows \subseteq DOMAIN db' /\ db'[ControlRow] = x /\ db'[ConfigurationRow] = v
        /\ \A s \in CutoverRows : s \notin {ControlRow, ConfigurationRow} => db'[s] = db[s]
    <3> DEFINE r == ControlRow
               t == ConfigurationRow
    <3> HIDE DEF r, t
    <3>1. /\ t # r /\ DOMAIN session[c].mine = {t} /\ v = session[c].mine[t]
          /\ db' = Over(RowIs(r, x), Over(session[c].mine, db))
      BY <1>1, <2>3, <2>4 DEF r, t, v
    <3>2. /\ CutoverRows \subseteq DOMAIN db' /\ db'[r] = x /\ db'[t] = session[c].mine[t]
          /\ \A s \in CutoverRows : s \notin {r, t} => db'[s] = db[s]
      BY <2>4, <3>1, WritesBoth
    <3> QED
      BY <3>1, <3>2 DEF r, t
  <2> QED
    BY <1>4, <1>6, <2>1, <2>3, <2>5
<1> QED
  BY <1>3, <1>5, <1>6, RefusalKeeps

LEMMA CutoverStepKeeps ==
  ASSUME CutoverInv, NEW c \in Clients, CutoverStep(c)
  PROVE  CutoverInv'
BY FindIntentKeeps, LockConfigurationKeeps, AdmitIntentKeeps, RecordIntentKeeps, PrepareKeeps,
  LockControlKeeps, ApproveKeeps, BeginActivationKeeps, MarkActivatingKeeps, ProvisionKeeps,
  SwitchKeeps, CompleteKeeps DEF CutoverStep

-----------------------------------------------------------------------------
(* The books. *)

\* A call of the books refuses, writes a row elsewhere or nothing and ends, or goes
\* on elsewhere.
BooksGoOn(c) ==
  \/ \E outcome : Refuse(c, outcome) \/ CommitLast(c, <<>>, outcome)
  \/ \E r, v, outcome : r \notin CutoverRows /\ CommitLast(c, RowIs(r, v), outcome)
  \/ \E at, row, todo : Elsewhere(at, row) /\ CommitThen(c, <<>>, at, row, todo)
  \/ \E at, row, todo : Elsewhere(at, row) /\ Proceed(c, <<>>, at, row, todo)
  \/ \E r, v, at, row, todo : /\ r \notin CutoverRows /\ Elsewhere(at, row)
                              /\ Proceed(c, RowIs(r, v), at, row, todo)

\* A call of the books commits what is written elsewhere.
LEMMA BooksCommit ==
  ASSUME CutoverInv, NEW c \in Clients, NEW w, DOMAIN w \cap CutoverRows = {},
         DOMAIN session[c].mine \cap CutoverRows = {},
         SessionShape', Alone(c), DOMAIN answers' = DOMAIN answers,
         db' = Over(w, Over(session[c].mine, db)), session'[c].locks = {}, Where(c)'
  PROVE  CutoverInv'
<1>1. CutoverRows \subseteq DOMAIN db' /\ \A r \in CutoverRows : db'[r] = db[r]
  BY WritesNone DEF CutoverInv
<1>2. Tables' /\ OperationsStay
  BY <1>1, TablesStay DEF CutoverInv
<1> QED
  BY <1>1, <1>2, StepKeeps

LEMMA BooksKeep ==
  ASSUME CutoverInv, NEW c \in Clients, session[c] # Idle, session[c].call.op \in BooksOps,
         session[c].at = "posting" => Ready(c, "posting"), BooksGoOn(c)
  PROVE  CutoverInv'
<1>1. /\ session[c].call \in DOMAIN answers /\ DOMAIN session[c].mine \cap CutoverRows = {}
      /\ Elsewhere(session[c].at, session[c].row)
  BY DEF CutoverInv, Where, BooksIsAt
<1>2. \A r \in CutoverRows \cap Locked(c) : Mine(c, r)
  <2>1. SUFFICES ASSUME NEW r \in CutoverRows, r \in Locked(c) PROVE Mine(c, r)
    OBVIOUS
  <2>2. r = session[c].row
    BY <2>1 DEF Locked
  <2>3. session[c].at = "posting"
    BY <1>1, <2>2 DEF Elsewhere
  <2> QED
    BY <2>1, <2>3, Gets
<1>3. DOMAIN <<>> = {}
  OBVIOUS
<1>4. ASSUME session'[c].call = session[c].call, DOMAIN session'[c].mine \cap CutoverRows = {},
             Elsewhere(session'[c].at, session'[c].row), answers' = answers
      PROVE  Where(c)'
  <2>1. BooksIsAt(c)'
    BY <1>4 DEF BooksIsAt, Elsewhere
  <2> QED
    BY <1>1, <1>4, <2>1 DEF Where, BooksOps
<1>5. ASSUME NEW w, DOMAIN w \cap CutoverRows = {}, NEW outcome, CommitLast(c, w, outcome)
      PROVE  CutoverInv'
  BY <1>1, <1>5, CommitsLast, IdleHere, BooksCommit DEF CutoverInv
<1>6. ASSUME NEW at, NEW row, NEW todo, Elsewhere(at, row), CommitThen(c, <<>>, at, row, todo)
      PROVE  CutoverInv'
  <2>1. /\ SessionShape' /\ Alone(c) /\ answers' = answers
        /\ session'[c].call = session[c].call /\ session'[c].at = at /\ session'[c].row = row
        /\ session'[c].locks = {} /\ DOMAIN session'[c].mine = {}
        /\ db' = Over(<<>>, Over(session[c].mine, db))
    BY <1>6, CommitsThen DEF CutoverInv
  <2> QED
    BY <1>1, <1>3, <1>4, <1>6, <2>1, BooksCommit
<1>7. ASSUME NEW at, NEW row, NEW todo, Elsewhere(at, row), Proceed(c, <<>>, at, row, todo)
      PROVE  CutoverInv'
  <2>1. /\ session'[c].call = session[c].call /\ session'[c].at = at /\ session'[c].row = row
        /\ DOMAIN session'[c].mine = DOMAIN session[c].mine /\ answers' = answers
    BY <1>7, ProceedsWithout DEF CutoverInv
  <2>2. Where(c)'
    BY <1>1, <1>4, <1>7, <2>1
  <2> QED
    BY <1>2, <1>7, <2>2, CallProceeds
<1>8. ASSUME NEW r, NEW v, NEW at, NEW row, NEW todo, r \notin CutoverRows, Elsewhere(at, row),
             Proceed(c, RowIs(r, v), at, row, todo)
      PROVE  CutoverInv'
  <2>1. /\ session'[c].call = session[c].call /\ session'[c].at = at /\ session'[c].row = row
        /\ DOMAIN session'[c].mine = {r} \cup DOMAIN session[c].mine /\ answers' = answers
    BY <1>8, ProceedsWith DEF CutoverInv
  <2>2. Where(c)'
    BY <1>1, <1>4, <1>8, <2>1
  <2> QED
    BY <1>2, <1>8, <2>2, CallProceeds
<1>9. ASSUME NEW r, NEW v, NEW outcome, r \notin CutoverRows, CommitLast(c, RowIs(r, v), outcome)
      PROVE  CutoverInv'
  <2>1. DOMAIN RowIs(r, v) = {r}
    BY RowIsRow
  <2> QED
    BY <1>5, <1>9, <2>1
<1>10. ASSUME NEW outcome, CommitLast(c, <<>>, outcome)
       PROVE  CutoverInv'
  BY <1>3, <1>5, <1>10
<1> QED
  BY <1>6, <1>7, <1>8, <1>9, <1>10, RefusalKeeps DEF BooksGoOn

\* What a call of the books finds at its step.
LEMMA BooksHere ==
  ASSUME CutoverInv, NEW c \in Clients, NEW op, At(c, op), op \in BooksOps
  PROVE  /\ session[c] # Idle /\ session[c].call.op \in BooksOps /\ session[c].call \in Requests
         /\ session[c].at # "posting" => session[c].row \notin CutoverRows
BY DEF At, Asked, CutoverInv, Where, BooksIsAt, Elsewhere

\* Another entity is configured: this one has been.
LEMMA ConfigureLegalEntityKeeps ==
  ASSUME CutoverInv, NEW c \in Clients, ConfigureLegalEntity(c)
  PROVE  CutoverInv'
<1> DEFINE r == ConfigurationOf(Entity(c))
<1>1. /\ session[c] # Idle /\ session[c].call.op \in BooksOps /\ session[c].at = "insert"
  BY BooksHere DEF ConfigureLegalEntity, BooksOps
<1>2. Present(ConfigurationRow)
  BY DEF CutoverInv, Tables, Engine, Present, Absent
<1>3. r \in CutoverRows => r = ConfigurationRow
  BY DEF CutoverRows, ConfigurationOf, ControlRow, OperationRow, AccountRow
<1>4. BooksGoOn(c)
  <2> DEFINE v == Configured("postgresql", Asked(c).posting)
  <2>1. (\E outcome : Refuse(c, outcome)) \/ (~Present(r) /\ Stores(c, RowIs(r, v)))
    BY DEF ConfigureLegalEntity
  <2> HIDE DEF r, v
  <2> QED
    BY <1>2, <1>3, <2>1 DEF BooksGoOn, Stores
<1> QED
  BY <1>1, <1>4, BooksKeep

LEMMA CreateAccountKeeps ==
  ASSUME CutoverInv, NEW c \in Clients, CreateAccount(c)
  PROVE  CutoverInv'
<1>1. /\ session[c] # Idle /\ session[c].call.op \in BooksOps /\ session[c].at = "insert"
  BY BooksHere DEF CreateAccount, BooksOps
<1>2. BooksGoOn(c)
  BY RowsElsewhere DEF CreateAccount, BooksGoOn, Stores
<1> QED
  BY <1>1, <1>2, BooksKeep

LEMMA ConfigureRevenuePostingKeeps ==
  ASSUME CutoverInv, NEW c \in Clients, ConfigureRevenuePosting(c)
  PROVE  CutoverInv'
<1>1. /\ session[c] # Idle /\ session[c].call.op \in BooksOps /\ session[c].at = "insert"
  BY BooksHere DEF ConfigureRevenuePosting, BooksOps
<1>2. BooksGoOn(c)
  BY RowsElsewhere DEF ConfigureRevenuePosting, BooksGoOn, Stores
<1> QED
  BY <1>1, <1>2, BooksKeep

LEMMA PeriodsKeep ==
  ASSUME CutoverInv, NEW c \in Clients, OpenPeriod(c) \/ ClosePeriod(c) \/ CancelOrder(c)
  PROVE  CutoverInv'
<1>1. /\ session[c] # Idle /\ session[c].call.op \in BooksOps /\ session[c].at # "posting"
      /\ session[c].row \notin CutoverRows
  BY BooksHere DEF OpenPeriod, ClosePeriod, CancelOrder, BooksOps, Ready
<1>2. BooksGoOn(c)
  BY <1>1, RowsElsewhere DEF OpenPeriod, ClosePeriod, CancelOrder, BooksGoOn, Stores
<1> QED
  BY <1>1, <1>2, BooksKeep

\* Where calls about revenue go.
LEMMA RevenueElsewhere ==
  \A c : Revenue(c) \notin CutoverRows /\ Reversal(c) \notin CutoverRows
BY RowsElsewhere DEF Revenue, Reversal

\* What a call about revenue finds at its step.
LEMMA RevenueHere ==
  ASSUME CutoverInv, NEW c \in Clients, session[c].at # "idle", Asked(c).op \in RevenueOps
  PROVE  /\ session[c] # Idle /\ session[c].call.op \in BooksOps
         /\ session[c].at # "posting" => session[c].row \notin CutoverRows
<1>1. session[c] # Idle
  BY IdleFields
<1> QED
  BY <1>1, BooksHere DEF At, RevenueOps, BooksOps, Asked

LEMMA EnsureLegacyEngineKeeps ==
  ASSUME CutoverInv, NEW c \in Clients, EnsureLegacyEngine(c)
  PROVE  CutoverInv'
<1>1. session[c] # Idle /\ session[c].call.op \in BooksOps /\ session[c].at = "legacy engine"
  BY RevenueHere DEF EnsureLegacyEngine
<1>2. BooksGoOn(c)
  BY RowsElsewhere, RevenueElsewhere DEF EnsureLegacyEngine, BooksGoOn, Elsewhere, Goes
<1> QED
  BY <1>1, <1>2, BooksKeep

LEMMA ReadTotalKeeps ==
  ASSUME CutoverInv, NEW c \in Clients, ReadTotal(c)
  PROVE  CutoverInv'
<1>1. /\ session[c] # Idle /\ session[c].call.op \in BooksOps /\ session[c].at = "total"
      /\ session[c].row \notin CutoverRows
  BY BooksHere DEF ReadTotal, Ready, BooksOps
<1>2. BooksGoOn(c)
  BY <1>1, RowsElsewhere DEF ReadTotal, AcceptRevenue, BooksGoOn, Elsewhere, Goes
<1> QED
  BY <1>1, <1>2, BooksKeep

LEMMA FindReversalKeeps ==
  ASSUME CutoverInv, NEW c \in Clients, FindReversal(c) \/ FindConcurrentReversal(c)
  PROVE  CutoverInv'
<1>1. session[c] # Idle /\ session[c].call.op \in BooksOps /\ session[c].at \in {"find", "again"}
  BY BooksHere DEF FindReversal, FindConcurrentReversal, Ready, BooksOps
<1>2. BooksGoOn(c)
  BY RowsElsewhere DEF FindReversal, FindConcurrentReversal, AcceptReversal, BooksGoOn, Elsewhere, Goes
<1> QED
  BY <1>1, <1>2, BooksKeep

LEMMA LockProfileKeeps ==
  ASSUME CutoverInv, NEW c \in Clients, LockProfile(c)
  PROVE  CutoverInv'
<1>1. session[c] # Idle /\ session[c].call.op \in BooksOps /\ session[c].at = "profile"
  BY RevenueHere DEF LockProfile, Ready
<1>2. BooksGoOn(c)
  BY RevenueElsewhere DEF LockProfile, BooksGoOn, Elsewhere, Goes
<1> QED
  BY <1>1, <1>2, BooksKeep

\* A posting may lock the configuration of this entity.
LEMMA LockPostingEnabledKeeps ==
  ASSUME CutoverInv, NEW c \in Clients, LockPostingEnabled(c)
  PROVE  CutoverInv'
<1>1. session[c] # Idle /\ session[c].call.op \in BooksOps /\ Ready(c, "posting")
  BY RevenueHere DEF LockPostingEnabled, Ready
<1>2. BooksGoOn(c)
  BY Rows DEF LockPostingEnabled, BooksGoOn, Elsewhere, Goes
<1> QED
  BY <1>1, <1>2, BooksKeep

LEMMA FindPeriodKeeps ==
  ASSUME CutoverInv, NEW c \in Clients, FindPeriod(c) \/ LockPeriod(c)
  PROVE  CutoverInv'
<1>1. session[c] # Idle /\ session[c].call.op \in BooksOps /\ session[c].at # "posting"
  BY RevenueHere DEF FindPeriod, LockPeriod, Ready
<1>2. BooksGoOn(c)
  BY RowsElsewhere, RevenueElsewhere DEF FindPeriod, LockPeriod, BooksGoOn, Elsewhere, Goes
<1> QED
  BY <1>1, <1>2, BooksKeep

LEMMA RecordRevenueKeeps ==
  ASSUME CutoverInv, NEW c \in Clients, RecordRevenue(c) \/ AppendRevenuePosted(c)
  PROVE  CutoverInv'
<1>1. /\ session[c] # Idle /\ session[c].call.op \in BooksOps /\ session[c].at # "posting"
      /\ session[c].row \notin CutoverRows
  BY BooksHere DEF RecordRevenue, AppendRevenuePosted, Ready, BooksOps
<1>2. BooksGoOn(c)
  BY <1>1, RowsElsewhere, RevenueElsewhere
    DEF RecordRevenue, AppendRevenuePosted, BooksGoOn, Elsewhere, Goes, Stores
<1> QED
  BY <1>1, <1>2, BooksKeep

LEMMA RecordReversalKeeps ==
  ASSUME CutoverInv, NEW c \in Clients, LockSource(c) \/ RecordReversal(c)
  PROVE  CutoverInv'
<1>1. session[c] # Idle /\ session[c].call.op \in BooksOps /\ session[c].at # "posting"
  BY BooksHere DEF LockSource, RecordReversal, Ready, BooksOps
<1>2. BooksGoOn(c)
  BY RevenueElsewhere DEF LockSource, RecordReversal, BooksGoOn, Elsewhere, Goes, Stores
<1> QED
  BY <1>1, <1>2, BooksKeep

LEMMA JournalsKeep ==
  ASSUME CutoverInv, NEW c \in Clients,
         EnsureLegacyTenantEngine(c) \/ FindJournal(c) \/ RecordJournal(c)
  PROVE  CutoverInv'
<1>1. /\ session[c] # Idle /\ session[c].call.op \in BooksOps /\ session[c].at # "posting"
      /\ session[c].row \notin CutoverRows
  BY BooksHere DEF EnsureLegacyTenantEngine, FindJournal, RecordJournal, Ready, BooksOps
<1>2. BooksGoOn(c)
  BY <1>1, RowsElsewhere
    DEF EnsureLegacyTenantEngine, FindJournal, RecordJournal, AcceptJournal, BooksGoOn, Elsewhere, Goes,
        Stores
<1> QED
  BY <1>1, <1>2, BooksKeep

LEMMA BooksStepKeeps ==
  ASSUME CutoverInv, NEW c \in Clients, BooksStep(c)
  PROVE  CutoverInv'
BY ConfigureLegalEntityKeeps, CreateAccountKeeps, ConfigureRevenuePostingKeeps, PeriodsKeep,
  EnsureLegacyEngineKeeps, ReadTotalKeeps, FindReversalKeeps, LockProfileKeeps,
  LockPostingEnabledKeeps, FindPeriodKeeps, RecordRevenueKeeps, RecordReversalKeeps, JournalsKeep
  DEF BooksStep

-----------------------------------------------------------------------------
(* Calls begin and end. *)

\* A call begins where its operation starts.
LEMMA BeginsHere ==
  ASSUME CutoverInv, NEW c \in Clients, NEW q \in DOMAIN answers, NEW at, NEW row, NEW todo,
         Begin(c, q, at, row, todo), q.op \in {"run", "intent", "prepare", "approve", "activate"} \cup BooksOps,
         q.op = "run" => /\ q.operation \in Operations /\ Present(OperationRow(q.operation))
                         /\ at = "state" /\ row = OperationRow(q.operation),
         q.op = "intent" => q.operation \in Operations /\ at = "find" /\ row = OperationRow(q.operation),
         q.op = "prepare" => at = "configuration" /\ row = ConfigurationRow,
         q.op \in {"approve", "activate"} => at = "control" /\ row = ControlRow,
         q.op \in BooksOps => row \notin CutoverRows
  PROVE  CutoverInv'
<1>1. /\ SessionShape' /\ Alone(c) /\ UNCHANGED <<db, answers>>
      /\ session'[c].call = q /\ session'[c].at = at /\ session'[c].row = row
      /\ session'[c].locks = {} /\ DOMAIN session'[c].mine = {}
  BY Begins DEF CutoverInv
<1>2. /\ q.op = "run" => RunIsAt(c)'
      /\ q.op = "intent" => IntentIsAt(c)'
      /\ q.op = "prepare" => PrepareIsAt(c)'
      /\ q.op = "approve" => ApproveIsAt(c)'
      /\ q.op = "activate" => ActivateIsAt(c)'
      /\ q.op \in BooksOps => BooksIsAt(c)'
  BY <1>1 DEF RunIsAt, RunStages, LedgerStages, IntentIsAt, PrepareIsAt, ApproveIsAt, ActivateIsAt,
    BooksIsAt, Elsewhere, Present
<1>3. Where(c)'
  BY <1>1, <1>2 DEF Where
<1>4. Tables' /\ OperationsStay
  BY <1>1, TablesStay DEF CutoverInv, Tables
<1> QED
  BY <1>1, <1>3, <1>4, StepKeeps

LEMMA CallRunKeeps ==
  ASSUME CutoverInv, NEW c \in Clients, NEW q \in DOMAIN answers, CallRun(c, q)
  PROVE  CutoverInv'
<1>1. q \in Requests
  BY DEF CutoverInv
<1>2. /\ q.op = "run" /\ Present(OperationRow(q.operation))
      /\ \E todo : Begin(c, q, "state", OperationRow(q.operation), todo)
  BY DEF CallRun
<1>3. q.operation \in Operations
  BY <1>1, <1>2, CutoverAssumption
<1> QED
  BY <1>2, <1>3, BeginsHere DEF BooksOps

LEMMA CallCutoverKeeps ==
  ASSUME CutoverInv, NEW c \in Clients, NEW q \in DOMAIN answers, CallCutover(c, q)
  PROVE  CutoverInv'
<1>1. q.op = "intent" => q.operation \in Operations
  BY CutoverAssumption DEF CutoverInv
<1> QED
  BY <1>1, BeginsHere DEF CallCutover, BooksOps

LEMMA CallBooksKeeps ==
  ASSUME CutoverInv, NEW c \in Clients, NEW q \in DOMAIN answers, CallBooks(c, q)
  PROVE  CutoverInv'
<1>1. /\ q.op \in BooksOps
      /\ \E at, row : row \notin CutoverRows /\ Begin(c, q, at, row, <<>>)
  BY Rows, RowsElsewhere DEF CallBooks, BooksOps, RevenueOps
<1>2. q.op \notin {"run", "intent", "prepare", "approve", "activate"}
  BY <1>1 DEF BooksOps
<1> QED
  BY <1>1, <1>2, BeginsHere

-----------------------------------------------------------------------------
(* The theorems. *)

LEMMA CutoverStarts == CutoverInit => CutoverInv
<1> SUFFICES ASSUME CutoverInit PROVE CutoverInv
  OBVIOUS
<1>1. PICK scene \in Scenes :
        /\ db = Over(Control("postgresql"), Over(LedgerRows(scene.operations), BooksRows))
        /\ answers = [q \in scene.asked |-> {}]
  BY DEF CutoverInit
<1>2. session = [c \in Clients |-> Idle]
  BY DEF CutoverInit
<1> DEFINE stored == [r \in {OperationRow(o) : o \in Operations} |-> scene.operations[r[2]]]
           open == [r \in {AccountRow(a) : a \in Accounts} |-> [status |-> "open"]]
           configured == Configured("postgresql", TRUE)
           routes == RowIs(ConfigurationRow, configured)
           others == Over(open, routes)
           ledger == Over(stored, others)
           control == Control("postgresql")
           books == BooksRows
<1>3. /\ DOMAIN stored = {OperationRow(o) : o \in Operations}
      /\ \A o \in Operations : stored[OperationRow(o)] = scene.operations[o]
  BY DEF OperationRow
<1>4. DOMAIN open = {AccountRow(a) : a \in Accounts}
  OBVIOUS
<1>5. DOMAIN routes = {ConfigurationRow} /\ routes[ConfigurationRow] = configured
  BY RowIsRow
<1>6. DOMAIN control = {ControlRow} /\ control[ControlRow] = [status |-> "postgresql"]
  BY RowIsRow DEF Control
<1>7. "status" \in DOMAIN configured /\ configured.status = "postgresql"
  BY DEF Configured
<1>8. db = Over(control, Over(ledger, books))
  BY <1>1 DEF LedgerRows
<1> HIDE DEF stored, open, configured, routes, control, books
<1>9. /\ DOMAIN others = DOMAIN open \cup DOMAIN routes
      /\ \A r \in DOMAIN routes \ DOMAIN open : others[r] = routes[r]
  BY OverRows
<1> HIDE DEF others
<1>10. /\ DOMAIN ledger = DOMAIN stored \cup DOMAIN others
       /\ \A r \in DOMAIN stored : ledger[r] = stored[r]
       /\ \A r \in DOMAIN others \ DOMAIN stored : ledger[r] = others[r]
  BY OverRows
<1> HIDE DEF ledger
<1> DEFINE rows == Over(ledger, books)
<1>11. /\ DOMAIN rows = DOMAIN ledger \cup DOMAIN books
       /\ \A r \in DOMAIN ledger : rows[r] = ledger[r]
  BY OverRows
<1>12. db = Over(control, rows)
  BY <1>8
<1> HIDE DEF rows
<1>13. /\ DOMAIN db = DOMAIN control \cup DOMAIN rows
       /\ \A r \in DOMAIN control : db[r] = control[r]
       /\ \A r \in DOMAIN rows \ DOMAIN control : db[r] = rows[r]
  BY <1>12 DEF Over
<1>14. db[ControlRow].status = "postgresql" /\ ControlRow \in DOMAIN db
  BY <1>6, <1>13
<1>15. db[ConfigurationRow] = configured /\ ConfigurationRow \in DOMAIN db
  BY <1>3, <1>4, <1>5, <1>6, <1>9, <1>10, <1>11, <1>13, Rows, RowsElsewhere
<1>16. \A o \in Operations : /\ OperationRow(o) \in DOMAIN db
                             /\ db[OperationRow(o)] = scene.operations[o]
  BY <1>3, <1>6, <1>10, <1>11, <1>13, Rows
<1>17. \A o \in Operations : Present(OperationRow(o)) => IsOperation(db[OperationRow(o)])
  BY <1>16, CutoverAssumption DEF Present, IsOperation
<1>18. \A a \in Accounts : AccountRow(a) \in DOMAIN db
  BY <1>4, <1>9, <1>10, <1>11, <1>13
<1>19. BalancesHold
  <2>1. PostedOperations = PostedOf(scene.operations)
    BY <1>16 DEF PostedOperations, PostedOf, Present
  <2>2. \A o \in PostedOperations : db[OperationRow(o)] = scene.operations[o]
    BY <1>16 DEF PostedOperations
  <2> QED
    BY <2>1, <2>2, CutoverAssumption DEF BalancesHold
<1>20. Tables
  BY <1>7, <1>14, <1>15, <1>16, <1>17, <1>18, <1>19
    DEF Tables, CutoverRows, Engine, EngineFollowsControl, Settling
<1>21. SessionShape /\ DOMAIN answers \subseteq Requests
  BY <1>1, <1>2, CutoverAssumption DEF SessionShape
<1>22. \A c \in Clients : session[c] = Idle /\ session[c].locks = {}
  BY <1>2, IdleFields
<1> QED
  BY <1>20, <1>21, <1>22 DEF CutoverInv, Where

LEMMA CutoverNextKeeps ==
  ASSUME CutoverInv, [CutoverNext]_sessionVars
  PROVE  CutoverInv'
<1>1. ASSUME NEW c \in Clients, Abort(c) \/ DeadlockVictim(c)
      PROVE  CutoverInv'
  BY <1>1, RefusalKeeps DEF Abort, DeadlockVictim
<1>2. CASE UNCHANGED sessionVars
  <2>1. db' = db /\ session' = session /\ answers' = answers
    BY <1>2 DEF sessionVars
  <2>2. Tables' /\ OperationsStay
    BY <2>1, TablesStay DEF CutoverInv, Tables
  <2>3. \A c \in Clients : Where(c)'
    BY <2>1 DEF CutoverInv, Where, RunIsAt, IntentIsAt, PrepareIsAt, ApproveIsAt, ActivateIsAt,
      BooksIsAt, Opens, HasPosted, Holding, Fits, NoneGivenUp, PostedOperations, Present, Engine
  <2> QED
    BY <2>1, <2>2, <2>3 DEF CutoverInv, SessionShape, Mine
<1> QED
  BY <1>1, <1>2, CallRunKeeps, CallCutoverKeeps, CallBooksKeeps, RunStepKeeps, CutoverStepKeeps,
    BooksStepKeeps DEF CutoverNext

\* The tables of a move, the statements and the locks of all calls fit together in
\* every reachable state, for any clients, operations, entities and requests.
THEOREM CutoverInvariant == CutoverSpec => []CutoverInv
<1>1. CutoverInv /\ [CutoverNext]_sessionVars => CutoverInv'
  BY CutoverNextKeeps
<1> QED
  BY CutoverStarts, <1>1, PTL DEF CutoverSpec

\* The route of the entity and its control are on TigerBeetle together or not at
\* all, through activations that overlap, fail between their transactions and are
\* started again.
THEOREM RouteFollowsControl == CutoverSpec => []EngineFollowsControl
<1>1. CutoverInv => EngineFollowsControl
  BY DEF CutoverInv, Tables
<1> QED
  BY CutoverInvariant, <1>1, PTL

\* No account is drawn beyond its balance constraint by what was posted, however many
\* runs read the balances at once, lose their lease or fail between their statements,
\* as long as no posted operation was given up for manual recovery.
THEOREM NothingOverdrawn == CutoverSpec => []BalancesHold
<1>1. CutoverInv => BalancesHold
  BY DEF CutoverInv, Tables
<1> QED
  BY CutoverInvariant, <1>1, PTL

\* Once the entity is on TigerBeetle nothing is left that only the PostgreSQL ledger
\* could finish, whichever intents, runs and activations raced with the approval.
THEOREM NothingLeftBehind == CutoverSpec => []CutoverIsClean
<1>1. CutoverInv => CutoverIsClean
  BY DEF CutoverInv, Tables, Settling, NoneLeftBehind, CutoverIsClean
<1> QED
  BY CutoverInvariant, <1>1, PTL
=============================================================================
