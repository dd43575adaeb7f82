----------------------------- MODULE Accounting -----------------------------
(***************************************************************************)
(* The books of legal entities (modules/accounting/src/postgres.ts):       *)
(* configurations, accounts, revenue profiles, periods and the journals of *)
(* the legacy path, statement by statement.                                *)
(*                                                                         *)
(* The call of a single statement is one step.  An account's id is known   *)
(* only once it is committed, and its type never changes; its unique code  *)
(* stands for it.  A journal is never changed once it is posted, so that a *)
(* journal is read with its lines in one step.  Pending operations, which  *)
(* keep a period open, are FinancialOperations' and the callers'           *)
(* authorization is Access's.                                              *)
(***************************************************************************)
EXTENDS PostgresqlLedger, Functions

CONSTANTS Entities,    \* legal entities, the one that PostgresqlLedger works for among them
          Registered,  \* those of them that Party knows
          Codes,       \* account codes of the chart
          Periods,     \* periods that may be opened
          DaysOf,      \* the days of each
          Today,
          Orders,      \* sales orders, confirmed at first
          Total,       \* of each, in minor units
          Manual,      \* references of manual journals
          FirstBooks   \* what is in the books at first

AccountCodeRow(a) == <<"accountCode", a>>
ProfileRow(e) == <<"profile", e>>
PeriodRow(e, p) == <<"period", e, p>>
OrderRow(o) == <<"order", o>>
JournalRow(reference) == <<"journal", reference>>

(* The outbox event of an order's revenue, by its idempotency key.         *)
RevenueEventRow(o) == <<"revenueEvent", o>>

RevenueReference(e, o) == <<"revenue", e, o>>
ReversalReference(e, o) == <<"reversal", e, o>>

References == Manual \cup {RevenueReference(e, o) : e \in Entities, o \in Orders}
                     \cup {ReversalReference(e, o) : e \in Entities, o \in Orders}

BooksRows ==
  Over(FirstBooks,
       Over([r \in {OrderRow(o) : o \in Orders} |-> [status |-> "confirmed"]],
            [r \in {ConfigurationOf(e) : e \in Entities} \cup {ProfileRow(e) : e \in Entities}
                   \cup {AccountCodeRow(a) : a \in Codes}
                   \cup {PeriodRow(e, p) : e \in Entities, p \in Periods}
                   \cup {JournalRow(x) : x \in References}
                   \cup {RevenueEventRow(o) : o \in Orders} |-> [status |-> Absent]]))

Entity(c) == Asked(c).entity
Revenue(c) == JournalRow(RevenueReference(Entity(c), Asked(c).order))
Reversal(c) == JournalRow(ReversalReference(Entity(c), Asked(c).order))

(* A commit whose answer may be lost.                                      *)
Stores(c, w) == \E outcome \in {"ok", "unknown"} : CommitLast(c, w, outcome)

RevenueOps == {"post revenue", "reverse revenue"}

CallBooks(c, q) ==
  \/ q.op \in {"configure entity", "create account", "configure revenue", "open period"}
     /\ Begin(c, q, "insert", NoRow, <<>>)
  \/ q.op = "close period" /\ Begin(c, q, "update", PeriodRow(q.entity, q.period), <<>>)
  \/ q.op = "cancel order" /\ Begin(c, q, "update", OrderRow(q.order), <<>>)
  \/ q.op \in RevenueOps \cup {"post journal"} /\ Begin(c, q, "legacy engine", NoRow, <<>>)

-----------------------------------------------------------------------------
(* The lines of a journal, in minor units.                                 *)

Debit(a, n) == [account |-> a, debit |-> n, credit |-> 0]
Credit(a, n) == [account |-> a, debit |-> 0, credit |-> n]

(* Lines that are compared are put in order first.                         *)
NormalizeLines(lines) ==
  [l \in Range(lines) |-> Cardinality({i \in DOMAIN lines : lines[i] = l})]

ValidLines(lines) ==
  /\ Len(lines) >= 2
  /\ \A l \in Range(lines) : (l.debit > 0) # (l.credit > 0)
  /\ FoldFunction(LAMBDA l, n : n + l.debit - l.credit, 0, lines) = 0

RevenueLines(profile, o) ==
  <<Debit(profile.receivable, Total[o]), Credit(profile.revenue, Total[o])>>

(* What a bag of lines becomes in a reversal.                              *)
Swapped(bag) ==
  [l \in {[k EXCEPT !.debit = k.credit, !.credit = k.debit] : k \in DOMAIN bag} |->
     bag[[l EXCEPT !.debit = l.credit, !.credit = l.debit]]]

Posted(lines) == [status |-> "posted", lines |-> NormalizeLines(lines)]
ReversalOf(reference) == [status |-> "reversed", lines |-> Swapped(db[JournalRow(reference)].lines),
                          reverses |-> reference]

-----------------------------------------------------------------------------
(* configureLegalEntity, createAccount, configureRevenuePosting, openPeriod *)

ConfigureLegalEntity(c) ==
  /\ session[c].at = "insert" /\ At(c, "configure entity")
  /\ LET r == ConfigurationOf(Entity(c)) IN
     IF Asked(c).engine = "tigerbeetle" THEN Refuse(c, "blocked")
     ELSE IF Present(r) THEN Refuse(c, "exists")
     ELSE IF Entity(c) \notin Registered THEN Refuse(c, "noEntity")
     ELSE Stores(c, RowIs(r, Configured("postgresql", Asked(c).posting)))

CreateAccount(c) ==
  /\ session[c].at = "insert" /\ At(c, "create account")
  /\ LET r == AccountCodeRow(Asked(c).account) IN
     IF Present(r) THEN Refuse(c, "exists") ELSE Stores(c, RowIs(r, [status |-> Asked(c).type]))

ConfigureRevenuePosting(c) ==
  /\ session[c].at = "insert" /\ At(c, "configure revenue")
  /\ LET q == Asked(c)
         types == <<db[AccountCodeRow(q.receivable)].status, db[AccountCodeRow(q.revenue)].status>>
     IN IF Absent \in Range(types) THEN Refuse(c, "noAccount")
        ELSE IF types # <<"asset", "revenue">> THEN Refuse(c, "invalid")
        ELSE IF Present(ProfileRow(q.entity)) THEN Refuse(c, "exists")
        ELSE Stores(c, RowIs(ProfileRow(q.entity),
               [status |-> "configured", receivable |-> q.receivable, revenue |-> q.revenue]))

(* The exclusion constraint counts closed periods too.                     *)
Overlaps(e, p) == \E x \in Periods : Present(PeriodRow(e, x)) /\ DaysOf[x] \cap DaysOf[p] # {}

OpenPeriod(c) ==
  /\ session[c].at = "insert" /\ At(c, "open period")
  /\ IF Overlaps(Entity(c), Asked(c).period) THEN Refuse(c, "overlap")
     ELSE IF Entity(c) \notin Registered THEN Refuse(c, "unknown")
     ELSE Stores(c, RowIs(PeriodRow(Entity(c), Asked(c).period), [status |-> "open"]))

ClosePeriod(c) ==
  /\ Ready(c, "update") /\ At(c, "close period")
  /\ IF Present(session[c].row) THEN Stores(c, RowIs(session[c].row, [status |-> "closed"]))
     ELSE Refuse(c, "missing")

(* cancelConfirmedOrder, of Sales.                                         *)
CancelOrder(c) ==
  /\ Ready(c, "update") /\ At(c, "cancel order")
  /\ Stores(c, RowIs(session[c].row, [status |-> "cancelled"]))

-----------------------------------------------------------------------------
(* postRevenueForOrder and reverseRevenueForOrder by the legacy path.      *)

(* ensureLegacyEngine, a transaction of its own.                           *)
EnsureLegacyEngine(c) ==
  /\ session[c].at = "legacy engine" /\ Asked(c).op \in RevenueOps
  /\ IF db[ConfigurationOf(Entity(c))].status = "tigerbeetle" THEN Refuse(c, "activated")
     ELSE IF Asked(c).op = "post revenue"
     THEN Proceed(c, <<>>, "total", OrderRow(Asked(c).order), <<"look up">>)
     ELSE Goes(c, <<>>, "find", Reversal(c))

(* loadExisting: another posting of this order is under its reference, or  *)
(* somebody's manual journal.                                              *)
AcceptRevenue(c) ==
  LET profile == db[ProfileRow(Entity(c))] IN
  IF /\ profile.status # Absent
     /\ db[Revenue(c)] = Posted(RevenueLines(profile, Asked(c).order))
  THEN CommitLast(c, <<>>, "ok") ELSE Refuse(c, "conflict")

(* getConfirmedOrderTotal locks the order: to look up its journal, to post *)
(* it, and to look it up again when another was faster.                    *)
ReadTotal(c) ==
  /\ Ready(c, "total") /\ At(c, "post revenue")
  /\ LET phase == session[c].todo[1] IN
     IF Row(c).status # "confirmed" THEN Refuse(c, "notConfirmed")
     ELSE IF phase = "post" THEN Goes(c, <<>>, "profile", ProfileRow(Entity(c)))
     ELSE IF Present(Revenue(c)) THEN AcceptRevenue(c)
     ELSE IF phase = "look up" THEN CommitThen(c, <<>>, "total", session[c].row, <<"post">>)
     ELSE Refuse(c, "conflict")

IsReversal(c) == db[Revenue(c)].status = "posted"
                 /\ db[Reversal(c)] = ReversalOf(RevenueReference(Entity(c), Asked(c).order))
AcceptReversal(c) == IF IsReversal(c) THEN CommitLast(c, <<>>, "ok") ELSE Refuse(c, "conflict")

FindReversal(c) ==
  /\ Ready(c, "find") /\ At(c, "reverse revenue") /\ session[c].row = Reversal(c)
  /\ IF Present(Reversal(c)) THEN AcceptReversal(c)
     ELSE Goes(c, <<>>, "profile", ProfileRow(Entity(c)))

LockProfile(c) ==
  /\ Ready(c, "profile") /\ Asked(c).op \in RevenueOps
  /\ IF ~Present(session[c].row) THEN Refuse(c, "noProfile")
     ELSE IF Asked(c).op = "post revenue"
     THEN Goes(c, <<>>, "posting", ConfigurationOf(Entity(c)))
     ELSE Goes(c, <<>>, "again", Reversal(c))

FindConcurrentReversal(c) ==
  /\ Ready(c, "again") /\ At(c, "reverse revenue")
  /\ IF Present(Reversal(c)) THEN AcceptReversal(c)
     ELSE Goes(c, <<>>, "posting", ConfigurationOf(Entity(c)))

LockPostingEnabled(c) ==
  /\ Ready(c, "posting") /\ Asked(c).op \in RevenueOps
  /\ IF Present(session[c].row) /\ Row(c).posting THEN Goes(c, <<>>, "period", NoRow)
     ELSE Refuse(c, "notOpen")

(* SELECT FOR UPDATE finds the open period of today; when it was closed    *)
(* meanwhile it is not in the result.                                      *)
OpenToday(e) == {p \in Periods : db[PeriodRow(e, p)].status = "open" /\ Today \in DaysOf[p]}

FindPeriod(c) ==
  /\ session[c].at = "period" /\ Asked(c).op \in RevenueOps
  /\ IF OpenToday(Entity(c)) = {} THEN Refuse(c, "notOpen")
     ELSE \E p \in OpenToday(Entity(c)) : Goes(c, <<>>, "current period", PeriodRow(Entity(c), p))

(* Mutant: the period that was found is not locked.                        *)
UsePeriod(c) ==
  /\ session[c].at = "current period" /\ Asked(c).op \in RevenueOps
  /\ IF Asked(c).op = "post revenue" THEN Goes(c, <<>>, "record", Revenue(c))
     ELSE Goes(c, <<>>, "find", Revenue(c))

LockPeriod(c) ==
  /\ Ready(c, "current period") /\ Asked(c).op \in RevenueOps
  /\ IF Row(c).status # "open" THEN Refuse(c, "notOpen")
     ELSE IF Asked(c).op = "post revenue" THEN Goes(c, <<>>, "record", Revenue(c))
     ELSE Goes(c, <<>>, "find", Revenue(c))

(* Whose reference is there already rolls back and looks it up.            *)
RecordRevenue(c) ==
  /\ Ready(c, "record") /\ At(c, "post revenue") /\ session[c].row = Revenue(c)
  /\ IF Present(Revenue(c))
     THEN CommitThen(c, <<>>, "total", OrderRow(Asked(c).order), <<"replay">>)
     ELSE LET lines == RevenueLines(db[ProfileRow(Entity(c))], Asked(c).order) IN
          Goes(c, RowIs(Revenue(c), Posted(lines)), "record", RevenueEventRow(Asked(c).order))

(* messaging.append: a new envelope under the order's key is a conflict.   *)
AppendRevenuePosted(c) ==
  /\ Ready(c, "record") /\ At(c, "post revenue") /\ session[c].row[1] = "revenueEvent"
  /\ IF Present(session[c].row) THEN Refuse(c, "announced")
     ELSE Stores(c, RowIs(session[c].row, [status |-> "recorded", entity |-> Entity(c)]))

LockSource(c) ==
  /\ Ready(c, "find") /\ At(c, "reverse revenue") /\ session[c].row = Revenue(c)
  /\ IF Row(c).status # "posted" THEN Refuse(c, "noJournal")
     ELSE Goes(c, <<>>, "record", Reversal(c))

(* A reference that is there already is a DatabaseFailure.                 *)
RecordReversal(c) ==
  /\ Ready(c, "record") /\ At(c, "reverse revenue")
  /\ IF Present(Reversal(c)) THEN Refuse(c, "unknown")
     ELSE Stores(c, RowIs(Reversal(c), ReversalOf(RevenueReference(Entity(c), Asked(c).order))))

-----------------------------------------------------------------------------
(* postJournal: whatever period is open or closed.                         *)

AcceptJournal(c) ==
  IF Row(c) = Posted(Asked(c).lines) THEN CommitLast(c, <<>>, "ok") ELSE Refuse(c, "conflict")

EnsureLegacyTenantEngine(c) ==
  /\ session[c].at = "legacy engine" /\ At(c, "post journal")
  /\ IF \E e \in Entities : db[ConfigurationOf(e)].status = "tigerbeetle"
     THEN Refuse(c, "activated")
     ELSE IF ~ValidLines(Asked(c).lines) THEN Refuse(c, "invalid")
     ELSE Goes(c, <<>>, "find", JournalRow(Asked(c).reference))

FindJournal(c) ==
  /\ Ready(c, "find") /\ At(c, "post journal")
  /\ IF Present(session[c].row) THEN AcceptJournal(c) ELSE Goes(c, <<>>, "record", session[c].row)

(* A foreign key refuses lines of accounts that are not there.  Who loses  *)
(* the reference reads what won it.                                        *)
RecordJournal(c) ==
  /\ Ready(c, "record") /\ At(c, "post journal")
  /\ LET q == Asked(c) IN
     IF Present(session[c].row)
     THEN IF Row(c).status = "posted" THEN AcceptJournal(c) ELSE Refuse(c, "exists")
     ELSE IF \E l \in Range(q.lines) : ~Present(AccountCodeRow(l.account))
     THEN Refuse(c, "noAccount")
     ELSE Stores(c, RowIs(session[c].row, Posted(q.lines)))

-----------------------------------------------------------------------------

BooksStep(c) ==
  \/ ConfigureLegalEntity(c) \/ CreateAccount(c) \/ ConfigureRevenuePosting(c)
  \/ OpenPeriod(c) \/ ClosePeriod(c) \/ CancelOrder(c)
  \/ EnsureLegacyEngine(c) \/ ReadTotal(c) \/ FindReversal(c) \/ LockProfile(c)
  \/ FindConcurrentReversal(c) \/ LockPostingEnabled(c) \/ FindPeriod(c) \/ LockPeriod(c)
  \/ RecordRevenue(c) \/ AppendRevenuePosted(c) \/ LockSource(c) \/ RecordReversal(c)
  \/ EnsureLegacyTenantEngine(c) \/ FindJournal(c) \/ RecordJournal(c)
=============================================================================
