------------------------ MODULE FinancialOperations ------------------------
(***************************************************************************)
(* The financial operation protocol of                                     *)
(* modules/accounting/src/financial-operations.ts, run by the workers of   *)
(* runtime/worker/runner.ts under the leases of ProcessJobs, against the   *)
(* TigerBeetle adapter of platform/tigerbeetle/tigerbeetle.ts.             *)
(*                                                                         *)
(* A command stores an intent and a submit job in one transaction.  A      *)
(* worker that claims the job walks through a fixed list of steps: each of *)
(* them is one transaction or one call to the provider, and between any    *)
(* two the worker may die, lose its lease, or be overtaken by another one  *)
(* that works on the same operation under its reconcile job.  run[p].pc is *)
(* the step process p is about to take.                                    *)
(*                                                                         *)
(* Left out: the early return of a submit that finds posting disabled or   *)
(* its period closed (nothing in the code disables posting, and            *)
(* ClosedIsSettled says that the period of an intent is open), and every   *)
(* comparison of identities and mappings, which never differ here because  *)
(* both sides derive them from the same journal.                           *)
(***************************************************************************)
EXTENDS ProcessJobs

CONSTANTS
    Ops,             \* financial operations, all of one accounting period
    BadAccounts,     \* operations with an account that the provider rejects
    OtherEngine,     \* processes deployed with a ledger that is not the operations' engine
    ReversalOf,      \* the operations whose journals an operation reverses: none or one
    Revocable        \* whether the actor's authorization can be withdrawn after the intent

Kinds == {"submit", "reconcile"}

\* ADR-0055: the two jobs of an operation share one fence scope.
ASSUME FinancialAssumption ==
    /\ Jobs = Ops \X Kinds
    /\ Ops \subseteq Scopes
    /\ \A j \in Jobs : ScopeOf[j] = j[1]
    /\ BadAccounts \subseteq Ops
    /\ OtherEngine \subseteq Procs
    /\ ReversalOf \in [Ops -> SUBSET Ops]
    /\ Revocable \in BOOLEAN

VARIABLES
    op,        \* accounting.financial_operations
    journal,   \* status of the journal entry the intent has drafted
    outbox,    \* operations whose reconciled event is in the outbox
    period,    \* status of the accounting period
    ledger,    \* the provider: what it has decided about the transfers
    posting,   \* the provider: requests that were sent and have not arrived yet
    run        \* what each worker process is doing

accountingVars == <<op, journal, outbox, period>>
providerVars == <<ledger, posting>>
vars == <<jobVars, accountingVars, providerVars, run>>

Pending == {"intent", "submitted", "accepted", "unknown"}
Decided == {"reconciled", "rejected", "manual_recovery"}
OpStatuses == {"absent"} \union Pending \union Decided

\* recoveryReason
Reasons == {"none", "reconciliation_required", "engine_routing_changed", "mapping_mismatch"}

AbsentOp == [status |-> "absent", fence |-> 0, identified |-> FALSE, reason |-> "none"]

\* The steps that open a transaction with acceptExecutionFence.
FencedSteps == {"state", "identities", "before_provider", "provider_boundary",
                "receipt", "finalize"}
Steps == {"idle", "read", "accounts", "lookup", "post", "report"} \union FencedSteps

Idle == [pc |-> "idle", reconcile |-> FALSE, out |-> "none"]

FinancialInit ==
    /\ JobInit
    /\ op = [o \in Ops |-> AbsentOp]
    /\ journal = [o \in Ops |-> "absent"]
    /\ outbox = {}
    /\ period = "open"
    /\ ledger = [o \in Ops |-> "none"]
    /\ posting = {}
    /\ run = [p \in Procs |-> Idle]

----------------------------------------------------------------------------
\* The commands.

\* Mutant of Reversible: an accepted source is good enough.
ReversibleAccepted(o) ==
    \A s \in ReversalOf[o] : op[s].status \in {"submitted", "unknown", "accepted", "reconciled"}

\* A reversal is of a journal that is posted and whose operation is reconciled.
Reversible(o) ==
    \A s \in ReversalOf[o] : journal[s] = "posted" /\ op[s].status = "reconciled"

\* No journal has two (financial_operations_tenant_source_journal_key).
OneReversal(o) ==
    \A other \in Ops : op[other].status # "absent" => ReversalOf[other] \intersect ReversalOf[o] = {}

\* What an intent is: its row, a draft journal and the submit job.
Draft(o) ==
    /\ op' = [op EXCEPT ![o].status = "intent"]
    /\ journal' = [journal EXCEPT ![o] = "draft"]
    /\ Enqueue(<<o, "submit">>)

\* Mutant of CreateIntent: the period is not tested.
CreateIntentAnyTime(o) ==
    /\ op[o].status = "absent"
    /\ Draft(o)
    /\ UNCHANGED <<outbox, period, providerVars, run>>

\* createJournalIntent and createReversalIntent: intent, draft journal and submit
\* job in one transaction.  It holds the row of the period, like closePeriod; an
\* operation that exists is returned as it is.
CreateIntent(o) ==
    /\ op[o].status = "absent"
    /\ period = "open"
    /\ Reversible(o) /\ OneReversal(o)
    /\ Draft(o)
    /\ UNCHANGED <<outbox, period, providerVars, run>>

\* Mutant of BlocksClose: a state is forgotten.
BlocksCloseNotUnknown == {"intent", "submitted", "accepted", "manual_recovery"}

\* closePeriod refuses while it finds an operation in one of these states.
BlocksClose == Pending \union {"manual_recovery"}

ClosePeriod ==
    /\ period = "open"
    /\ \A o \in Ops : op[o].status \notin BlocksClose
    /\ period' = "closed"
    /\ UNCHANGED <<jobVars, op, journal, outbox, providerVars, run>>

\* What reconciling an operation writes, in one transaction.
Reconciled(o, row) ==
    /\ op' = [op EXCEPT ![o] = [row EXCEPT !.status = "reconciled", !.reason = "none"]]
    /\ journal' = [journal EXCEPT ![o] = "posted"]
    /\ outbox' = outbox \union {o}

\* rebuildFinancialProjections goes through the operations that were accepted.  Of
\* a reconciled one it writes what is there already.
Rebuildable(o) == op[o].status = "accepted"

\* inspectFinancialProjection: the provider returns the transfers.
Inspected(o) == ledger[o] = "accepted"

\* applyFinancialProjectionRepair: the identities of all transfers are there.
Repaired(o) == [op[o] EXCEPT !.identified = TRUE]

\* rebuildAcceptedProjection takes no fence.
RebuildProjection(o) ==
    /\ Rebuildable(o) /\ Inspected(o)
    /\ Reconciled(o, Repaired(o))
    /\ UNCHANGED <<jobVars, period, providerVars, run>>

----------------------------------------------------------------------------
\* The worker.

OpOf(p) == held[p].job[1]

At(p, pc) == run[p].pc = pc
Goto(p, pc) == run' = [run EXCEPT ![p].pc = pc]

\* The run goes on to write outcome out in its receipt.
Receive(p, out) == run' = [run EXCEPT ![p] = [Idle EXCEPT !.pc = "receipt", !.out = out]]

\* The run is over: out is the status it returns, or how it failed.
Return(p, out) == run' = [run EXCEPT ![p] = [Idle EXCEPT !.pc = "report", !.out = out]]

StartJob(p, j) ==
    /\ Claim(p, j)
    /\ Goto(p, "read")
    /\ UNCHANGED <<accountingVars, providerVars>>

\* The heartbeat runs beside the operation and stops with it.
Heartbeat(p) ==
    /\ ~At(p, "report")
    /\ Renew(p)
    /\ UNCHANGED <<accountingVars, providerVars, run>>

\* submit's first look at the operation takes no lock; then the actor of the
\* intent is authorized again.
Read(p) ==
    /\ At(p, "read")
    /\ LET status == op[OpOf(p)].status
       IN  \/ status \in Decided /\ Return(p, status)
           \/ status \notin Decided /\ Goto(p, "state")
           \/ status \notin Decided /\ Revocable /\ Receive(p, "reconciliation_required")
    /\ UNCHANGED <<jobVars, accountingVars, providerVars>>

\* Mutant of FenceAdmits: every generation is admitted.
FenceAdmitsAll(p) == held[p] # NoLease

\* acceptExecutionFence: generations below the accepted one are turned away.
FenceAdmits(p) == held[p].gen >= op[OpOf(p)].fence

\* The row of p's operation with the fence moved up to p's generation.
FencedRow(p) == [op[OpOf(p)] EXCEPT !.fence = held[p].gen]

\* A transaction of step pc that the fence lets through.
Fenced(p, pc) == At(p, pc) /\ FenceAdmits(p)

FenceRejected(p) ==
    /\ run[p].pc \in FencedSteps
    /\ ~FenceAdmits(p)
    /\ Return(p, "FenceRejected")
    /\ UNCHANGED <<jobVars, accountingVars, providerVars>>

\* Whether a run looks the transfers up before it posts them.
MustReconcile(p) ==
    held[p].job[2] = "reconcile" \/ op[OpOf(p)].status \in {"submitted", "unknown", "accepted"}

\* An operation that is about to be sent is submitted; others stay what they are.
Submitted(status) == IF status \in {"intent", "unknown"} THEN "submitted" ELSE status

\* submit's first transaction.
State(p) ==
    /\ Fenced(p, "state")
    /\ LET o == OpOf(p)
           status == op[o].status
       IN  \/ /\ status \in Decided
              /\ op' = [op EXCEPT ![o] = FencedRow(p)]
              /\ Return(p, status)
           \/ /\ status \notin Decided /\ p \in OtherEngine
              /\ op' = [op EXCEPT ![o] = FencedRow(p)]
              /\ Receive(p, "engine_routing_changed")
           \/ /\ status \notin Decided /\ p \notin OtherEngine
              /\ op' = [op EXCEPT ![o] = [FencedRow(p) EXCEPT !.status = Submitted(status)]]
              /\ run' = [run EXCEPT ![p].pc = "accounts", ![p].reconcile = MustReconcile(p)]
    /\ UNCHANGED <<jobVars, journal, outbox, period, providerVars>>

\* createExecutionAccount: an account that exists is looked up to compare it, and
\* a failed look-up counts as a mismatch.
AccountReplies(o) ==
    IF o \in BadAccounts THEN {"rejected", "unknown"}
    ELSE {"accepted", "unknown", "mapping_mismatch"}

\* Mutant of Accounts: the transfer identities are not stored.
AccountsThenProvider(p) ==
    /\ At(p, "accounts")
    /\ \E reply \in AccountReplies(OpOf(p)) :
           IF reply = "accepted" THEN Goto(p, "before_provider") ELSE Receive(p, reply)
    /\ UNCHANGED <<jobVars, accountingVars, providerVars>>

Accounts(p) ==
    /\ At(p, "accounts")
    /\ \E reply \in AccountReplies(OpOf(p)) :
           IF reply = "accepted" THEN Goto(p, "identities") ELSE Receive(p, reply)
    /\ UNCHANGED <<jobVars, accountingVars, providerVars>>

\* The transfer identities are stored before the provider sees them.
Identities(p) ==
    /\ Fenced(p, "identities")
    /\ op' = [op EXCEPT ![OpOf(p)] = [FencedRow(p) EXCEPT !.identified = TRUE]]
    /\ Goto(p, "before_provider")
    /\ UNCHANGED <<jobVars, journal, outbox, period, providerVars>>

\* Two transactions that do nothing but check the fence again.
Boundary(p) ==
    /\ \/ Fenced(p, "before_provider") /\ Goto(p, "provider_boundary")
       \/ /\ Fenced(p, "provider_boundary")
          /\ Goto(p, IF run[p].reconcile THEN "lookup" ELSE "post")
    /\ op' = [op EXCEPT ![OpOf(p)] = FencedRow(p)]
    /\ UNCHANGED <<jobVars, journal, outbox, period, providerVars>>

\* Mutant of Lookup: transfers that are not found count as rejected.
LookupOnce(p) ==
    /\ At(p, "lookup")
    /\ \/ ledger[OpOf(p)] = "accepted" /\ Receive(p, "accepted")
       \/ ledger[OpOf(p)] # "accepted" /\ Receive(p, "rejected")
       \/ Receive(p, "unknown")
    /\ UNCHANGED <<jobVars, accountingVars, providerVars>>

\* reconcileJournal: transfers that are not found are posted with no further
\* check of the fence; no answer is an unknown outcome.
Lookup(p) ==
    /\ At(p, "lookup")
    /\ \/ ledger[OpOf(p)] = "accepted" /\ Receive(p, "accepted")
       \/ ledger[OpOf(p)] # "accepted" /\ Goto(p, "post")
       \/ Receive(p, "unknown")
    /\ UNCHANGED <<jobVars, accountingVars, providerVars>>

\* The provider decides once about a set of transfers with these identities.
Verdicts(o) == IF ledger[o] = "none" THEN {"accepted", "rejected"} ELSE {ledger[o]}

Decide(o, verdict) == ledger' = [ledger EXCEPT ![o] = verdict]

\* postJournal: the provider decides and answers, or the answer is lost, or the
\* request itself is lost or still under way when the client gives up.
Post(p) ==
    /\ At(p, "post")
    /\ \/ \E verdict \in Verdicts(OpOf(p)) :
              /\ Decide(OpOf(p), verdict)
              /\ Receive(p, verdict) \/ Receive(p, "unknown")
              /\ UNCHANGED posting
       \/ posting' \in {posting, posting \union {OpOf(p)}} /\ Receive(p, "unknown") /\ UNCHANGED ledger
    /\ UNCHANGED <<jobVars, accountingVars>>

\* A request that its sender has given up on arrives.
Arrive(o) ==
    /\ o \in posting
    /\ \E verdict \in Verdicts(o) : Decide(o, verdict)
    /\ posting' = posting \ {o}
    /\ UNCHANGED <<jobVars, accountingVars, run>>

\* What the receipt of an outcome that is no acceptance makes of the row.
Noted(row, out) ==
    IF out \in Reasons THEN [row EXCEPT !.status = "manual_recovery", !.reason = out]
    ELSE [row EXCEPT !.status = out, !.reason = "none"]

\* A receipt leaves a reconciled operation as it is.
Published(o) == op[o].status = "reconciled"

\* writeReceipt.  An unknown outcome enqueues the reconcile job in the same
\* transaction.
Receipt(p) ==
    /\ Fenced(p, "receipt")
    /\ LET o == OpOf(p)
           row == Noted(FencedRow(p), run[p].out)
       IN  \/ /\ Published(o)
              /\ op' = [op EXCEPT ![o] = FencedRow(p)]
              /\ Return(p, "reconciled")
              /\ UNCHANGED jobVars
           \/ /\ op[o].status = "accepted" /\ run[p].out # "accepted"
              /\ Return(p, "ReconciliationConflict")
              /\ UNCHANGED <<jobVars, op>>
           \/ /\ ~Published(o) /\ run[p].out = "accepted"
              /\ op' = [op EXCEPT ![o] = row]
              /\ Goto(p, "finalize")
              /\ UNCHANGED jobVars
           \/ /\ ~Published(o) /\ op[o].status # "accepted" /\ run[p].out # "accepted"
              /\ op' = [op EXCEPT ![o] = row]
              /\ Return(p, row.status)
              /\ IF row.status = "unknown" THEN Enqueue(<<o, "reconcile">>) ELSE UNCHANGED jobVars
    /\ UNCHANGED <<journal, outbox, period, providerVars>>

\* finalizeAccepted
Finalize(p) ==
    /\ Fenced(p, "finalize")
    /\ LET o == OpOf(p)
       IN  \/ /\ op[o].status = "accepted"
              /\ Reconciled(o, FencedRow(p))
              /\ Return(p, "reconciled")
           \/ /\ op[o].status # "accepted"
              /\ op' = [op EXCEPT ![o] = FencedRow(p)]
              /\ Return(p, op[o].status)
              /\ UNCHANGED <<journal, outbox>>
    /\ UNCHANGED <<jobVars, period, providerVars>>

\* A DatabaseFailure before the step takes effect, or after it when the answer
\* to a commit is lost.
DatabaseFailure(p) ==
    /\ run[p].pc # "idle"
    /\ run[p].out \notin {"FenceRejected", "ReconciliationConflict", "DatabaseFailure"}
    /\ Return(p, "DatabaseFailure")
    /\ UNCHANGED <<jobVars, accountingVars, providerVars>>

\* runFinancialOperationOnce: how the result of the run ends the job.  A rejected
\* fence is permanent; an unknown outcome ends a submit job, because its
\* receipt enqueued the reconcile job, and keeps a reconcile job going.
Completes(p) ==
    \/ run[p].out \in Decided
    \/ run[p].out = "unknown" /\ held[p].job[2] = "submit"

Report(p) ==
    /\ At(p, "report")
    /\ IF Completes(p) THEN Complete(p) ELSE Fail(p, run[p].out # "FenceRejected")
    /\ run' = [run EXCEPT ![p] = Idle]
    /\ UNCHANGED <<accountingVars, providerVars>>

\* The process dies, or the heartbeat or the report finds the lease lost.
Abandon(p) ==
    /\ LeaseLost(p) \/ Crash(p)
    /\ run' = [run EXCEPT ![p] = Idle]
    /\ UNCHANGED <<accountingVars, providerVars>>

TimePasses == Tick /\ UNCHANGED <<accountingVars, providerVars, run>>

----------------------------------------------------------------------------

\* One step of the operation that process p runs.
Work(p) ==
    \/ Read(p)
    \/ FenceRejected(p)
    \/ State(p)
    \/ Accounts(p)
    \/ Identities(p)
    \/ Boundary(p)
    \/ Lookup(p)
    \/ Post(p)
    \/ Receipt(p)
    \/ Finalize(p)

FinancialNext ==
    \/ \E o \in Ops : CreateIntent(o) \/ RebuildProjection(o) \/ Arrive(o)
    \/ ClosePeriod
    \/ \E p \in Procs, j \in Jobs : StartJob(p, j)
    \/ \E p \in Procs : Heartbeat(p) \/ Work(p) \/ DatabaseFailure(p) \/ Report(p) \/ Abandon(p)
    \/ TimePasses

FinancialSpec == FinancialInit /\ [][FinancialNext]_vars

\* Workers poll forever and every call they make ends, with an answer or with a
\* timeout; a worker that lost its lease notices; time goes on.
FairFinancialSpec ==
    /\ FinancialSpec
    /\ \A j \in Jobs : WF_vars(\E p \in Procs : StartJob(p, j))
    /\ \A p \in Procs : WF_vars(Work(p) \/ Report(p))
    /\ \A p \in Procs : WF_vars(LeaseLost(p) /\ Abandon(p))
    /\ WF_vars(TimePasses)

=============================================================================
