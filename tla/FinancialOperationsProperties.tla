------------------- MODULE FinancialOperationsProperties -------------------
(***************************************************************************)
(* What the financial operation protocol promises, although its workers    *)
(* crash, overtake each other and lose the answers of the provider.        *)
(***************************************************************************)
EXTENDS FinancialOperations, ProcessJobsProperties

OpRow == [status : OpStatuses, fence : Nat, identified : BOOLEAN, reason : Reasons]

RunRow == [pc : Steps, reconcile : BOOLEAN,
           out : {"none", "accepted", "rejected", "unknown", "FenceRejected",
                  "ReconciliationConflict", "DatabaseFailure"} \union Decided \union Reasons]

\* Type invariant of the accounting, provider and worker state; a process that
\* works has a lease, and one without a lease is idle.
FinancialTypeOK ==
    /\ op \in [Ops -> OpRow]
    /\ journal \in [Ops -> {"absent", "draft", "posted"}]
    /\ outbox \subseteq Ops
    /\ period \in {"open", "closed"}
    /\ ledger \in [Ops -> {"none", "accepted", "rejected"}]
    /\ posting \subseteq Ops
    /\ run \in [Procs -> RunRow]
    /\ \A p \in Procs : At(p, "idle") <=> held[p] = NoLease

\* What the books say of an operation is what the provider did: an operation
\* counts as accepted only if its transfers exist, and as rejected only if
\* they do not and never will, whichever worker wrote the receipt, from which
\* answer, and whatever request is still on its way (writeReceipt).
BooksAgreeWithLedger ==
    \A o \in Ops :
        /\ op[o].status \in {"accepted", "reconciled"} => ledger[o] = "accepted"
        /\ op[o].status = "rejected" =>
               /\ ledger[o] # "accepted"
               /\ o \in posting => ledger[o] = "rejected"

\* Status, journal and event change together: a posted journal, a reconciled
\* operation and an event in the outbox are never seen without each other,
\* wherever a worker died (finalizeAccepted, rebuildAcceptedProjection).
PublishedTogether ==
    \A o \in Ops :
        /\ op[o].status = "reconciled" <=> journal[o] = "posted"
        /\ op[o].status = "reconciled" <=> o \in outbox

\* The provider never holds a transfer, nor is one on its way, whose identity is
\* not stored with the operation: a look-up after any crash asks for the
\* transfers that were sent (the identities transaction of submit).
TransfersAreIdentified ==
    \A o \in Ops : ledger[o] # "none" \/ o \in posting => op[o].identified

\* A closed period has no open business: no operation of it is pending, so no
\* intent raced the close and no late worker posts into it (closePeriod).
ClosedIsSettled ==
    period = "closed" => \A o \in Ops : op[o].status \notin Pending

\* An operation that is not stored yet has no jobs and no identities, and one
\* whose accounts the provider rejects never gets identities.
UnknownIsUntouched ==
    \A o \in Ops :
        /\ op[o].status = "absent" =>
               op[o] = AbsentOp /\ \A kind \in Kinds : job[<<o, kind>>].status = "absent"
        /\ o \in BadAccounts => ~op[o].identified

\* A rejection is for good: the provider has refused the transfers, or it will
\* never be asked for them.
RejectedForGood ==
    \A o \in Ops : op[o].status = "rejected" => ledger[o] = "rejected" \/ o \in BadAccounts

ProviderSteps == {"before_provider", "provider_boundary", "lookup", "post"}

\* What a run knows of its operation at each of its steps: it exists, its
\* identities are stored before the provider is asked, and the outcome it is
\* about to write is what the provider has decided.
RunsKnowTheLedger ==
    \A p \in Procs :
        held[p] # NoLease =>
            /\ op[OpOf(p)].status # "absent"
            /\ run[p].pc \in {"identities"} \union ProviderSteps => OpOf(p) \notin BadAccounts
            /\ run[p].pc \in ProviderSteps => op[OpOf(p)].identified
            /\ At(p, "receipt") =>
                   /\ run[p].out \in {"accepted", "rejected", "unknown"} \union (Reasons \ {"none"})
                   /\ run[p].out = "accepted" => ledger[OpOf(p)] = "accepted"
                   /\ run[p].out = "rejected" =>
                          ledger[OpOf(p)] = "rejected" \/ OpOf(p) \in BadAccounts

\* Process p has passed submit's first transaction.
Admitted(p) ==
    \/ run[p].pc \in {"accounts", "identities", "finalize"} \union ProviderSteps
    \/ At(p, "receipt") /\ run[p].out # "reconciliation_required"

\* A run that was admitted has moved the fence to its generation; as long as the
\* fence still lets it through, nobody has decided the operation but by
\* publishing it, and what it has written itself is still there to finalize.
AdmittedRunsAreCurrent ==
    \A p \in Procs :
        held[p] # NoLease /\ Admitted(p) =>
            /\ op[OpOf(p)].fence >= held[p].gen
            /\ FenceAdmits(p) => op[OpOf(p)].status \in Pending \union {"reconciled"}
            /\ FenceAdmits(p) /\ At(p, "finalize") =>
                   op[OpOf(p)].status \in {"accepted", "reconciled"}

\* What every step of the protocol can rely on, as one inductive invariant.
OperationInv ==
    /\ LeaseInv
    /\ FinancialTypeOK
    /\ PublishedTogether
    /\ TransfersAreIdentified
    /\ UnknownIsUntouched
    /\ RejectedForGood
    /\ RunsKnowTheLedger
    /\ AdmittedRunsAreCurrent
    /\ BooksAgreeWithLedger
    /\ ClosedIsSettled

\* The fence of an operation never goes back, and a worker changes the row only
\* under its own generation: once a later worker has been admitted, no receipt
\* or finalization of an earlier one has any effect (acceptExecutionFence).
OvertakenNeverWrites ==
    [][\A o \in Ops :
           /\ op'[o].fence >= op[o].fence
           /\ \A p \in Procs :
                  (run[p] # run'[p] /\ held[p] # NoLease /\ OpOf(p) = o /\ op'[o] # op[o])
                  => op'[o].fence = held[p].gen]_vars

\* Two workers on one operation do not fence each other for ever: every pending
\* operation is decided, or its jobs end and show an operator that it is not.
IntentIsSettled ==
    \A o \in Ops :
        op[o].status \in Pending ~>
            \/ op[o].status \in Decided
            \/ \A kind \in Kinds : job[<<o, kind>>].status \in Terminal \union {"absent"}

\* The protocol implements its promise: the operation row is the request, the
\* provider's transfers are the fact.
RequestOf(status) ==
    CASE status = "absent" -> "none"
      [] status \in Pending -> "pending"
      [] status = "reconciled" -> "posted"
      [] status = "rejected" -> "refused"
      [] status = "manual_recovery" -> "recovery"

Requests == [o \in Ops |-> RequestOf(op[o].status)]

Promise == INSTANCE FinancialPosting WITH request <- Requests, fact <- ledger, books <- period

\* Every behaviour of the protocol is one of FinancialPosting.
KeepsPromise == Promise!PostingSpec

=============================================================================
