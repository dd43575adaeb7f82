--------------------- MODULE FinancialOperationsProofs ---------------------
(***************************************************************************)
(* Proofs about FinancialOperations for any operations, workers, reversals *)
(* and bounds, whichever accounts are bad, whichever processes are         *)
(* deployed with the other engine, and whether authorizations end or not.  *)
(***************************************************************************)
EXTENDS FinancialOperationsProperties, ProcessJobsProofs

\* A process that is at some step works under a lease on a job of an operation.
LEMMA Working ==
    ASSUME OperationInv, NEW p \in Procs, run[p].pc # "idle"
    PROVE  /\ held[p] # NoLease /\ held[p] \in Lease /\ held[p].gen \in Nat
           /\ OpOf(p) \in Ops /\ held[p].job \in Jobs /\ ScopeOf[held[p].job] = OpOf(p)
           /\ op[OpOf(p)] \in OpRow /\ run[p] \in RunRow
<1>1. held[p] # NoLease /\ held[p] \in Lease
  BY DEF OperationInv, FinancialTypeOK, LeaseInv, TypeOK, At
<1>2. held[p].job \in Jobs /\ held[p].gen \in Nat
  BY <1>1 DEF Lease
<1>3. OpOf(p) \in Ops /\ ScopeOf[held[p].job] = OpOf(p)
  BY <1>2, FinancialAssumption DEF OpOf
<1> QED
  BY <1>1, <1>2, <1>3 DEF OperationInv, FinancialTypeOK

\* The protocol moves the job table only by the operations of ProcessJobs.
LEMMA JobsStep == OperationInv /\ [FinancialNext]_vars => [Next]_jobVars
<1> SUFFICES ASSUME OperationInv, [FinancialNext]_vars PROVE [Next]_jobVars
  OBVIOUS
<1>1. ASSUME NEW o \in Ops, NEW kind \in Kinds, Enqueue(<<o, kind>>) PROVE Next
  <2>1. <<o, kind>> \in Jobs
    BY FinancialAssumption
  <2> QED
    BY <1>1, <2>1 DEF Next
<1>2. ASSUME NEW o \in Ops, CreateIntent(o) PROVE Next
  BY <1>1, <1>2 DEF CreateIntent, Draft, Kinds
<1>3. ASSUME NEW p \in Procs, Receipt(p) PROVE [Next]_jobVars
  <2>1. OpOf(p) \in Ops
    BY <1>3, Working DEF Receipt, Fenced, At
  <2> QED
    BY <1>1, <1>3, <2>1 DEF Receipt, Kinds
<1>4. ASSUME NEW p \in Procs, Report(p) PROVE Next
  <2>1. (run[p].out # "FenceRejected") \in BOOLEAN
    OBVIOUS
  <2> QED
    BY <1>4, <2>1 DEF Report, Next
<1>5. ASSUME NEW p \in Procs, NEW j \in Jobs, StartJob(p, j) PROVE Next
  BY <1>5 DEF StartJob, Next
<1>6. ASSUME NEW p \in Procs, Heartbeat(p) \/ Abandon(p) PROVE Next
  BY <1>6 DEF Heartbeat, Abandon, Next
<1>7. CASE TimePasses
  BY <1>7 DEF TimePasses, Next
<1>8. ASSUME NEW p \in Procs, Work(p), ~Receipt(p) PROVE UNCHANGED jobVars
  BY <1>8 DEF Work, Read, FenceRejected, State, Accounts, Identities, Boundary, Lookup, Post, Finalize
<1>9. ASSUME NEW p \in Procs, DatabaseFailure(p) PROVE UNCHANGED jobVars
  BY <1>9 DEF DatabaseFailure
<1>10. ASSUME NEW o \in Ops, RebuildProjection(o) \/ Arrive(o) PROVE UNCHANGED jobVars
  BY <1>10 DEF RebuildProjection, Arrive
<1>11. CASE ClosePeriod \/ UNCHANGED vars
  BY <1>11 DEF ClosePeriod, vars
<1> QED
  BY <1>2, <1>3, <1>4, <1>5, <1>6, <1>7, <1>8, <1>9, <1>10, <1>11 DEF FinancialNext

\* The leases stay well formed, since the job table moves by its own operations
\* only.
LEMMA LeasesStep == OperationInv /\ [FinancialNext]_vars => LeaseInv'
BY JobsStep, InvStep DEF OperationInv

-----------------------------------------------------------------------------
(* Values *)

\* Where a step leaves the run of the process that takes it.
LEMMA RunType ==
    ASSUME FinancialTypeOK, NEW p \in Procs, NEW row \in RunRow, run' = [run EXCEPT ![p] = row]
    PROVE  /\ run' \in [Procs -> RunRow]
           /\ row.pc # "idle" /\ run[p].pc # "idle" /\ UNCHANGED held
              => \A q \in Procs : At(q, "idle")' <=> held'[q] = NoLease
BY DEF FinancialTypeOK, At

\* A process that goes to another step of its run keeps the type of the runs.
LEMMA MovesType ==
    ASSUME FinancialTypeOK, NEW p \in Procs, run[p].pc # "idle", UNCHANGED held,
           \/ \E pc \in Steps \ {"idle"} : Goto(p, pc)
           \/ \E out \in {"accepted", "rejected", "unknown", "mapping_mismatch", "engine_routing_changed",
                          "reconciliation_required"} : Receive(p, out)
           \/ \E out \in OpStatuses \cup {"FenceRejected", "ReconciliationConflict", "DatabaseFailure"} :
                 out \notin {"absent", "intent", "submitted"} /\ Return(p, out)
    PROVE  run' \in [Procs -> RunRow] /\ \A q \in Procs : At(q, "idle")' <=> held'[q] = NoLease
<1>1. ASSUME NEW pc \in Steps \ {"idle"}, Goto(p, pc)
      PROVE  run' \in [Procs -> RunRow] /\ \A q \in Procs : At(q, "idle")' <=> held'[q] = NoLease
  BY <1>1 DEF Goto, FinancialTypeOK, RunRow, At
<1>2. ASSUME NEW out \in {"accepted", "rejected", "unknown", "mapping_mismatch", "engine_routing_changed",
                          "reconciliation_required"}, Receive(p, out)
      PROVE  run' \in [Procs -> RunRow] /\ \A q \in Procs : At(q, "idle")' <=> held'[q] = NoLease
  <2>1. [Idle EXCEPT !.pc = "receipt", !.out = out] \in RunRow
    BY DEF RunRow, Idle, Reasons, Steps, FencedSteps
  <2>2. [Idle EXCEPT !.pc = "receipt", !.out = out].pc # "idle"
    BY DEF Idle
  <2> QED
    BY <1>2, <2>1, <2>2, RunType DEF Receive
<1>3. ASSUME NEW out \in OpStatuses \cup {"FenceRejected", "ReconciliationConflict", "DatabaseFailure"},
             out \notin {"absent", "intent", "submitted"}, Return(p, out)
      PROVE  run' \in [Procs -> RunRow] /\ \A q \in Procs : At(q, "idle")' <=> held'[q] = NoLease
  <2>1. [Idle EXCEPT !.pc = "report", !.out = out] \in RunRow
    BY <1>3 DEF RunRow, Idle, Steps, OpStatuses, Pending, Decided
  <2>2. [Idle EXCEPT !.pc = "report", !.out = out].pc # "idle"
    BY DEF Idle
  <2> QED
    BY <1>3, <2>1, <2>2, RunType DEF Return
<1> QED
  BY <1>1, <1>2, <1>3

\* A fence only changes hands: the row it is written to keeps its type.
LEMMA RowTypes ==
    ASSUME OperationInv, NEW p \in Procs, run[p].pc # "idle"
    PROVE  /\ FencedRow(p) \in OpRow /\ FencedRow(p).fence = held[p].gen
           /\ FencedRow(p).status = op[OpOf(p)].status
           /\ FencedRow(p).identified = op[OpOf(p)].identified
           /\ \A status \in OpStatuses : [FencedRow(p) EXCEPT !.status = status] \in OpRow
           /\ [FencedRow(p) EXCEPT !.identified = TRUE] \in OpRow
           /\ [FencedRow(p) EXCEPT !.status = "reconciled", !.reason = "none"] \in OpRow
BY Working DEF FencedRow, OpRow, OpStatuses, Decided, Reasons

\* What publishing makes of a row.
LEMMA ReconciledRow ==
    ASSUME NEW row \in OpRow
    PROVE  LET published == [row EXCEPT !.status = "reconciled", !.reason = "none"]
           IN  /\ published \in OpRow /\ published.status = "reconciled"
               /\ published.fence = row.fence /\ published.identified = row.identified
BY DEF OpRow, OpStatuses, Decided, Reasons

\* What a rebuild makes of it.
LEMMA RebuiltRow ==
    ASSUME op \in [Ops -> OpRow], NEW o \in Ops, RebuildProjection(o)
    PROVE  op'[o].status = "reconciled" /\ \A i \in Ops : i # o => op'[i] = op[i]
<1>1. Repaired(o) \in OpRow
    BY DEF Repaired, OpRow
<1> QED
    BY <1>1, ReconciledRow DEF RebuildProjection, Reconciled

\* What a receipt makes of a row.
LEMMA NotedType ==
    ASSUME NEW row \in OpRow,
           NEW out \in {"accepted", "rejected", "unknown"} \union (Reasons \ {"none"})
    PROVE  /\ Noted(row, out) \in OpRow
           /\ Noted(row, out).fence = row.fence /\ Noted(row, out).identified = row.identified
           /\ Noted(row, out).status = IF out \in Reasons THEN "manual_recovery" ELSE out
<1>1. CASE out \in Reasons
  BY <1>1 DEF Noted, OpRow, OpStatuses, Decided
<1>2. CASE out \notin Reasons
  BY <1>2 DEF Noted, OpRow, OpStatuses, Pending, Decided, Reasons
<1> QED
  BY <1>1, <1>2

\* The types of rows, runs, periods and of the provider's knowledge are kept.
LEMMA FinancialTypeStep == OperationInv /\ [FinancialNext]_vars => FinancialTypeOK'
<1> SUFFICES ASSUME OperationInv, [FinancialNext]_vars PROVE FinancialTypeOK'
  OBVIOUS
<1> USE DEF OperationInv, FinancialTypeOK, accountingVars, providerVars
<1>0. TypeOK /\ TypeOK'
  BY LeasesStep DEF LeaseInv
<1>1. ASSUME NEW o \in Ops, CreateIntent(o) PROVE FinancialTypeOK'
  BY <1>1 DEF CreateIntent, Draft, Enqueue, OpRow, OpStatuses, Pending, At
<1>2. ASSUME NEW o \in Ops, RebuildProjection(o) PROVE FinancialTypeOK'
  BY <1>2 DEF RebuildProjection, Rebuildable, Inspected, Repaired, Reconciled, OpRow, OpStatuses, Decided, Reasons, jobVars, At
<1>3. ASSUME NEW o \in Ops, Arrive(o) PROVE FinancialTypeOK'
  BY <1>3 DEF Arrive, Verdicts, Decide, jobVars, At
<1>4. CASE ClosePeriod
  BY <1>4 DEF ClosePeriod, jobVars, At
<1>5. ASSUME NEW p \in Procs, NEW j \in Jobs, StartJob(p, j) PROVE FinancialTypeOK'
  <2>1. held' = [held EXCEPT ![p] = [job |-> j, token |-> issued + 1, gen |-> NextGeneration(j)]]
    BY <1>5 DEF StartJob, Claim
  <2>2. [job |-> j, token |-> issued + 1, gen |-> NextGeneration(j)] # NoLease
    <3>1. held'[p] = [job |-> j, token |-> issued + 1, gen |-> NextGeneration(j)]
      BY <1>0, <2>1 DEF TypeOK
    <3>2. NextGeneration(j) \in Nat
      BY <1>0, ConstantsAssumption DEF NextGeneration, TypeOK
    <3> QED
      BY <1>0, <3>2, NoLeaseAssumption DEF TypeOK, Lease
  <2>3. run' = [run EXCEPT ![p].pc = "read"]
    BY <1>5 DEF StartJob, Goto
  <2>4. run' \in [Procs -> RunRow]
    BY <2>3 DEF RunRow, Steps
  <2>5. \A q \in Procs : At(q, "idle")' <=> held'[q] = NoLease
    BY <1>0, <2>1, <2>2, <2>3 DEF At, TypeOK, RunRow
  <2> QED
    BY <1>5, <2>4, <2>5 DEF StartJob
<1>6. ASSUME NEW p \in Procs, Heartbeat(p) PROVE FinancialTypeOK'
  BY <1>6 DEF Heartbeat, Renew, At
<1>7. ASSUME NEW p \in Procs, Read(p) PROVE FinancialTypeOK'
  <2>1. run[p].pc # "idle" /\ UNCHANGED held
    BY <1>7 DEF Read, At, jobVars
  <2>2. op[OpOf(p)].status \in Decided => op[OpOf(p)].status \in OpStatuses \ {"absent", "intent", "submitted"}
    BY DEF OpStatuses, Decided
  <2>3. run' \in [Procs -> RunRow] /\ \A q \in Procs : At(q, "idle")' <=> held'[q] = NoLease
    BY <1>7, <2>1, <2>2, MovesType DEF Read, Steps, FencedSteps
  <2> QED
    BY <1>7, <2>3 DEF Read
<1>8. ASSUME NEW p \in Procs, FenceRejected(p) PROVE FinancialTypeOK'
  <2>1. run[p].pc # "idle" /\ UNCHANGED held
    BY <1>8 DEF FenceRejected, FencedSteps, jobVars
  <2>2. run' \in [Procs -> RunRow] /\ \A q \in Procs : At(q, "idle")' <=> held'[q] = NoLease
    BY <1>8, <2>1, MovesType DEF FenceRejected
  <2> QED
    BY <1>8, <2>2 DEF FenceRejected
<1>9. ASSUME NEW p \in Procs, State(p) PROVE FinancialTypeOK'
  <2>1. run[p].pc # "idle" /\ UNCHANGED held
    BY <1>9 DEF State, Fenced, At, jobVars
  <2>2. op' \in [Ops -> OpRow]
    <3> DEFINE status == op[OpOf(p)].status
               submitted == Submitted(status)
    <3>1. submitted \in OpStatuses
      BY <2>1, Working DEF OpRow, OpStatuses, Pending, Submitted
    <3>2. /\ FencedRow(p) \in OpRow
          /\ [FencedRow(p) EXCEPT !.status = submitted] \in OpRow
      BY <2>1, <3>1, RowTypes
    <3>3. \/ op' = [op EXCEPT ![OpOf(p)] = FencedRow(p)]
          \/ op' = [op EXCEPT ![OpOf(p)] = [FencedRow(p) EXCEPT !.status = submitted]]
      BY <1>9 DEF State
    <3> QED
      BY <3>2, <3>3
  <2>3. run' \in [Procs -> RunRow] /\ \A q \in Procs : At(q, "idle")' <=> held'[q] = NoLease
    <3>1. CASE run' = [run EXCEPT ![p].pc = "accounts", ![p].reconcile = MustReconcile(p)]
      <4>1. MustReconcile(p) \in BOOLEAN
        BY DEF MustReconcile
      <4>2. [run[p] EXCEPT !.pc = "accounts", !.reconcile = MustReconcile(p)] \in RunRow
        BY <4>1 DEF RunRow, Steps
      <4>3. [run[p] EXCEPT !.pc = "accounts", !.reconcile = MustReconcile(p)].pc # "idle"
        BY DEF RunRow
      <4>4. run' = [run EXCEPT ![p] = [run[p] EXCEPT !.pc = "accounts", !.reconcile = MustReconcile(p)]]
        BY <3>1
      <4> QED
        BY <2>1, <4>2, <4>3, <4>4, RunType
    <3>2. op[OpOf(p)].status \in Decided => op[OpOf(p)].status \in OpStatuses \ {"absent", "intent", "submitted"}
      BY DEF OpStatuses, Decided
    <3> QED
      BY <1>9, <2>1, <3>1, <3>2, MovesType DEF State
  <2> QED
    BY <1>9, <2>2, <2>3 DEF State
<1>10. ASSUME NEW p \in Procs, Accounts(p) PROVE FinancialTypeOK'
  <2>1. run[p].pc # "idle" /\ UNCHANGED held
    BY <1>10 DEF Accounts, At, jobVars
  <2>2. run' \in [Procs -> RunRow] /\ \A q \in Procs : At(q, "idle")' <=> held'[q] = NoLease
    BY <1>10, <2>1, MovesType DEF Accounts, AccountReplies, Steps, FencedSteps
  <2> QED
    BY <1>10, <2>2 DEF Accounts
<1>11. ASSUME NEW p \in Procs, Identities(p) \/ Boundary(p) PROVE FinancialTypeOK'
  <2>1. run[p].pc # "idle" /\ UNCHANGED held
    BY <1>11 DEF Identities, Boundary, Fenced, At, jobVars
  <2>2. op' \in [Ops -> OpRow]
    BY <1>11, <2>1, Working, RowTypes DEF Identities, Boundary
  <2>3. run' \in [Procs -> RunRow] /\ \A q \in Procs : At(q, "idle")' <=> held'[q] = NoLease
    BY <1>11, <2>1, MovesType DEF Identities, Boundary, Steps, FencedSteps
  <2> QED
    BY <1>11, <2>2, <2>3 DEF Identities, Boundary
<1>12. ASSUME NEW p \in Procs, Lookup(p) PROVE FinancialTypeOK'
  <2>1. run[p].pc # "idle" /\ UNCHANGED held
    BY <1>12 DEF Lookup, At, jobVars
  <2>2. run' \in [Procs -> RunRow] /\ \A q \in Procs : At(q, "idle")' <=> held'[q] = NoLease
    BY <1>12, <2>1, MovesType DEF Lookup, Steps
  <2> QED
    BY <1>12, <2>2 DEF Lookup
<1>13. ASSUME NEW p \in Procs, Post(p) PROVE FinancialTypeOK'
  <2>1. run[p].pc # "idle" /\ UNCHANGED held /\ OpOf(p) \in Ops
    BY <1>13, Working DEF Post, At, jobVars
  <2>2. Verdicts(OpOf(p)) \subseteq {"none", "accepted", "rejected"}
    BY <2>1 DEF Verdicts
  <2>3. Verdicts(OpOf(p)) \subseteq {"accepted", "rejected"}
    BY <2>1 DEF Verdicts
  <2>4. run' \in [Procs -> RunRow] /\ \A q \in Procs : At(q, "idle")' <=> held'[q] = NoLease
    BY <1>13, <2>1, <2>3, MovesType DEF Post
  <2>5. ledger' \in [Ops -> {"none", "accepted", "rejected"}] /\ posting' \subseteq Ops
    BY <1>13, <2>1, <2>3 DEF Post, Decide
  <2> QED
    BY <1>13, <2>4, <2>5 DEF Post
<1>14. ASSUME NEW p \in Procs, Receipt(p) PROVE FinancialTypeOK'
  <2>1. run[p].pc # "idle" /\ UNCHANGED held
    BY <1>14 DEF Receipt, Fenced, At, Enqueue, jobVars
  <2>2. /\ At(p, "receipt") /\ OpOf(p) \in Ops
        /\ run[p].out \in {"accepted", "rejected", "unknown"} \union (Reasons \ {"none"})
    BY <1>14, <2>1, Working DEF Receipt, Fenced, RunsKnowTheLedger
  <2>3. /\ Noted(FencedRow(p), run[p].out) \in OpRow
        /\ Noted(FencedRow(p), run[p].out).status = IF run[p].out \in Reasons THEN "manual_recovery" ELSE run[p].out
    BY <2>1, <2>2, RowTypes, NotedType
  <2>4. op' \in [Ops -> OpRow]
    BY <1>14, <2>1, <2>2, <2>3, RowTypes DEF Receipt
  <2>5. run' \in [Procs -> RunRow] /\ \A q \in Procs : At(q, "idle")' <=> held'[q] = NoLease
    <3>1. run[p].out # "accepted" => Noted(FencedRow(p), run[p].out).status \in OpStatuses \ {"absent", "intent", "submitted"}
      BY <2>2, <2>3 DEF OpStatuses, Pending, Decided
    <3>2. "reconciled" \in OpStatuses
      BY DEF OpStatuses, Decided
    <3> QED
      BY <1>14, <2>1, <3>1, <3>2, MovesType DEF Receipt, Steps, FencedSteps
  <2> QED
    BY <1>14, <2>4, <2>5 DEF Receipt
<1>15. ASSUME NEW p \in Procs, Finalize(p) PROVE FinancialTypeOK'
  <2>1. run[p].pc # "idle" /\ UNCHANGED held /\ OpOf(p) \in Ops /\ held[p] # NoLease
    BY <1>15, Working DEF Finalize, Fenced, At, jobVars
  <2>2. op[OpOf(p)].status \in {"accepted", "reconciled"}
    BY <1>15, <2>1 DEF Finalize, Fenced, Admitted, AdmittedRunsAreCurrent, At
  <2>3. op' \in [Ops -> OpRow]
    BY <1>15, <2>1, RowTypes DEF Finalize, Reconciled
  <2>4. run' \in [Procs -> RunRow] /\ \A q \in Procs : At(q, "idle")' <=> held'[q] = NoLease
    BY <1>15, <2>1, <2>2, MovesType DEF Finalize, OpStatuses, Pending, Decided
  <2> QED
    BY <1>15, <2>1, <2>3, <2>4 DEF Finalize, Reconciled
<1>16. ASSUME NEW p \in Procs, DatabaseFailure(p) PROVE FinancialTypeOK'
  <2>1. run[p].pc # "idle" /\ UNCHANGED held
    BY <1>16 DEF DatabaseFailure, jobVars
  <2>2. run' \in [Procs -> RunRow] /\ \A q \in Procs : At(q, "idle")' <=> held'[q] = NoLease
    BY <1>16, <2>1, MovesType DEF DatabaseFailure
  <2> QED
    BY <1>16, <2>2 DEF DatabaseFailure
<1>17. ASSUME NEW p \in Procs, Report(p) \/ Abandon(p) PROVE FinancialTypeOK'
  <2>1. held' = [held EXCEPT ![p] = NoLease] /\ run' = [run EXCEPT ![p] = Idle]
    BY <1>17 DEF Report, Abandon, Complete, Fail, LeaseLost, Crash
  <2>2. run' \in [Procs -> RunRow]
    BY <2>1 DEF RunRow, Idle, Steps
  <2>3. \A q \in Procs : At(q, "idle")' <=> held'[q] = NoLease
    BY <1>0, <2>1 DEF At, Idle, TypeOK
  <2> QED
    BY <1>17, <2>2, <2>3 DEF Report, Abandon
<1>18. CASE TimePasses
  BY <1>18 DEF TimePasses, Tick, At
<1>19. CASE UNCHANGED vars
  BY <1>19 DEF vars, jobVars, At
<1> QED
  BY <1>1, <1>2, <1>3, <1>4, <1>5, <1>6, <1>7, <1>8, <1>9, <1>10, <1>11, <1>12, <1>13, <1>14,
     <1>15, <1>16, <1>17, <1>18, <1>19 DEF FinancialNext, Work

-----------------------------------------------------------------------------
(* How a step changes one row, and one run *)

\* The steps of a worker that write the row of its operation.
Writes(p) == State(p) \/ Identities(p) \/ Boundary(p) \/ Receipt(p) \/ Finalize(p)

\* What these steps make of the row: a worker that writes was let through by the
\* fence, and moves it to its own generation.
LEMMA RowWritten ==
    ASSUME OperationInv, NEW p \in Procs, Writes(p)
    PROVE  /\ run[p].pc # "idle" /\ FenceAdmits(p)
           /\ \A o \in Ops : o # OpOf(p) => op'[o] = op[o]
           /\ op'[OpOf(p)] # op[OpOf(p)] => op'[OpOf(p)].fence = held[p].gen
           /\ op'[OpOf(p)].fence >= op[OpOf(p)].fence
           /\ op[OpOf(p)].identified => op'[OpOf(p)].identified
           /\ op'[OpOf(p)].identified /\ ~Identities(p) => op[OpOf(p)].identified
           /\ UNCHANGED <<held, ledger, posting, period>>
<1> DEFINE o == OpOf(p)
<1>1. run[p].pc # "idle" /\ FenceAdmits(p) /\ UNCHANGED <<held, ledger, posting, period>>
  BY DEF Writes, State, Identities, Boundary, Receipt, Finalize, Fenced, At, jobVars, providerVars, Enqueue
<1>2. o \in Ops /\ op[o] \in OpRow /\ held[p].gen \in Nat /\ op \in [Ops -> OpRow]
  BY <1>1, Working DEF OperationInv, FinancialTypeOK
<1>3. FencedRow(p) \in OpRow /\ FencedRow(p).fence = held[p].gen /\ FencedRow(p).identified = op[o].identified
  BY <1>1, RowTypes
<1>4. At(p, "receipt") => /\ Noted(FencedRow(p), run[p].out).fence = held[p].gen
                          /\ Noted(FencedRow(p), run[p].out).identified = op[o].identified
  <2>1. At(p, "receipt") => run[p].out \in {"accepted", "rejected", "unknown"} \union (Reasons \ {"none"})
    BY <1>1, Working DEF OperationInv, RunsKnowTheLedger
  <2> QED
    BY <1>3, <2>1, NotedType
<1>5. \/ op' = op
      \/ \E row : /\ op' = [op EXCEPT ![o] = row] /\ row.fence = held[p].gen
                  /\ row.identified = op[o].identified
      \/ Identities(p) /\ \E row : /\ op' = [op EXCEPT ![o] = row] /\ row.fence = held[p].gen
                                   /\ row.identified = TRUE
  <2>1. CASE State(p)
    <3>1. \A status : /\ [FencedRow(p) EXCEPT !.status = status].fence = held[p].gen
                      /\ [FencedRow(p) EXCEPT !.status = status].identified = op[o].identified
      BY <1>3 DEF OpRow
    <3>2. \/ op' = [op EXCEPT ![o] = FencedRow(p)]
          \/ \E status : op' = [op EXCEPT ![o] = [FencedRow(p) EXCEPT !.status = status]]
      BY <2>1 DEF State
    <3> QED
      BY <1>3, <3>1, <3>2
  <2>2. CASE Identities(p)
    <3> DEFINE row == [FencedRow(p) EXCEPT !.identified = TRUE]
    <3>1. row.fence = held[p].gen /\ row.identified = TRUE
      BY <1>3 DEF OpRow
    <3>2. op' = [op EXCEPT ![o] = row]
      BY <2>2 DEF Identities
    <3> HIDE DEF row
    <3> QED
      BY <2>2, <3>1, <3>2
  <2>3. CASE Boundary(p)
    BY <1>3, <2>3 DEF Boundary
  <2>4. CASE Receipt(p)
    <3>1. At(p, "receipt")
      BY <2>4 DEF Receipt, Fenced
    <3>2. \/ op' = [op EXCEPT ![o] = FencedRow(p)]
          \/ op' = op
          \/ op' = [op EXCEPT ![o] = Noted(FencedRow(p), run[p].out)]
      BY <2>4 DEF Receipt
    <3> QED
      BY <1>3, <1>4, <3>1, <3>2
  <2>5. CASE Finalize(p)
    BY ZenonT(30), <1>2, <1>3, <2>5 DEF Finalize, Reconciled, FencedRow, OpRow
  <2> QED
    BY <2>1, <2>2, <2>3, <2>4, <2>5 DEF Writes
<1>6. op[o].fence <= held[p].gen /\ op[o].fence \in Nat
  BY <1>1, <1>2 DEF FenceAdmits, OpRow
<1> QED
  BY <1>1, <1>2, <1>5, <1>6 DEF OpRow

\* A row changes by its command, by the operator's rebuild or by a worker.
LEMMA RowStep ==
    ASSUME OperationInv, [FinancialNext]_vars, NEW o \in Ops, op'[o] # op[o]
    PROVE  \/ CreateIntent(o) \/ RebuildProjection(o)
           \/ \E p \in Procs : OpOf(p) = o /\ Writes(p)
<1> USE DEF OperationInv, FinancialTypeOK
<1>1. ASSUME NEW i \in Ops, CreateIntent(i) PROVE i = o
  BY <1>1 DEF CreateIntent, Draft
<1>2. ASSUME NEW i \in Ops, RebuildProjection(i) PROVE i = o
  BY <1>2 DEF RebuildProjection, Reconciled
<1>3. ASSUME NEW p \in Procs, Writes(p) PROVE OpOf(p) = o
  BY <1>3, RowWritten
<1>4. op' # op
  OBVIOUS
<1>5. ASSUME NEW p \in Procs, Work(p) PROVE Writes(p)
  BY <1>4, <1>5 DEF Work, Writes, Read, FenceRejected, Accounts, Lookup, Post, accountingVars
<1> QED
  BY <1>1, <1>2, <1>3, <1>4, <1>5
  DEF FinancialNext, vars, accountingVars, Arrive, ClosePeriod, StartJob, Heartbeat, DatabaseFailure,
      Report, Abandon, TimePasses

\* A run changes by a step of its own process only.
LEMMA RunStep ==
    ASSUME OperationInv, [FinancialNext]_vars, NEW p \in Procs, held'[p] # NoLease
    PROVE  \/ run'[p] = run[p] /\ held'[p] = held[p]
           \/ \E j \in Jobs : StartJob(p, j)
           \/ Work(p) /\ held'[p] = held[p]
           \/ run'[p].pc = "report" /\ held'[p] = held[p]
<1> USE DEF OperationInv, FinancialTypeOK
<1>0. TypeOK
  BY DEF LeaseInv
<1>1. CASE UNCHANGED <<run, held>>
  BY <1>1
<1>2. ASSUME NEW q \in Procs, NEW j \in Jobs, StartJob(q, j), q # p
      PROVE  run'[p] = run[p] /\ held'[p] = held[p]
  BY <1>0, <1>2 DEF StartJob, Claim, Goto, TypeOK
<1>3. ASSUME NEW q \in Procs, Work(q) PROVE held' = held /\ (q # p => run'[p] = run[p])
  <2>1. UNCHANGED held
    BY <1>3 DEF Work, Read, FenceRejected, State, Accounts, Identities, Boundary, Lookup, Post, Receipt,
       Finalize, Enqueue, jobVars
  <2>2. q # p => run'[p] = run[p]
    BY <1>3 DEF Work, Read, FenceRejected, State, Accounts, Identities, Boundary, Lookup, Post, Receipt,
       Finalize, Goto, Receive, Return
  <2> QED
    BY <2>1, <2>2
<1>4. ASSUME NEW q \in Procs, DatabaseFailure(q)
      PROVE  held' = held /\ (q # p => run'[p] = run[p]) /\ (q = p => run'[p].pc = "report")
  BY <1>4 DEF DatabaseFailure, Return, Idle, jobVars
<1>5. ASSUME NEW q \in Procs, Report(q) \/ Abandon(q)
      PROVE  run'[p] = run[p] /\ held'[p] = held[p]
  <2>1. held' = [held EXCEPT ![q] = NoLease] /\ run' = [run EXCEPT ![q] = Idle]
    BY <1>5 DEF Report, Abandon, Complete, Fail, LeaseLost, Crash
  <2>2. q # p
    BY <1>0, <2>1 DEF TypeOK
  <2> QED
    BY <1>0, <2>1, <2>2 DEF TypeOK
<1>6. ASSUME NEW q \in Procs, Heartbeat(q) PROVE UNCHANGED <<run, held>>
  BY <1>6 DEF Heartbeat, Renew
<1>7. ASSUME NEW o \in Ops, CreateIntent(o) \/ RebuildProjection(o) \/ Arrive(o)
      PROVE  UNCHANGED <<run, held>>
  BY <1>7 DEF CreateIntent, Draft, RebuildProjection, Rebuildable, Inspected, Repaired, Arrive, Enqueue, jobVars
<1>8. CASE ClosePeriod \/ TimePasses \/ UNCHANGED vars
  BY <1>1, <1>8 DEF ClosePeriod, TimePasses, Tick, vars, jobVars
<1> QED
  BY <1>1, <1>2, <1>3, <1>4, <1>5, <1>6, <1>7, <1>8 DEF FinancialNext

\* How the status of a row changes when a worker writes it.
LEMMA StatusWritten ==
    ASSUME OperationInv, NEW p \in Procs, Writes(p)
    PROVE  LET from == op[OpOf(p)].status
               to   == op'[OpOf(p)].status
           IN  \/ to = from
               \/ State(p) /\ from \in {"intent", "unknown"} /\ to = "submitted"
               \/ /\ Receipt(p) /\ from # "reconciled" /\ to = run[p].out
                  /\ \/ to = "accepted" /\ At(p, "finalize")'
                     \/ to \in {"rejected", "unknown"} /\ from # "accepted"
               \/ /\ Receipt(p) /\ from \notin {"reconciled", "accepted"} /\ to = "manual_recovery"
                  /\ run[p].out \in Reasons
               \/ Finalize(p) /\ from = "accepted" /\ to = "reconciled"
<1> DEFINE o == OpOf(p)
<1>1. run[p].pc # "idle" /\ o \in Ops /\ FencedRow(p).status = op[o].status /\ FencedRow(p) \in OpRow
      /\ op \in [Ops -> OpRow] /\ run[p] \in RunRow /\ run \in [Procs -> RunRow]
  BY RowWritten, RowTypes, Working DEF OperationInv, FinancialTypeOK
<1>2. CASE State(p)
  BY <1>1, <1>2 DEF State, Submitted, OpRow
<1>3. CASE Identities(p)
  BY <1>1, <1>3 DEF Identities, OpRow
<1>4. CASE Boundary(p)
  BY <1>1, <1>4 DEF Boundary
<1>5. CASE Receipt(p)
  <2>1. /\ At(p, "receipt")
        /\ run[p].out \in {"accepted", "rejected", "unknown"} \union (Reasons \ {"none"})
    BY <1>1, <1>5, Working DEF Receipt, Fenced, OperationInv, RunsKnowTheLedger
  <2>2. Noted(FencedRow(p), run[p].out).status = IF run[p].out \in Reasons THEN "manual_recovery" ELSE run[p].out
    BY <1>1, <2>1, NotedType
  <2>3. Goto(p, "finalize") => At(p, "finalize")'
    BY <1>1 DEF Goto, At, RunRow
  <2>4. run[p].out = "accepted" => run[p].out \notin Reasons
    BY DEF Reasons
  <2> QED
    BY <1>1, <1>5, <2>1, <2>2, <2>3, <2>4 DEF Receipt, Published
<1>6. CASE Finalize(p)
  BY <1>1, <1>6 DEF Finalize, Reconciled, OpRow
<1> QED
  BY <1>2, <1>3, <1>4, <1>5, <1>6 DEF Writes

\* The provider is asked for an operation only by a run that is at that step, and
\* what it has decided stays.
LEMMA LedgerStep ==
    ASSUME OperationInv, [FinancialNext]_vars, NEW o \in Ops
    PROVE  /\ \/ ledger'[o] = ledger[o]
              \/ ledger[o] = "none" /\ ledger'[o] \in {"accepted", "rejected"}
           /\ ledger'[o] # ledger[o] \/ (o \in posting' /\ o \notin posting)
              => o \in posting \/ \E p \in Procs : held[p] # NoLease /\ At(p, "post") /\ OpOf(p) = o
<1> USE DEF OperationInv, FinancialTypeOK
<1>1. CASE UNCHANGED <<ledger, posting>>
  BY <1>1
<1>2. ASSUME NEW i \in Ops, Arrive(i)
      PROVE  /\ \/ ledger'[o] = ledger[o]
                \/ ledger[o] = "none" /\ ledger'[o] \in {"accepted", "rejected"}
             /\ ledger'[o] # ledger[o] => o \in posting
             /\ o \in posting' => o \in posting
  BY <1>2 DEF Arrive, Verdicts, Decide
<1>3. ASSUME NEW p \in Procs, Post(p)
      PROVE  /\ \/ ledger'[o] = ledger[o]
                \/ ledger[o] = "none" /\ ledger'[o] \in {"accepted", "rejected"}
             /\ ledger'[o] # ledger[o] \/ (o \in posting' /\ o \notin posting)
                => held[p] # NoLease /\ At(p, "post") /\ OpOf(p) = o
  <2>1. held[p] # NoLease /\ At(p, "post") /\ OpOf(p) \in Ops
    BY <1>3, Working DEF Post, At
  <2> QED
    BY <1>3, <2>1 DEF Post, Verdicts, Decide
<1> QED
  BY <1>1, <1>2, <1>3
  DEF FinancialNext, vars, providerVars, CreateIntent, RebuildProjection, ClosePeriod, StartJob, Heartbeat,
      DatabaseFailure, Report, Abandon, TimePasses, Work, Read, FenceRejected, State, Accounts, Identities,
      Boundary, Lookup, Receipt, Finalize

\* Requests to the provider are about operations with good accounts and stored
\* identities.
LEMMA AskedIsIdentified ==
    ASSUME OperationInv, [FinancialNext]_vars, NEW o \in Ops,
           ledger'[o] # ledger[o] \/ (o \in posting' /\ o \notin posting)
    PROVE  op[o].identified /\ o \notin BadAccounts
<1>1. op[o].identified
  BY LedgerStep DEF OperationInv, TransfersAreIdentified, RunsKnowTheLedger, ProviderSteps, At
<1> QED
  BY <1>1 DEF OperationInv, UnknownIsUntouched

\* Identities that are stored stay stored, and a row that exists stays.
LEMMA RowStays ==
    ASSUME OperationInv, [FinancialNext]_vars, NEW o \in Ops
    PROVE  /\ op[o].identified => op'[o].identified
           /\ op[o].status # "absent" => op'[o].status # "absent"
           /\ op'[o].fence >= op[o].fence
<1> USE DEF OperationInv, FinancialTypeOK
<1>0. op[o].fence \in Nat
  BY DEF OpRow
<1>1. CASE op'[o] = op[o]
  BY <1>0, <1>1
<1>2. CASE CreateIntent(o)
  BY <1>0, <1>2 DEF CreateIntent, Draft, OpRow
<1>3. CASE RebuildProjection(o)
  BY <1>0, <1>3 DEF RebuildProjection, Rebuildable, Inspected, Repaired, Reconciled, OpRow
<1>4. ASSUME NEW p \in Procs, OpOf(p) = o, Writes(p)
      PROVE  /\ op[o].identified => op'[o].identified
             /\ op[o].status # "absent" => op'[o].status # "absent"
             /\ op'[o].fence >= op[o].fence
  BY <1>4, RowWritten, StatusWritten
<1> QED
  BY <1>1, <1>2, <1>3, <1>4, RowStep

-----------------------------------------------------------------------------
(* The parts of the inductive invariant *)

\* A row is reconciled in the transaction that writes its journal.
LEMMA PublishedStep == OperationInv /\ [FinancialNext]_vars => PublishedTogether'
<1> SUFFICES ASSUME OperationInv, [FinancialNext]_vars, NEW o \in Ops
             PROVE  /\ op'[o].status = "reconciled" <=> journal'[o] = "posted"
                    /\ op'[o].status = "reconciled" <=> o \in outbox'
  BY DEF PublishedTogether
<1> USE DEF OperationInv, FinancialTypeOK, PublishedTogether
<1>1. ASSUME NEW i \in Ops, CreateIntent(i)
      PROVE  /\ op'[o].status = "reconciled" <=> journal'[o] = "posted"
             /\ op'[o].status = "reconciled" <=> o \in outbox'
  BY <1>1 DEF CreateIntent, Draft, OpRow
<1>2. ASSUME NEW i \in Ops, RebuildProjection(i)
      PROVE  /\ op'[o].status = "reconciled" <=> journal'[o] = "posted"
             /\ op'[o].status = "reconciled" <=> o \in outbox'
  BY <1>2 DEF RebuildProjection, Reconciled, OpRow
<1>3. ASSUME NEW p \in Procs, Finalize(p)
      PROVE  /\ op'[o].status = "reconciled" <=> journal'[o] = "posted"
             /\ op'[o].status = "reconciled" <=> o \in outbox'
  <2>1. FencedRow(p).status = op[OpOf(p)].status /\ OpOf(p) \in Ops /\ FencedRow(p) \in OpRow
    BY <1>3, RowTypes, Working DEF Finalize, Fenced, At
  <2>2. CASE op[OpOf(p)].status = "accepted"
    <3>1. op' = [op EXCEPT ![OpOf(p)] = [FencedRow(p) EXCEPT !.status = "reconciled", !.reason = "none"]]
          /\ journal' = [journal EXCEPT ![OpOf(p)] = "posted"] /\ outbox' = outbox \union {OpOf(p)}
      BY <1>3, <2>2 DEF Finalize, Reconciled
    <3>2. [FencedRow(p) EXCEPT !.status = "reconciled", !.reason = "none"].status = "reconciled"
      BY <2>1 DEF OpRow
    <3> QED
      BY <2>1, <3>1, <3>2
  <2>3. CASE op[OpOf(p)].status # "accepted"
    BY <1>3, <2>1, <2>3 DEF Finalize
  <2> QED
    BY <2>2, <2>3
<1>4. ASSUME UNCHANGED <<journal, outbox>>, op'[o].status = op[o].status
      PROVE  /\ op'[o].status = "reconciled" <=> journal'[o] = "posted"
             /\ op'[o].status = "reconciled" <=> o \in outbox'
  BY <1>4
<1>5. ASSUME NEW p \in Procs, Writes(p), ~Finalize(p)
      PROVE  /\ UNCHANGED <<journal, outbox>>
             /\ op'[o].status # op[o].status => op'[o].status # "reconciled" /\ op[o].status # "reconciled"
  <2>1. UNCHANGED <<journal, outbox>>
    BY <1>5 DEF Writes, State, Identities, Boundary, Receipt
  <2>2. CASE o # OpOf(p)
    BY <1>5, <2>1, <2>2, RowWritten
  <2>3. CASE o = OpOf(p)
    BY <1>5, <2>1, <2>3, StatusWritten
  <2> QED
    BY <2>2, <2>3
<1>6. ASSUME NEW p \in Procs, Writes(p), ~Finalize(p)
      PROVE  /\ op'[o].status = "reconciled" <=> journal'[o] = "posted"
             /\ op'[o].status = "reconciled" <=> o \in outbox'
  BY <1>4, <1>5, <1>6
<1> QED
  BY <1>1, <1>2, <1>3, <1>4, <1>6
  DEF FinancialNext, vars, accountingVars, Arrive, ClosePeriod, StartJob, Heartbeat, DatabaseFailure,
      Report, Abandon, TimePasses, Work, Writes, Read, FenceRejected, Accounts, Lookup, Post

\* Every transfer of the provider carries an identity stored with its row.
LEMMA IdentifiedStep == OperationInv /\ [FinancialNext]_vars => TransfersAreIdentified'
<1> SUFFICES ASSUME OperationInv, [FinancialNext]_vars, NEW o \in Ops,
                    ledger'[o] # "none" \/ o \in posting'
             PROVE  op'[o].identified
  BY DEF TransfersAreIdentified
<1>1. op[o].identified
  BY AskedIsIdentified DEF OperationInv, TransfersAreIdentified
<1> QED
  BY <1>1, RowStays

\* A job is stored in one transaction with the intent or the receipt that asks
\* for it.
LEMMA JobsAppear ==
    ASSUME OperationInv, [FinancialNext]_vars, NEW o \in Ops, NEW kind \in Kinds,
           job[<<o, kind>>].status = "absent", job'[<<o, kind>>].status # "absent"
    PROVE  op'[o].status # "absent"
<1> DEFINE j == <<o, kind>>
<1> USE DEF OperationInv, FinancialTypeOK
<1>0. j \in Jobs /\ TypeOK /\ job[j] \in JobRow
  BY FinancialAssumption DEF LeaseInv, TypeOK
<1>1. ASSUME NEW i \in Ops, CreateIntent(i) PROVE op'[o].status # "absent"
  <2>1. i = o
    BY <1>0, <1>1, FinancialAssumption DEF CreateIntent, Draft, Enqueue, Enqueued, TypeOK, Kinds
  <2> QED
    BY <1>1, <2>1 DEF CreateIntent, Draft, OpRow
<1>2. ASSUME NEW p \in Procs, Receipt(p) PROVE op'[o].status # "absent"
  <2>1. OpOf(p) \in Ops /\ op[OpOf(p)].status # "absent"
    BY <1>2, Working DEF Receipt, Fenced, At, RunsKnowTheLedger
  <2>2. OpOf(p) = o
    BY <1>0, <1>2, <2>1, FinancialAssumption DEF Receipt, Enqueue, Enqueued, TypeOK, Kinds, jobVars
  <2> QED
    BY <2>1, <2>2, RowStays
<1>3. ASSUME NEW p \in Procs, NEW i \in Jobs, Claim(p, i) PROVE FALSE
  BY <1>0, <1>3 DEF Claim, Claimable, TypeOK
<1>4. ASSUME NEW p \in Procs, Renew(p) \/ Complete(p) \/ Fail(p, TRUE) \/ Fail(p, FALSE) PROVE FALSE
  <2>1. held[p].job \in Jobs /\ held[p].job # j
    BY <1>0, <1>4 DEF Renew, Complete, Fail, Honoured, TypeOK, Lease
  <2> QED
    BY <1>0, <1>4, <2>1 DEF Renew, Complete, Fail, TypeOK
<1>5. ASSUME Tick PROVE FALSE
  BY <1>0, <1>5 DEF Tick, Aged, JobRow
<1>6. UNCHANGED job => FALSE
  BY <1>0
<1>7. ASSUME NEW p \in Procs, NEW retry \in BOOLEAN, Fail(p, retry) PROVE FALSE
  BY <1>4, <1>7
<1>8. ASSUME NEW p \in Procs, Report(p) PROVE FALSE
  <2>1. (run[p].out # "FenceRejected") \in BOOLEAN
    OBVIOUS
  <2> QED
    BY <1>4, <1>7, <1>8, <2>1 DEF Report
<1>9. ASSUME NEW p \in Procs, Heartbeat(p) \/ (\E i \in Jobs : StartJob(p, i)) PROVE FALSE
  BY <1>3, <1>4, <1>9 DEF Heartbeat, StartJob
<1>10. ASSUME NEW p \in Procs, Work(p), ~Receipt(p) PROVE UNCHANGED job
  BY <1>10 DEF Work, Read, FenceRejected, State, Accounts, Identities, Boundary, Lookup, Post, Finalize, jobVars
<1>11. ASSUME NEW p \in Procs, DatabaseFailure(p) \/ Abandon(p) PROVE UNCHANGED job
  BY <1>11 DEF DatabaseFailure, Abandon, LeaseLost, Crash, jobVars
<1>12. ASSUME NEW i \in Ops, RebuildProjection(i) \/ Arrive(i) PROVE UNCHANGED job
  BY <1>12 DEF RebuildProjection, Arrive, jobVars
<1>13. CASE ClosePeriod \/ TimePasses \/ UNCHANGED vars
  BY <1>5, <1>6, <1>13 DEF ClosePeriod, TimePasses, vars, jobVars
<1> QED
  BY <1>1, <1>2, <1>6, <1>8, <1>9, <1>10, <1>11, <1>12, <1>13 DEF FinancialNext

\* A row that nobody has worked on has asked the provider for nothing.
LEMMA UntouchedStep == OperationInv /\ [FinancialNext]_vars => UnknownIsUntouched'
<1> SUFFICES ASSUME OperationInv, [FinancialNext]_vars, NEW o \in Ops
             PROVE  /\ op'[o].status = "absent" =>
                         op'[o] = AbsentOp /\ \A kind \in Kinds : job'[<<o, kind>>].status = "absent"
                    /\ o \in BadAccounts => ~op'[o].identified
  BY DEF UnknownIsUntouched, AbsentOp
<1> USE DEF OperationInv, FinancialTypeOK, UnknownIsUntouched
<1>1. ASSUME op'[o].status = "absent"
      PROVE  op'[o] = AbsentOp /\ \A kind \in Kinds : job'[<<o, kind>>].status = "absent"
  <2>1. op[o].status = "absent"
    BY <1>1, RowStays
  <2>2. op'[o] = op[o]
    <3>1. ASSUME NEW p \in Procs, OpOf(p) = o, Writes(p) PROVE FALSE
      BY <2>1, <3>1, RowWritten, Working DEF RunsKnowTheLedger
    <3>2. ~CreateIntent(o)
      BY <1>1 DEF CreateIntent, Draft, OpRow
    <3>3. ~RebuildProjection(o)
      BY <2>1 DEF RebuildProjection, Rebuildable
    <3> QED
      BY <3>1, <3>2, <3>3, RowStep
  <2> QED
    BY <1>1, <2>1, <2>2, JobsAppear
<1>2. ASSUME o \in BadAccounts, op'[o].identified PROVE FALSE
  <2>1. ~op[o].identified
    BY <1>2
  <2>2. ASSUME NEW p \in Procs, OpOf(p) = o, Writes(p) PROVE FALSE
    <3>1. Identities(p)
      BY <1>2, <2>1, <2>2, RowWritten
    <3> QED
      BY <1>2, <2>2, <3>1, Working DEF Identities, Fenced, At, RunsKnowTheLedger
  <2>3. ~CreateIntent(o)
    BY <1>2, <2>1 DEF CreateIntent, Draft, OpRow
  <2>4. ~RebuildProjection(o)
    BY <2>1 DEF RebuildProjection, Inspected, TransfersAreIdentified
  <2> QED
    BY <1>2, <2>1, <2>2, <2>3, <2>4, RowStep
<1> QED
  BY <1>1, <1>2

\* A row keeps a rejection only if the provider rejected it for good.
LEMMA RejectedStep == OperationInv /\ [FinancialNext]_vars => RejectedForGood'
<1> SUFFICES ASSUME OperationInv, [FinancialNext]_vars, NEW o \in Ops, op'[o].status = "rejected"
             PROVE  ledger'[o] = "rejected" \/ o \in BadAccounts
  BY DEF RejectedForGood
<1>1. ledger[o] = "rejected" => ledger'[o] = "rejected"
  BY LedgerStep
<1>2. CASE op[o].status = "rejected"
  BY <1>1, <1>2 DEF OperationInv, RejectedForGood
<1>3. CASE op[o].status # "rejected"
  <2>1. ~CreateIntent(o)
    BY DEF CreateIntent, Draft, OperationInv, FinancialTypeOK, OpRow
  <2>2. ~RebuildProjection(o)
    BY RebuiltRow DEF OperationInv, FinancialTypeOK
  <2>3. PICK p \in Procs : OpOf(p) = o /\ Writes(p)
    BY <1>3, <2>1, <2>2, RowStep
  <2>4. Receipt(p) /\ run[p].out = "rejected"
    BY <1>3, <2>3, StatusWritten
  <2>5. ledger[o] = "rejected" \/ o \in BadAccounts
    BY <2>3, <2>4, Working DEF Receipt, Fenced, At, OperationInv, RunsKnowTheLedger
  <2> QED
    BY <1>1, <2>5
<1> QED
  BY <1>2, <1>3

\* What a run has learned of the provider is still so.
LEMMA KnowledgeStep == OperationInv /\ [FinancialNext]_vars => RunsKnowTheLedger'
<1> SUFFICES ASSUME OperationInv, [FinancialNext]_vars, NEW p \in Procs, held'[p] # NoLease
             PROVE  /\ op'[OpOf(p)'].status # "absent"
                    /\ run'[p].pc \in {"identities"} \union ProviderSteps => OpOf(p)' \notin BadAccounts
                    /\ run'[p].pc \in ProviderSteps => op'[OpOf(p)'].identified
                    /\ At(p, "receipt")' =>
                         /\ run'[p].out \in {"accepted", "rejected", "unknown"} \union (Reasons \ {"none"})
                         /\ run'[p].out = "accepted" => ledger'[OpOf(p)'] = "accepted"
                         /\ run'[p].out = "rejected" =>
                                ledger'[OpOf(p)'] = "rejected" \/ OpOf(p)' \in BadAccounts
  BY DEF RunsKnowTheLedger, ProviderSteps
<1> DEFINE o == OpOf(p)
<1> USE DEF OperationInv, FinancialTypeOK
<1>1. ASSUME held'[p] = held[p], held[p] # NoLease
      PROVE  /\ o \in Ops /\ OpOf(p)' = o
             /\ op[o].status # "absent" /\ op'[o].status # "absent"
             /\ op[o].identified => op'[o].identified
             /\ ledger[o] # "none" => ledger'[o] = ledger[o]
  <2>1. o \in Ops /\ op[o].status # "absent"
    BY <1>1, Working DEF At, RunsKnowTheLedger
  <2> QED
    BY <1>1, <2>1, RowStays, LedgerStep DEF OpOf
<1>2. CASE run'[p] = run[p] /\ held'[p] = held[p]
  <2>1. held[p] # NoLease
    BY <1>2
  <2> QED
    BY <1>1, <1>2, <2>1 DEF RunsKnowTheLedger, At
<1>3. ASSUME NEW j \in Jobs, StartJob(p, j)
      PROVE  /\ op'[OpOf(p)'].status # "absent" /\ run'[p].pc = "read"
  <2>1. job[j].status # "absent" /\ held'[p].job = j /\ run'[p].pc = "read"
    BY <1>3 DEF StartJob, Claim, Claimable, Goto, LeaseInv, TypeOK, RunRow
  <2>2. j[1] \in Ops /\ j[2] \in Kinds /\ j = <<j[1], j[2]>>
    BY FinancialAssumption
  <2>3. op[j[1]].status # "absent"
    BY <2>1, <2>2 DEF UnknownIsUntouched
  <2> QED
    BY <2>1, <2>2, <2>3, RowStays DEF OpOf
<1>4. CASE run'[p].pc = "report" /\ held'[p] = held[p]
  BY <1>1, <1>4 DEF ProviderSteps, At
<1>5. CASE Work(p) /\ held'[p] = held[p]
  <2>0. held[p] # NoLease /\ run[p] \in RunRow
    BY <1>5
  <2> USE <1>1, <2>0, <1>5 DEF RunsKnowTheLedger, ProviderSteps, At
  <2>1. ASSUME NEW out, Return(p, out) PROVE run'[p].pc = "report"
    BY <2>1 DEF Return, Idle
  <2>2. ASSUME NEW out, Receive(p, out) PROVE run'[p].pc = "receipt" /\ run'[p].out = out
    BY <2>2 DEF Receive, Idle
  <2>3. ASSUME NEW pc, Goto(p, pc) PROVE run'[p].pc = pc
    BY <2>3 DEF Goto, RunRow
  <2>4. CASE Read(p)
    BY <2>1, <2>2, <2>3, <2>4 DEF Read, Reasons
  <2>5. CASE FenceRejected(p)
    BY <2>1, <2>5 DEF FenceRejected
  <2>6. CASE State(p)
    BY <2>1, <2>2, <2>6 DEF State, Reasons, RunRow
  <2>7. CASE Accounts(p)
    BY <2>2, <2>3, <2>7 DEF Accounts, AccountReplies, Reasons
  <2>8. CASE Identities(p)
    <3>1. op'[o].identified /\ run'[p].pc = "before_provider"
      BY <2>3, <2>8, RowTypes DEF Identities, FencedRow, OpRow
    <3> QED
      BY <2>8, <3>1 DEF Identities, Fenced
  <2>9. CASE Boundary(p)
    BY <2>3, <2>9 DEF Boundary, Fenced
  <2>10. CASE Lookup(p)
    BY <2>2, <2>3, <2>10 DEF Lookup
  <2>11. CASE Post(p)
    <3>1. \/ \E verdict \in {"accepted", "rejected"} :
               ledger'[o] = verdict /\ (Receive(p, verdict) \/ Receive(p, "unknown"))
          \/ Receive(p, "unknown")
      BY <2>11 DEF Post, Verdicts, Decide
    <3> QED
      BY <2>2, <3>1
  <2>12. CASE Receipt(p)
    BY <2>1, <2>3, <2>12 DEF Receipt
  <2>13. CASE Finalize(p)
    BY <2>1, <2>13 DEF Finalize
  <2> QED
    BY <2>4, <2>5, <2>6, <2>7, <2>8, <2>9, <2>10, <2>11, <2>12, <2>13 DEF Work
<1> QED
  BY <1>2, <1>3, <1>4, <1>5, RunStep DEF ProviderSteps, At

\* A worker that writes goes on to another step.
LEMMA WriterMoves ==
    ASSUME OperationInv, NEW p \in Procs, Writes(p)
    PROVE  run'[p].pc # run[p].pc
<1>1. run \in [Procs -> RunRow] /\ run[p] \in RunRow
  BY DEF OperationInv, FinancialTypeOK
<1>2. ASSUME NEW out, Return(p, out) PROVE run'[p].pc = "report"
  BY <1>1, <1>2 DEF Return, Idle
<1>3. ASSUME NEW out, Receive(p, out) PROVE run'[p].pc = "receipt"
  BY <1>1, <1>3 DEF Receive, Idle
<1>4. ASSUME NEW pc, Goto(p, pc) PROVE run'[p].pc = pc
  BY <1>1, <1>4 DEF Goto, RunRow
<1>5. CASE State(p)
  <2>1. run' = [run EXCEPT ![p].pc = "accounts", ![p].reconcile = MustReconcile(p)] => run'[p].pc = "accounts"
    BY <1>1 DEF RunRow
  <2> QED
    BY <1>2, <1>3, <1>5, <2>1 DEF State, Fenced, At
<1>6. CASE Identities(p)
  BY <1>4, <1>6 DEF Identities, Fenced, At
<1>7. CASE Boundary(p)
  BY <1>4, <1>7 DEF Boundary, Fenced, At
<1>8. CASE Receipt(p)
  BY <1>2, <1>4, <1>8 DEF Receipt, Fenced, At
<1>9. CASE Finalize(p)
  BY <1>2, <1>9 DEF Finalize, Fenced, At
<1> QED
  BY <1>5, <1>6, <1>7, <1>8, <1>9 DEF Writes

\* Two workers of one operation never have one generation, so the one that the
\* fence has seen last is ahead of the other.
LEMMA LaterIsAhead ==
    ASSUME OperationInv, NEW p \in Procs, NEW q \in Procs, p # q,
           run[q].pc # "idle", held[p] # NoLease, OpOf(p) = OpOf(q),
           FenceAdmits(q), op[OpOf(p)].fence >= held[p].gen
    PROVE  held[p].gen < held[q].gen
<1>1. run[p].pc # "idle"
  BY DEF OperationInv, FinancialTypeOK, At
<1>2. /\ held[p].gen \in Nat /\ held[q].gen \in Nat /\ op[OpOf(p)].fence \in Nat
      /\ ScopeOf[held[p].job] = ScopeOf[held[q].job] /\ held[q] # NoLease
  BY <1>1, Working DEF OpRow
<1>3. held[p].gen # held[q].gen
  BY <1>2 DEF OperationInv, LeaseInv, GenerationsDistinct
<1> QED
  BY <1>2, <1>3 DEF FenceAdmits

\* A run the fence admitted is the latest, or finds the fence closed.
LEMMA AdmittedStep == OperationInv /\ [FinancialNext]_vars => AdmittedRunsAreCurrent'
<1> SUFFICES ASSUME OperationInv, [FinancialNext]_vars, NEW p \in Procs,
                    held'[p] # NoLease, Admitted(p)'
             PROVE  /\ op'[OpOf(p)'].fence >= held'[p].gen
                    /\ FenceAdmits(p)' => op'[OpOf(p)'].status \in Pending \union {"reconciled"}
                    /\ FenceAdmits(p)' /\ At(p, "finalize")' =>
                          op'[OpOf(p)'].status \in {"accepted", "reconciled"}
  BY DEF AdmittedRunsAreCurrent, Pending
<1> DEFINE o == OpOf(p)
<1> USE DEF OperationInv, FinancialTypeOK
<1>1. ASSUME NEW j \in Jobs, StartJob(p, j) PROVE FALSE
  BY <1>1 DEF StartJob, Goto, Admitted, At, RunRow, ProviderSteps
<1>2. ASSUME run'[p].pc = "report" PROVE FALSE
  BY <1>2 DEF Admitted, At, ProviderSteps
<1>3. held'[p] = held[p] /\ held[p] # NoLease /\ (run'[p] = run[p] \/ Work(p))
  BY <1>1, <1>2, RunStep
<1>4. /\ run[p].pc # "idle" /\ run[p] \in RunRow /\ o \in Ops /\ OpOf(p)' = o /\ held'[p].gen = held[p].gen
      /\ held[p].gen \in Nat /\ op[o].fence \in Nat /\ op'[o].fence \in Nat
  <2>1. run[p].pc # "idle" /\ OpOf(p)' = o
    BY <1>3 DEF At, OpOf
  <2>2. op' \in [Ops -> OpRow]
    BY FinancialTypeStep
  <2> QED
    BY <1>3, <2>1, <2>2, Working DEF OpRow
<1>5. CASE run'[p] = run[p]
  <2>1. /\ op[o].fence >= held[p].gen /\ op'[o].fence >= held[p].gen
        /\ FenceAdmits(p)' => FenceAdmits(p)
    <3>1. op[o].fence >= held[p].gen
      BY <1>3, <1>5 DEF Admitted, AdmittedRunsAreCurrent, At
    <3>2. op'[o].fence >= op[o].fence
      BY <1>4, RowStays
    <3> QED
      BY <1>4, <3>1, <3>2 DEF FenceAdmits
  <2>2. CASE op'[o] = op[o]
    BY <1>3, <1>4, <1>5, <2>1, <2>2 DEF Admitted, AdmittedRunsAreCurrent, At, FenceAdmits
  <2>3. CASE CreateIntent(o)
    BY <1>3, <1>4, <2>3 DEF CreateIntent, RunsKnowTheLedger
  <2>4. CASE RebuildProjection(o)
    <3>1. op'[o].status = "reconciled"
      BY <1>4, <2>4, RebuiltRow
    <3> QED
      BY <1>4, <2>1, <3>1
  <2>5. ASSUME NEW q \in Procs, OpOf(q) = o, Writes(q), op'[o] # op[o] PROVE ~FenceAdmits(p)'
    <3>1. q # p
      BY <1>5, <2>5, WriterMoves
    <3>2. op'[o].fence = held[q].gen /\ run[q].pc # "idle" /\ FenceAdmits(q)
      BY <2>5, RowWritten
    <3>3. held[p].gen < held[q].gen /\ held[q].gen \in Nat
      BY <1>3, <2>1, <2>5, <3>1, <3>2, LaterIsAhead, Working
    <3> QED
      BY <1>4, <3>2, <3>3 DEF FenceAdmits
  <2> QED
    BY <1>4, <2>1, <2>2, <2>3, <2>4, <2>5, RowStep
<1>6. CASE Work(p)
  <2>0. op[o].status # "absent" /\ op[o].status \in OpStatuses
    BY <1>3, <1>4 DEF RunsKnowTheLedger, OpRow
  <2>1. ASSUME NEW out, Return(p, out) PROVE FALSE
    BY <1>2, <2>1 DEF Return, Idle
  <2>2. ASSUME NEW out, Receive(p, out) PROVE run'[p].pc = "receipt" /\ run'[p].out = out
    BY <2>2 DEF Receive, Idle
  <2>3. ASSUME NEW pc, Goto(p, pc) PROVE run'[p].pc = pc
    BY <2>3 DEF Goto, RunRow
  <2>4. ASSUME UNCHANGED op, Admitted(p), run'[p].pc # "finalize"
        PROVE  /\ op'[o].fence >= held[p].gen
               /\ FenceAdmits(p)' => op'[o].status \in Pending \union {"reconciled"}
    BY <1>3, <1>4, <2>4 DEF AdmittedRunsAreCurrent, FenceAdmits
  <2>5. CASE Read(p)
    BY <2>1, <2>2, <2>3, <2>5 DEF Read, Admitted, At, ProviderSteps
  <2>6. CASE FenceRejected(p)
    BY <2>1, <2>6 DEF FenceRejected
  <2>7. CASE State(p)
    <3>1. op[o].status \in Pending
      BY <2>0, <2>1, <2>7 DEF State, OpStatuses
    <3>2. op'[o].fence = held[p].gen /\ op'[o].status \in Pending
      <4>1. FencedRow(p) \in OpRow /\ FencedRow(p).fence = held[p].gen /\ FencedRow(p).status = op[o].status
        BY <1>4, RowTypes
      <4>2. \A status : /\ [FencedRow(p) EXCEPT !.status = status].fence = held[p].gen
                        /\ [FencedRow(p) EXCEPT !.status = status].status = status
        BY <4>1 DEF OpRow
      <4>3. \/ op' = [op EXCEPT ![o] = FencedRow(p)]
            \/ \E status \in Pending : op' = [op EXCEPT ![o] = [FencedRow(p) EXCEPT !.status = status]]
        BY <2>7, <3>1 DEF State, Submitted, Pending
      <4>4. op \in [Ops -> OpRow] /\ o \in Ops
        BY <1>4
      <4>5. CASE op' = [op EXCEPT ![o] = FencedRow(p)]
        BY <3>1, <4>1, <4>4, <4>5
      <4>6. ASSUME NEW status \in Pending, op' = [op EXCEPT ![o] = [FencedRow(p) EXCEPT !.status = status]]
            PROVE  op'[o].fence = held[p].gen /\ op'[o].status \in Pending
        BY <4>2, <4>4, <4>6
      <4> QED
        BY <4>3, <4>5, <4>6
    <3>3. run'[p].pc # "finalize"
      BY <1>4, <2>1, <2>2, <2>7 DEF State, RunRow
    <3> QED
      BY <1>4, <3>2, <3>3 DEF At
  <2>8. CASE Accounts(p)
    <3>1. UNCHANGED op /\ Admitted(p) /\ run'[p].pc # "finalize"
      BY <2>2, <2>3, <2>8 DEF Accounts, Admitted, At, accountingVars
    <3> QED
      BY <1>4, <2>4, <3>1 DEF At
  <2>9. CASE Identities(p) \/ Boundary(p)
    <3>1. Admitted(p) /\ run'[p].pc # "finalize" /\ Writes(p) /\ FenceAdmits(p)
      BY <2>3, <2>9 DEF Identities, Boundary, Fenced, Admitted, At, ProviderSteps, Writes
    <3>2. op'[o].status = op[o].status
      BY <2>9, <3>1, StatusWritten DEF Identities, Boundary, State, Receipt, Finalize, Fenced, At
    <3>3. op'[o].fence >= op[o].fence
      BY <3>1, RowWritten
    <3> QED
      BY <1>3, <1>4, <3>1, <3>2, <3>3 DEF AdmittedRunsAreCurrent, At
  <2>10. CASE Lookup(p) \/ Post(p)
    <3>1. UNCHANGED op /\ Admitted(p) /\ run'[p].pc # "finalize"
      <4>1. \/ \E out : Receive(p, out)
            \/ Goto(p, "post")
        BY <2>10 DEF Lookup, Post
      <4> QED
        BY <2>2, <2>3, <2>10, <4>1 DEF Lookup, Post, Admitted, At, ProviderSteps, accountingVars
    <3> QED
      BY <1>4, <2>4, <3>1 DEF At
  <2>11. CASE Receipt(p)
    <3>1. run[p].out = "accepted" /\ op' = [op EXCEPT ![o] = Noted(FencedRow(p), run[p].out)]
      BY <2>1, <2>11 DEF Receipt
    <3>2. /\ Noted(FencedRow(p), run[p].out).fence = held[p].gen
          /\ Noted(FencedRow(p), run[p].out).status = "accepted"
      <4>1. "accepted" \in {"accepted", "rejected", "unknown"} \union (Reasons \ {"none"})
            /\ "accepted" \notin Reasons
        BY DEF Reasons
      <4>2. FencedRow(p) \in OpRow /\ FencedRow(p).fence = held[p].gen
        BY <1>4, RowTypes
      <4>3. /\ Noted(FencedRow(p), "accepted").fence = FencedRow(p).fence
            /\ Noted(FencedRow(p), "accepted").status = "accepted"
        BY <4>1, <4>2, NotedType
      <4> QED
        BY <3>1, <4>2, <4>3
    <3> QED
      BY <1>4, <3>1, <3>2 DEF Pending
  <2>12. CASE Finalize(p)
    BY <2>1, <2>12 DEF Finalize
  <2> QED
    BY <1>6, <2>5, <2>6, <2>7, <2>8, <2>9, <2>10, <2>11, <2>12 DEF Work
<1> QED
  BY <1>3, <1>5, <1>6

\* The books publish what the provider has posted, and nothing else.
LEMMA BooksStep == OperationInv /\ [FinancialNext]_vars => BooksAgreeWithLedger'
<1> SUFFICES ASSUME OperationInv, [FinancialNext]_vars, NEW o \in Ops
             PROVE  /\ op'[o].status \in {"accepted", "reconciled"} => ledger'[o] = "accepted"
                    /\ op'[o].status = "rejected" =>
                           /\ ledger'[o] # "accepted"
                           /\ o \in posting' => ledger'[o] = "rejected"
  BY DEF BooksAgreeWithLedger
<1>1. ASSUME op'[o].status = "rejected"
      PROVE  ledger'[o] # "accepted" /\ (o \in posting' => ledger'[o] = "rejected")
  <2>1. CASE ledger'[o] = "rejected"
    BY <2>1
  <2>2. CASE o \in BadAccounts /\ ledger'[o] # "rejected"
    <3>1. ~op'[o].identified
      BY <2>2, UntouchedStep DEF UnknownIsUntouched
    <3> QED
      BY <3>1, IdentifiedStep DEF TransfersAreIdentified
  <2> QED
    BY <1>1, <2>1, <2>2, RejectedStep DEF RejectedForGood
<1>2. ASSUME op'[o].status \in {"accepted", "reconciled"}
      PROVE  ledger'[o] = "accepted"
  <2>1. SUFFICES ledger[o] = "accepted"
    BY <2>1, LedgerStep
  <2>2. CASE op[o].status \in {"accepted", "reconciled"}
    BY <2>2 DEF OperationInv, BooksAgreeWithLedger
  <2>3. CASE op[o].status \notin {"accepted", "reconciled"}
    <3>1. ~CreateIntent(o)
      BY <1>2 DEF CreateIntent, Draft, OperationInv, FinancialTypeOK, OpRow
    <3>2. ~RebuildProjection(o)
      BY <2>3 DEF RebuildProjection, Rebuildable
    <3>3. PICK p \in Procs : OpOf(p) = o /\ Writes(p)
      BY <1>2, <2>3, <3>1, <3>2, RowStep
    <3>4. Receipt(p) /\ run[p].out = "accepted"
      BY <1>2, <2>3, <3>3, StatusWritten
    <3> QED
      BY <3>3, <3>4, Working DEF Receipt, Fenced, At, OperationInv, RunsKnowTheLedger
  <2> QED
    BY <2>2, <2>3
<1> QED
  BY <1>1, <1>2

\* A run that writes a receipt, or goes on to finalize, has been admitted; who
\* was not admitted can only note that its actor is no longer authorized.
LEMMA WriterIsCurrent ==
    ASSUME OperationInv, NEW p \in Procs, Writes(p), ~State(p)
    PROVE  \/ op[OpOf(p)].status \in Pending \union {"reconciled"}
           \/ At(p, "receipt") /\ run[p].out = "reconciliation_required"
<1>1. FenceAdmits(p) /\ held[p] # NoLease
  BY RowWritten, Working
<1>2. Admitted(p) \/ (At(p, "receipt") /\ run[p].out = "reconciliation_required")
  BY DEF Writes, Identities, Boundary, Receipt, Finalize, Fenced, Admitted, At, ProviderSteps
<1> QED
  BY <1>1, <1>2 DEF OperationInv, AdmittedRunsAreCurrent

\* No operation becomes pending again once it is decided, and none is created in
\* a closed period.
LEMMA BecomesPending ==
    ASSUME OperationInv, [FinancialNext]_vars, NEW o \in Ops,
           op'[o].status \in Pending, op[o].status \notin Pending
    PROVE  CreateIntent(o)
<1>1. ASSUME RebuildProjection(o) PROVE FALSE
  BY <1>1 DEF RebuildProjection, Rebuildable, Pending
<1>2. ASSUME NEW p \in Procs, OpOf(p) = o, Writes(p) PROVE FALSE
  <2>1. Receipt(p) /\ op[o].status # "reconciled" /\ op'[o].status = run[p].out
    BY <1>2, StatusWritten DEF Pending
  <2>2. op[o].status \in Pending \union {"reconciled"} \/ run[p].out = "reconciliation_required"
    BY <1>2, <2>1, WriterIsCurrent DEF Receipt, State, Fenced, At
  <2> QED
    BY <2>1, <2>2 DEF Pending
<1> QED
  BY <1>1, <1>2, RowStep

\* No operation of a closed period is pending.
LEMMA ClosedStep == OperationInv /\ [FinancialNext]_vars => ClosedIsSettled'
<1> SUFFICES ASSUME OperationInv, [FinancialNext]_vars, period' = "closed",
                    NEW o \in Ops, op'[o].status \in Pending
             PROVE  FALSE
  BY DEF ClosedIsSettled, Pending
<1>1. CASE ClosePeriod
  BY <1>1 DEF ClosePeriod, BlocksClose
<1>2. CASE period' = period
  <2>1. op[o].status \notin Pending
    BY <1>2 DEF OperationInv, ClosedIsSettled
  <2> QED
    BY <1>2, <2>1, BecomesPending DEF CreateIntent
<1> QED
  BY <1>1, <1>2
  DEF FinancialNext, vars, accountingVars, CreateIntent, RebuildProjection, Arrive, StartJob, Heartbeat,
      DatabaseFailure, Report, Abandon, TimePasses, Work, Read, FenceRejected, State, Accounts, Identities,
      Boundary, Lookup, Post, Receipt, Finalize

-----------------------------------------------------------------------------
(* The theorems *)

\* The invariant holds at first.
LEMMA OperationInit == FinancialInit => OperationInv
<1> SUFFICES ASSUME FinancialInit PROVE OperationInv
  OBVIOUS
<1> USE DEF FinancialInit
<1>1. LeaseInv
  BY LeaseInitial
<1>2. FinancialTypeOK
  BY DEF FinancialTypeOK, JobInit, OpRow, OpStatuses, AbsentOp, Reasons, RunRow, Idle, Steps, At
<1>3. PublishedTogether /\ TransfersAreIdentified /\ RejectedForGood /\ BooksAgreeWithLedger
  BY DEF PublishedTogether, TransfersAreIdentified, RejectedForGood, BooksAgreeWithLedger, AbsentOp
<1>4. UnknownIsUntouched
  BY FinancialAssumption DEF UnknownIsUntouched, AbsentOp, JobInit, AbsentRow
<1>5. RunsKnowTheLedger /\ AdmittedRunsAreCurrent /\ ClosedIsSettled
  BY DEF RunsKnowTheLedger, AdmittedRunsAreCurrent, ClosedIsSettled, JobInit
<1> QED
  BY <1>1, <1>2, <1>3, <1>4, <1>5 DEF OperationInv

\* Every step keeps the invariant.
LEMMA OperationStep == OperationInv /\ [FinancialNext]_vars => OperationInv'
BY LeasesStep, FinancialTypeStep, PublishedStep, IdentifiedStep, UntouchedStep, RejectedStep,
   KnowledgeStep, AdmittedStep, BooksStep, ClosedStep DEF OperationInv

\* Whatever workers die, are overtaken or hear nothing from the provider: the
\* leases keep their invariant, status, journal and event change together, the
\* provider holds nothing whose identity is not stored, and a run that the fence
\* lets through is up to date (writeReceipt, finalizeAccepted, closePeriod).
THEOREM OperationInvariant == FinancialSpec => []OperationInv
BY OperationInit, OperationStep, PTL DEF FinancialSpec

\* An operation counts as accepted only if the provider holds its transfers, and
\* as rejected only if it never will.
THEOREM BooksAlwaysAgree == FinancialSpec => []BooksAgreeWithLedger
<1>1. OperationInv => BooksAgreeWithLedger
  BY DEF OperationInv
<1> QED
  BY <1>1, OperationInvariant, PTL

\* No operation of a closed period is pending.
THEOREM ClosedAlwaysSettled == FinancialSpec => []ClosedIsSettled
<1>1. OperationInv => ClosedIsSettled
  BY DEF OperationInv
<1> QED
  BY <1>1, OperationInvariant, PTL

-----------------------------------------------------------------------------
(* What no step ever does *)

\* The fence of an operation never goes back, and a worker changes the row under
\* its own generation only: once a later worker was let through, nothing that an
\* earlier one still does has any effect (acceptExecutionFence).
THEOREM OvertakenNeverWritesAlways == FinancialSpec => OvertakenNeverWrites
<1>1. ASSUME OperationInv, [FinancialNext]_vars, NEW o \in Ops
      PROVE  /\ op'[o].fence >= op[o].fence
             /\ \A p \in Procs :
                    (run[p] # run'[p] /\ held[p] # NoLease /\ OpOf(p) = o /\ op'[o] # op[o])
                    => op'[o].fence = held[p].gen
  <2>1. op'[o].fence >= op[o].fence
    BY <1>1, RowStays
  <2>2. ASSUME NEW p \in Procs, run[p] # run'[p], OpOf(p) = o, op'[o] # op[o]
        PROVE  op'[o].fence = held[p].gen
    <3>1. ~CreateIntent(o) /\ ~RebuildProjection(o)
      BY <2>2 DEF CreateIntent, RebuildProjection
    <3>2. PICK q \in Procs : OpOf(q) = o /\ Writes(q)
      BY <1>1, <2>2, <3>1, RowStep
    <3>3. q = p
      BY <1>1, <2>2, <3>2 DEF Writes, State, Identities, Boundary, Receipt, Finalize, Goto, Receive, Return,
         OperationInv, FinancialTypeOK
    <3> QED
      BY <1>1, <2>2, <3>2, <3>3, RowWritten
  <2> QED
    BY <2>1, <2>2
<1>2. OperationInv /\ [FinancialNext]_vars =>
          [\A o \in Ops :
              /\ op'[o].fence >= op[o].fence
              /\ \A p \in Procs :
                     (run[p] # run'[p] /\ held[p] # NoLease /\ OpOf(p) = o /\ op'[o] # op[o])
                     => op'[o].fence = held[p].gen]_vars
  BY <1>1
<1> QED
  BY <1>2, OperationInvariant, PTL DEF FinancialSpec, OvertakenNeverWrites

-----------------------------------------------------------------------------
(* The protocol implements its promise *)

\* What the promise sees of a status.
LEMMA RequestValues ==
    /\ RequestOf("absent") = "none"
    /\ \A status \in Pending : RequestOf(status) = "pending"
    /\ RequestOf("reconciled") = "posted"
    /\ RequestOf("rejected") = "refused"
    /\ RequestOf("manual_recovery") = "recovery"
BY DEF RequestOf, Pending

\* A step that changes one row is a step of one request.
LEMMA OneRequest ==
    ASSUME NEW o \in Ops, \A i \in Ops : i # o => op'[i] = op[i]
    PROVE  /\ Requests[o] = RequestOf(op[o].status)
           /\ Requests' = [Requests EXCEPT ![o] = RequestOf(op'[o].status)]
           /\ RequestOf(op'[o].status) = RequestOf(op[o].status) => UNCHANGED Requests
BY DEF Requests

\* What a worker writes is a step of the promise, or none: it publishes what the
\* ledger has accepted, refuses what the ledger has not, or asks for recovery.
LEMMA WriterKeepsPromise ==
    ASSUME OperationInv, [FinancialNext]_vars, NEW p \in Procs, Writes(p)
    PROVE  [Promise!PostingNext]_<<Requests, ledger, period>>
<1> DEFINE o == OpOf(p)
           from == op[o].status
           to == op'[o].status
<1>1. /\ UNCHANGED <<ledger, period>> /\ o \in Ops /\ from \in OpStatuses
      /\ \A i \in Ops : i # o => op'[i] = op[i]
  BY RowWritten, Working DEF OpRow
<1>2. /\ Requests[o] = RequestOf(from)
      /\ Requests' = [Requests EXCEPT ![o] = RequestOf(to)]
      /\ RequestOf(to) = RequestOf(from) => UNCHANGED Requests
  BY <1>1, OneRequest
<1>3. CASE RequestOf(to) = RequestOf(from)
  BY <1>1, <1>2, <1>3
<1>4. CASE from = "accepted" /\ to = "reconciled"
  <2>1. ledger[o] = "accepted" /\ period = "open"
    BY <1>1, <1>4 DEF OperationInv, FinancialTypeOK, BooksAgreeWithLedger, ClosedIsSettled, Pending
  <2>2. Promise!Publish(o)
    BY <1>1, <1>2, <1>4, <2>1, RequestValues DEF Promise!Publish, Promise!Become, Pending
  <2> QED
    BY <1>1, <2>2 DEF Promise!PostingNext
<1>5. CASE to = "rejected" /\ from \in Pending
  <2>1. ledger[o] # "accepted"
    BY <1>1, <1>5, BooksStep DEF BooksAgreeWithLedger
  <2>2. Promise!Refuse(o)
    BY <1>1, <1>2, <1>5, <2>1, RequestValues DEF Promise!Refuse, Promise!Become
  <2> QED
    BY <1>1, <2>2 DEF Promise!PostingNext
<1>6. CASE to = "manual_recovery" /\ from \in Pending \union {"rejected"}
  <2>1. Promise!Recover(o)
    BY <1>1, <1>2, <1>6, RequestValues DEF Promise!Recover, Promise!Become
  <2> QED
    BY <1>1, <2>1 DEF Promise!PostingNext
<1>7. CASE from \in Pending /\ to \in Pending
  BY <1>3, <1>7, RequestValues
<1>8. from # "absent"
  BY RowWritten, Working DEF OperationInv, RunsKnowTheLedger
<1> QED
  <2>1. CASE State(p)
    BY <1>3, <1>7, <2>1, StatusWritten DEF Pending, Receipt, Finalize, Fenced, At, State
  <2>2. CASE ~State(p) /\ from \in Pending
    BY <1>3, <1>4, <1>5, <1>6, <1>7, <2>2, StatusWritten DEF Pending
  <2>3. CASE ~State(p) /\ from \notin Pending
    <3>1. from = "reconciled" \/ (At(p, "receipt") /\ run[p].out = "reconciliation_required")
      BY <2>3, WriterIsCurrent
    <3>2. to = from \/ (to = "manual_recovery" /\ from \in {"rejected", "manual_recovery"})
      BY <1>1, <1>8, <2>3, <3>1, StatusWritten DEF Pending, OpStatuses, Decided
    <3> QED
      BY <1>3, <1>6, <3>2
  <2> QED
    BY <2>1, <2>2, <2>3

\* The ledger decides about requests that are pending or under recovery.
LEMMA LedgerKeepsPromise ==
    ASSUME OperationInv, [FinancialNext]_vars, NEW o \in Ops, NEW verdict \in {"accepted", "rejected"},
           ledger[o] = "none", ledger' = [ledger EXCEPT ![o] = verdict], UNCHANGED <<op, period>>
    PROVE  Promise!PostingNext
<1>1. op[o].identified /\ o \notin BadAccounts /\ op[o].status \in OpStatuses
  <2>1. ledger'[o] # ledger[o]
    BY DEF OperationInv, FinancialTypeOK
  <2> QED
    BY <2>1, AskedIsIdentified DEF OperationInv, FinancialTypeOK, OpRow
<1>2. op[o].status \in Pending \union {"manual_recovery"}
  BY <1>1 DEF OperationInv, UnknownIsUntouched, AbsentOp, RejectedForGood, BooksAgreeWithLedger, OpStatuses,
     Decided
<1>3. Requests[o] \in {"pending", "recovery"}
  BY <1>2, RequestValues DEF Requests
<1>4. UNCHANGED Requests
  BY DEF Requests
<1> QED
  BY <1>3, <1>4 DEF Promise!PostingNext, Promise!LedgerDecides

\* Every step of the protocol is a step of the promise or none.
LEMMA PromiseStep ==
    OperationInv /\ [FinancialNext]_vars => [Promise!PostingNext]_<<Requests, ledger, period>>
<1> SUFFICES ASSUME OperationInv, [FinancialNext]_vars
             PROVE  [Promise!PostingNext]_<<Requests, ledger, period>>
  OBVIOUS
<1> USE DEF OperationInv, FinancialTypeOK
<1>1. ASSUME NEW o \in Ops, CreateIntent(o) PROVE Promise!PostingNext
  <2>1. op[o].status = "absent" /\ op'[o].status = "intent" /\ \A i \in Ops : i # o => op'[i] = op[i]
    BY <1>1 DEF CreateIntent, Draft, OpRow
  <2>2. Requests[o] = "none" /\ Requests' = [Requests EXCEPT ![o] = "pending"]
    BY <2>1, OneRequest, RequestValues DEF Pending
  <2>3. Promise!Ask(o)
    BY <1>1, <2>2 DEF CreateIntent, Promise!Ask, Promise!Become, providerVars
  <2> QED
    BY <2>3 DEF Promise!PostingNext
<1>2. ASSUME NEW o \in Ops, RebuildProjection(o) PROVE Promise!PostingNext
  <2>1. op'[o].status = "reconciled" /\ \A i \in Ops : i # o => op'[i] = op[i]
    BY <1>2, RebuiltRow
  <2>2. Requests[o] = "pending" /\ Requests' = [Requests EXCEPT ![o] = "posted"]
    BY <1>2, <2>1, OneRequest, RequestValues DEF RebuildProjection, Rebuildable, Pending
  <2>3. period = "open"
    BY <1>2 DEF RebuildProjection, Rebuildable, ClosedIsSettled, Pending
  <2>4. Promise!Publish(o)
    BY <1>2, <2>2, <2>3 DEF RebuildProjection, Rebuildable, Inspected, Repaired, Promise!Publish, Promise!Become, providerVars
  <2> QED
    BY <2>4 DEF Promise!PostingNext
<1>3. ASSUME NEW o \in Ops, Arrive(o) PROVE [Promise!PostingNext]_<<Requests, ledger, period>>
  <2>1. UNCHANGED <<op, period>>
    BY <1>3 DEF Arrive, accountingVars
  <2>2. PICK verdict \in Verdicts(o) : Decide(o, verdict)
    BY <1>3 DEF Arrive
  <2> QED
    BY <2>1, <2>2, LedgerKeepsPromise DEF Verdicts, Decide, Requests
<1>4. ASSUME NEW p \in Procs, Post(p) PROVE [Promise!PostingNext]_<<Requests, ledger, period>>
  <2>1. UNCHANGED <<op, period>> /\ OpOf(p) \in Ops
    BY <1>4, Working DEF Post, At, accountingVars
  <2>2. CASE UNCHANGED ledger
    BY <2>1, <2>2 DEF Requests
  <2>3. ASSUME NEW verdict \in Verdicts(OpOf(p)), Decide(OpOf(p), verdict)
        PROVE  [Promise!PostingNext]_<<Requests, ledger, period>>
    BY <2>1, <2>3, LedgerKeepsPromise DEF Verdicts, Decide, Requests
  <2> QED
    BY <1>4, <2>2, <2>3 DEF Post
<1>5. CASE ClosePeriod
  <2>1. \A o \in Ops : Requests[o] \notin {"pending", "recovery"}
    BY <1>5 DEF ClosePeriod, BlocksClose, Requests, RequestOf, OpRow, OpStatuses, Pending, Decided
  <2>2. Promise!CloseBooks
    BY <1>5, <2>1 DEF ClosePeriod, Promise!CloseBooks, Requests, providerVars
  <2> QED
    BY <2>2 DEF Promise!PostingNext
<1>6. ASSUME UNCHANGED <<op, ledger, period>>
      PROVE  UNCHANGED <<Requests, ledger, period>>
  BY <1>6 DEF Requests
<1>7. ASSUME NEW p \in Procs, Work(p) PROVE [Promise!PostingNext]_<<Requests, ledger, period>>
  BY <1>4, <1>6, <1>7, WriterKeepsPromise
  DEF Work, Writes, Read, FenceRejected, Accounts, Lookup, accountingVars, providerVars
<1>8. ASSUME NEW p \in Procs, \/ Heartbeat(p) \/ DatabaseFailure(p) \/ Report(p) \/ Abandon(p)
                              \/ \E j \in Jobs : StartJob(p, j)
      PROVE  UNCHANGED <<Requests, ledger, period>>
  BY <1>6, <1>8 DEF Heartbeat, DatabaseFailure, Report, Abandon, StartJob, accountingVars, providerVars
<1>9. CASE TimePasses \/ UNCHANGED vars
  BY <1>6, <1>9 DEF TimePasses, vars, accountingVars, providerVars
<1> QED
  BY <1>1, <1>2, <1>3, <1>5, <1>7, <1>8, <1>9 DEF FinancialNext

\* With no jobs, leases, fences or lost answers in sight, the operation rows and
\* the provider behave as FinancialPosting: each movement is decided once,
\* published only if the ledger accepted it, refused only if it never will, and
\* settled in an open period.
THEOREM PromiseKept == FinancialSpec => KeepsPromise
<1>1. FinancialInit => Promise!PostingInit
  BY RequestValues DEF FinancialInit, Promise!PostingInit, Requests, AbsentOp
<1> QED
  BY <1>1, PromiseStep, OperationInvariant, PTL DEF FinancialSpec, KeepsPromise, Promise!PostingSpec

=============================================================================
