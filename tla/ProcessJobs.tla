---------------------------- MODULE ProcessJobs ----------------------------
(***************************************************************************)
(* The leased job table of modules/process/src/postgres.ts: rows of        *)
(* process.jobs, the per-scope generation counters of                      *)
(* process.job_fence_scopes, and the lease that each worker process        *)
(* remembers from its last claim.                                          *)
(*                                                                         *)
(* Every action is one database transaction: claim, renew, complete and    *)
(* fail lock the row with FOR UPDATE before they test it.  What the        *)
(* program leaves open is everything between two transactions: a process   *)
(* may die, or stop long enough for its lease to lapse, and a process      *)
(* whose lease has lapsed does not know it and keeps calling.              *)
(*                                                                         *)
(* Times are compared with the clock of the process that makes the call,   *)
(* and the clocks differ.  Time here is relative to the slowest clock: a   *)
(* row keeps the ticks left of its lease (leaseUntil - now) and the ticks  *)
(* to wait before it is due (scheduledAt - now), both stopping at 0, so    *)
(* that "leaseUntil <= now" is left <= Ahead[p] for process p and no bound *)
(* on the clock is needed.                                                 *)
(***************************************************************************)
EXTENDS Integers, FiniteSets

CONSTANTS
    Jobs,            \* rows: one for each (tenant, job type, idempotency key)
    Scopes,          \* fence scopes
    ScopeOf,         \* the fence scope of each row
    Procs,           \* worker processes
    WorkerIds,       \* values of WORKER_ID
    WorkerIdOf,      \* the WORKER_ID a process runs with: two may share one
    Ahead,           \* ticks the clock of a process is ahead of the slowest one
    NoWorker,        \* a null leaseOwner
    NoLease,         \* what a process remembers when it works on nothing
    LeaseDuration,   \* ticks a claim or a renewal grants
    RetryDelay,      \* ticks until a failed job that is retried is due again
    MaxAttempts,     \* ProcessJobMaxAttempts
    MaxDisruptions   \* bound: crashes, and leases a working process loses

ASSUME ConstantsAssumption ==
    /\ ScopeOf \in [Jobs -> Scopes]
    /\ WorkerIdOf \in [Procs -> WorkerIds]
    /\ IsFiniteSet(Procs)
    /\ Ahead \in [Procs -> Nat]
    /\ NoWorker \notin WorkerIds
    /\ LeaseDuration \in Nat \ {0}
    /\ RetryDelay \in Nat
    /\ MaxAttempts \in Nat \ {0}
    /\ MaxDisruptions \in Nat

VARIABLES
    job,          \* the rows of process.jobs
    scopeGen,     \* process.job_fence_scopes.generation
    held,         \* the lease each process believes it has
    issued,       \* how many lease tokens were drawn: the next one is fresh
    disruptions   \* crashes and lapses so far

jobVars == <<job, scopeGen, held, issued, disruptions>>

Statuses == {"absent", "pending", "leased", "completed", "failed", "manual_recovery"}
Terminal == {"completed", "failed", "manual_recovery"}

\* A token is a number that is drawn once; 0 is the null token.
JobRow == [status : Statuses, delay : Nat, left : Nat, owner : WorkerIds \union {NoWorker},
           token : Nat, gen : Nat, attempts : Nat]

Lease == [job : Jobs, token : Nat, gen : Nat]

ASSUME NoLeaseAssumption == NoLease \notin Lease

AbsentRow == [status |-> "absent", delay |-> 0, left |-> 0, owner |-> NoWorker,
              token |-> 0, gen |-> 0, attempts |-> 0]

JobInit ==
    /\ job = [j \in Jobs |-> AbsentRow]
    /\ scopeGen = [s \in Scopes |-> 0]
    /\ held = [p \in Procs |-> NoLease]
    /\ issued = 0
    /\ disruptions = 0

----------------------------------------------------------------------------
\* The operations, each one transaction.

\* Mutant of Enqueued: an enqueue starts a row that has ended again.
EnqueuedAgain(j, rows) ==
    IF rows[j].status \in {"absent"} \union Terminal
    THEN [rows EXCEPT ![j].status = "pending"] ELSE rows

\* makeProcessJobEnqueuer: the row with this identity is returned as it is,
\* whatever became of it, and only a missing one is inserted.
Enqueued(j, rows) ==
    IF rows[j].status = "absent" THEN [rows EXCEPT ![j].status = "pending"] ELSE rows

Enqueue(j) ==
    /\ job' = Enqueued(j, job)
    /\ UNCHANGED <<scopeGen, held, issued, disruptions>>

\* Mutants of Claimable: the end of a lease is not tested, or never comes.
ClaimableAnyTime(p, j) == job[j].delay <= Ahead[p] /\ job[j].status \in {"pending", "leased"}
ClaimableOnce(p, j) == job[j].delay <= Ahead[p] /\ job[j].status = "pending"

\* The rows process p's claimJob selects.  It prefers a high priority and an early
\* scheduledAt, but SKIP LOCKED passes over a row another transaction holds, so
\* any due row can be the one that is taken.
Claimable(p, j) ==
    /\ job[j].delay <= Ahead[p]
    /\ \/ job[j].status = "pending"
       \/ job[j].status = "leased" /\ job[j].left <= Ahead[p]

\* The test that renewJob, completeJob and failJob share: anything else is
\* ProcessJobLeaseLost.
Honoured(p) ==
    /\ held[p] # NoLease
    /\ LET row == job[held[p].job]
       IN  /\ row.status = "leased"
           /\ row.left > Ahead[p]
           /\ row.owner = WorkerIdOf[p]
           /\ row.token = held[p].token
           /\ row.gen = held[p].gen

\* The processes that work under the lease of row j, which a claim takes away
\* when its clock is ahead of theirs.
Holders(j) == {p \in Procs : Honoured(p) /\ held[p].job = j}

\* Mutant of NextGeneration: each row counts for itself.
RowGeneration(j) == job[j].gen + 1

NextGeneration(j) == scopeGen[ScopeOf[j]] + 1

\* claimJob: the scope's generation is advanced and stamped on the row.
Claim(p, j) ==
    /\ held[p] = NoLease
    /\ Claimable(p, j)
    /\ disruptions + Cardinality(Holders(j)) <= MaxDisruptions
    /\ LET gen == NextGeneration(j)
       IN  /\ scopeGen' = [scopeGen EXCEPT ![ScopeOf[j]] = gen]
           /\ job' = [job EXCEPT ![j] = [status |-> "leased", delay |-> 0,
                                         left |-> LeaseDuration + Ahead[p], owner |-> WorkerIdOf[p],
                                         token |-> issued + 1, gen |-> gen,
                                         attempts |-> job[j].attempts + 1]]
           /\ held' = [held EXCEPT ![p] = [job |-> j, token |-> issued + 1, gen |-> gen]]
    /\ issued' = issued + 1
    /\ disruptions' = disruptions + Cardinality(Holders(j))

Renew(p) ==
    /\ Honoured(p)
    /\ job' = [job EXCEPT ![held[p].job].left = LeaseDuration + Ahead[p]]
    /\ UNCHANGED <<scopeGen, held, issued, disruptions>>

\* completeJob and failJob clear the lease but keep its generation.
Released(row, status, delay) ==
    [row EXCEPT !.status = status, !.delay = delay, !.left = 0,
                !.owner = NoWorker, !.token = 0]

Complete(p) ==
    /\ Honoured(p)
    /\ job' = [job EXCEPT ![held[p].job] = Released(@, "completed", 0)]
    /\ held' = [held EXCEPT ![p] = NoLease]
    /\ UNCHANGED <<scopeGen, issued, disruptions>>

\* What failJob makes of a row; retry says that the caller gave a retryAt, which
\* it read off its own clock.
Failed(p, row, retry) ==
    IF row.attempts >= MaxAttempts THEN Released(row, "manual_recovery", 0)
    ELSE IF retry THEN Released(row, "pending", RetryDelay + Ahead[p])
    ELSE Released(row, "failed", 0)

Fail(p, retry) ==
    /\ Honoured(p)
    /\ job' = [job EXCEPT ![held[p].job] = Failed(p, @, retry)]
    /\ held' = [held EXCEPT ![p] = NoLease]
    /\ UNCHANGED <<scopeGen, issued, disruptions>>

\* A call that fails with ProcessJobLeaseLost ends the run and its process; the
\* restarted one remembers nothing.
LeaseLost(p) ==
    /\ held[p] # NoLease
    /\ ~Honoured(p)
    /\ held' = [held EXCEPT ![p] = NoLease]
    /\ UNCHANGED <<job, scopeGen, issued, disruptions>>

\* A process dies while it works.  The response to its claim being lost is
\* this too, right after the claim.
Crash(p) ==
    /\ disruptions < MaxDisruptions
    /\ held[p] # NoLease
    /\ held' = [held EXCEPT ![p] = NoLease]
    /\ disruptions' = disruptions + 1
    /\ UNCHANGED <<job, scopeGen, issued>>

Less(n) == IF n = 0 THEN 0 ELSE n - 1

\* A row one tick later.
Aged(row) == [row EXCEPT !.left = Less(@), !.delay = Less(@)]

\* The processes whose lease ends with this tick: too slow to have renewed it.
Lapsing == {p \in Procs : Honoured(p) /\ job[held[p].job].left = Ahead[p] + 1}

Tick ==
    /\ \E j \in Jobs : job[j].left > 0 \/ job[j].delay > 0
    /\ disruptions + Cardinality(Lapsing) <= MaxDisruptions
    /\ job' = [j \in Jobs |-> Aged(job[j])]
    /\ disruptions' = disruptions + Cardinality(Lapsing)
    /\ UNCHANGED <<scopeGen, held, issued>>

----------------------------------------------------------------------------

Next ==
    \/ \E j \in Jobs : Enqueue(j)
    \/ \E p \in Procs, j \in Jobs : Claim(p, j)
    \/ \E p \in Procs : Renew(p)
    \/ \E p \in Procs : Complete(p)
    \/ \E p \in Procs, retry \in BOOLEAN : Fail(p, retry)
    \/ \E p \in Procs : LeaseLost(p)
    \/ \E p \in Procs : Crash(p)
    \/ Tick

Spec == JobInit /\ [][Next]_jobVars

\* worker/mod.ts polls forever and a process that ends is started again, so a
\* due row is eventually claimed, a run that keeps its lease eventually reports,
\* one that lost it eventually notices, and time goes on.
FairSpec ==
    /\ Spec
    /\ \A j \in Jobs : WF_jobVars(\E p \in Procs : Claim(p, j))
    /\ \A p \in Procs : WF_jobVars(Complete(p) \/ \E retry \in BOOLEAN : Fail(p, retry))
    /\ \A p \in Procs : WF_jobVars(LeaseLost(p))
    /\ WF_jobVars(Tick)

=============================================================================
