----------------------- MODULE ProcessJobsProperties -----------------------
(***************************************************************************)
(* What the job table promises to the workers and to the resources they    *)
(* fence (ADR-0052, ADR-0053, ADR-0055).                                   *)
(***************************************************************************)
EXTENDS ProcessJobs

\* Type invariant of the rows, the scope counters and the remembered leases.
TypeOK ==
    /\ job \in [Jobs -> JobRow]
    /\ scopeGen \in [Scopes -> Nat]
    /\ held \in [Procs -> Lease \union {NoLease}]
    /\ issued \in Nat
    /\ disruptions \in Nat

\* At any moment at most one process can renew, complete or fail a row, however
\* many still remember a lease on it and whatever WORKER_ID they share: the
\* check of claimJob's token and generation in renewJob, completeJob, failJob.
OneLeaseHonoured ==
    \A p, q \in Procs :
        Honoured(p) /\ Honoured(q) /\ held[p].job = held[q].job => p = q

\* Two leases of one fence scope never carry the same generation, even when they
\* are on different rows and both live: a resource that keeps the highest
\* generation it accepted can tell any two workers apart (ADR-0055).
GenerationsDistinct ==
    \A p, q \in Procs :
        /\ held[p] # NoLease
        /\ held[q] # NoLease
        /\ ScopeOf[held[p].job] = ScopeOf[held[q].job]
        /\ held[p].gen = held[q].gen
        => p = q

\* A worker that lost its row to another one carries a strictly lower
\* generation than the row: the resource rejects the one that is late, never
\* the one that took over (ADR-0053).
LostLeaseIsOlder ==
    \A p \in Procs :
        LET row == job[held[p].job]
        IN  held[p] # NoLease /\ row.status = "leased" /\ row.token # held[p].token
            => held[p].gen < row.gen

\* A row that waits to be claimed still has an attempt to spend: failJob never
\* puts back a row that has used up ProcessJobMaxAttempts.
RetryBudget ==
    \A j \in Jobs : job[j].status = "pending" => job[j].attempts < MaxAttempts

\* A completed, failed or abandoned row is never worked on again: not by a late
\* call of a process that lost it, not by an enqueue with the same identity.
TerminalIsFinal ==
    [][\A j \in Jobs : job[j].status \in Terminal => job'[j] = job[j]]_jobVars

\* A live lease ends or moves only by a call of the process that holds it, or of
\* one whose clock is ahead of the holder's: no other claim, enqueue or late call
\* takes a row away from a worker that is still within its time.
LiveLeaseIsSafe ==
    [][\A p \in Procs :
           Honoured(p) /\ held'[p] = held[p] /\ job'[held[p].job].left > 0
           => \/ job'[held[p].job].token = held[p].token
              \/ \E q \in Procs : Ahead[q] > Ahead[p] /\ held'[q] # held[q]]_jobVars

\* A step leaves the counter of scope s alone, or it is an acquisition whose
\* generation is the new counter and above that of every row of the scope.
AdvanceOrKeep(s) ==
    \/ scopeGen'[s] = scopeGen[s]
    \/ \E p \in Procs :
           /\ held[p] = NoLease
           /\ held'[p] # NoLease
           /\ ScopeOf[held'[p].job] = s
           /\ held'[p].gen = scopeGen'[s]
           /\ \A j \in Jobs : ScopeOf[j] = s => job[j].gen < held'[p].gen

\* Every acquisition in a scope gets a generation above every one that was
\* handed out in that scope before, and nothing but claimJob moves the counter.
GenerationAdvances == [][\A s \in Scopes : AdvanceOrKeep(s)]_jobVars

\* An enqueued row is not forgotten: if crashes and lapses are finitely many, it
\* ends completed, failed or in manual recovery, so a row whose worker died is
\* claimed again and a row that keeps failing stops.
EnqueuedEnds ==
    \A j \in Jobs : job[j].status = "pending" ~> job[j].status \in Terminal

----------------------------------------------------------------------------
\* The inductive invariant behind the properties above.

RowsBelowCounters ==
    \A j \in Jobs : job[j].gen <= scopeGen[ScopeOf[j]] /\ job[j].token <= issued

LeasesBelowRows ==
    \A p \in Procs :
        held[p] # NoLease =>
            /\ held[p].token \in 1..issued
            /\ held[p].gen <= job[held[p].job].gen

TokensDistinct ==
    \A p, q \in Procs :
        held[p] # NoLease /\ held[q] # NoLease /\ held[p].token = held[q].token => p = q

TokenNamesItsRow ==
    \A p \in Procs, j \in Jobs :
        held[p] # NoLease /\ held[p].token = job[j].token
        => held[p].job = j /\ held[p].gen = job[j].gen

\* The lease fields of a row that nobody can hold are clear.
RestingRowsAreClear ==
    \A j \in Jobs :
        /\ job[j].status \in Terminal => job[j].left = 0 /\ job[j].delay = 0
        /\ job[j].status = "absent" => job[j] = AbsentRow

\* Why the lease check and the fence work: what a process remembers is never
\* ahead of the rows, a token names one process and one row, and generations
\* order the leases of a scope (claimJob, renewJob, completeJob, failJob).
LeaseInv ==
    /\ TypeOK
    /\ RowsBelowCounters
    /\ LeasesBelowRows
    /\ TokensDistinct
    /\ TokenNamesItsRow
    /\ RestingRowsAreClear
    /\ GenerationsDistinct
    /\ LostLeaseIsOlder
    /\ RetryBudget

=============================================================================
