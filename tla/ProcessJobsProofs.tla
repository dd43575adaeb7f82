------------------------- MODULE ProcessJobsProofs -------------------------
(***************************************************************************)
(* Proofs about ProcessJobs for any number of rows, scopes and processes,  *)
(* any clocks, and any lease duration, retry delay and attempt limit.      *)
(***************************************************************************)
EXTENDS ProcessJobsProperties, FiniteSetTheorems, TLAPS

\* The number of processes in a subset of Procs is a natural number.
LEMMA CountsAreNaturals ==
    ASSUME NEW S \in SUBSET Procs
    PROVE  Cardinality(S) \in Nat
BY ConstantsAssumption, FS_Subset, FS_CardinalityType

\* What failJob and completeJob write is a row (Released, Failed).
LEMMA ReleasedType ==
    ASSUME NEW row \in JobRow, NEW st \in Statuses, NEW d \in Nat
    PROVE  Released(row, st, d) \in JobRow
BY DEF Released, JobRow, Statuses

\* A failed attempt leaves a row that is waiting again or has ended.
LEMMA FailedType ==
    ASSUME NEW p \in Procs, NEW row \in JobRow, NEW retry \in BOOLEAN
    PROVE  Failed(p, row, retry) \in JobRow
<1>1. Ahead[p] + RetryDelay \in Nat
  BY ConstantsAssumption
<1> QED
  BY <1>1, ReleasedType, ConstantsAssumption DEF Failed, Statuses

\* A row stays a row as time goes by (Aged).
LEMMA AgedType ==
    ASSUME NEW row \in JobRow
    PROVE  Aged(row) \in JobRow
<1>1. Less(row.left) \in Nat /\ Less(row.delay) \in Nat
  BY DEF Less, JobRow
<1>2. ASSUME NEW l \in Nat, NEW d \in Nat
      PROVE  [row EXCEPT !.left = l, !.delay = d] \in JobRow
  BY DEF JobRow
<1> QED
  BY <1>1, <1>2 DEF Aged

\* Type correctness of every step.
LEMMA TypeStep == TypeOK /\ [Next]_jobVars => TypeOK'
<1> SUFFICES ASSUME TypeOK, [Next]_jobVars PROVE TypeOK'
  OBVIOUS
<1> USE DEF TypeOK
<1>1. ASSUME NEW j \in Jobs, Enqueue(j) PROVE TypeOK'
  BY <1>1 DEF Enqueue, Enqueued, JobRow, Statuses
<1>2. ASSUME NEW p \in Procs, NEW j \in Jobs, Claim(p, j) PROVE TypeOK'
  <2>1. ScopeOf[j] \in Scopes /\ NextGeneration(j) \in Nat
    BY ConstantsAssumption DEF NextGeneration
  <2>2. Cardinality(Holders(j)) \in Nat
    BY CountsAreNaturals DEF Holders
  <2>3. [status |-> "leased", delay |-> 0, left |-> LeaseDuration + Ahead[p],
         owner |-> WorkerIdOf[p], token |-> issued + 1, gen |-> NextGeneration(j),
         attempts |-> job[j].attempts + 1] \in JobRow
    BY <2>1, ConstantsAssumption DEF JobRow, Statuses
  <2>4. [job |-> j, token |-> issued + 1, gen |-> NextGeneration(j)] \in Lease
    BY <2>1 DEF Lease
  <2> QED
    BY <1>2, <2>1, <2>2, <2>3, <2>4 DEF Claim
<1>3. ASSUME NEW p \in Procs, Renew(p) PROVE TypeOK'
  <2>1. held[p].job \in Jobs
    BY <1>3 DEF Renew, Honoured, Lease
  <2>2. LeaseDuration + Ahead[p] \in Nat
    BY ConstantsAssumption
  <2> QED
    BY <1>3, <2>1, <2>2 DEF Renew, JobRow
<1>4. ASSUME NEW p \in Procs, Complete(p) PROVE TypeOK'
  <2>1. held[p].job \in Jobs
    BY <1>4 DEF Complete, Honoured, Lease
  <2>2. Released(job[held[p].job], "completed", 0) \in JobRow
    BY <2>1, ReleasedType DEF Statuses
  <2> QED
    BY <1>4, <2>1, <2>2 DEF Complete
<1>5. ASSUME NEW p \in Procs, NEW retry \in BOOLEAN, Fail(p, retry) PROVE TypeOK'
  <2>1. held[p].job \in Jobs
    BY <1>5 DEF Fail, Honoured, Lease
  <2>2. Failed(p, job[held[p].job], retry) \in JobRow
    BY <2>1, FailedType
  <2> QED
    BY <1>5, <2>1, <2>2 DEF Fail
<1>6. ASSUME NEW p \in Procs, LeaseLost(p) PROVE TypeOK'
  BY <1>6 DEF LeaseLost
<1>7. ASSUME NEW p \in Procs, Crash(p) PROVE TypeOK'
  BY <1>7 DEF Crash
<1>8. CASE Tick
  <2>1. Cardinality(Lapsing) \in Nat
    BY CountsAreNaturals DEF Lapsing
  <2>2. /\ job' = [j \in Jobs |-> Aged(job[j])]
        /\ disruptions' = disruptions + Cardinality(Lapsing)
        /\ UNCHANGED <<scopeGen, held, issued>>
    BY <1>8 DEF Tick
  <2>3. job' \in [Jobs -> JobRow]
    <3>1. \A j \in Jobs : Aged(job[j]) \in JobRow
      BY AgedType
    <3> QED
      BY <2>2, <3>1, Zenon
  <2>4. disruptions' \in Nat
    BY <2>1, <2>2
  <2> QED
    BY <2>2, <2>3, <2>4
<1>9. CASE UNCHANGED jobVars
  BY <1>9 DEF jobVars
<1> QED
  BY <1>1, <1>2, <1>3, <1>4, <1>5, <1>6, <1>7, <1>8, <1>9 DEF Next

\* Every value the rows, the counters and the remembered leases ever take has
\* its type.
THEOREM TypeCorrect == Spec => []TypeOK
<1>1. JobInit => TypeOK
  BY DEF JobInit, TypeOK, AbsentRow, JobRow, Statuses
<1> QED
  BY <1>1, TypeStep, PTL DEF Spec

----------------------------------------------------------------------------
\* Every step preserves the inductive invariant.

\* A step that leaves the tokens, generations, attempts and counters alone and
\* at most makes processes forget: renewals, ticks, crashes and lost leases.
LEMMA QuietStep ==
    ASSUME LeaseInv, TypeOK',
           UNCHANGED <<scopeGen, issued>>,
           \A p \in Procs : held'[p] \in {held[p], NoLease},
           \A j \in Jobs :
               /\ job'[j].token = job[j].token
               /\ job'[j].gen = job[j].gen
               /\ job'[j].attempts = job[j].attempts
               /\ job'[j].status = job[j].status,
           RestingRowsAreClear'
    PROVE  LeaseInv'
<1> USE DEF LeaseInv
<1>1. RowsBelowCounters'
  BY DEF RowsBelowCounters
<1>2. \A p \in Procs : held'[p] # NoLease => held'[p] = held[p] /\ held[p].job \in Jobs
  BY DEF TypeOK, Lease
<1>3. LeasesBelowRows' /\ TokensDistinct' /\ TokenNamesItsRow'
  BY <1>2 DEF LeasesBelowRows, TokensDistinct, TokenNamesItsRow
<1>4. GenerationsDistinct'
  BY <1>2 DEF GenerationsDistinct
<1>5. LostLeaseIsOlder'
  BY <1>2 DEF LostLeaseIsOlder
<1>6. RetryBudget'
  BY DEF RetryBudget
<1> QED
  BY <1>1, <1>3, <1>4, <1>5, <1>6

\* A step by which process p gives up row held[p].job: completions and failures.
LEMMA ReleaseStep ==
    ASSUME LeaseInv, TypeOK', NEW p \in Procs, Honoured(p),
           NEW row \in JobRow,
           job' = [job EXCEPT ![held[p].job] = row],
           held' = [held EXCEPT ![p] = NoLease],
           UNCHANGED <<scopeGen, issued>>,
           row.status \in Statuses \ {"absent", "leased"},
           row.status \in Terminal => row.left = 0 /\ row.delay = 0,
           row.status = "pending" => row.attempts < MaxAttempts,
           row.token = 0, row.gen = job[held[p].job].gen
    PROVE  LeaseInv'
<1> USE DEF LeaseInv
<1>1. held[p].job \in Jobs
  BY DEF TypeOK, Honoured, Lease
<1>2. \A q \in Procs : held'[q] # NoLease =>
          held'[q] = held[q] /\ held[q].job \in Jobs /\ held[q].token > 0
  BY DEF TypeOK, Lease, LeasesBelowRows
<1>3. \A j \in Jobs : job'[j] = IF j = held[p].job THEN row ELSE job[j]
  BY DEF TypeOK
<1>4. RowsBelowCounters'
  BY <1>1, <1>3 DEF RowsBelowCounters, TypeOK
<1>5. LeasesBelowRows' /\ TokensDistinct'
  BY <1>1, <1>2, <1>3 DEF LeasesBelowRows, TokensDistinct
<1>6. TokenNamesItsRow'
  BY <1>1, <1>2, <1>3 DEF TokenNamesItsRow
<1>7. RestingRowsAreClear'
  BY <1>1, <1>3 DEF RestingRowsAreClear
<1>8. GenerationsDistinct'
  BY <1>2 DEF GenerationsDistinct
<1>9. LostLeaseIsOlder'
  BY <1>2, <1>3 DEF LostLeaseIsOlder
<1>10. RetryBudget'
  BY <1>1, <1>3 DEF RetryBudget
<1> QED
  BY <1>4, <1>5, <1>6, <1>7, <1>8, <1>9, <1>10

\* Claiming draws a fresh token and a generation above all others of the scope.
LEMMA ClaimStep ==
    ASSUME LeaseInv, TypeOK', NEW p \in Procs, NEW j \in Jobs, Claim(p, j)
    PROVE  LeaseInv'
<1> DEFINE g == NextGeneration(j)
<1> USE DEF LeaseInv
<1>1. /\ ScopeOf[j] \in Scopes
      /\ \A i \in Jobs : ScopeOf[i] \in Scopes
      /\ \A s \in Scopes : scopeGen[s] \in Nat
      /\ g = scopeGen[ScopeOf[j]] + 1
  BY ConstantsAssumption DEF TypeOK, NextGeneration
<1>2. /\ scopeGen' = [scopeGen EXCEPT ![ScopeOf[j]] = g]
      /\ held' = [held EXCEPT ![p] = [job |-> j, token |-> issued + 1, gen |-> g]]
      /\ issued' = issued + 1
      /\ held[p] = NoLease
  BY DEF Claim
<1>3. /\ job'[j].status = "leased"
      /\ job'[j].token = issued + 1
      /\ job'[j].gen = g
      /\ \A i \in Jobs \ {j} : job'[i] = job[i]
  BY DEF Claim, TypeOK
<1>4. /\ \A q \in Procs : held'[q] # NoLease /\ q # p =>
             /\ held'[q] = held[q]
             /\ held[q] \in Lease
             /\ held[q].job \in Jobs
             /\ held[q].token \in Nat
             /\ held[q].gen \in Nat
             /\ held[q].token <= issued
             /\ held[q].gen <= scopeGen[ScopeOf[held[q].job]]
      /\ held'[p].job = j
      /\ held'[p].token = issued + 1
      /\ held'[p].gen = g
  <2>1. ASSUME NEW q \in Procs, held'[q] # NoLease, q # p
        PROVE  /\ held'[q] = held[q]
               /\ held[q] \in Lease
               /\ held[q].job \in Jobs
               /\ held[q].token \in Nat
               /\ held[q].gen \in Nat
    BY <1>2, <2>1 DEF TypeOK, Lease
  <2>2. ASSUME NEW q \in Procs, held'[q] # NoLease, q # p
        PROVE  held[q].token <= issued /\ held[q].gen <= scopeGen[ScopeOf[held[q].job]]
    <3>1. /\ held[q].token \in 1..issued
          /\ held[q].gen <= job[held[q].job].gen
      BY <2>1, <2>2 DEF LeasesBelowRows
    <3>2. job[held[q].job].gen <= scopeGen[ScopeOf[held[q].job]]
      BY <2>1, <2>2 DEF RowsBelowCounters
    <3>3. job[held[q].job].gen \in Nat
      BY <2>1, <2>2 DEF TypeOK, JobRow
    <3> QED
      BY <1>1, <2>1, <2>2, <3>1, <3>2, <3>3 DEF TypeOK
  <2> QED
    BY <1>2, <2>1, <2>2 DEF TypeOK
<1>5. RowsBelowCounters'
  BY <1>1, <1>2, <1>3 DEF RowsBelowCounters, TypeOK, JobRow
<1>6. LeasesBelowRows'
  BY SMTT(30), <1>1, <1>2, <1>3, <1>4 DEF LeasesBelowRows, RowsBelowCounters, TypeOK, JobRow
<1>7. TokensDistinct'
  BY <1>2, <1>4 DEF TokensDistinct, TypeOK
<1>8. TokenNamesItsRow'
  BY <1>2, <1>3, <1>4 DEF TokenNamesItsRow, RowsBelowCounters, TypeOK, JobRow
<1>9. RestingRowsAreClear'
  BY <1>3 DEF RestingRowsAreClear, Terminal
<1>10. GenerationsDistinct'
  BY <1>1, <1>2, <1>4 DEF GenerationsDistinct, TypeOK
<1>11. LostLeaseIsOlder'
  BY <1>1, <1>2, <1>3, <1>4 DEF LostLeaseIsOlder, TypeOK
<1>12. RetryBudget'
  BY <1>3 DEF RetryBudget
<1> QED
  BY <1>5, <1>6, <1>7, <1>8, <1>9, <1>10, <1>11, <1>12

\* The inductive step: every transaction of the job table preserves LeaseInv.
LEMMA InvStep == LeaseInv /\ [Next]_jobVars => LeaseInv'
<1> SUFFICES ASSUME LeaseInv, [Next]_jobVars PROVE LeaseInv'
  OBVIOUS
<1>0. TypeOK /\ TypeOK'
  BY TypeStep DEF LeaseInv
<1>1. ASSUME NEW j \in Jobs, Enqueue(j) PROVE LeaseInv'
  <2>1. CASE job[j].status # "absent"
    <3>1. UNCHANGED jobVars
      BY <1>1, <2>1 DEF Enqueue, Enqueued, jobVars
    <3> QED
      BY <3>1 DEF jobVars, LeaseInv, TypeOK, RowsBelowCounters, LeasesBelowRows,
                  TokensDistinct, TokenNamesItsRow, RestingRowsAreClear,
                  GenerationsDistinct, LostLeaseIsOlder, RetryBudget
  <2>2. CASE job[j].status = "absent"
    <3>1. job[j] = AbsentRow
      BY <2>2 DEF LeaseInv, RestingRowsAreClear
    <3>2. /\ UNCHANGED <<scopeGen, held, issued>>
          /\ job' = [job EXCEPT ![j].status = "pending"]
      BY <1>1, <2>2 DEF Enqueue, Enqueued
    <3>3. /\ \A i \in Jobs : /\ job'[i].token = job[i].token
                             /\ job'[i].gen = job[i].gen
                             /\ job'[i].attempts = job[i].attempts
          /\ \A i \in Jobs \ {j} : job'[i] = job[i]
          /\ job'[j].status = "pending"
      BY <1>0, <3>2 DEF TypeOK, JobRow
    <3>4. /\ job'[j].attempts = 0
          /\ job'[j].token = 0
      BY <3>1, <3>3 DEF AbsentRow
    <3>5. /\ \A p \in Procs : held[p] # NoLease => held[p].job \in Jobs
          /\ RowsBelowCounters' /\ LeasesBelowRows' /\ TokensDistinct'
          /\ GenerationsDistinct' /\ TokenNamesItsRow'
      <4>1. \A p \in Procs : held[p] # NoLease => held[p].job \in Jobs
        BY <1>0 DEF TypeOK, Lease
      <4> QED
        BY <3>2, <3>3, <4>1
           DEF LeaseInv, RowsBelowCounters, LeasesBelowRows, TokensDistinct,
               GenerationsDistinct, TokenNamesItsRow
    <3>6. LostLeaseIsOlder'
      BY <3>2, <3>3, <3>5 DEF LeaseInv, LostLeaseIsOlder
    <3>7. RestingRowsAreClear' /\ RetryBudget'
      BY <3>3, <3>4, ConstantsAssumption
         DEF LeaseInv, RestingRowsAreClear, RetryBudget, Terminal
    <3> QED
      BY <1>0, <3>5, <3>6, <3>7 DEF LeaseInv
  <2> QED
    BY <2>1, <2>2
<1>2. ASSUME NEW p \in Procs, NEW j \in Jobs, Claim(p, j) PROVE LeaseInv'
  BY <1>0, <1>2, ClaimStep
<1>3. ASSUME NEW p \in Procs, Renew(p) PROVE LeaseInv'
  <2>1. /\ held[p].job \in Jobs
        /\ job[held[p].job].status = "leased"
        /\ UNCHANGED <<scopeGen, issued, held>>
        /\ job' = [job EXCEPT ![held[p].job].left = LeaseDuration + Ahead[p]]
    BY <1>0, <1>3 DEF Renew, Honoured, Lease, TypeOK
  <2>2. \A j \in Jobs :
               /\ job'[j].token = job[j].token
               /\ job'[j].gen = job[j].gen
               /\ job'[j].attempts = job[j].attempts
               /\ job'[j].status = job[j].status
               /\ j # held[p].job => job'[j] = job[j]
    BY <1>0, <2>1 DEF TypeOK, JobRow
  <2>3. RestingRowsAreClear'
    BY <2>1, <2>2 DEF LeaseInv, RestingRowsAreClear, Terminal
  <2> QED
    BY <1>0, <2>1, <2>2, <2>3, QuietStep
<1>4. ASSUME NEW p \in Procs, Complete(p) PROVE LeaseInv'
  <2> DEFINE row == Released(job[held[p].job], "completed", 0)
  <2>1. job[held[p].job] \in JobRow
    BY <1>0, <1>4 DEF Complete, Honoured, TypeOK, Lease
  <2>2. row \in JobRow
    BY <2>1, ReleasedType DEF Statuses
  <2>3. /\ row.status = "completed"
        /\ row.token = 0
        /\ row.left = 0
        /\ row.delay = 0
        /\ row.gen = job[held[p].job].gen
    BY <2>1 DEF Released, JobRow
  <2>4. /\ Honoured(p)
        /\ job' = [job EXCEPT ![held[p].job] = row]
        /\ held' = [held EXCEPT ![p] = NoLease]
        /\ UNCHANGED <<scopeGen, issued>>
    BY <1>4 DEF Complete
  <2> HIDE DEF row
  <2> QED
    BY <1>0, <2>2, <2>3, <2>4, ReleaseStep DEF Statuses
<1>5. ASSUME NEW p \in Procs, NEW retry \in BOOLEAN, Fail(p, retry) PROVE LeaseInv'
  <2> DEFINE old == job[held[p].job]
             row == Failed(p, old, retry)
  <2>1. old \in JobRow
    BY <1>0, <1>5 DEF Fail, Honoured, TypeOK, Lease
  <2>2. row \in JobRow
    BY <2>1, FailedType
  <2>3. /\ row.status \in {"manual_recovery", "pending", "failed"}
        /\ row.status \in Terminal => row.left = 0 /\ row.delay = 0
        /\ row.status = "pending" => row.attempts < MaxAttempts
        /\ row.token = 0
        /\ row.gen = old.gen
    <3>1. old.attempts \in Nat /\ MaxAttempts \in Nat
      BY <2>1, ConstantsAssumption DEF JobRow
    <3>2. CASE old.attempts >= MaxAttempts
      BY <2>1, <3>2 DEF Failed, Released, JobRow, Terminal
    <3>3. CASE ~(old.attempts >= MaxAttempts) /\ retry
      BY <2>1, <3>1, <3>3 DEF Failed, Released, JobRow, Terminal
    <3>4. CASE ~(old.attempts >= MaxAttempts) /\ ~retry
      BY <2>1, <3>4 DEF Failed, Released, JobRow, Terminal
    <3> QED
      BY <3>2, <3>3, <3>4
  <2>4. /\ Honoured(p)
        /\ job' = [job EXCEPT ![held[p].job] = row]
        /\ held' = [held EXCEPT ![p] = NoLease]
        /\ UNCHANGED <<scopeGen, issued>>
    BY <1>5 DEF Fail
  <2> HIDE DEF row
  <2> QED
    BY <1>0, <2>2, <2>3, <2>4, ReleaseStep DEF Statuses
<1>6. ASSUME NEW p \in Procs, LeaseLost(p) \/ Crash(p) PROVE LeaseInv'
  <2>1. /\ UNCHANGED <<job, scopeGen, issued>>
        /\ held' = [held EXCEPT ![p] = NoLease]
    BY <1>6 DEF LeaseLost, Crash
  <2>2. RestingRowsAreClear' /\ \A q \in Procs : held'[q] \in {held[q], NoLease}
    BY <1>0, <2>1 DEF LeaseInv, RestingRowsAreClear, TypeOK
  <2> QED
    BY <1>0, <2>1, <2>2, QuietStep
<1>7. CASE Tick
  <2>1. /\ job' = [j \in Jobs |-> Aged(job[j])]
        /\ UNCHANGED <<scopeGen, held, issued>>
    BY <1>7 DEF Tick
  <2>2. ASSUME NEW j \in Jobs
        PROVE  /\ job'[j].token = job[j].token
               /\ job'[j].gen = job[j].gen
               /\ job'[j].attempts = job[j].attempts
               /\ job'[j].status = job[j].status
               /\ job[j].left = 0 /\ job[j].delay = 0 => job'[j] = job[j]
    <3>1. job'[j] = Aged(job[j]) /\ job[j] \in JobRow
      BY <1>0, <2>1 DEF TypeOK
    <3>2. /\ Aged(job[j]).token = job[j].token
          /\ Aged(job[j]).gen = job[j].gen
          /\ Aged(job[j]).attempts = job[j].attempts
          /\ Aged(job[j]).status = job[j].status
      BY <3>1, Zenon DEF Aged, JobRow
    <3>3. CASE job[j].left = 0 /\ job[j].delay = 0
      <4>1. Aged(job[j]) = [job[j] EXCEPT !.left = 0, !.delay = 0]
        BY <3>3 DEF Aged, Less
      <4>2. [job[j] EXCEPT !.left = 0, !.delay = 0] = job[j]
        BY <3>1, <3>3 DEF JobRow
      <4> QED
        BY <3>1, <3>2, <4>1, <4>2
    <3> QED
      BY <3>1, <3>2, <3>3
  <2>3. \A j \in Jobs : job[j] = AbsentRow => job[j].left = 0 /\ job[j].delay = 0
    BY DEF AbsentRow
  <2>4. RestingRowsAreClear'
    BY <2>2, <2>3 DEF LeaseInv, RestingRowsAreClear
  <2> QED
    BY <1>0, <2>1, <2>2, <2>4, QuietStep
<1>8. CASE UNCHANGED jobVars
  BY <1>8 DEF jobVars, LeaseInv, TypeOK, RowsBelowCounters, LeasesBelowRows,
              TokensDistinct, TokenNamesItsRow, RestingRowsAreClear,
              GenerationsDistinct, LostLeaseIsOlder, RetryBudget
<1> QED
  BY <1>1, <1>2, <1>3, <1>4, <1>5, <1>6, <1>7, <1>8 DEF Next

\* A table with no rows and no leases satisfies the inductive invariant.
LEMMA LeaseInitial == JobInit => LeaseInv
<1> SUFFICES ASSUME JobInit PROVE LeaseInv
  OBVIOUS
<1>1. TypeOK
  BY DEF JobInit, TypeOK, AbsentRow, JobRow, Statuses
<1>2. /\ \A j \in Jobs : job[j] = AbsentRow /\ ScopeOf[j] \in Scopes
      /\ \A s \in Scopes : scopeGen[s] = 0
      /\ \A p \in Procs : held[p] = NoLease
      /\ issued = 0
  BY ConstantsAssumption DEF JobInit
<1> QED
  BY <1>1, <1>2 DEF LeaseInv, RowsBelowCounters, LeasesBelowRows, TokensDistinct,
       TokenNamesItsRow, RestingRowsAreClear, GenerationsDistinct,
       LostLeaseIsOlder, RetryBudget, AbsentRow, Terminal

\* What a process remembers is never ahead of the rows and tokens and generations
\* single it out, whatever the processes, the clocks and the crashes do.
THEOREM LeaseInvariant == Spec => []LeaseInv
BY LeaseInitial, InvStep, PTL DEF Spec

\* At most one process at a time can renew, complete or fail a row.
THEOREM OneLeaseHonouredAlways == Spec => []OneLeaseHonoured
<1>1. LeaseInv => OneLeaseHonoured
  BY DEF LeaseInv, OneLeaseHonoured, Honoured, TokensDistinct
<1> QED
  BY <1>1, LeaseInvariant, PTL

\* Generations tell the leases of a scope apart, and the later one is higher.
THEOREM GenerationsOrderLeases == Spec => [](GenerationsDistinct /\ LostLeaseIsOlder)
<1>1. LeaseInv => GenerationsDistinct /\ LostLeaseIsOlder
  BY DEF LeaseInv
<1> QED
  BY <1>1, LeaseInvariant, PTL

\* A row that waits to be claimed has an attempt to spend.
THEOREM RetryBudgetAlways == Spec => []RetryBudget
<1>1. LeaseInv => RetryBudget
  BY DEF LeaseInv
<1> QED
  BY <1>1, LeaseInvariant, PTL

----------------------------------------------------------------------------
\* Action properties.

\* A row that ended is never changed again: not by a late call of a process that
\* lost it (renewJob, completeJob, failJob), not by claimJob, not by an enqueue
\* with the same identity.
THEOREM TerminalIsFinalAlways == Spec => TerminalIsFinal
<1>1. ASSUME LeaseInv, [Next]_jobVars, NEW j \in Jobs, job[j].status \in Terminal
      PROVE  job'[j] = job[j]
  <2>0. TypeOK /\ job[j] \in JobRow
    BY <1>1 DEF LeaseInv, TypeOK
  <2>1. ASSUME NEW i \in Jobs, Enqueue(i) PROVE job'[j] = job[j]
    BY <1>1, <2>0, <2>1 DEF Enqueue, Enqueued, TypeOK, Terminal
  <2>2. ASSUME NEW p \in Procs, NEW i \in Jobs, Claim(p, i) PROVE job'[j] = job[j]
    <3>1. i # j
      BY <1>1, <2>2 DEF Claim, Claimable, Terminal
    <3> QED
      BY <2>0, <2>2, <3>1 DEF Claim, TypeOK
  <2>3. ASSUME NEW p \in Procs, Honoured(p),
               NEW row, job' = [job EXCEPT ![held[p].job] = row]
        PROVE  job'[j] = job[j]
    <3>1. held[p].job # j
      BY <1>1, <2>3 DEF Honoured, Terminal
    <3> QED
      BY <2>0, <2>3, <3>1 DEF TypeOK
  <2>4. ASSUME NEW p \in Procs, Renew(p) PROVE job'[j] = job[j]
    BY <2>3, <2>4 DEF Renew
  <2>5. ASSUME NEW p \in Procs, Complete(p) PROVE job'[j] = job[j]
    BY <2>3, <2>5 DEF Complete
  <2>6. ASSUME NEW p \in Procs, NEW retry \in BOOLEAN, Fail(p, retry) PROVE job'[j] = job[j]
    BY <2>3, <2>6 DEF Fail
  <2>7. ASSUME NEW p \in Procs, LeaseLost(p) \/ Crash(p) PROVE job'[j] = job[j]
    BY <2>7 DEF LeaseLost, Crash
  <2>8. CASE Tick
    <3>1. job'[j] = Aged(job[j])
      BY <2>0, <2>8 DEF Tick, TypeOK
    <3>2. job[j].left = 0 /\ job[j].delay = 0
      BY <1>1 DEF LeaseInv, RestingRowsAreClear
    <3>3. Aged(job[j]) = [job[j] EXCEPT !.left = 0, !.delay = 0]
      BY <3>2 DEF Aged, Less
    <3>4. [job[j] EXCEPT !.left = 0, !.delay = 0] = job[j]
      BY <2>0, <3>2 DEF JobRow
    <3> QED
      BY <3>1, <3>3, <3>4
  <2>9. CASE UNCHANGED jobVars
    BY <2>9 DEF jobVars
  <2> QED
    BY <1>1, <2>1, <2>2, <2>4, <2>5, <2>6, <2>7, <2>8, <2>9 DEF Next
<1>2. LeaseInv /\ [Next]_jobVars =>
          [\A j \in Jobs : job[j].status \in Terminal => job'[j] = job[j]]_jobVars
  BY <1>1
<1> QED
  BY <1>2, LeaseInvariant, PTL DEF Spec, TerminalIsFinal

\* claimJob is the only step that moves a scope's counter, and the generation it
\* hands out is above that of every row of the scope.
THEOREM GenerationAdvancesAlways == Spec => GenerationAdvances
<1>1. ASSUME LeaseInv, [Next]_jobVars, NEW s \in Scopes
      PROVE  AdvanceOrKeep(s)
  <2>1. CASE scopeGen' = scopeGen
    BY <2>1 DEF AdvanceOrKeep
  <2>2. ASSUME NEW p \in Procs, NEW j \in Jobs, Claim(p, j)
        PROVE  AdvanceOrKeep(s)
    <3> DEFINE g == NextGeneration(j)
    <3>1. /\ TypeOK /\ TypeOK' /\ RowsBelowCounters
          /\ ScopeOf[j] \in Scopes
      BY <1>1, TypeStep, ConstantsAssumption DEF LeaseInv
    <3>2. /\ held[p] = NoLease
          /\ scopeGen' = [scopeGen EXCEPT ![ScopeOf[j]] = g]
          /\ held' = [held EXCEPT ![p] = [job |-> j, token |-> issued + 1, gen |-> g]]
          /\ g = scopeGen[ScopeOf[j]] + 1
      BY <2>2 DEF Claim, NextGeneration
    <3>3. CASE s # ScopeOf[j]
      BY <3>1, <3>2, <3>3 DEF TypeOK, AdvanceOrKeep
    <3>4. CASE s = ScopeOf[j]
      <4>1. /\ held'[p] = [job |-> j, token |-> issued + 1, gen |-> g]
            /\ scopeGen'[s] = g
        BY <3>1, <3>2, <3>4 DEF TypeOK
      <4>2. held'[p] # NoLease
        <5>1. issued + 1 \in Nat /\ g \in Nat
          BY <3>1, <3>2 DEF TypeOK
        <5> QED
          BY <4>1, <5>1, NoLeaseAssumption DEF Lease
      <4>3. \A i \in Jobs : ScopeOf[i] = s => job[i].gen < g
        BY <3>1, <3>2, <3>4 DEF RowsBelowCounters, TypeOK, JobRow
      <4> QED
        BY <3>2, <3>4, <4>1, <4>2, <4>3 DEF AdvanceOrKeep
    <3> QED
      BY <3>3, <3>4
  <2> QED
    BY <1>1, <2>1, <2>2
       DEF Next, Enqueue, Renew, Complete, Fail, LeaseLost, Crash, Tick, jobVars
<1>2. LeaseInv /\ [Next]_jobVars =>
          [\A s \in Scopes : AdvanceOrKeep(s)]_jobVars
  BY <1>1
<1> QED
  BY <1>2, LeaseInvariant, PTL DEF Spec, GenerationAdvances

\* A live lease is taken from its process only by one whose clock is ahead:
\* claimJob tests leaseUntil, and completeJob and failJob end a lease for good.
THEOREM LiveLeaseAlwaysSafe == Spec => LiveLeaseIsSafe
<1>1. ASSUME LeaseInv, [Next]_jobVars, NEW p \in Procs, Honoured(p), held'[p] = held[p],
             job'[held[p].job].left > 0
      PROVE  \/ job'[held[p].job].token = held[p].token
             \/ \E q \in Procs : Ahead[q] > Ahead[p] /\ held'[q] # held[q]
  <2> DEFINE j == held[p].job
  <2>1. TypeOK /\ j \in Jobs /\ job[j] \in JobRow /\ job[j].token = held[p].token
        /\ job[j].status = "leased" /\ job[j].left > Ahead[p]
    BY <1>1 DEF LeaseInv, TypeOK, Honoured, Lease
  <2>2. ASSUME NEW i \in Jobs, Enqueue(i) PROVE job'[j].token = held[p].token
    BY <2>1, <2>2 DEF Enqueue, Enqueued, TypeOK, JobRow
  <2>3. ASSUME NEW q \in Procs, NEW i \in Jobs, Claim(q, i)
        PROVE  \/ job'[j].token = held[p].token
               \/ Ahead[q] > Ahead[p] /\ held'[q] # held[q]
    <3>1. CASE i # j
      BY <2>1, <2>3, <3>1 DEF Claim, TypeOK
    <3>2. CASE i = j
      <4>1. Ahead[q] > Ahead[p]
        BY <2>1, <2>3, <3>2, ConstantsAssumption DEF Claim, Claimable, JobRow
      <4>2. held[q] = NoLease /\ held'[q] = [job |-> i, token |-> issued + 1, gen |-> NextGeneration(i)]
        BY <2>1, <2>3 DEF Claim, TypeOK
      <4>3. issued + 1 \in Nat /\ NextGeneration(i) \in Nat
        BY <2>1, ConstantsAssumption DEF TypeOK, NextGeneration
      <4>4. held'[q] # NoLease
        BY <4>2, <4>3, NoLeaseAssumption DEF Lease
      <4> QED
        BY <4>1, <4>2, <4>4
    <3> QED
      BY <3>1, <3>2
  <2>4. ASSUME NEW q \in Procs, Renew(q) PROVE job'[j].token = held[p].token
    BY <2>1, <2>4 DEF Renew, Honoured, TypeOK, Lease, JobRow
  <2>5. ASSUME NEW q \in Procs, NEW row \in JobRow, row.left = 0, job' = [job EXCEPT ![held[q].job] = row]
        PROVE  job'[j].token = held[p].token
    BY <1>1, <2>1, <2>5 DEF TypeOK
  <2>6. ASSUME NEW q \in Procs, Complete(q) \/ (\E retry \in BOOLEAN : Fail(q, retry))
        PROVE  job'[j].token = held[p].token
    <3> DEFINE old == job[held[q].job]
    <3>1. old \in JobRow
      BY <2>1, <2>6 DEF Complete, Fail, Honoured, TypeOK, Lease
    <3>2. ASSUME NEW status \in Statuses, NEW delay \in Nat
          PROVE  Released(old, status, delay) \in JobRow /\ Released(old, status, delay).left = 0
      BY <3>1 DEF Released, JobRow, Statuses
    <3>3. ASSUME NEW retry \in BOOLEAN
          PROVE  Failed(q, old, retry) \in JobRow /\ Failed(q, old, retry).left = 0
      <4>1. RetryDelay + Ahead[q] \in Nat
        BY ConstantsAssumption
      <4> QED
        BY <3>2, <4>1 DEF Failed, Statuses
    <3>4. \E row \in JobRow : row.left = 0 /\ job' = [job EXCEPT ![held[q].job] = row]
      BY <2>6, <3>2, <3>3 DEF Complete, Fail, Statuses
    <3> QED
      BY <2>5, <3>4
  <2>7. CASE Tick
    BY <2>1, <2>7 DEF Tick, Aged, TypeOK, JobRow
  <2>8. ASSUME UNCHANGED job PROVE job'[j].token = held[p].token
    BY <2>1, <2>8
  <2> QED
    BY <1>1, <2>2, <2>3, <2>4, <2>6, <2>7, <2>8 DEF Next, LeaseLost, Crash, jobVars
<1>2. LeaseInv /\ [Next]_jobVars =>
          [\A p \in Procs :
              Honoured(p) /\ held'[p] = held[p] /\ job'[held[p].job].left > 0
              => \/ job'[held[p].job].token = held[p].token
                 \/ \E q \in Procs : Ahead[q] > Ahead[p] /\ held'[q] # held[q]]_jobVars
  BY <1>1
<1> QED
  BY <1>2, LeaseInvariant, PTL DEF Spec, LiveLeaseIsSafe

=============================================================================
