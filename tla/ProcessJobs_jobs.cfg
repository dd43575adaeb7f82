\* Three rows, two of one fence scope, and two processes with the same WORKER_ID, of which
\* one has a fast clock and takes leases that the other still counts as live.
CONSTANTS
    j1 = j1  j2 = j2  j3 = j3
    p1 = p1  p2 = p2
    sA = sA  sB = sB
    w = w
    NoWorker = NoWorker
    NoLease = NoLease
    Jobs = {j1, j2, j3}
    Scopes = {sA, sB}
    Procs = {p1, p2}
    WorkerIds = {w}
    ScopeOf <- MCScopeOf
    WorkerIdOf <- MCWorkerIdOf
    Ahead <- Skewed
    LeaseDuration = 2
    RetryDelay = 1
    MaxAttempts = 2
    MaxDisruptions = 1
SPECIFICATION FairSpec
INVARIANTS LeaseInv
PROPERTIES TerminalIsFinal  EnqueuedEnds
