\* An operation and its reversal, a worker that is deployed with the other ledger,
\* authorization that may end, and checkpoints that are taken while they run.
CONSTANTS
    o1 = o1  o2 = o2
    p1 = p1  p2 = p2
    a1 = a1
    w = w
    NoWorker = NoWorker
    NoLease = NoLease
    Ops = {o1, o2}
    Scopes = {o1, o2}
    Jobs <- MCJobs
    ScopeOf <- MCScopeOf
    Procs = {p1, p2}
    WorkerIds = {w}
    WorkerIdOf <- MCWorkerIdOf
    Ahead <- Synchronised
    LeaseDuration = 1
    RetryDelay = 0
    MaxAttempts = 1
    MaxDisruptions = 0
    BadAccounts = {}
    OtherEngine = {p2}
    ReversalOf <- SecondReverses
    Revocable = TRUE
    Auditors = {a1}
    MaxCheckpoints = 2
SPECIFICATION AuditSpec
INVARIANTS ClosedIsSettled CheckpointIsSound ReversalsStand
CHECK_DEADLOCK FALSE
