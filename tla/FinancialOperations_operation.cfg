\* One operation, two workers that crash, lapse and overtake each other, but are
\* started again: books and ledger agree, and the operation is decided or its jobs end.
CONSTANTS
    o1 = o1  o2 = o2
    p1 = p1  p2 = p2
    w = w
    NoWorker = NoWorker
    NoLease = NoLease
    Ops = {o1}
    Scopes = {o1}
    Jobs <- MCJobs
    ScopeOf <- MCScopeOf
    Procs = {p1, p2}
    WorkerIds = {w}
    WorkerIdOf <- MCWorkerIdOf
    Ahead <- Synchronised
    LeaseDuration = 1
    RetryDelay = 0
    MaxAttempts = 2
    MaxDisruptions = 1
    BadAccounts = {}
    OtherEngine = {}
    ReversalOf <- Plain
    Revocable = FALSE
SPECIFICATION FairFinancialSpec
INVARIANTS OperationInv BooksAgreeWithLedger
PROPERTIES OvertakenNeverWrites KeepsPromise 
CHECK_DEADLOCK FALSE
