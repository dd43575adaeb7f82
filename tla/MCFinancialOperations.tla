----------------------- MODULE MCFinancialOperations -----------------------
(***************************************************************************)
(* Small instances of FinancialOperations.                                 *)
(***************************************************************************)
EXTENDS FinancialOperationsProperties, TLC

CONSTANTS o1, o2, p1, p2, w

MCJobs == Ops \X Kinds
MCScopeOf == [j \in MCJobs |-> j[1]]

\* A process that is started again keeps its WORKER_ID, and two may share one.
MCWorkerIdOf == (p1 :> w) @@ (p2 :> w)

\* No operation is a reversal.
Plain == [o \in Ops |-> {}]

Synchronised == (p1 :> 0) @@ (p2 :> 0)

=============================================================================
