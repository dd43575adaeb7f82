-------------------------- MODULE MCReconciliation --------------------------
(***************************************************************************)
(* Small instances of Reconciliation.                                      *)
(***************************************************************************)
EXTENDS ReconciliationProperties, TLC

CONSTANTS o1, o2, p1, p2, w, a1

MCJobs == Ops \X Kinds
MCScopeOf == [j \in MCJobs |-> j[1]]

MCWorkerIdOf == [p \in Procs |-> w]

Synchronised == [p \in Procs |-> 0]

\* The second operation takes the first one back.
SecondReverses == (o1 :> {}) @@ (o2 :> {o1})

=============================================================================
