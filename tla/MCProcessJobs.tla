--------------------------- MODULE MCProcessJobs ---------------------------
(***************************************************************************)
(* Small instances of ProcessJobs.                                         *)
(***************************************************************************)
EXTENDS ProcessJobsProperties, TLC

CONSTANTS j1, j2, j3, p1, p2, sA, sB, w

\* Two rows of one stream, like the submit and the reconcile job of a financial
\* operation (ADR-0055), and one row with a scope of its own.
MCScopeOf == (j1 :> sA) @@ (j2 :> sA) @@ (j3 :> sB)

\* Both processes run with one WORKER_ID: nothing in the code forbids it, and a
\* process that is started again has the id of the one that died.
MCWorkerIdOf == (p1 :> w) @@ (p2 :> w)

Skewed == (p1 :> 0) @@ (p2 :> 1)

=============================================================================
