---------------------- MODULE ReconciliationProperties ----------------------
(***************************************************************************)
(* What a verified checkpoint vouches for, and what the books of several   *)
(* operations promise.                                                     *)
(***************************************************************************)
EXTENDS Reconciliation, FinancialOperationsProperties

\* What the watermarks of a checkpoint cover.
Covered(k) == {o \in Ops : <<o, "accepted">> \in k.source \/ <<o, "reconciled">> \in k.source
                           \/ o \in k.target}

\* A verified checkpoint vouches for everything its watermarks cover: each of these
\* operations is reconciled and published, and the provider holds it, although
\* books and provider were read at different times, while workers posted and
\* published, and without a lock (reconcileFinancialCheckpoint).
CheckpointIsSound ==
    \A k \in checkpoints :
        k.status = "verified" =>
            \A o \in Covered(k) : op[o].status = "reconciled" /\ o \in outbox /\ o \in Held

\* The provider never holds the transfers of a reversal, nor is a request for them
\* on its way, unless it holds those of the source and the books say so: nothing
\* is taken back that was not posted (createReversalIntent).
ReversalsStand ==
    \A o \in Ops :
        (o \in Held \/ o \in posting) =>
            \A s \in ReversalOf[o] : s \in Held /\ journal[s] = "posted" /\ s \in outbox

-----------------------------------------------------------------------------
\* The inductive invariant behind these two.

AuditTypeOK ==
    /\ audit \in [Auditors -> [pc : AuditSteps, source : SUBSET (Ops \X OpStatuses), target : SUBSET Ops,
                               listed : SUBSET Ops, todo : SUBSET Ops, clean : BOOLEAN]]
    /\ checkpoints \subseteq [source : SUBSET (Ops \X OpStatuses), target : SUBSET Ops,
                              status : {"verified", "blocked"}]

\* What an auditor has seen accepted the provider holds, now and ever after.
AuditsSeeTheLedger == \A a \in Auditors : Covered(audit[a]) \subseteq Held

\* Until an auditor finds a mismatch, all it has seen is reconciled: it listed
\* every operation the provider held by then.
CleanAuditsAreRight ==
    \A a \in Auditors :
        audit[a].pc \in {"compare", "store"} /\ audit[a].clean =>
            \A o \in Covered(audit[a]) : op[o].status = "reconciled"

\* The source of a reversal is reconciled before the reversal is asked for.
SourcesStand ==
    \A o \in Ops : op[o].status # "absent" => \A s \in ReversalOf[o] : op[s].status = "reconciled"

\* Why a checkpoint can be relied on although nothing stood still while it was
\* taken: acceptance and publication are for good, and the operations are listed
\* last.
AuditInv ==
    /\ OperationInv
    /\ AuditTypeOK
    /\ AuditsSeeTheLedger
    /\ CleanAuditsAreRight
    /\ SourcesStand
    /\ CheckpointIsSound

=============================================================================
