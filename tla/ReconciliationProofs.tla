------------------------ MODULE ReconciliationProofs ------------------------
(***************************************************************************)
(* Proofs about Reconciliation, for any operations, reversals, workers and *)
(* auditors: what FinancialOperationsProofs shows of the protocol holds    *)
(* beside the auditors, and what they store is sound.                      *)
(***************************************************************************)
EXTENDS ReconciliationProperties, FinancialOperationsProofs

\* Auditors only look: beside them the protocol behaves as it does alone.
LEMMA AuditsOnlyLook == AuditSpec => FinancialSpec
<1>1. AuditInit => FinancialInit
  BY DEF AuditInit
<1>2. [AuditNext]_<<vars, auditVars>> => [FinancialNext]_vars
  BY DEF AuditNext
<1> QED
  BY <1>1, <1>2, PTL DEF AuditSpec, FinancialSpec

\* What was published stays published, and what the provider has accepted it
\* keeps.
LEMMA ForGood ==
    ASSUME OperationInv, [FinancialNext]_vars, NEW o \in Ops
    PROVE  /\ op[o].status = "reconciled" => op'[o].status = "reconciled"
           /\ o \in Held => o \in Held'
<1>1. o \in Held => o \in Held'
  BY LedgerStep DEF Held
<1>2. ASSUME op[o].status = "reconciled", op'[o] # op[o] PROVE op'[o].status = "reconciled"
  <2>1. ~CreateIntent(o) /\ ~RebuildProjection(o)
    BY <1>2 DEF CreateIntent, Draft, RebuildProjection, Rebuildable, Inspected, Repaired
  <2>2. PICK p \in Procs : OpOf(p) = o /\ Writes(p)
    BY <1>2, <2>1, RowStep
  <2> QED
    BY <1>2, <2>2, StatusWritten
<1> QED
  BY <1>1, <1>2

\* An operation whose transfers exist is listed by every audit.
LEMMA HeldIsListed ==
    ASSUME OperationInv, NEW o \in Held
    PROVE  op[o].status \in ListedStatuses
<1>1. op[o].identified /\ op[o].status \in OpStatuses /\ op[o].status # "rejected"
  BY DEF Held, OperationInv, FinancialTypeOK, OpRow, TransfersAreIdentified, BooksAgreeWithLedger
<1>2. op[o].status # "absent"
  BY <1>1 DEF Held, OperationInv, UnknownIsUntouched, AbsentOp
<1> QED
  BY <1>1, <1>2 DEF ListedStatuses, OpStatuses, Decided

\* What is published the provider holds, and its event is in the outbox.
LEMMA ReconciledIsHeld ==
    ASSUME OperationInv, NEW o \in Ops, op[o].status = "reconciled"
    PROVE  o \in Held /\ o \in outbox /\ journal[o] = "posted"
BY DEF OperationInv, PublishedTogether, BooksAgreeWithLedger, Held

-----------------------------------------------------------------------------
\* The inductive step.

\* A step of the protocol, taken while auditors are at work.
LEMMA ProtocolStep ==
    ASSUME AuditInv, [FinancialNext]_vars, UNCHANGED auditVars
    PROVE  AuditInv'
<1> USE DEF AuditInv, auditVars
<1>1. OperationInv /\ OperationInv'
  BY OperationStep
<1>2. AuditTypeOK'
  BY DEF AuditTypeOK
<1>3. AuditsSeeTheLedger' /\ CleanAuditsAreRight'
  BY <1>1, ForGood DEF AuditsSeeTheLedger, CleanAuditsAreRight, Covered, Held
<1>4. CheckpointIsSound'
  BY <1>1, ForGood, ReconciledIsHeld DEF CheckpointIsSound, Covered, OperationInv, PublishedTogether
<1>5. SourcesStand'
  <2> SUFFICES ASSUME NEW o \in Ops, op'[o].status # "absent", NEW s \in ReversalOf[o]
               PROVE  op'[s].status = "reconciled"
    BY DEF SourcesStand
  <2>1. s \in Ops
    BY FinancialAssumption
  <2>2. CASE op[o].status # "absent"
    BY <1>1, <2>1, <2>2, ForGood DEF SourcesStand
  <2>3. CASE op[o].status = "absent"
    <3>1. CreateIntent(o)
      <4>1. ASSUME NEW p \in Procs, OpOf(p) = o, Writes(p) PROVE FALSE
        BY <1>1, <2>3, <4>1, RowWritten, Working DEF OperationInv, RunsKnowTheLedger
      <4>2. ~RebuildProjection(o)
        BY <2>3 DEF RebuildProjection, Rebuildable, Inspected, Repaired
      <4> QED
        BY <1>1, <2>3, <4>1, <4>2, RowStep
    <3>2. op[s].status = "reconciled"
      BY <3>1 DEF CreateIntent, Reversible
    <3> QED
      BY <1>1, <2>1, <3>2, ForGood
  <2> QED
    BY <2>2, <2>3
<1> QED
  BY <1>1, <1>2, <1>3, <1>4, <1>5

\* A step of an auditor.
LEMMA AuditorStep ==
    ASSUME AuditInv, NEW a \in Auditors, AuditStep(a), UNCHANGED vars
    PROVE  AuditInv'
<1> DEFINE old == audit[a]
<1> USE DEF AuditInv, Learns
<1>1. OperationInv /\ OperationInv' /\ SourcesStand'
  <2>1. [FinancialNext]_vars
    BY DEF vars
  <2>2. OperationInv'
    BY <2>1, OperationStep
  <2> QED
    BY <2>2 DEF vars, accountingVars, SourcesStand
<1>2. UNCHANGED <<op, ledger, outbox>> /\ UNCHANGED Held
  BY DEF vars, accountingVars, providerVars, Held
<1>3. NoAudit \in [pc : AuditSteps, source : SUBSET (Ops \X OpStatuses), target : SUBSET Ops,
                   listed : SUBSET Ops, todo : SUBSET Ops, clean : BOOLEAN]
      /\ Covered(NoAudit) = {} /\ NoAudit.pc = "idle"
  BY DEF NoAudit, AuditSteps, Covered
<1>4. ASSUME NEW row, audit' = [audit EXCEPT ![a] = row], UNCHANGED checkpoints,
             row \in [pc : AuditSteps, source : SUBSET (Ops \X OpStatuses), target : SUBSET Ops,
                      listed : SUBSET Ops, todo : SUBSET Ops, clean : BOOLEAN],
             Covered(row) \subseteq Held,
             row.pc \in {"compare", "store"} /\ row.clean =>
                 \A o \in Covered(row) : op[o].status = "reconciled"
      PROVE  AuditInv'
  <2>1. AuditTypeOK'
    BY <1>4 DEF AuditTypeOK
  <2>2. \A b \in Auditors : audit'[b] = IF b = a THEN row ELSE audit[b]
    BY <1>4 DEF AuditTypeOK
  <2>3. AuditsSeeTheLedger' /\ CleanAuditsAreRight'
    BY <1>2, <1>4, <2>2 DEF AuditsSeeTheLedger, CleanAuditsAreRight, Covered
  <2>4. CheckpointIsSound'
    BY <1>2, <1>4 DEF CheckpointIsSound, Covered
  <2> QED
    BY <1>1, <2>1, <2>3, <2>4
<1>5. CASE EndsAudit(a)
  BY <1>3, <1>4, <1>5 DEF EndsAudit
<1>6. old \in [pc : AuditSteps, source : SUBSET (Ops \X OpStatuses), target : SUBSET Ops,
               listed : SUBSET Ops, todo : SUBSET Ops, clean : BOOLEAN]
      /\ Covered(old) \subseteq Held
      /\ (old.pc \in {"compare", "store"} /\ old.clean => \A o \in Covered(old) : op[o].status = "reconciled")
  BY DEF AuditTypeOK, AuditsSeeTheLedger, CleanAuditsAreRight
<1>7. CASE CollectSource(a)
  <2> DEFINE row == [NoAudit EXCEPT !.pc = "target", !.source = SourceWatermark]
  <2>0. NoAudit.target = {}
    BY DEF NoAudit
  <2>1. row.pc = "target" /\ row.source = SourceWatermark /\ row.target = {}
    BY <1>3, <2>0
  <2>2. SourceWatermark \subseteq Ops \X OpStatuses
    BY DEF SourceWatermark, OpStatuses, Pending, Decided
  <2>3. Covered(row) \subseteq Held
    BY <2>1, <1>1 DEF Covered, SourceWatermark, OperationInv, BooksAgreeWithLedger, Held
  <2>4. row \in [pc : AuditSteps, source : SUBSET (Ops \X OpStatuses), target : SUBSET Ops,
                 listed : SUBSET Ops, todo : SUBSET Ops, clean : BOOLEAN]
    BY <1>3, <2>2 DEF AuditSteps
  <2>5. audit' = [audit EXCEPT ![a] = row] /\ UNCHANGED checkpoints
    BY <1>7 DEF CollectSource
  <2> HIDE DEF row
  <2> QED
    BY <1>4, <2>1, <2>3, <2>4, <2>5
<1>8. CASE CollectTarget(a)
  <2> DEFINE row == [old EXCEPT !.pc = "confirm", !.target = Held]
  <2>1. /\ row.pc = "confirm" /\ row.source = old.source /\ row.target = Held
        /\ row \in [pc : AuditSteps, source : SUBSET (Ops \X OpStatuses), target : SUBSET Ops,
                    listed : SUBSET Ops, todo : SUBSET Ops, clean : BOOLEAN]
    BY <1>6 DEF AuditSteps, Held
  <2>2. Covered(row) \subseteq Held
    BY <1>6, <2>1 DEF Covered
  <2>3. audit' = [audit EXCEPT ![a] = row] /\ UNCHANGED checkpoints
    BY <1>8 DEF CollectTarget
  <2> HIDE DEF row
  <2> QED
    BY <1>4, <2>1, <2>2, <2>3
<1>9. ASSUME NEW pc \in AuditSteps \ {"compare", "store"},
             Learns(a, [old EXCEPT !.pc = pc]), UNCHANGED checkpoints
      PROVE  AuditInv'
  <2> DEFINE row == [old EXCEPT !.pc = pc]
  <2>1. /\ row.pc = pc /\ row.source = old.source /\ row.target = old.target
        /\ row \in [pc : AuditSteps, source : SUBSET (Ops \X OpStatuses), target : SUBSET Ops,
                    listed : SUBSET Ops, todo : SUBSET Ops, clean : BOOLEAN]
    BY <1>6
  <2>2. Covered(row) \subseteq Held
    BY <1>6, <2>1 DEF Covered
  <2>3. audit' = [audit EXCEPT ![a] = row]
    BY <1>9
  <2>4. row.pc \notin {"compare", "store"}
    BY <2>1
  <2> HIDE DEF row
  <2> QED
    BY <1>4, <1>9, <2>1, <2>2, <2>3, <2>4
<1>10. CASE ConfirmSource(a)
  BY <1>5, <1>9, <1>10 DEF ConfirmSource, AuditSteps
<1>11. CASE FindCheckpoint(a)
  BY <1>5, <1>9, <1>11 DEF FindCheckpoint, AuditSteps
<1>12. CASE ListOperations(a)
  <2> DEFINE listed == {o \in Ops : op[o].status \in ListedStatuses}
             clean == \A o \in listed : op[o].status = "reconciled"
             row == [old EXCEPT !.pc = "compare", !.listed = listed, !.todo = listed, !.clean = clean]
  <2>1. clean \in BOOLEAN /\ listed \in SUBSET Ops /\ "compare" \in AuditSteps
    BY DEF AuditSteps
  <2>2. audit' = [audit EXCEPT ![a] = row] /\ UNCHANGED checkpoints
    BY <1>12 DEF ListOperations
  <2>3. clean => \A o \in Covered(old) : op[o].status = "reconciled"
    BY <1>1, <1>6, HeldIsListed DEF Covered
  <2> HIDE DEF listed, clean
  <2>4. /\ row.pc = "compare" /\ row.source = old.source /\ row.target = old.target /\ row.clean = clean
        /\ row \in [pc : AuditSteps, source : SUBSET (Ops \X OpStatuses), target : SUBSET Ops,
                    listed : SUBSET Ops, todo : SUBSET Ops, clean : BOOLEAN]
    BY <1>6, <2>1
  <2>5. Covered(row) = Covered(old)
    BY <2>4 DEF Covered
  <2> HIDE DEF row
  <2> QED
    BY <1>4, <1>6, <2>2, <2>3, <2>4, <2>5
<1>13. ASSUME NEW pc \in {"compare", "store"}, NEW clean \in BOOLEAN, NEW todo \in SUBSET Ops,
              old.pc = "compare", clean => old.clean,
              Learns(a, [old EXCEPT !.pc = pc, !.todo = todo, !.clean = clean]), UNCHANGED checkpoints
       PROVE  AuditInv'
  <2> DEFINE row == [old EXCEPT !.pc = pc, !.todo = todo, !.clean = clean]
  <2>1. /\ row.pc = pc /\ row.source = old.source /\ row.target = old.target /\ row.clean = clean
        /\ row \in [pc : AuditSteps, source : SUBSET (Ops \X OpStatuses), target : SUBSET Ops,
                    listed : SUBSET Ops, todo : SUBSET Ops, clean : BOOLEAN]
    BY <1>6 DEF AuditSteps
  <2>2. Covered(row) = Covered(old)
    BY <2>1 DEF Covered
  <2>3. audit' = [audit EXCEPT ![a] = row]
    BY <1>13
  <2>4. row.clean => \A o \in Covered(row) : op[o].status = "reconciled"
    BY <1>6, <1>13, <2>1, <2>2
  <2> HIDE DEF row
  <2> QED
    BY <1>4, <1>6, <1>13, <2>1, <2>2, <2>3, <2>4
<1>14. CASE CompareOperation(a)
  <2>1. PICK o \in old.todo, answered \in BOOLEAN :
            Learns(a, [old EXCEPT !.todo = @ \ {o}, !.clean = @ /\ answered /\ o \in Held])
    BY <1>14 DEF CompareOperation
  <2> DEFINE todo == old.todo \ {o}
             clean == old.clean /\ answered /\ o \in Held
  <2>2. todo \in SUBSET Ops /\ clean \in BOOLEAN /\ (clean => old.clean) /\ old.pc = "compare"
    BY <1>6, <1>14 DEF CompareOperation, Audits
  <2>3. Learns(a, [old EXCEPT !.pc = "compare", !.todo = todo, !.clean = clean])
    BY <1>6, <2>1, <2>2
  <2> HIDE DEF todo, clean
  <2> QED
    BY <1>13, <1>14, <2>2, <2>3 DEF CompareOperation
<1>15. CASE CompareBalances(a)
  <2>1. PICK answered \in BOOLEAN :
            Learns(a, [old EXCEPT !.pc = "store",
                           !.clean = @ /\ (old.listed # {} => answered /\ Moved(old.listed) = Moved(Held))])
    BY <1>15 DEF CompareBalances, Posted
  <2> DEFINE todo == old.todo
             clean == old.clean /\ (old.listed # {} => answered /\ Moved(old.listed) = Moved(Held))
  <2>2. todo \in SUBSET Ops /\ clean \in BOOLEAN /\ (clean => old.clean) /\ old.pc = "compare"
    BY <1>6, <1>15 DEF CompareBalances, Audits
  <2>3. [old EXCEPT !.pc = "store", !.clean = clean] = [old EXCEPT !.pc = "store", !.todo = todo, !.clean = clean]
    BY <1>6
  <2>4. Learns(a, [old EXCEPT !.pc = "store", !.todo = todo, !.clean = clean])
    BY <2>1, <2>3
  <2> HIDE DEF todo, clean
  <2> QED
    BY <1>13, <1>15, <2>2, <2>4 DEF CompareBalances
<1>16. CASE StoreCheckpoint(a)
  <2>1. CASE UNCHANGED checkpoints
    BY <1>3, <1>4, <1>16, <2>1 DEF StoreCheckpoint
  <2> DEFINE status == IF old.clean THEN "verified" ELSE "blocked"
             new == [source |-> old.source, target |-> old.target, status |-> status]
  <2>2. CASE checkpoints' = checkpoints \union {new}
    <3>1. /\ new.status = "verified" => old.clean
          /\ Covered(new) = Covered(old) /\ old.pc = "store"
          /\ new \in [source : SUBSET (Ops \X OpStatuses), target : SUBSET Ops,
                      status : {"verified", "blocked"}]
      BY <1>6, <1>16 DEF StoreCheckpoint, Audits, Covered
    <3>2. AuditTypeOK'
      BY <1>3, <1>16, <2>2, <3>1 DEF StoreCheckpoint, AuditTypeOK
    <3>3. \A b \in Auditors : audit'[b] = IF b = a THEN NoAudit ELSE audit[b]
      BY <1>16 DEF StoreCheckpoint, AuditTypeOK
    <3>4. AuditsSeeTheLedger' /\ CleanAuditsAreRight'
      BY <1>2, <1>3, <3>3 DEF AuditsSeeTheLedger, CleanAuditsAreRight, Covered
    <3>5. \A k \in checkpoints' : k.status = "verified" =>
              \A o \in Covered(k) : op[o].status = "reconciled"
      BY <1>6, <2>2, <3>1 DEF CheckpointIsSound, Covered
    <3>6. \A k \in checkpoints' : k.status = "verified" =>
              \A o \in Covered(k) : op'[o].status = "reconciled" /\ o \in outbox' /\ o \in Held'
      BY <1>1, <1>2, <3>5, ReconciledIsHeld DEF Covered
    <3>7. CheckpointIsSound'
      BY <3>6 DEF CheckpointIsSound, Covered
    <3> QED
      BY <1>1, <3>2, <3>4, <3>7
  <2> QED
    BY <1>16, <2>1, <2>2 DEF StoreCheckpoint, Verdict
<1>17. CASE AuditFails(a)
  BY <1>5, <1>17 DEF AuditFails
<1> QED
  BY <1>7, <1>8, <1>10, <1>11, <1>12, <1>14, <1>15, <1>16, <1>17 DEF AuditStep

\* Every step of the protocol and of the auditors preserves AuditInv.
LEMMA AuditInvStep == AuditInv /\ [AuditNext]_<<vars, auditVars>> => AuditInv'
<1>1. ASSUME AuditInv, UNCHANGED <<vars, auditVars>> PROVE AuditInv'
  <2>1. [FinancialNext]_vars /\ UNCHANGED auditVars
    BY <1>1
  <2> QED
    BY <1>1, <2>1, ProtocolStep
<1> QED
  BY <1>1, ProtocolStep, AuditorStep DEF AuditNext

-----------------------------------------------------------------------------
(* The theorems *)

\* Auditors that scan books and provider one after the other, while both move on,
\* see only what stays true, and list every operation the provider held by then.
THEOREM AuditInvariant == AuditSpec => []AuditInv
<1>1. AuditInit => AuditInv
  <2> SUFFICES ASSUME AuditInit PROVE AuditInv
    OBVIOUS
  <2>1. OperationInv
    BY OperationInit DEF AuditInit
  <2>2. AuditTypeOK /\ AuditsSeeTheLedger /\ CleanAuditsAreRight
    BY DEF AuditInit, AuditTypeOK, AuditSteps, AuditsSeeTheLedger, CleanAuditsAreRight, NoAudit, Covered
  <2>3. SourcesStand /\ CheckpointIsSound
    BY DEF AuditInit, FinancialInit, AbsentOp, SourcesStand, CheckpointIsSound
  <2> QED
    BY <2>1, <2>2, <2>3 DEF AuditInv
<1> QED
  BY <1>1, AuditInvStep, PTL DEF AuditSpec

\* A verified checkpoint vouches for everything its watermarks cover, however
\* long ago it was stored.
THEOREM CheckpointAlwaysSound == AuditSpec => []CheckpointIsSound
<1>1. AuditInv => CheckpointIsSound
  BY DEF AuditInv
<1> QED
  BY <1>1, AuditInvariant, PTL

\* The provider holds nothing that takes back what was not posted, nor is it
\* asked to.
THEOREM ReversalsAlwaysStand == AuditSpec => []ReversalsStand
<1>1. ASSUME AuditInv PROVE ReversalsStand
  <2> SUFFICES ASSUME NEW o \in Ops, o \in Held \/ o \in posting, NEW s \in ReversalOf[o]
               PROVE  s \in Held /\ journal[s] = "posted" /\ s \in outbox
    BY DEF ReversalsStand
  <2>1. OperationInv /\ s \in Ops
    BY <1>1, FinancialAssumption DEF AuditInv
  <2>2. op[o].status # "absent"
    BY <2>1 DEF OperationInv, TransfersAreIdentified, UnknownIsUntouched, AbsentOp, Held
  <2>3. op[s].status = "reconciled"
    BY <1>1, <2>2 DEF AuditInv, SourcesStand
  <2> QED
    BY <2>1, <2>3, ReconciledIsHeld
<1> QED
  BY <1>1, AuditInvariant, PTL

\* Checkpoints or not, a closed period has no pending operation.
THEOREM ClosedBesideAudits == AuditSpec => []ClosedIsSettled
BY AuditsOnlyLook, ClosedAlwaysSettled, PTL

=============================================================================
