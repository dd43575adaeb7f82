--------------------------- MODULE Reconciliation ---------------------------
(***************************************************************************)
(* Reconciliation checkpoints: reconcileFinancialCheckpoint of             *)
(* modules/accounting/src/financial-operations.ts, beside the commands and *)
(* the workers of FinancialOperations.                                     *)
(*                                                                         *)
(* An auditor looks at the books and at the provider, one statement or one *)
(* call after the other and without a lock, while both move on.  Its       *)
(* verdict is stored under the watermarks it took first, and whoever finds *)
(* the same watermarks later is given the stored verdict.                  *)
(*                                                                         *)
(* Auditors are processes deployed with TigerBeetle, whose accounts exist  *)
(* and are shared by all operations.  A call names no evidence artifact    *)
(* and no watermarks of its own: either would only be another refusal.     *)
(* The three statements that a scan of the books consists of count as one: *)
(* what is torn between them is refused when the scan is repeated.         *)
(***************************************************************************)
EXTENDS FinancialOperations, FiniteSets

CONSTANTS
    Auditors,          \* calls of reconcileFinancialCheckpoint that run at a time
    MaxCheckpoints     \* bound: how many checkpoints are stored before the calls cease

VARIABLES
    audit,         \* what each auditor has seen so far
    checkpoints    \* accounting.financial_reconciliation_checkpoints

auditVars == <<audit, checkpoints>>

NoAudit == [pc |-> "idle", source |-> {}, target |-> {}, listed |-> {}, todo |-> {}, clean |-> TRUE]

AuditSteps == {"idle", "target", "confirm", "find", "list", "compare", "store"}

\* A scan of the books sees what was accepted and whether it is published.
SourceWatermark ==
    {<<o, op[o].status>> : o \in {q \in Ops : op[q].status \in {"accepted", "reconciled"}}}

\* A scan of the provider sees all its transfers.
Held == {o \in Ops : ledger[o] = "accepted"}

Audits(a, pc) == audit[a].pc = pc

Learns(a, row) == audit' = [audit EXCEPT ![a] = row]

\* The call is over, with an answer or a failure.
EndsAudit(a) == Learns(a, NoAudit) /\ UNCHANGED checkpoints

----------------------------------------------------------------------------

CollectSource(a) ==
    /\ Audits(a, "idle") /\ Cardinality(checkpoints) < MaxCheckpoints
    /\ Learns(a, [NoAudit EXCEPT !.pc = "target", !.source = SourceWatermark])
    /\ UNCHANGED checkpoints

CollectTarget(a) ==
    /\ Audits(a, "target")
    /\ Learns(a, [audit[a] EXCEPT !.pc = "confirm", !.target = Held])
    /\ UNCHANGED checkpoints

\* The books are scanned again and must not have moved.
ConfirmSource(a) ==
    /\ Audits(a, "confirm")
    /\ IF SourceWatermark = audit[a].source
       THEN Learns(a, [audit[a] EXCEPT !.pc = "find"]) /\ UNCHANGED checkpoints
       ELSE EndsAudit(a)

\* The checkpoints of the watermarks an auditor has taken: none or one.
Existing(a) == {k \in checkpoints : k.source = audit[a].source /\ k.target = audit[a].target}

FindCheckpoint(a) ==
    /\ Audits(a, "find")
    /\ IF Existing(a) # {} THEN EndsAudit(a)
       ELSE Learns(a, [audit[a] EXCEPT !.pc = "list"]) /\ UNCHANGED checkpoints

\* Mutant of ListedStatuses: undecided operations are forgotten.
ListedWithoutUnknown == {"intent", "submitted", "accepted", "manual_recovery", "reconciled"}

ListedStatuses == Pending \union {"manual_recovery", "reconciled"}

\* Operations and the status of their journals, in one statement.  Only a
\* reconciled one agrees with any answer of the provider: the journal of an
\* accepted one is still a draft.
ListOperations(a) ==
    /\ Audits(a, "list")
    /\ LET listed == {o \in Ops : op[o].status \in ListedStatuses}
       IN Learns(a, [audit[a] EXCEPT !.pc = "compare", !.listed = listed, !.todo = listed,
                                     !.clean = \A o \in listed : op[o].status = "reconciled"])
    /\ UNCHANGED checkpoints

\* reconcileJournal for one operation; no answer is a mismatch like any other.
CompareOperation(a) ==
    /\ Audits(a, "compare")
    /\ \E o \in audit[a].todo, answered \in BOOLEAN :
           Learns(a, [audit[a] EXCEPT !.todo = @ \ {o},
                                      !.clean = @ /\ answered /\ o \in Held])
    /\ UNCHANGED checkpoints

\* What a set of operations has moved, and what its reversals have moved back.
Moved(ops) == <<Cardinality({o \in ops : ReversalOf[o] = {}}),
                Cardinality({o \in ops : ReversalOf[o] # {}})>>

\* getBalance: what the provider has posted to the accounts.
Posted == Moved(Held)

\* The balances of the accounts of the listed operations: what the lines of these
\* operations add up to against what the provider answers.
CompareBalances(a) ==
    /\ Audits(a, "compare") /\ audit[a].todo = {}
    /\ LET listed == audit[a].listed
       IN \E answered \in BOOLEAN :
              Learns(a, [audit[a] EXCEPT
                  !.pc = "store",
                  !.clean = @ /\ (listed # {} => answered /\ Moved(listed) = Posted)])
    /\ UNCHANGED checkpoints

\* What buildReconciliationAssessment decides.
Verdict(a) == IF audit[a].clean THEN "verified" ELSE "blocked"

\* Who loses the unique key is given the checkpoint that won it.
StoreCheckpoint(a) ==
    /\ Audits(a, "store")
    /\ Learns(a, NoAudit)
    /\ IF Existing(a) # {} THEN UNCHANGED checkpoints
       ELSE checkpoints' = checkpoints \union
               {[source |-> audit[a].source, target |-> audit[a].target,
                 status |-> Verdict(a)]}

\* The store or the provider cannot be scanned, or the process ends.
AuditFails(a) == ~Audits(a, "idle") /\ EndsAudit(a)

----------------------------------------------------------------------------

AuditInit ==
    /\ FinancialInit
    /\ audit = [a \in Auditors |-> NoAudit]
    /\ checkpoints = {}

AuditStep(a) ==
    \/ CollectSource(a) \/ CollectTarget(a) \/ ConfirmSource(a) \/ FindCheckpoint(a)
    \/ ListOperations(a) \/ CompareOperation(a) \/ CompareBalances(a)
    \/ StoreCheckpoint(a) \/ AuditFails(a)

AuditNext ==
    \/ FinancialNext /\ UNCHANGED auditVars
    \/ (\E a \in Auditors : AuditStep(a)) /\ UNCHANGED vars

AuditSpec == AuditInit /\ [][AuditNext]_<<vars, auditVars>>

=============================================================================
