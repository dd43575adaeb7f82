---------------------------- MODULE Integrations ----------------------------
(***************************************************************************)
(* The integrations beside the process runtime (modules/integrations/src): *)
(* the PostgreSQL stores of connectors, their audits and the evidence of   *)
(* deliveries (governance-store, reliability-store), statement by          *)
(* statement, and the runtime that invokes external actions and takes in   *)
(* webhooks (runtime, https-runtime), whose store is in the memory of the  *)
(* process.                                                                *)
(*                                                                         *)
(* Inputs that fail validation, authorization or the limits on payloads    *)
(* are refused before anything is read, and are left out.  A payload is    *)
(* part of the subject of what it belongs to.                              *)
(***************************************************************************)
EXTENDS ProcessRuntime

CONSTANTS Connectors, AuditKeys, ReplayKeys,
          InvocationKeys,
          Events,          \* events of a source, by their identity
          MaxAttempts,     \* of a delivery, and of an invocation (the catalog's retry policy)
          Scenes,          \* of requests: those of one scene are called in a behaviour
          MaxRestarts      \* bound on the restarts of the process

VARIABLES invocations,  \* the receipt of each invocation
          ingested,     \* the delivery log: how each event was last taken in
          restarts

integrationVars == <<invocations, ingested, restarts>>
vars == <<sessionVars, integrationVars>>

ConnectorRow(n) == <<"connector", n>>
GovernanceAuditRow(k) == <<"governance audit", k>>
ReliabilityRow(k) == <<"reliability", k>>

IntegrationRows == {ConnectorRow(n) : n \in Connectors}
                   \cup {GovernanceAuditRow(k) : k \in AuditKeys}
                   \cup {ReliabilityRow(k) : k \in ReplayKeys}

Transitions == {"review", "activate", "retire"}
Governing == {"register", "control"} \cup Transitions

ASSUME IntegrationAssumption ==
  /\ NoRow \notin IntegrationRows
  /\ Scenes \subseteq SUBSET Requests
  /\ \A q \in Requests :
       /\ q.op \in RuntimeOps \cup Governing \cup {"evidence", "invoke", "webhook"}
       /\ RuntimeCall(q)
       /\ q.op \in Governing => q.connector \in Connectors /\ q.key \in AuditKeys
       /\ q.op = "evidence" => q.key \in ReplayKeys
       /\ q.op = "invoke" => q.key \in InvocationKeys
       /\ q.op = "webhook" => q.event \in Events

-----------------------------------------------------------------------------
(* ExternalGovernanceStore: register, transition, recordDeliveryControl.    *)
(* Each looks for the audit of its key, locks the connector, and writes    *)
(* its audit.                                                              *)

AuditAction == [register |-> "registered", review |-> "reviewed", activate |-> "activated",
                retire |-> "retired", control |-> "delivery_control"]

AuditOf(q) == [status |-> "recorded", connector |-> q.connector, action |-> AuditAction[q.op]]

CallGovernance(c, q) ==
  q.op \in Governing /\ Begin(c, q, "find", GovernanceAuditRow(q.key), <<q>>)

Governs(c) == session[c].call # NoCall /\ Asked(c).op \in Governing

(* The key of a transition answers for any other of the same connector.    *)
Replays(audit, q) ==
  IF q.op \in Transitions THEN audit.connector = q.connector ELSE audit = AuditOf(q)

FindAudit(c) ==
  /\ Ready(c, "find") /\ Governs(c)
  /\ LET q == Asked(c)
         r == session[c].row
     IN  IF ~Present(r) THEN Goes(c, <<>>, "again", ConnectorRow(q.connector))
         ELSE IF Replays(db[r], q) THEN Done(c, <<>>)
         ELSE Refuse(c, "conflict")

Writes(c, connector) ==
  Goes(c, RowIs(ConnectorRow(Asked(c).connector), connector), "record",
       GovernanceAuditRow(Asked(c).key))

LockNew(c) ==
  /\ Ready(c, "again") /\ At(c, "register")
  /\ IF Present(session[c].row) THEN Refuse(c, "conflict")
     ELSE Proceed(c, <<>>, "record", session[c].row, <<[op |-> "insert connector"]>>)

InsertConnector(c) ==
  /\ Ready(c, "record") /\ At(c, "insert connector")
  /\ IF Present(session[c].row) THEN Refuse(c, "unknown")
     ELSE Proceed(c, RowIs(session[c].row, [status |-> "draft"]), "record",
                  GovernanceAuditRow(Asked(c).key), <<Asked(c)>>)

From == [review |-> {"draft"}, activate |-> {"reviewed"}, retire |-> {"draft", "reviewed", "active"}]
Becomes == [review |-> "reviewed", activate |-> "active", retire |-> "retired"]

(* Mutant: the connector is read without FOR UPDATE.                       *)
ApplyTransitionUnlocked(c) ==
  /\ session[c].at = "again" /\ session[c].row[1] = "connector" /\ Asked(c).op \in Transitions
  /\ LET status == db[session[c].row].status
         op == Asked(c).op
     IN  CASE status = Absent -> Refuse(c, "missing")
           [] status = "retired" -> Refuse(c, "retired")
           [] status \in From[op] -> Writes(c, [status |-> Becomes[op]])
           [] OTHER -> Refuse(c, IF op = "review" THEN "conflict" ELSE "not reviewed")

ApplyTransition(c) ==
  /\ Ready(c, "again") /\ session[c].row[1] = "connector" /\ Asked(c).op \in Transitions
  /\ LET status == db[session[c].row].status
         op == Asked(c).op
     IN  CASE status = Absent -> Refuse(c, "missing")
           [] status = "retired" -> Refuse(c, "retired")
           [] status \in From[op] -> Writes(c, [status |-> Becomes[op]])
           [] OTHER -> Refuse(c, IF op = "review" THEN "conflict" ELSE "not reviewed")

ControlDelivery(c) ==
  /\ Ready(c, "again") /\ At(c, "control")
  /\ LET r == session[c].row IN
     CASE ~Present(r) -> Refuse(c, "missing")
       [] db[r].status = "retired" -> Refuse(c, "retired")
       [] OTHER -> Goes(c, <<>>, "record", GovernanceAuditRow(Asked(c).key))

(* Who loses the key of an audit fails, with whatever else it wrote.       *)
InsertAudit(c) ==
  /\ Ready(c, "record") /\ session[c].row[1] = "governance audit"
  /\ IF Present(session[c].row) THEN Refuse(c, "unknown")
     ELSE Done(c, RowIs(session[c].row, AuditOf(Asked(c))))

-----------------------------------------------------------------------------
(* ExternalReliabilityStore: record.                                       *)

(* assessExternalDelivery. *)
DeliveryState(provider, attempts) ==
  IF provider = "accepted" THEN "accepted"
  ELSE IF attempts >= MaxAttempts THEN "dead_letter" ELSE "retry"

Candidate(q) ==
  [status |-> "recorded", subject |-> q.subject, provider |-> q.provider,
   attempts |-> q.attempts, state |-> DeliveryState(q.provider, q.attempts)]

CallEvidence(c, q) ==
  q.op = "evidence" /\ Begin(c, q, "record", ReliabilityRow(q.key), <<q>>)

(* INSERT ... ON CONFLICT DO NOTHING waits for who inserts the key, and     *)
(* locks nothing when it is there.                                         *)
InsertEvidence(c) ==
  /\ Ready(c, "record") /\ At(c, "evidence")
  /\ IF Present(session[c].row)
     THEN session' = [session EXCEPT ![c].at = "update"] /\ UNCHANGED <<db, answers, calls>>
     ELSE Done(c, RowIs(session[c].row, Candidate(Asked(c))))

MergeEvidence(c) ==
  /\ Ready(c, "update") /\ At(c, "evidence")
  /\ LET existing == db[session[c].row]
         candidate == Candidate(Asked(c))
     IN  IF existing.subject # candidate.subject THEN Refuse(c, "conflict")
         ELSE IF existing = candidate THEN Done(c, <<>>)
         ELSE IF existing.state # "retry" THEN Refuse(c, "conflict")
         ELSE IF candidate.attempts < existing.attempts THEN Done(c, <<>>)
         ELSE IF candidate.attempts = existing.attempts /\ candidate.state = "retry"
         THEN Refuse(c, "conflict")
         ELSE Done(c, RowIs(session[c].row, candidate))

-----------------------------------------------------------------------------
(* ExternalConnectorRuntime: invokeAction.  The receipt is looked up, the   *)
(* provider asked, and the receipt put: two calls of one key may both ask. *)

NoReceipt == [outcome |-> "none"]

CallInvoke(c, q) ==
  q.op = "invoke" /\ Begin(c, q, "look up", NoRow, <<q>>)

Attempt(c, n) == Proceed(c, <<>>, "invoke", NoRow, <<[op |-> "attempt", number |-> n]>>)

LookUpInvocation(c) ==
  /\ session[c].at = "look up"
  /\ LET receipt == invocations[Asked(c).key] IN
     CASE receipt = NoReceipt -> Attempt(c, 1)
       [] receipt # NoReceipt /\ receipt.action # Asked(c).action -> Refuse(c, "conflict")
       [] OTHER -> Refuse(c, IF receipt.outcome = "unknown" THEN "unknown outcome" ELSE "ok")

(* External: the provider accepts, fails for good, fails or is too late and *)
(* may be tried again, or leaves open what it did.  An output that does    *)
(* not decode leaves no receipt.                                           *)
Invoke(c) ==
  /\ session[c].at = "invoke"
  /\ \/ \E outcome \in {"accepted", "unknown"} :
          Proceed(c, <<>>, "put", NoRow, <<[op |-> outcome]>>)
     \/ Refuse(c, "invalid output")
     \/ LET n == Head(session[c].todo).number IN
        IF n < MaxAttempts THEN Attempt(c, n + 1) ELSE Refuse(c, "failed")
     \/ Refuse(c, "failed")

(* Mutant: an unknown outcome leaves no receipt.                           *)
PutAccepted(c) ==
  /\ session[c].at = "put"
  /\ LET outcome == Head(session[c].todo).op IN
     /\ invocations' = IF outcome = "unknown" THEN invocations
                       ELSE [invocations EXCEPT ![Asked(c).key] =
                               [outcome |-> outcome, action |-> Asked(c).action]]
     /\ Refuse(c, IF outcome = "unknown" THEN "unknown outcome" ELSE "ok")

PutInvocation(c) ==
  /\ session[c].at = "put"
  /\ LET outcome == Head(session[c].todo).op IN
     /\ invocations' = [invocations EXCEPT ![Asked(c).key] =
                          [outcome |-> outcome, action |-> Asked(c).action]]
     /\ Refuse(c, IF outcome = "unknown" THEN "unknown outcome" ELSE "ok")

-----------------------------------------------------------------------------
(* HttpsConnectorRuntime: ingestWebhook.  Once the signature is verified,   *)
(* or not in time, nothing waits: the event is taken in, and its delivery  *)
(* logged.                                                                 *)

CallWebhook(c, q) ==
  q.op = "webhook" /\ Begin(c, q, "verify", NoRow, <<q>>)

IngestWebhook(c) ==
  /\ session[c].at = "verify"
  /\ \/ Refuse(c, "invalid") /\ UNCHANGED ingested
     \/ LET duplicate == ingested[Asked(c).event] # "none" IN
        /\ ingested' = [ingested EXCEPT ![Asked(c).event] =
                          IF duplicate THEN "duplicate" ELSE "accepted"]
        /\ Refuse(c, IF duplicate THEN "duplicate" ELSE "ok")

-----------------------------------------------------------------------------

NoInvocations == [k \in InvocationKeys |-> NoReceipt]
NothingIngested == [e \in Events |-> "none"]

(* The process starts again; without a memory to lose it is as if its calls *)
(* were cut off.                                                           *)
Restart ==
  /\ restarts < MaxRestarts
  /\ invocations # NoInvocations \/ ingested # NothingIngested
  /\ restarts' = restarts + 1
  /\ invocations' = NoInvocations
  /\ ingested' = NothingIngested
  /\ session' = [c \in Clients |-> Idle]
  /\ UNCHANGED <<db, answers, calls>>

IntegrationInit ==
  /\ db = Over(Checkpoints, [r \in RuntimeRows \cup IntegrationRows |-> [status |-> Absent]])
  /\ session = [c \in Clients |-> Idle]
  /\ \E requests \in Scenes : answers = [q \in requests |-> {}]
  /\ calls = 0
  /\ invocations = NoInvocations
  /\ ingested = NothingIngested
  /\ restarts = 0

Calls(c) ==
  \E q \in DOMAIN answers :
    \/ CallDriver(c, q) \/ CallOperator(c, q) \/ CallRelease(c, q)
    \/ CallGovernance(c, q) \/ CallEvidence(c, q) \/ CallInvoke(c, q) \/ CallWebhook(c, q)

StoreStatement(c) ==
  \/ FindAudit(c) \/ LockNew(c) \/ InsertConnector(c) \/ ApplyTransition(c)
  \/ ControlDelivery(c) \/ InsertAudit(c) \/ InsertEvidence(c) \/ MergeEvidence(c)

IntegrationNext ==
  \/ \E c \in Clients :
       /\ \/ Calls(c) \/ RuntimeStatement(c) \/ StoreStatement(c) \/ CommitRuntime(c)
          \/ Abort(c) \/ DeadlockVictim(c) \/ LookUpInvocation(c) \/ Invoke(c)
       /\ UNCHANGED integrationVars
  \/ \E c \in Clients : PutInvocation(c) /\ UNCHANGED <<ingested, restarts>>
  \/ \E c \in Clients : IngestWebhook(c) /\ UNCHANGED <<invocations, restarts>>
  \/ Restart

IntegrationSpec == IntegrationInit /\ [][IntegrationNext]_vars
=============================================================================
