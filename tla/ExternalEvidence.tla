-------------------------- MODULE ExternalEvidence --------------------------
(***************************************************************************)
(* What the stores of the integrations promise: the lifecycle of a         *)
(* connector (modules/integrations/src/governance.ts), told by audits that *)
(* each have a key of their own, and the records of deliveries as the      *)
(* memory store keeps them (reliability-store.ts).  Everything happens at  *)
(* once; an answer is given when it happens, or is lost.                   *)
(***************************************************************************)
EXTENDS Naturals

CONSTANTS Unstored, MaxAttempts

VARIABLES connectors,  \* the status of each
          audits,      \* what was done under each key, and to which connector
          records,     \* of deliveries, by their replay key
          answers      \* the answers each request was given

stored == <<connectors, audits, records>>
evidenceVars == <<stored, answers>>

Told(q, action) == [status |-> "recorded", connector |-> q.connector, action |-> action]
Tells(q, action) == audits' = [audits EXCEPT ![q.key] = Told(q, action)]

RegisterConnector(q) ==
  \/ audits[q.key] = Told(q, "registered") /\ UNCHANGED stored
  \/ /\ audits[q.key] = Unstored /\ connectors[q.connector] = Unstored
     /\ connectors' = [connectors EXCEPT ![q.connector] = [status |-> "draft"]]
     /\ Tells(q, "registered")
     /\ UNCHANGED records

(* Where a transition leads; a connector can be retired at any time.       *)
From == [review |-> {"draft"}, activate |-> {"reviewed"}, retire |-> {"draft", "reviewed", "active"}]
Becomes == [review |-> "reviewed", activate |-> "active", retire |-> "retired"]
Action == [review |-> "reviewed", activate |-> "activated", retire |-> "retired"]

(* The key of anything that was done to the connector answers for it.      *)
Transition(q) ==
  \/ audits[q.key] # Unstored /\ audits[q.key].connector = q.connector /\ UNCHANGED stored
  \/ /\ audits[q.key] = Unstored /\ connectors[q.connector].status \in From[q.op]
     /\ connectors' = [connectors EXCEPT ![q.connector] = [status |-> Becomes[q.op]]]
     /\ Tells(q, Action[q.op])
     /\ UNCHANGED records

DeliveryControl(q) ==
  \/ audits[q.key] = Told(q, "delivery_control") /\ UNCHANGED stored
  \/ /\ audits[q.key] = Unstored
     /\ connectors[q.connector] # Unstored /\ connectors[q.connector].status # "retired"
     /\ Tells(q, "delivery_control")
     /\ UNCHANGED <<connectors, records>>

-----------------------------------------------------------------------------
(* Deliveries: a record may be replaced while it is to be tried again.     *)

DeliveryState(provider, attempts) ==
  IF provider = "accepted" THEN "accepted"
  ELSE IF attempts >= MaxAttempts THEN "dead_letter" ELSE "retry"

Candidate(q) ==
  [status |-> "recorded", subject |-> q.subject, provider |-> q.provider,
   attempts |-> q.attempts, state |-> DeliveryState(q.provider, q.attempts)]

Clash(existing, candidate) ==
  \/ existing.subject # candidate.subject
  \/ /\ existing # candidate
     /\ \/ existing.state # "retry"
        \/ existing.attempts = candidate.attempts /\ candidate.state = "retry"

Record(q) ==
  LET existing == records[q.key]
      candidate == Candidate(q)
  IN  \/ /\ existing # Unstored /\ ~Clash(existing, candidate)
         /\ existing = candidate \/ candidate.attempts < existing.attempts
         /\ UNCHANGED stored
      \/ /\ \/ existing = Unstored
            \/ /\ ~Clash(existing, candidate) /\ existing # candidate
               /\ candidate.attempts >= existing.attempts
         /\ records' = [records EXCEPT ![q.key] = candidate]
         /\ UNCHANGED <<connectors, audits>>

-----------------------------------------------------------------------------

Transitions == {"review", "activate", "retire"}

Happens(q) ==
  \/ q.op = "register" /\ RegisterConnector(q)
  \/ q.op \in Transitions /\ Transition(q)
  \/ q.op = "control" /\ DeliveryControl(q)
  \/ q.op = "evidence" /\ Record(q)

(* Why a call is refused. *)
Conflict(q) ==
  CASE q.op = "register" -> \/ audits[q.key] \notin {Unstored, Told(q, "registered")}
                            \/ connectors[q.connector] # Unstored
    [] q.op \in Transitions ->
         \/ audits[q.key] # Unstored /\ audits[q.key].connector # q.connector
         \/ q.op = "review" /\ connectors[q.connector].status \in {"reviewed", "active"}
    [] q.op = "control" -> audits[q.key] \notin {Unstored, Told(q, "delivery_control")}
    [] OTHER -> records[q.key] # Unstored /\ Clash(records[q.key], Candidate(q))

Governs(q) == q.op \in Transitions \cup {"control"}

Refused(q, reason) ==
  \/ reason = "unknown"
  \/ reason = "conflict" /\ Conflict(q)
  \/ reason = "missing" /\ Governs(q) /\ connectors[q.connector] = Unstored
  \/ reason = "retired" /\ Governs(q) /\ connectors[q.connector].status = "retired"
  \/ reason = "not reviewed" /\ q.op = "activate"
     /\ connectors[q.connector].status \in {"draft", "active"}

Init ==
  /\ \A n \in DOMAIN connectors : connectors[n] = Unstored
  /\ \A k \in DOMAIN audits : audits[k] = Unstored
  /\ \A k \in DOMAIN records : records[k] = Unstored
  /\ \A q \in DOMAIN answers : answers[q] = {}

Next ==
  \E q \in DOMAIN answers, answer \in {"ok", "unknown", "conflict", "missing", "retired", "not reviewed"} :
    /\ answers' = [answers EXCEPT ![q] = @ \cup {answer}]
    /\ \/ answer \in {"ok", "unknown"} /\ Happens(q)
       \/ Refused(q, answer) /\ UNCHANGED stored

Spec == Init /\ [][Next]_evidenceVars
=============================================================================
