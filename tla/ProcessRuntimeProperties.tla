---------------------- MODULE ProcessRuntimeProperties ----------------------
(***************************************************************************)
(* What holds of process instances, of what operators did to them and of   *)
(* releases, whatever calls run at once, are repeated, or are cut off.     *)
(***************************************************************************)
EXTENDS Integrations, FiniteSetsExt

Controls(i) == {k \in ControlKeys : Present(ControlRow(k)) /\ db[ControlRow(k)].instance = i}

\* The revision of an instance counts what was recorded in it and what operators
\* did to it: no update is lost or made twice between drivers and operators, no
\* control is recorded without its effect and none has an effect without being
\* recorded.
RevisionCountsAll ==
  \A i \in Instances : Present(CheckpointRow(i)) =>
    LET p == db[CheckpointRow(i)] IN
    p.revision = Recordings(p) + Cardinality(Controls(i))

\* Progress is never taken back: what was completed, consumed or scheduled, and
\* every step with its key, is in all later checkpoints (durable restart
\* recovery of ProcessCheckpointStore).
ProgressIsKept ==
  [][\A i \in Instances : Present(CheckpointRow(i)) =>
       LET p == db[CheckpointRow(i)]
           n == db'[CheckpointRow(i)]
       IN  /\ p.completed \subseteq n.completed /\ p.events \subseteq n.events
           /\ p.timers \subseteq n.timers /\ Len(p.steps) <= Len(n.steps)
           /\ \A j \in DOMAIN p.steps : SameStep(p.steps[j], n.steps[j])]_sessionVars

\* What call q asked for is stored, with its own input.
IsStored(q) ==
  /\ q.op = "operate" => Present(ControlRow(q.key)) /\ SameControl(db[ControlRow(q.key)], q)
  /\ q.op = "release" => Present(ReleaseRow(q.release)) /\ db[ReleaseRow(q.release)].by = q.by
  /\ q.op = "deploy" => LET r == DeploymentRow(q.release, q.environment) IN
                        Present(r) /\ db[r].by = q.by
  /\ q.op = "drive" => LET r == CheckpointRow(q.instance) IN
                       Present(r) /\ (q.record.kind # "start" => Known(db[r], q.record))

\* Who was told that a call succeeded finds it done with his own input: the
\* control of his action, his release, his deployment, his record.
RuntimeAnswersAreTrue == \A q \in DOMAIN answers : "ok" \in answers[q] => IsStored(q)

\* The audits of release d, and what they have to tell.
ToldOf(d) == IF Present(AuditRow(d)) THEN db[AuditRow(d)].told ELSE <<>>
ToTell(d) ==
  {Audit(e, db[DeploymentRow(d, e)].by) :
     e \in {e \in Environments : Present(DeploymentRow(d, e))}} \cup
  IF Present(ReleaseRow(d))
  THEN {Audit(event, db[ReleaseRow(d)].by) : event \in {"approval", "release"}} ELSE {}

\* The audits of a release tell its whole story once: who approved and released
\* it, and who deployed it to each environment where it runs.
AuditsTellAll == \A d \in Releases : IsInjective(ToldOf(d)) /\ ToSet(ToldOf(d)) = ToTell(d)

AuditEntries == {Audit(e, q.by) : e \in {"approval", "release"} \cup Environments,
                                  q \in {q \in Requests : q.op \in {"release", "deploy"}}}

\* Every row has the shape that its table gives it, the audits of a release are
\* there as soon as it is and before it is deployed, and a control acted on a
\* checkpoint.
RuntimeTypeOK ==
  /\ RuntimeRows \subseteq DOMAIN db
  /\ \A i \in Instances : Present(CheckpointRow(i)) =>
       LET p == db[CheckpointRow(i)] IN
       p \in CheckpointType /\ IsFiniteSet(p.events) /\ IsFiniteSet(p.timers)
  /\ \A i \in Instances : IsFiniteSet(Controls(i)) /\ (Controls(i) # {} => Present(CheckpointRow(i)))
  /\ \A d \in Releases :
       /\ Present(AuditRow(d)) <=> Present(ReleaseRow(d))
       /\ Present(AuditRow(d)) => db[AuditRow(d)] \in [status : {"kept"}, told : Seq(AuditEntries)]
       /\ \A e \in Environments : Present(DeploymentRow(d, e)) => Present(ReleaseRow(d))

\* The locks and the written rows of client c.
Holds(c, locks, rows) == session[c].locks = locks /\ DOMAIN session[c].mine = rows

\* Driver c has recorded x in checkpoint p: its next one is n.
Recording(p, x, n) ==
  /\ x.kind # "start" /\ ~Known(p, x) /\ ~Clashes(p, x)
  /\ n = Recorded(p, x)

\* What a driver is about to save is a new checkpoint, or the next one of what it
\* loaded, which may be overtaken by now.
Saves(c) ==
  LET q == session[c].call
      r == CheckpointRow(q.instance)
      p == Head(session[c].todo).checkpoint
  IN  /\ session[c].todo # <<>> /\ At(c, "save")
      /\ IF q.record.kind = "start" THEN p = NewCheckpoint
         ELSE /\ Present(r) /\ p.revision \in Nat /\ p.revision <= db[r].revision + 1
              /\ p.revision = db[r].revision + 1 => Recording(db[r], q.record, p)

DriverIsAt(c) ==
  LET q == session[c].call
      r == CheckpointRow(q.instance)
      s == session[c]
  IN  \/ s.at = "load" /\ s.row = NoRow /\ Holds(c, {}, {})
      \/ s.at = "find" /\ s.row = r /\ Holds(c, {}, {}) /\ Saves(c)
      \/ s.at = "record" /\ s.row = r /\ Holds(c, {}, {}) /\ Saves(c) /\ q.record.kind = "start"
      \/ /\ s.at = "done" /\ Holds(c, {r}, {r})
         /\ IF Present(r) THEN Recording(db[r], q.record, s.mine[r])
            ELSE q.record.kind = "start" /\ s.mine[r] = NewCheckpoint

\* The checkpoint as the operator has left it, not committed yet.
ActedOn(c) ==
  LET q == session[c].call
      r == CheckpointRow(q.instance)
  IN  Present(r) /\ Offered(db[r])[q.action] /\ session[c].mine[r] = Operated(db[r], q.action)

OperatorIsAt(c) ==
  LET q == session[c].call
      r == CheckpointRow(q.instance)
      k == ControlRow(q.key)
      s == session[c]
      asks == s.todo = <<q>>
      replays == Present(k) /\ SameControl(db[k], q)
  IN  \/ s.at = "find" /\ s.row = k /\ asks /\ Holds(c, {}, {})
      \/ s.at = "update" /\ s.row = r /\ asks /\ Holds(c, {}, {})
      \/ s.at = "update" /\ s.row = r /\ s.todo = <<[op |-> "replay"]>> /\ Holds(c, {k}, {}) /\ replays
      \/ s.at = "record" /\ s.row = k /\ asks /\ Holds(c, {r}, {r}) /\ ActedOn(c)
      \/ /\ s.at = "done" /\ DOMAIN s.mine = {} /\ replays
         /\ s.locks \subseteq {k, r} /\ (r \in s.locks => Present(r))
      \/ /\ s.at = "done" /\ Holds(c, {r, k}, {r, k}) /\ ActedOn(c)
         /\ ~Present(k) /\ s.mine[k] = ControlOf(q)

ReleaserIsAt(c) ==
  LET q == session[c].call
      r == ReleaseRow(q.release)
      a == AuditRow(q.release)
      s == session[c]
      asks == s.todo = <<q>>
  IN  \/ s.at \in {"find", "record"} /\ s.row = r /\ asks /\ Holds(c, {}, {})
      \/ s.at = "done" /\ Holds(c, {r}, {}) /\ Present(r) /\ db[r].by = q.by
      \/ /\ s.at = "done" /\ Holds(c, {r}, {r, a}) /\ ~Present(r)
         /\ s.mine[r] = [status |-> "RELEASED", by |-> q.by]
         /\ s.mine[a] = [status |-> "kept", told |-> <<Audit("approval", q.by), Audit("release", q.by)>>]

DeployerIsAt(c) ==
  LET q == session[c].call
      r == ReleaseRow(q.release)
      a == AuditRow(q.release)
      d == DeploymentRow(q.release, q.environment)
      s == session[c]
      asks == s.todo = <<q>>
  IN  \/ s.at = "update" /\ s.row = r /\ asks /\ Holds(c, {}, {})
      \/ s.at \in {"again", "record"} /\ s.row = d /\ asks /\ Holds(c, {r}, {}) /\ Present(r)
      \/ s.at = "done" /\ Holds(c, {r, d}, {}) /\ Present(r) /\ Present(d) /\ db[d].by = q.by
      \/ /\ s.at = "done" /\ Holds(c, {r, d}, {d, a}) /\ Present(r) /\ ~Present(d)
         /\ s.mine[d] = [status |-> "deployed", by |-> q.by]
         /\ s.mine[a] = [db[a] EXCEPT !.told = Append(@, Audit(q.environment, q.by))]

\* Calls of other stores leave the rows of the runtime alone.
IsElsewhere(c) ==
  LET s == session[c] IN
  /\ s.at # "load" /\ s.row \notin RuntimeRows
  /\ s.locks \cap RuntimeRows = {} /\ DOMAIN s.mine \cap RuntimeRows = {}
  /\ s.todo # <<>> => Head(s.todo).op \notin {"save", "replay"} \cup RuntimeOps

\* Client c is idle, or somewhere in its call.
GoesOn(c) ==
  session[c] # Idle =>
    LET op == session[c].call.op IN
    /\ session[c].call \in DOMAIN answers
    /\ op = "drive" => DriverIsAt(c)
    /\ op = "operate" => OperatorIsAt(c)
    /\ op = "release" => ReleaserIsAt(c)
    /\ op = "deploy" => DeployerIsAt(c)
    /\ op \notin RuntimeOps => IsElsewhere(c)

\* No row of the runtime is held by two calls.
HoldersDiffer ==
  \A c, d \in Clients : c # d => session[c].locks \cap session[d].locks \cap RuntimeRows = {}

\* Where each call is, what it holds and what it has written.
CallsGoOn ==
  /\ DOMAIN session = Clients /\ \A c \in Clients : DOMAIN session[c] = DOMAIN Idle
  /\ DOMAIN answers \subseteq Requests
  /\ \A c \in Clients : GoesOn(c)
  /\ HoldersDiffer

\* The tables of the runtime agree with each other, with what calls are about to
\* write and with what callers were told, as one inductive invariant: checkpoints
\* with controls, audits with releases and deployments, and what succeeded with
\* what is stored.
RuntimeInv ==
  /\ RuntimeTypeOK
  /\ CallsGoOn
  /\ RevisionCountsAll
  /\ AuditsTellAll
  /\ RuntimeAnswersAreTrue

StoreRequests == {q \in DOMAIN answers : q.op \in Governing \cup {"evidence"}}

\* A connector goes its way with one audit for each step and none after it was
\* retired, evidence is what the memory store would have made of it, and every
\* answer was true when it was given: also when two reviews, a retirement and a
\* control, or two pieces of evidence for one delivery meet in the database.
Evidence ==
  INSTANCE ExternalEvidence WITH
    Unstored <- [status |-> Absent],
    connectors <- [n \in Connectors |-> db[ConnectorRow(n)]],
    audits <- [k \in AuditKeys |-> db[GovernanceAuditRow(k)]],
    records <- [k \in ReplayKeys |-> db[ReliabilityRow(k)]],
    answers <- [q \in StoreRequests |-> answers[q]]

EvidenceIsKept == Evidence!Spec

\* As long as the process lives, the provider is not asked again by a call that
\* comes after a caller was told what became of the action, be it that the outcome
\* is unknown (the receipts of invokeAction).
NotInvokedAgain ==
  [][\A c \in Clients, q \in DOMAIN answers :
       /\ restarts' = 0 /\ session[c].at = "look up" /\ session'[c].at = "invoke"
       /\ q.op = "invoke" /\ q.key = Asked(c).key
       => answers[q] \cap {"ok", "unknown outcome"} = {}]_vars
=============================================================================
