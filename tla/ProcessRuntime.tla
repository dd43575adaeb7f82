--------------------------- MODULE ProcessRuntime ---------------------------
(***************************************************************************)
(* Checkpoints of process instances, what drives them and what operators   *)
(* do to them (modules/process/src: runtime, runtime-store, operations,    *)
(* studio), and the releases and deployments of their definitions          *)
(* (release-store), statement by statement.                                *)
(*                                                                         *)
(* A driver loads a checkpoint without a lock, records one thing in it and *)
(* saves it in a transaction.  No driver is in the repository: that it     *)
(* saves only what the runtime changed is from how the store is tested.    *)
(***************************************************************************)
EXTENDS Sessions, SequencesExt

CONSTANTS Instances,
          StepNames, StepKeys,  \* of commands, with their idempotency keys
          EventIds, TimerIds,
          Checkpoints,  \* the checkpoints of the instances that run at first
          ControlKeys,  \* idempotency keys of operators
          Releases,     \* definitions with their versions
          Environments

CheckpointRow(i) == <<"checkpoint", i>>
ControlRow(k) == <<"control", k>>
ReleaseRow(d) == <<"release", d>>
DeploymentRow(d, e) == <<"deployment", d, e>>
AuditRow(d) == <<"audits", d>>  \* all audits of one release

RuntimeRows == {CheckpointRow(i) : i \in Instances} \cup {ControlRow(k) : k \in ControlKeys}
               \cup {ReleaseRow(d) : d \in Releases} \cup {AuditRow(d) : d \in Releases}
               \cup {DeploymentRow(d, e) : d \in Releases, e \in Environments}

NewCheckpoint == [status |-> "running", revision |-> 0, steps |-> <<>>, completed |-> {},
                  events |-> {}, timers |-> {}]

StepStatuses == {"command_requested", "command_started", "command_succeeded", "command_failed",
                 "retry_scheduled", "compensation_started", "compensation_succeeded",
                 "manual_recovery_required"}

StepRow == [step : StepNames, key : StepKeys, status : StepStatuses]

CheckpointType ==
  [status : {"running", "waiting", "completed", "failed", "manual_recovery"}, revision : Nat,
   steps : Seq(StepRow), completed : SUBSET StepNames,
   events : SUBSET EventIds, timers : SUBSET TimerIds]

(* What drivers record; an instance is started with a new checkpoint.      *)
Records == [kind : {"start"}]
           \cup [kind : {"command"}, step : StepNames, key : StepKeys, status : StepStatuses]
           \cup [kind : {"event"}, id : EventIds] \cup [kind : {"timer"}, id : TimerIds]

(* How often something was recorded in a checkpoint.                       *)
Recordings(p) == Len(p.steps) + Cardinality(p.events) + Cardinality(p.timers)

ASSUME RuntimeAssumption ==
  /\ DOMAIN Checkpoints \subseteq {CheckpointRow(i) : i \in Instances}
  /\ Checkpoints \in [DOMAIN Checkpoints -> CheckpointType]
  /\ \A r \in DOMAIN Checkpoints : LET p == Checkpoints[r] IN
       IsFiniteSet(p.events) /\ IsFiniteSet(p.timers) /\ p.revision = Recordings(p)
  /\ Environments \subseteq {"DEV", "TEST", "PROD"}
  /\ NoRow \notin RuntimeRows

Asked(c) == session[c].call
At(c, op) == session[c].todo # <<>> /\ Head(session[c].todo).op = op
Done(c, w) == Proceed(c, w, "done", NoRow, <<>>)

-----------------------------------------------------------------------------
(* recordCommand, recordEvent, scheduleTimer: what a checkpoint becomes    *)
(* with x.  It stays the same when x is known already.                     *)

SameStep(s, x) == s.step = x.step /\ s.key = x.key
Clashes(p, x) == x.kind = "command" /\ \E s \in Range(p.steps) :
                   (s.step = x.step \/ s.key = x.key) /\ ~SameStep(s, x)

Known(p, x) == CASE x.kind = "command" -> \E s \in Range(p.steps) : SameStep(s, x)
                 [] x.kind = "event" -> x.id \in p.events
                 [] x.kind = "timer" -> x.id \in p.timers

Recorded(p, x) ==
  LET next == [p EXCEPT !.revision = @ + 1] IN
  CASE x.kind = "command" ->
         [next EXCEPT !.steps = Append(@, [step |-> x.step, key |-> x.key, status |-> x.status]),
                      !.completed = IF x.status = "command_succeeded" THEN @ \cup {x.step} ELSE @]
    [] x.kind = "event" -> [next EXCEPT !.events = @ \cup {x.id}]
    [] x.kind = "timer" -> [next EXCEPT !.timers = @ \cup {x.id}]

-----------------------------------------------------------------------------
(* ProcessCheckpointStore: load, save.                                     *)

Save(c, p) ==
  Proceed(c, <<>>, "find", CheckpointRow(Asked(c).instance), <<[op |-> "save", checkpoint |-> p]>>)

CallDriver(c, q) ==
  q.op = "drive" /\ Begin(c, q, "load", NoRow, <<q>>)

Load(c) ==
  /\ Ready(c, "load")
  /\ LET r == CheckpointRow(Asked(c).instance)
         x == Asked(c).record
     IN  IF x.kind = "start" THEN Save(c, NewCheckpoint)
         ELSE IF ~Present(r) THEN Refuse(c, "missing")
         ELSE IF Clashes(db[r], x) THEN Refuse(c, "conflict")
         ELSE IF Known(db[r], x) THEN Refuse(c, "ok")
         ELSE Save(c, Recorded(db[r], x))

(* Mutant: who saves last wins.                                            *)
SaveAny(c) ==
  /\ Ready(c, "find") /\ At(c, "save")
  /\ LET p == Head(session[c].todo).checkpoint
         r == session[c].row
     IN  IF ~Present(r) THEN Goes(c, <<>>, "record", r) ELSE Done(c, RowIs(r, p))

SaveCheckpoint(c) ==
  /\ Ready(c, "find") /\ At(c, "save")
  /\ LET p == Head(session[c].todo).checkpoint
         r == session[c].row
     IN  IF ~Present(r) /\ p.revision = 0 THEN Goes(c, <<>>, "record", r)
         ELSE IF Present(r) /\ p.revision = db[r].revision + 1 THEN Done(c, RowIs(r, p))
         ELSE Refuse(c, "stale")

InsertCheckpoint(c) ==
  /\ Ready(c, "record") /\ At(c, "save")
  /\ IF Present(session[c].row) THEN Refuse(c, "unknown")
     ELSE Done(c, RowIs(session[c].row, Head(session[c].todo).checkpoint))

-----------------------------------------------------------------------------
(* operateRuntime: find the control by its key; lock the checkpoint and    *)
(* act on its last step; record the control.                               *)

Offered(p) ==
  LET last == IF p.steps = <<>> THEN "none" ELSE Last(p.steps).status IN
  [retry |-> last = "retry_scheduled", compensate |-> last = "command_succeeded",
   manual_recovery |-> last # "none"]

StepBecomes == [retry |-> "command_requested", compensate |-> "compensation_started",
                manual_recovery |-> "manual_recovery_required"]

Operated(p, action) ==
  [p EXCEPT !.revision = @ + 1, !.steps[Len(p.steps)].status = StepBecomes[action],
            !.status = IF action = "manual_recovery" THEN action ELSE "running"]

ControlOf(q) == [status |-> "recorded", instance |-> q.instance, action |-> q.action,
                  actor |-> q.actor]
SameControl(row, q) == row.instance = q.instance /\ row.action = q.action /\ row.actor = q.actor

CallOperator(c, q) ==
  q.op = "operate" /\ Begin(c, q, "find", ControlRow(q.key), <<q>>)

(* Mutant: any control with the key is replayed.                           *)
ReplayAnyControl(c) ==
  /\ Ready(c, "find") /\ At(c, "operate")
  /\ LET i == CheckpointRow(Asked(c).instance) IN
     IF ~Present(session[c].row) THEN Goes(c, <<>>, "update", i)
     ELSE Proceed(c, <<>>, "update", i, <<[op |-> "replay"]>>)

FindControl(c) ==
  /\ Ready(c, "find") /\ At(c, "operate")
  /\ LET i == CheckpointRow(Asked(c).instance) IN
     IF ~Present(session[c].row) THEN Goes(c, <<>>, "update", i)
     ELSE IF SameControl(db[session[c].row], Asked(c))
     THEN Proceed(c, <<>>, "update", i, <<[op |-> "replay"]>>)
     ELSE Refuse(c, "conflict")

ReplayControl(c) == Ready(c, "update") /\ At(c, "replay") /\ Done(c, <<>>)

Operate(c) ==
  /\ Ready(c, "update") /\ At(c, "operate")
  /\ LET q == Asked(c)
         r == session[c].row
     IN  IF ~Present(r) THEN Refuse(c, "missing")
         ELSE IF Offered(db[r])[q.action]
         THEN Goes(c, RowIs(r, Operated(db[r], q.action)), "record", ControlRow(q.key))
         ELSE Refuse(c, "unavailable")

(* Mutant: a control that is there already is left (ON CONFLICT DO NOTHING). *)
RecordControlOnce(c) ==
  /\ Ready(c, "record") /\ At(c, "operate")
  /\ LET q == Asked(c) IN
     IF Present(session[c].row) THEN Done(c, <<>>)
     ELSE Done(c, RowIs(session[c].row, ControlOf(q)))

(* Who finds the key taken has rolled back, and looks the control up.      *)
RecordControl(c) ==
  /\ Ready(c, "record") /\ At(c, "operate")
  /\ LET q == Asked(c) IN
     IF Present(session[c].row)
     THEN Refuse(c, IF SameControl(db[session[c].row], q) THEN "ok" ELSE "conflict")
     ELSE Done(c, RowIs(session[c].row, ControlOf(q)))

-----------------------------------------------------------------------------
(* ProcessReleaseStore: release, deploy.  by stands for who approved,      *)
(* released or deployed, and why.                                          *)

CallRelease(c, q) ==
  \/ q.op = "release" /\ Begin(c, q, "find", ReleaseRow(q.release), <<q>>)
  \/ q.op = "deploy" /\ Begin(c, q, "update", ReleaseRow(q.release), <<q>>)

Audit(event, by) == [event |-> event, by |-> by]

FindRelease(c) ==
  /\ Ready(c, "find") /\ At(c, "release")
  /\ LET r == session[c].row IN
     IF ~Present(r) THEN Goes(c, <<>>, "record", r)
     ELSE IF db[r].by = Asked(c).by THEN Done(c, <<>>) ELSE Refuse(c, "conflict")

RecordRelease(c) ==
  /\ Ready(c, "record") /\ At(c, "release")
  /\ LET q == Asked(c) IN
     IF Present(session[c].row) THEN Refuse(c, "conflict")
     ELSE Done(c, Over(RowIs(session[c].row, [status |-> "RELEASED", by |-> q.by]),
                       RowIs(AuditRow(q.release),
                             [status |-> "kept",
                              told |-> <<Audit("approval", q.by), Audit("release", q.by)>>])))

LockRelease(c) ==
  /\ Ready(c, "update") /\ At(c, "deploy")
  /\ IF Present(session[c].row)
     THEN Goes(c, <<>>, "again", DeploymentRow(Asked(c).release, Asked(c).environment))
     ELSE Refuse(c, "missing")

FindDeployment(c) ==
  /\ Ready(c, "again") /\ At(c, "deploy")
  /\ LET r == session[c].row IN
     IF ~Present(r) THEN Goes(c, <<>>, "record", r)
     ELSE IF db[r].by = Asked(c).by THEN Done(c, <<>>) ELSE Refuse(c, "conflict")

RecordDeployment(c) ==
  /\ Ready(c, "record") /\ At(c, "deploy")
  /\ LET q == Asked(c)
         audits == AuditRow(q.release)
     IN  IF Present(session[c].row) THEN Refuse(c, "conflict")
         ELSE Done(c, Over(RowIs(session[c].row, [status |-> "deployed", by |-> q.by]),
                           RowIs(audits, [db[audits] EXCEPT !.told =
                                            Append(@, Audit(q.environment, q.by))])))

-----------------------------------------------------------------------------

RuntimeOps == {"drive", "operate", "release", "deploy"}

(* What is asked of the runtime and the release store.                     *)
RuntimeCall(q) ==
  /\ q.op = "drive" => q.instance \in Instances /\ q.record \in Records
  /\ q.op = "operate" => /\ q.instance \in Instances /\ q.key \in ControlKeys
                         /\ q.action \in DOMAIN StepBecomes
  /\ q.op \in {"release", "deploy"} => q.release \in Releases
  /\ q.op = "deploy" => q.environment \in Environments

CommitRuntime(c) == session[c].at = "done" /\ Commits(c)

RuntimeStatement(c) ==
  \/ Load(c) \/ SaveCheckpoint(c) \/ InsertCheckpoint(c)
  \/ FindControl(c) \/ ReplayControl(c) \/ Operate(c) \/ RecordControl(c)
  \/ FindRelease(c) \/ RecordRelease(c) \/ LockRelease(c) \/ FindDeployment(c)
  \/ RecordDeployment(c)
=============================================================================
