------------------------ MODULE ProcessRuntimeProofs ------------------------
(***************************************************************************)
(* What is proved of process instances, of what operators did to them and  *)
(* of releases, with the integrations beside them.                         *)
(***************************************************************************)
EXTENDS ProcessRuntimeProperties, SessionsProofs, FiniteSetTheorems

\* The rows of the tables differ, and only an audit belongs to another row.
LEMMA Rows ==
  /\ \A i \in Instances : CheckpointRow(i) \in RuntimeRows
  /\ \A k \in ControlKeys : ControlRow(k) \in RuntimeRows
  /\ \A d \in Releases : ReleaseRow(d) \in RuntimeRows /\ AuditRow(d) \in RuntimeRows
  /\ \A d \in Releases, e \in Environments : DeploymentRow(d, e) \in RuntimeRows
  /\ NoRow \notin RuntimeRows
BY RuntimeAssumption DEF RuntimeRows

\* No row of the integrations is one of the runtime.
LEMMA RowsApart ==
  /\ \A n : ConnectorRow(n) \notin RuntimeRows
  /\ \A k : GovernanceAuditRow(k) \notin RuntimeRows /\ ReliabilityRow(k) \notin RuntimeRows
BY DEF RuntimeRows, ConnectorRow, GovernanceAuditRow, ReliabilityRow, CheckpointRow, ControlRow, ReleaseRow,
   DeploymentRow, AuditRow

\* A call whose rows and sessions stay is where it was.
LEMMA StaysThere ==
  ASSUME NEW d \in Clients, GoesOn(d), session'[d] = session[d], db' = db,
         DOMAIN answers' = DOMAIN answers
  PROVE  GoesOn(d)'
<1>1. DriverIsAt(d) <=> DriverIsAt(d)'
  BY DEF DriverIsAt, Saves, Holds, Present, At
<1>2. OperatorIsAt(d) <=> OperatorIsAt(d)'
  BY DEF OperatorIsAt, ActedOn, Holds, Present, At
<1>3. ReleaserIsAt(d) <=> ReleaserIsAt(d)'
  BY DEF ReleaserIsAt, Holds, Present, At
<1>4. DeployerIsAt(d) <=> DeployerIsAt(d)'
  BY DEF DeployerIsAt, Holds, Present, At
<1>5. IsElsewhere(d) <=> IsElsewhere(d)'
  BY DEF IsElsewhere, Present, At
<1> QED
  BY <1>1, <1>2, <1>3, <1>4, <1>5 DEF GoesOn

\* What a call holds is there, or it has written it.
LEMMA HeldIsThere ==
  ASSUME NEW d \in Clients, GoesOn(d),
         NEW r \in session[d].locks \cap RuntimeRows
  PROVE  Present(r) \/ r \in DOMAIN session[d].mine
<1>1. CASE session[d] = Idle
  BY <1>1, IdleFields
<1>2. CASE session[d] # Idle
  BY <1>2 DEF GoesOn, DriverIsAt, OperatorIsAt, ReleaserIsAt, DeployerIsAt, IsElsewhere, Holds, RuntimeOps
<1> QED
  BY <1>1, <1>2

-----------------------------------------------------------------------------
(* The kinds of steps: one that commits nothing, a refusal, a commit.      *)

\* A step of client c that leaves the tables: it goes on elsewhere in its call, and
\* what it locks nobody else holds.
Quiet(c) ==
  /\ SessionShape' /\ Alone(c) /\ UNCHANGED <<db, answers>>
  /\ GoesOn(c)'
  /\ \A d \in Clients \ {c} : session'[c].locks \cap session[d].locks \cap RuntimeRows = {}

\* The audits of a release whose rows stay tell what they told.
LEMMA AuditsStay ==
  ASSUME NEW d \in Releases, db'[ReleaseRow(d)] = db[ReleaseRow(d)], db'[AuditRow(d)] = db[AuditRow(d)],
         \A e \in Environments : db'[DeploymentRow(d, e)] = db[DeploymentRow(d, e)]
  PROVE  ToldOf(d)' = ToldOf(d) /\ ToTell(d)' = ToTell(d)
BY DEF ToldOf, ToTell, Present

\* Tables that stay keep what holds of tables alone.
LEMMA TablesStay ==
  ASSUME RuntimeInv, db' = db
  PROVE  RuntimeTypeOK' /\ RevisionCountsAll' /\ AuditsTellAll'
BY AuditsStay DEF RuntimeInv, RuntimeTypeOK, RevisionCountsAll, AuditsTellAll, Controls, Present

\* A quiet step keeps the invariant.
LEMMA QuietStep ==
  ASSUME RuntimeInv, NEW c \in Clients, Quiet(c)
  PROVE  RuntimeInv'
<1>1. RuntimeTypeOK' /\ RevisionCountsAll' /\ AuditsTellAll'
  BY TablesStay DEF Quiet
<1>2. RuntimeAnswersAreTrue'
  BY DEF Quiet, RuntimeInv, RuntimeAnswersAreTrue, IsStored, Present
<1>3. \A d \in Clients : GoesOn(d)'
  BY StaysThere DEF Quiet, Alone, RuntimeInv, CallsGoOn
<1>4. HoldersDiffer'
  BY DEF Quiet, Alone, RuntimeInv, CallsGoOn, HoldersDiffer
<1> QED
  BY <1>1, <1>2, <1>3, <1>4 DEF RuntimeInv, CallsGoOn, Quiet, SessionShape

\* A refusal keeps the invariant, if an answer of success is true.
LEMMA RefusedStep ==
  ASSUME RuntimeInv, NEW c \in Clients, session[c] # Idle, NEW outcome, Refuse(c, outcome),
         outcome = "ok" => IsStored(session[c].call)
  PROVE  RuntimeInv'
<1>1. SessionShape' /\ Alone(c) /\ session'[c] = Idle /\ db' = db
      /\ answers' = [answers EXCEPT ![session[c].call] = @ \cup {outcome}]
  BY Answers DEF RuntimeInv, CallsGoOn, SessionShape, Refuse
<1>2. DOMAIN answers' = DOMAIN answers
  BY <1>1
<1>3. RuntimeTypeOK' /\ RevisionCountsAll' /\ AuditsTellAll'
  BY <1>1, TablesStay
<1>4. RuntimeAnswersAreTrue'
  BY <1>1 DEF RuntimeInv, RuntimeAnswersAreTrue, IsStored, Present
<1>5. GoesOn(c)'
  BY <1>1 DEF GoesOn
<1>6. \A d \in Clients : GoesOn(d)'
  BY <1>1, <1>2, <1>5, StaysThere DEF Alone, RuntimeInv, CallsGoOn
<1>7. HoldersDiffer'
  BY <1>1, IdleFields DEF Alone, RuntimeInv, CallsGoOn, HoldersDiffer
<1> QED
  BY <1>1, <1>2, <1>3, <1>4, <1>6, <1>7 DEF RuntimeInv, CallsGoOn, SessionShape

\* A statement that was not kept waiting, and inserts only what is not there,
\* locks what nobody else holds.
LEMMA NobodyElseHolds ==
  ASSUME RuntimeInv, NEW c \in Clients, NEW at, Ready(c, at),
         at = "record" => ~Present(session[c].row), NEW d \in Clients \ {c}
  PROVE  (session[c].locks \cup Locked(c)) \cap session[d].locks \cap RuntimeRows = {}
<1>1. session[c].locks \cap session[d].locks \cap RuntimeRows = {}
  BY DEF RuntimeInv, CallsGoOn, HoldersDiffer
<1>2. ASSUME NEW r \in Locked(c), r \in session[d].locks, r \in RuntimeRows PROVE FALSE
  <2>1. CASE at = "record"
    <3>1. r \notin DOMAIN session[d].mine
      BY <1>2, <2>1 DEF Ready, Waits, Held
    <3>2. ~Present(r)
      BY <1>2, <2>1 DEF Ready, Locked
    <3> QED
      BY <1>2, <3>1, <3>2, HeldIsThere DEF RuntimeInv, CallsGoOn
  <2>2. CASE at # "record"
    BY <1>2, <2>2 DEF Ready, Waits, Held
  <2> QED
    BY <2>1, <2>2
<1> QED
  BY <1>1, <1>2

\* A statement that did not wait and does not commit keeps the invariant, if it
\* leaves the call where it goes on.
LEMMA ProceedKeeps ==
  ASSUME RuntimeInv, NEW c \in Clients, NEW label, Ready(c, label),
         label = "record" => ~Present(session[c].row),
         NEW w, NEW at, NEW row, NEW todo, Proceed(c, w, at, row, todo), GoesOn(c)'
  PROVE  RuntimeInv'
<1>1. SessionShape' /\ Alone(c) /\ UNCHANGED <<db, answers>>
      /\ session'[c].locks = session[c].locks \cup Locked(c)
  BY Proceeds DEF RuntimeInv, CallsGoOn, SessionShape
<1>2. \A d \in Clients \ {c} : session'[c].locks \cap session[d].locks \cap RuntimeRows = {}
  BY <1>1, NobodyElseHolds
<1> QED
  BY <1>1, <1>2, QuietStep DEF Quiet

\* What a call does next tells what it is.
LEMMA WhoseStatement ==
  ASSUME RuntimeInv, NEW c \in Clients, session[c].at \notin {"idle", "done"}
  PROVE  /\ session[c] # Idle /\ session[c].call \in DOMAIN answers
         /\ session[c].call \in Requests /\ RuntimeCall(session[c].call)
         /\ session[c].at = "load" \/ At(c, "save") => session[c].call.op = "drive"
         /\ session[c].at # "load" /\ (At(c, "operate") \/ At(c, "replay")) => session[c].call.op = "operate"
         /\ session[c].at # "load" /\ At(c, "release") => session[c].call.op = "release"
         /\ session[c].at # "load" /\ At(c, "deploy") => session[c].call.op = "deploy"
<1>1. session[c] # Idle
  BY IdleFields
<1>2. GoesOn(c) /\ DOMAIN answers \subseteq Requests
  BY DEF RuntimeInv, CallsGoOn
<1>3. session[c].call \in DOMAIN answers
  BY <1>1, <1>2 DEF GoesOn
<1>4. session[c].call \in Requests /\ RuntimeCall(session[c].call)
  BY <1>2, <1>3, IntegrationAssumption
<1>5. session[c].at = "load" \/ At(c, "save") => session[c].call.op = "drive"
  BY <1>1, <1>2 DEF GoesOn, OperatorIsAt, ReleaserIsAt, DeployerIsAt, IsElsewhere, At, RuntimeOps
<1>6. session[c].at # "load" /\ (At(c, "operate") \/ At(c, "replay")) => session[c].call.op = "operate"
  <2>1. CASE session[c].call.op = "drive"
    BY <1>1, <1>2, <2>1 DEF GoesOn, DriverIsAt, Saves, At
  <2>2. CASE session[c].call.op = "release"
    BY <1>1, <1>2, <2>2 DEF GoesOn, ReleaserIsAt, At
  <2>3. CASE session[c].call.op = "deploy"
    BY <1>1, <1>2, <2>3 DEF GoesOn, DeployerIsAt, At
  <2>4. CASE session[c].call.op \notin RuntimeOps
    BY <1>1, <1>2, <2>4 DEF GoesOn, IsElsewhere, At, RuntimeOps
  <2> QED
    BY <2>1, <2>2, <2>3, <2>4 DEF RuntimeOps
<1>7. session[c].at # "load" /\ At(c, "release") => session[c].call.op = "release"
  BY <1>1, <1>2 DEF GoesOn, DriverIsAt, Saves, OperatorIsAt, DeployerIsAt, IsElsewhere, At, RuntimeOps
<1>8. session[c].at # "load" /\ At(c, "deploy") => session[c].call.op = "deploy"
  BY <1>1, <1>2 DEF GoesOn, DriverIsAt, Saves, OperatorIsAt, ReleaserIsAt, IsElsewhere, At, RuntimeOps
<1> QED
  BY <1>1, <1>3, <1>4, <1>5, <1>6, <1>7, <1>8

-----------------------------------------------------------------------------
(* What becomes of a checkpoint.                                           *)

\* What a checkpoint becomes with a record: the next one, with all that it had.
LEMMA RecordedIsNext ==
  ASSUME NEW p \in CheckpointType, NEW x \in Records, x.kind # "start"
  PROVE  /\ Recorded(p, x) \in CheckpointType
         /\ Recorded(p, x).revision = p.revision + 1
         /\ Recorded(p, x).status = p.status
         /\ p.completed \subseteq Recorded(p, x).completed
         /\ x.kind = "command" =>
              /\ Recorded(p, x).steps = Append(p.steps, [step |-> x.step, key |-> x.key, status |-> x.status])
              /\ Recorded(p, x).events = p.events /\ Recorded(p, x).timers = p.timers
         /\ x.kind = "event" => /\ Recorded(p, x).events = p.events \cup {x.id}
                                /\ Recorded(p, x).steps = p.steps /\ Recorded(p, x).timers = p.timers
         /\ x.kind = "timer" => /\ Recorded(p, x).timers = p.timers \cup {x.id}
                                /\ Recorded(p, x).steps = p.steps /\ Recorded(p, x).events = p.events
         /\ x.kind \in {"command", "event", "timer"}
<1> DEFINE next == [p EXCEPT !.revision = @ + 1]
<1>1. /\ next \in CheckpointType /\ next.revision = p.revision + 1 /\ next.status = p.status
      /\ next.steps = p.steps /\ next.completed = p.completed
      /\ next.events = p.events /\ next.timers = p.timers
  BY DEF CheckpointType
<1> HIDE DEF next
<1>2. CASE x.kind = "command"
  <2> DEFINE s == [step |-> x.step, key |-> x.key, status |-> x.status]
             done == IF x.status = "command_succeeded" THEN p.completed \cup {x.step} ELSE p.completed
  <2>1. s \in StepRow /\ x.step \in StepNames
    BY <1>2 DEF Records, StepRow
  <2>2. Append(p.steps, s) \in Seq(StepRow) /\ done \in SUBSET StepNames /\ p.completed \subseteq done
    BY <2>1 DEF CheckpointType
  <2>3. Recorded(p, x) = [next EXCEPT !.steps = Append(p.steps, s), !.completed = done]
    BY <1>1, <1>2 DEF Recorded, next
  <2> HIDE DEF s, done
  <2> DEFINE n == [next EXCEPT !.steps = Append(p.steps, s), !.completed = done]
  <2>4. n \in CheckpointType /\ n.revision = next.revision /\ n.status = next.status
        /\ n.steps = Append(p.steps, s) /\ n.completed = done
        /\ n.events = next.events /\ n.timers = next.timers
    BY <1>1, <2>2 DEF CheckpointType
  <2> HIDE DEF n
  <2>5. Recorded(p, x) = n
    BY <2>3 DEF n
  <2> QED
    BY <1>1, <1>2, <2>2, <2>4, <2>5 DEF s
<1>3. CASE x.kind = "event"
  <2>1. x.id \in EventIds
    BY <1>3 DEF Records
  <2>2. Recorded(p, x) = [next EXCEPT !.events = p.events \cup {x.id}]
    BY <1>1, <1>3 DEF Recorded, next
  <2> QED
    BY <1>1, <1>3, <2>1, <2>2 DEF CheckpointType
<1>4. CASE x.kind = "timer"
  <2>1. x.id \in TimerIds
    BY <1>4 DEF Records
  <2>2. Recorded(p, x) = [next EXCEPT !.timers = p.timers \cup {x.id}]
    BY <1>1, <1>4 DEF Recorded, next
  <2> QED
    BY <1>1, <1>4, <2>1, <2>2 DEF CheckpointType
<1> QED
  BY <1>2, <1>3, <1>4 DEF Records

\* What is recorded is known then.
LEMMA RecordedIsKnown ==
  ASSUME NEW p \in CheckpointType, NEW x \in Records, x.kind # "start"
  PROVE  Known(Recorded(p, x), x)
<1> DEFINE n == Recorded(p, x)
<1>1. CASE x.kind = "command"
  <2> DEFINE s == [step |-> x.step, key |-> x.key, status |-> x.status]
  <2>1. n.steps = Append(p.steps, s) /\ p.steps \in Seq(StepRow)
    BY <1>1, RecordedIsNext DEF CheckpointType
  <2> HIDE DEF n
  <2>2. n.steps[Len(p.steps) + 1] = s /\ Len(p.steps) + 1 \in DOMAIN n.steps
    BY <2>1
  <2>3. SameStep(s, x)
    BY DEF SameStep
  <2> HIDE DEF s
  <2>4. s \in Range(n.steps)
    BY <2>2 DEF Range
  <2> QED
    BY <1>1, <2>3, <2>4 DEF Known, n
<1>2. CASE x.kind # "command"
  BY <1>2, RecordedIsNext DEF Known
<1> QED
  BY <1>1, <1>2

\* What was not known counts one more.
LEMMA RecordedCounts ==
  ASSUME NEW p \in CheckpointType, NEW x \in Records, x.kind # "start", ~Known(p, x),
         IsFiniteSet(p.events), IsFiniteSet(p.timers)
  PROVE  /\ Recordings(Recorded(p, x)) = Recordings(p) + 1
         /\ IsFiniteSet(Recorded(p, x).events) /\ IsFiniteSet(Recorded(p, x).timers)
<1> DEFINE n == Recorded(p, x)
<1>1. p.steps \in Seq(StepRow) /\ Len(p.steps) \in Nat
      /\ Cardinality(p.events) \in Nat /\ Cardinality(p.timers) \in Nat
  BY FS_CardinalityType DEF CheckpointType
<1>2. Recordings(n) = Len(n.steps) + Cardinality(n.events) + Cardinality(n.timers)
      /\ Recordings(p) = Len(p.steps) + Cardinality(p.events) + Cardinality(p.timers)
  BY DEF Recordings
<1>3. CASE x.kind = "command"
  <2> DEFINE s == [step |-> x.step, key |-> x.key, status |-> x.status]
  <2>3. n.steps = Append(p.steps, s) /\ n.events = p.events /\ n.timers = p.timers
    BY <1>3, RecordedIsNext
  <2> HIDE DEF n, s
  <2>1. Len(n.steps) = Len(p.steps) + 1 /\ n.events = p.events /\ n.timers = p.timers
    BY <1>1, <2>3
  <2>2. Recordings(n) = Recordings(p) + 1 /\ IsFiniteSet(n.events) /\ IsFiniteSet(n.timers)
    BY <1>1, <1>2, <2>1
  <2> QED
    BY <2>2 DEF n
<1>4. CASE x.kind = "event"
  <2>1. n.events = p.events \cup {x.id} /\ n.steps = p.steps /\ n.timers = p.timers
    BY <1>4, RecordedIsNext
  <2>2. Cardinality(p.events \cup {x.id}) = Cardinality(p.events) + 1 /\ IsFiniteSet(p.events \cup {x.id})
    BY <1>4, FS_AddElement DEF Known
  <2> HIDE DEF n
  <2>3. Recordings(n) = Recordings(p) + 1 /\ IsFiniteSet(n.events) /\ IsFiniteSet(n.timers)
    BY <1>1, <1>2, <2>1, <2>2
  <2> QED
    BY <2>3 DEF n
<1>5. CASE x.kind = "timer"
  <2>1. n.timers = p.timers \cup {x.id} /\ n.steps = p.steps /\ n.events = p.events
    BY <1>5, RecordedIsNext
  <2>2. Cardinality(p.timers \cup {x.id}) = Cardinality(p.timers) + 1 /\ IsFiniteSet(p.timers \cup {x.id})
    BY <1>5, FS_AddElement DEF Known
  <2> HIDE DEF n
  <2>3. Recordings(n) = Recordings(p) + 1 /\ IsFiniteSet(n.events) /\ IsFiniteSet(n.timers)
    BY <1>1, <1>2, <2>1, <2>2
  <2> QED
    BY <2>3 DEF n
<1> QED
  BY <1>3, <1>4, <1>5, RecordedIsNext

\* What a checkpoint becomes by an operator: the next one, with another status of
\* its last step.
LEMMA OperatedIsNext ==
  ASSUME NEW p \in CheckpointType, NEW action \in DOMAIN StepBecomes, Offered(p)[action]
  PROVE  /\ Operated(p, action) \in CheckpointType
         /\ Operated(p, action).revision = p.revision + 1
         /\ Operated(p, action).completed = p.completed
         /\ Operated(p, action).events = p.events /\ Operated(p, action).timers = p.timers
         /\ Len(Operated(p, action).steps) = Len(p.steps)
         /\ \A j \in DOMAIN p.steps : SameStep(p.steps[j], Operated(p, action).steps[j])
<1> DEFINE last == Len(p.steps)
           becomes == StepBecomes[action]
           steps == [p.steps EXCEPT ![last].status = becomes]
           status == IF action = "manual_recovery" THEN action ELSE "running"
           n == [p EXCEPT !.revision = @ + 1, !.steps = steps, !.status = status]
<1>1. p.steps # <<>>
  <2>1. action \in {"retry", "compensate", "manual_recovery"}
    BY DEF StepBecomes
  <2>2. p.steps = <<>> => ~Offered(p).retry /\ ~Offered(p).compensate /\ ~Offered(p).manual_recovery
    BY DEF Offered
  <2> QED
    BY <2>1, <2>2
<1>2. last \in DOMAIN p.steps /\ p.steps \in Seq(StepRow)
  BY <1>1 DEF CheckpointType
<1>3. becomes \in StepStatuses
  BY DEF StepBecomes, StepStatuses
<1>4. steps \in Seq(StepRow) /\ Len(steps) = Len(p.steps)
      /\ \A j \in DOMAIN p.steps : SameStep(p.steps[j], steps[j])
  <2> HIDE DEF becomes, last
  <2>1. \A s \in StepRow : [s EXCEPT !.status = becomes] \in StepRow
                           /\ SameStep(s, [s EXCEPT !.status = becomes])
    BY <1>3 DEF StepRow, SameStep
  <2>2. p.steps[last] \in StepRow
    BY <1>2
  <2> QED
    BY <1>2, <2>1, <2>2 DEF SameStep
<1>5. status \in {"running", "waiting", "completed", "failed", "manual_recovery"}
  OBVIOUS
<1>6. Operated(p, action) = n
  BY DEF Operated
<1> HIDE DEF steps, status, last, becomes
<1>7. DOMAIN p = {"status", "revision", "steps", "completed", "events", "timers"}
  BY DEF CheckpointType
<1>8. n.revision = p.revision + 1 /\ n.steps = steps
  BY <1>7
<1>9. n.completed = p.completed /\ n.events = p.events /\ n.timers = p.timers
  BY <1>7
<1>10. n \in CheckpointType
  <2>1. [p EXCEPT !.revision = @ + 1] \in CheckpointType
    BY DEF CheckpointType
  <2>2. \A q \in CheckpointType : [q EXCEPT !.steps = steps] \in CheckpointType
    BY <1>4 DEF CheckpointType
  <2>3. \A q \in CheckpointType : [q EXCEPT !.status = status] \in CheckpointType
    BY <1>5 DEF CheckpointType
  <2>4. n = [[[p EXCEPT !.revision = @ + 1] EXCEPT !.steps = steps] EXCEPT !.status = status]
    BY <1>7
  <2> QED
    BY <2>1, <2>2, <2>3, <2>4
<1> QED
  BY <1>4, <1>6, <1>8, <1>9, <1>10

-----------------------------------------------------------------------------
(* The statements of a driver.                                             *)

\* A driver loads.
LEMMA LoadKeeps ==
  ASSUME RuntimeInv, NEW c \in Clients, Load(c)
  PROVE  RuntimeInv'
<1> DEFINE q == session[c].call
           r == CheckpointRow(q.instance)
           x == q.record
<1>1. session[c].at = "load" /\ session[c] # Idle
  BY IdleFields DEF Load, Ready
<1>2. q \in DOMAIN answers /\ q.op = "drive" /\ q.instance \in Instances /\ x \in Records
  BY <1>1, WhoseStatement DEF RuntimeCall
<1>3. session[c].row = NoRow /\ Holds(c, {}, {})
  BY <1>1, <1>2 DEF RuntimeInv, CallsGoOn, GoesOn, DriverIsAt
<1>4. ASSUME NEW p, Save(c, p),
             \/ x.kind = "start" /\ p = NewCheckpoint
             \/ x.kind # "start" /\ Present(r) /\ Recording(db[r], x, p)
      PROVE  RuntimeInv'
  <2> DEFINE todo == <<[op |-> "save", checkpoint |-> p]>>
  <2>1. Proceed(c, <<>>, "find", r, todo)
    BY <1>4 DEF Save, Asked
  <2>2. todo # <<>> /\ Head(todo).op = "save" /\ Head(todo).checkpoint = p
    OBVIOUS
  <2> HIDE DEF todo
  <2>3. /\ session'[c].call = q /\ session'[c].at = "find" /\ session'[c].row = r /\ session'[c].todo = todo
        /\ session'[c].locks = session[c].locks \cup Locked(c)
        /\ DOMAIN session'[c].mine = DOMAIN session[c].mine /\ UNCHANGED <<db, answers>>
    BY <2>1, ProceedsWithout DEF RuntimeInv, CallsGoOn, SessionShape
  <2>4. Holds(c, {}, {})'
    BY <1>1, <1>3, <2>3 DEF Holds, Locked
  <2>5. Present(r) => db[r] \in CheckpointType /\ db[r].revision \in Nat
    BY <1>2 DEF RuntimeInv, RuntimeTypeOK, CheckpointType
  <2>6. x.kind # "start" => p.revision = db[r].revision + 1
    BY <1>2, <1>4, <2>5, RecordedIsNext DEF Recording
  <2>7. Saves(c)'
    BY <1>4, <2>2, <2>3, <2>5, <2>6 DEF Saves, At, Present, Recording
  <2>8. GoesOn(c)'
    BY <1>2, <2>3, <2>4, <2>7 DEF GoesOn, DriverIsAt, RuntimeOps
  <2> QED
    BY <1>1, <2>1, <2>8, ProceedKeeps DEF Load
<1>5. CASE x.kind = "start"
  BY <1>4, <1>5 DEF Load, Asked
<1>6. CASE x.kind # "start"
  <2>1. CASE ~Present(r) \/ Clashes(db[r], x)
    <3>1. Refuse(c, "missing") \/ Refuse(c, "conflict")
      BY <1>6, <2>1 DEF Load, Asked
    <3> QED
      BY <1>1, <3>1, RefusedStep
  <2>2. CASE Present(r) /\ ~Clashes(db[r], x) /\ Known(db[r], x)
    <3>1. Refuse(c, "ok")
      BY <1>6, <2>2 DEF Load, Asked
    <3>2. IsStored(q)
      BY <1>2, <2>2 DEF IsStored
    <3> QED
      BY <1>1, <3>1, <3>2, RefusedStep
  <2>3. CASE Present(r) /\ ~Clashes(db[r], x) /\ ~Known(db[r], x)
    <3>1. Save(c, Recorded(db[r], x))
      BY <1>6, <2>3 DEF Load, Asked
    <3> QED
      BY <1>4, <1>6, <2>3, <3>1 DEF Recording
  <2> QED
    BY <2>1, <2>2, <2>3
<1> QED
  BY <1>5, <1>6

\* A driver finds the checkpoint that it is about to save, or finds that it was
\* overtaken.
LEMMA SaveCheckpointKeeps ==
  ASSUME RuntimeInv, NEW c \in Clients, SaveCheckpoint(c)
  PROVE  RuntimeInv'
<1> DEFINE q == session[c].call
           r == CheckpointRow(q.instance)
           p == Head(session[c].todo).checkpoint
<1>1. session[c].at = "find" /\ session[c] # Idle /\ Ready(c, "find") /\ At(c, "save")
  BY IdleFields DEF SaveCheckpoint, Ready
<1>2. q \in DOMAIN answers /\ q.op = "drive" /\ q.instance \in Instances /\ q.record \in Records
  BY <1>1, WhoseStatement DEF RuntimeCall
<1>3. session[c].row = r /\ Holds(c, {}, {}) /\ Saves(c)
  BY <1>1, <1>2 DEF RuntimeInv, CallsGoOn, GoesOn, DriverIsAt
<1>4. r # NoRow
  BY <1>2, Rows
<1>5. Present(r) => db[r] \in CheckpointType /\ db[r].revision \in Nat
  BY <1>2 DEF RuntimeInv, RuntimeTypeOK, CheckpointType
<1>6. CASE ~Present(r) /\ p.revision = 0
  <2>1. Proceed(c, <<>>, "record", r, session[c].todo)
    BY <1>3, <1>6 DEF SaveCheckpoint, Goes
  <2>2. /\ session'[c].call = q /\ session'[c].at = "record" /\ session'[c].row = r
        /\ session'[c].todo = session[c].todo
        /\ session'[c].locks = session[c].locks \cup Locked(c)
        /\ DOMAIN session'[c].mine = DOMAIN session[c].mine /\ UNCHANGED <<db, answers>>
    BY <2>1, ProceedsWithout DEF RuntimeInv, CallsGoOn, SessionShape
  <2>3. Holds(c, {}, {})'
    BY <1>1, <1>3, <1>6, <2>2 DEF Holds, Locked
  <2>4. Saves(c)' /\ q.record.kind = "start"
    BY <1>3, <1>6, <2>2 DEF Saves, At, Present
  <2>5. GoesOn(c)'
    BY <1>2, <2>2, <2>3, <2>4 DEF GoesOn, DriverIsAt, RuntimeOps
  <2> QED
    BY <1>1, <2>1, <2>5, ProceedKeeps
<1>7. CASE Present(r) /\ p.revision = db[r].revision + 1
  <2>1. Proceed(c, RowIs(r, p), "done", NoRow, <<>>)
    BY <1>3, <1>7 DEF SaveCheckpoint, Done
  <2>2. /\ session'[c].call = q /\ session'[c].at = "done"
        /\ session'[c].locks = session[c].locks \cup Locked(c)
        /\ DOMAIN session'[c].mine = {r} \cup DOMAIN session[c].mine /\ session'[c].mine[r] = p
        /\ UNCHANGED <<db, answers>>
    BY <2>1, ProceedsWith DEF RuntimeInv, CallsGoOn, SessionShape
  <2>3. Holds(c, {r}, {r})' /\ session'[c].mine[r] = p
    BY <1>1, <1>3, <1>4, <1>7, <2>2 DEF Holds, Locked
  <2>4. p.revision # 0 /\ NewCheckpoint.revision = 0
    BY <1>5, <1>7 DEF NewCheckpoint
  <2>5. Recording(db[r], q.record, p)
    BY <1>3, <1>7, <2>4 DEF Saves
  <2>6. DriverIsAt(c)'
    BY <1>7, <2>2, <2>3, <2>5 DEF DriverIsAt, Present, Recording
  <2>7. GoesOn(c)'
    BY <1>2, <2>2, <2>6 DEF GoesOn, RuntimeOps
  <2> QED
    BY <1>1, <2>1, <2>7, ProceedKeeps
<1>8. CASE ~(~Present(r) /\ p.revision = 0) /\ ~(Present(r) /\ p.revision = db[r].revision + 1)
  <2>1. Refuse(c, "stale")
    BY <1>3, <1>8 DEF SaveCheckpoint
  <2> QED
    BY <1>1, <2>1, RefusedStep
<1> QED
  BY <1>6, <1>7, <1>8

\* A driver inserts a new checkpoint.
LEMMA InsertCheckpointKeeps ==
  ASSUME RuntimeInv, NEW c \in Clients, InsertCheckpoint(c)
  PROVE  RuntimeInv'
<1> DEFINE q == session[c].call
           r == CheckpointRow(q.instance)
           p == Head(session[c].todo).checkpoint
<1>1. session[c].at = "record" /\ session[c] # Idle /\ Ready(c, "record") /\ At(c, "save")
  BY IdleFields DEF InsertCheckpoint, Ready
<1>2. q \in DOMAIN answers /\ q.op = "drive" /\ q.instance \in Instances
  BY <1>1, WhoseStatement DEF RuntimeCall
<1>3. session[c].row = r /\ Holds(c, {}, {}) /\ q.record.kind = "start" /\ p = NewCheckpoint
  BY <1>1, <1>2 DEF RuntimeInv, CallsGoOn, GoesOn, DriverIsAt, Saves
<1>4. r # NoRow
  BY <1>2, Rows
<1>5. CASE Present(r)
  <2>1. Refuse(c, "unknown")
    BY <1>3, <1>5 DEF InsertCheckpoint
  <2> QED
    BY <1>1, <2>1, RefusedStep
<1>6. CASE ~Present(r)
  <2>1. Proceed(c, RowIs(r, p), "done", NoRow, <<>>)
    BY <1>3, <1>6 DEF InsertCheckpoint, Done
  <2>2. /\ session'[c].call = q /\ session'[c].at = "done"
        /\ session'[c].locks = session[c].locks \cup Locked(c)
        /\ DOMAIN session'[c].mine = {r} \cup DOMAIN session[c].mine /\ session'[c].mine[r] = p
        /\ UNCHANGED <<db, answers>>
    BY <2>1, ProceedsWith DEF RuntimeInv, CallsGoOn, SessionShape
  <2>3. Holds(c, {r}, {r})' /\ session'[c].mine[r] = p
    BY <1>1, <1>3, <1>4, <2>2 DEF Holds, Locked
  <2>4. DriverIsAt(c)'
    BY <1>3, <1>6, <2>2, <2>3 DEF DriverIsAt, Present
  <2>5. GoesOn(c)'
    BY <1>2, <2>2, <2>4 DEF GoesOn, RuntimeOps
  <2> QED
    BY <1>1, <1>3, <1>6, <2>1, <2>5, ProceedKeeps
<1> QED
  BY <1>5, <1>6

-----------------------------------------------------------------------------
(* The statements of an operator.                                          *)

\* An operator looks for a control with the key.
LEMMA FindControlKeeps ==
  ASSUME RuntimeInv, NEW c \in Clients, FindControl(c)
  PROVE  RuntimeInv'
<1> DEFINE q == session[c].call
           r == CheckpointRow(q.instance)
           k == ControlRow(q.key)
<1>1. session[c].at = "find" /\ session[c] # Idle /\ Ready(c, "find") /\ At(c, "operate")
  BY IdleFields DEF FindControl, Ready
<1>2. q \in DOMAIN answers /\ q.op = "operate" /\ q.instance \in Instances /\ q.key \in ControlKeys
  BY <1>1, WhoseStatement DEF RuntimeCall
<1>3. session[c].row = k /\ session[c].todo = <<q>> /\ Holds(c, {}, {})
  BY <1>1, <1>2 DEF RuntimeInv, CallsGoOn, GoesOn, OperatorIsAt
<1>4. k # NoRow
  BY <1>2, Rows
<1>5. CASE ~Present(k)
  <2>1. Proceed(c, <<>>, "update", r, session[c].todo)
    BY <1>3, <1>5 DEF FindControl, Goes, Asked
  <2>2. /\ session'[c].call = q /\ session'[c].at = "update" /\ session'[c].row = r
        /\ session'[c].todo = session[c].todo
        /\ session'[c].locks = session[c].locks \cup Locked(c)
        /\ DOMAIN session'[c].mine = DOMAIN session[c].mine /\ UNCHANGED <<db, answers>>
    BY <2>1, ProceedsWithout DEF RuntimeInv, CallsGoOn, SessionShape
  <2>3. Holds(c, {}, {})'
    BY <1>1, <1>3, <1>5, <2>2 DEF Holds, Locked
  <2>4. OperatorIsAt(c)'
    BY <1>3, <2>2, <2>3 DEF OperatorIsAt
  <2>5. GoesOn(c)'
    BY <1>2, <2>2, <2>4 DEF GoesOn, RuntimeOps
  <2> QED
    BY <1>1, <2>1, <2>5, ProceedKeeps
<1>6. CASE Present(k) /\ SameControl(db[k], q)
  <2>1. Proceed(c, <<>>, "update", r, <<[op |-> "replay"]>>)
    BY <1>3, <1>6 DEF FindControl, Asked
  <2>2. /\ session'[c].call = q /\ session'[c].at = "update" /\ session'[c].row = r
        /\ session'[c].todo = <<[op |-> "replay"]>>
        /\ session'[c].locks = session[c].locks \cup Locked(c)
        /\ DOMAIN session'[c].mine = DOMAIN session[c].mine /\ UNCHANGED <<db, answers>>
    BY <2>1, ProceedsWithout DEF RuntimeInv, CallsGoOn, SessionShape
  <2>3. Holds(c, {k}, {})'
    BY <1>1, <1>3, <1>4, <1>6, <2>2 DEF Holds, Locked
  <2>4. OperatorIsAt(c)'
    BY <1>6, <2>2, <2>3 DEF OperatorIsAt, Present
  <2>5. GoesOn(c)'
    BY <1>2, <2>2, <2>4 DEF GoesOn, RuntimeOps
  <2> QED
    BY <1>1, <2>1, <2>5, ProceedKeeps
<1>7. CASE Present(k) /\ ~SameControl(db[k], q)
  <2>1. Refuse(c, "conflict")
    BY <1>3, <1>7 DEF FindControl, Asked
  <2> QED
    BY <1>1, <2>1, RefusedStep
<1> QED
  BY <1>5, <1>6, <1>7

\* An operator whose control is there already only waits for the checkpoint.
LEMMA ReplayControlKeeps ==
  ASSUME RuntimeInv, NEW c \in Clients, ReplayControl(c)
  PROVE  RuntimeInv'
<1> DEFINE q == session[c].call
           r == CheckpointRow(q.instance)
           k == ControlRow(q.key)
<1>1. session[c].at = "update" /\ session[c] # Idle /\ Ready(c, "update") /\ At(c, "replay")
  BY IdleFields DEF ReplayControl, Ready
<1>2. q \in DOMAIN answers /\ q.op = "operate"
  BY <1>1, WhoseStatement
<1>3. session[c].row = r /\ Holds(c, {k}, {}) /\ Present(k) /\ SameControl(db[k], q)
  <2>1. session[c].todo # <<q>>
    BY <1>1, <1>2 DEF At
  <2> QED
    BY <1>1, <1>2, <2>1 DEF RuntimeInv, CallsGoOn, GoesOn, OperatorIsAt
<1>4. Proceed(c, <<>>, "done", NoRow, <<>>)
  BY DEF ReplayControl, Done
<1>5. /\ session'[c].call = q /\ session'[c].at = "done"
      /\ session'[c].locks = session[c].locks \cup Locked(c)
      /\ DOMAIN session'[c].mine = DOMAIN session[c].mine /\ UNCHANGED <<db, answers>>
  BY <1>4, ProceedsWithout DEF RuntimeInv, CallsGoOn, SessionShape
<1>6. DOMAIN session'[c].mine = {} /\ session'[c].locks \subseteq {k, r}
      /\ (r \in session'[c].locks => r = k \/ Present(r))
  BY <1>1, <1>3, <1>5 DEF Holds, Locked
<1>7. OperatorIsAt(c)'
  BY <1>3, <1>5, <1>6 DEF OperatorIsAt, Present
<1>8. GoesOn(c)'
  BY <1>2, <1>5, <1>7 DEF GoesOn, RuntimeOps
<1> QED
  BY <1>1, <1>4, <1>8, ProceedKeeps

\* An operator acts on the last step of the checkpoint.
LEMMA OperateKeeps ==
  ASSUME RuntimeInv, NEW c \in Clients, Operate(c)
  PROVE  RuntimeInv'
<1> DEFINE q == session[c].call
           r == CheckpointRow(q.instance)
           k == ControlRow(q.key)
           p == Operated(db[r], q.action)
<1>1. session[c].at = "update" /\ session[c] # Idle /\ Ready(c, "update") /\ At(c, "operate")
  BY IdleFields DEF Operate, Ready
<1>2. q \in DOMAIN answers /\ q.op = "operate" /\ q.instance \in Instances
  BY <1>1, WhoseStatement DEF RuntimeCall
<1>3. session[c].row = r /\ session[c].todo = <<q>> /\ Holds(c, {}, {})
  <2>1. session[c].todo # <<[op |-> "replay"]>>
    BY <1>1 DEF At
  <2> QED
    BY <1>1, <1>2, <2>1 DEF RuntimeInv, CallsGoOn, GoesOn, OperatorIsAt
<1>4. r # NoRow
  BY <1>2, Rows
<1>5. CASE Present(r) /\ Offered(db[r])[q.action]
  <2>1. Proceed(c, RowIs(r, p), "record", k, session[c].todo)
    BY <1>3, <1>5 DEF Operate, Goes, Asked
  <2> HIDE DEF p
  <2>2. /\ session'[c].call = q /\ session'[c].at = "record" /\ session'[c].row = k
        /\ session'[c].todo = session[c].todo
        /\ session'[c].locks = session[c].locks \cup Locked(c)
        /\ DOMAIN session'[c].mine = {r} \cup DOMAIN session[c].mine /\ session'[c].mine[r] = p
        /\ UNCHANGED <<db, answers>>
    BY <2>1, ProceedsWith DEF RuntimeInv, CallsGoOn, SessionShape
  <2>3. Holds(c, {r}, {r})'
    BY <1>1, <1>3, <1>4, <1>5, <2>2 DEF Holds, Locked
  <2>4. ActedOn(c)'
    BY <1>5, <2>2 DEF ActedOn, Present, p
  <2>5. OperatorIsAt(c)'
    BY <1>3, <2>2, <2>3, <2>4 DEF OperatorIsAt
  <2>6. GoesOn(c)'
    BY <1>2, <2>2, <2>5 DEF GoesOn, RuntimeOps
  <2> QED
    BY <1>1, <2>1, <2>6, ProceedKeeps
<1>6. CASE ~(Present(r) /\ Offered(db[r])[q.action])
  <2>1. Refuse(c, "missing") \/ Refuse(c, "unavailable")
    BY <1>3, <1>6 DEF Operate, Asked
  <2> QED
    BY <1>1, <2>1, RefusedStep
<1> QED
  BY <1>5, <1>6

\* An operator records the control.
LEMMA RecordControlKeeps ==
  ASSUME RuntimeInv, NEW c \in Clients, RecordControl(c)
  PROVE  RuntimeInv'
<1> DEFINE q == session[c].call
           r == CheckpointRow(q.instance)
           k == ControlRow(q.key)
<1>1. session[c].at = "record" /\ session[c] # Idle /\ Ready(c, "record") /\ At(c, "operate")
  BY IdleFields DEF RecordControl, Ready
<1>2. q \in DOMAIN answers /\ q.op = "operate" /\ q.key \in ControlKeys
  BY <1>1, WhoseStatement DEF RuntimeCall
<1>3. session[c].row = k /\ session[c].todo = <<q>> /\ Holds(c, {r}, {r}) /\ ActedOn(c)
  BY <1>1, <1>2 DEF RuntimeInv, CallsGoOn, GoesOn, OperatorIsAt, At
<1>4. k # NoRow /\ r # k
  BY <1>2, Rows DEF CheckpointRow, ControlRow
<1>5. CASE Present(k)
  <2> DEFINE outcome == IF SameControl(db[k], q) THEN "ok" ELSE "conflict"
  <2>1. Refuse(c, outcome)
    BY <1>3, <1>5 DEF RecordControl, Asked
  <2>2. outcome = "ok" => IsStored(q)
    BY <1>2, <1>5 DEF IsStored
  <2> QED
    BY <1>1, <2>1, <2>2, RefusedStep
<1>6. CASE ~Present(k)
  <2> DEFINE control == ControlOf(q)
  <2>1. Proceed(c, RowIs(k, control), "done", NoRow, <<>>)
    BY <1>3, <1>6 DEF RecordControl, Done, Asked
  <2> HIDE DEF control
  <2>2. /\ session'[c].call = q /\ session'[c].at = "done"
        /\ session'[c].locks = session[c].locks \cup Locked(c)
        /\ DOMAIN session'[c].mine = {k} \cup DOMAIN session[c].mine /\ session'[c].mine[k] = control
        /\ \A s \in DOMAIN session[c].mine : s # k => session'[c].mine[s] = session[c].mine[s]
        /\ UNCHANGED <<db, answers>>
    BY <2>1, ProceedsWith DEF RuntimeInv, CallsGoOn, SessionShape
  <2>3. Holds(c, {r, k}, {r, k})'
    BY <1>1, <1>3, <1>4, <2>2 DEF Holds, Locked
  <2>4. ActedOn(c)'
    BY <1>3, <1>4, <2>2 DEF ActedOn, Present, Holds
  <2>5. OperatorIsAt(c)'
    BY <1>6, <2>2, <2>3, <2>4 DEF OperatorIsAt, Present, control
  <2>6. GoesOn(c)'
    BY <1>2, <2>2, <2>5 DEF GoesOn, RuntimeOps
  <2> QED
    BY <1>1, <1>3, <1>6, <2>1, <2>6, ProceedKeeps
<1> QED
  BY <1>5, <1>6

-----------------------------------------------------------------------------
(* The statements of the release store.                                    *)

\* A release is looked for.
LEMMA FindReleaseKeeps ==
  ASSUME RuntimeInv, NEW c \in Clients, FindRelease(c)
  PROVE  RuntimeInv'
<1> DEFINE q == session[c].call
           r == ReleaseRow(q.release)
<1>1. session[c].at = "find" /\ session[c] # Idle /\ Ready(c, "find") /\ At(c, "release")
  BY IdleFields DEF FindRelease, Ready
<1>2. q \in DOMAIN answers /\ q.op = "release" /\ q.release \in Releases
  BY <1>1, WhoseStatement DEF RuntimeCall
<1>3. session[c].row = r /\ session[c].todo = <<q>> /\ Holds(c, {}, {})
  BY <1>1, <1>2 DEF RuntimeInv, CallsGoOn, GoesOn, ReleaserIsAt
<1>4. r # NoRow
  BY <1>2, Rows
<1>5. CASE ~Present(r)
  <2>1. Proceed(c, <<>>, "record", r, session[c].todo)
    BY <1>3, <1>5 DEF FindRelease, Goes
  <2>2. /\ session'[c].call = q /\ session'[c].at = "record" /\ session'[c].row = r
        /\ session'[c].todo = session[c].todo
        /\ session'[c].locks = session[c].locks \cup Locked(c)
        /\ DOMAIN session'[c].mine = DOMAIN session[c].mine /\ UNCHANGED <<db, answers>>
    BY <2>1, ProceedsWithout DEF RuntimeInv, CallsGoOn, SessionShape
  <2>3. Holds(c, {}, {})'
    BY <1>1, <1>3, <1>5, <2>2 DEF Holds, Locked
  <2>4. ReleaserIsAt(c)'
    BY <1>3, <2>2, <2>3 DEF ReleaserIsAt
  <2>5. GoesOn(c)'
    BY <1>2, <2>2, <2>4 DEF GoesOn, RuntimeOps
  <2> QED
    BY <1>1, <2>1, <2>5, ProceedKeeps
<1>6. CASE Present(r) /\ db[r].by = q.by
  <2>1. Proceed(c, <<>>, "done", NoRow, <<>>)
    BY <1>3, <1>6 DEF FindRelease, Done, Asked
  <2>2. /\ session'[c].call = q /\ session'[c].at = "done"
        /\ session'[c].locks = session[c].locks \cup Locked(c)
        /\ DOMAIN session'[c].mine = DOMAIN session[c].mine /\ UNCHANGED <<db, answers>>
    BY <2>1, ProceedsWithout DEF RuntimeInv, CallsGoOn, SessionShape
  <2>3. Holds(c, {r}, {})'
    BY <1>1, <1>3, <1>4, <1>6, <2>2 DEF Holds, Locked
  <2>4. ReleaserIsAt(c)'
    BY <1>6, <2>2, <2>3 DEF ReleaserIsAt, Present
  <2>5. GoesOn(c)'
    BY <1>2, <2>2, <2>4 DEF GoesOn, RuntimeOps
  <2> QED
    BY <1>1, <2>1, <2>5, ProceedKeeps
<1>7. CASE Present(r) /\ db[r].by # q.by
  <2>1. Refuse(c, "conflict")
    BY <1>3, <1>7 DEF FindRelease, Asked
  <2> QED
    BY <1>1, <2>1, RefusedStep
<1> QED
  BY <1>5, <1>6, <1>7

\* A release is inserted with its audits.
LEMMA RecordReleaseKeeps ==
  ASSUME RuntimeInv, NEW c \in Clients, RecordRelease(c)
  PROVE  RuntimeInv'
<1> DEFINE q == session[c].call
           r == ReleaseRow(q.release)
           a == AuditRow(q.release)
           release == [status |-> "RELEASED", by |-> q.by]
           audits == [status |-> "kept", told |-> <<Audit("approval", q.by), Audit("release", q.by)>>]
<1>1. session[c].at = "record" /\ session[c] # Idle /\ Ready(c, "record") /\ At(c, "release")
  BY IdleFields DEF RecordRelease, Ready
<1>2. q \in DOMAIN answers /\ q.op = "release" /\ q.release \in Releases
  BY <1>1, WhoseStatement DEF RuntimeCall
<1>3. session[c].row = r /\ Holds(c, {}, {})
  BY <1>1, <1>2 DEF RuntimeInv, CallsGoOn, GoesOn, ReleaserIsAt
<1>4. r # NoRow /\ r # a
  BY <1>2, Rows DEF ReleaseRow, AuditRow
<1>5. CASE Present(r)
  <2>1. Refuse(c, "conflict")
    BY <1>3, <1>5 DEF RecordRelease
  <2> QED
    BY <1>1, <2>1, RefusedStep
<1>6. CASE ~Present(r)
  <2>1. Proceed(c, Over(RowIs(r, release), RowIs(a, audits)), "done", NoRow, <<>>)
    BY <1>3, <1>6 DEF RecordRelease, Done, Asked
  <2> HIDE DEF release, audits
  <2>2. /\ session'[c].call = q /\ session'[c].at = "done"
        /\ session'[c].locks = session[c].locks \cup Locked(c)
        /\ DOMAIN session'[c].mine = {r, a}
        /\ session'[c].mine[r] = release /\ session'[c].mine[a] = audits
        /\ UNCHANGED <<db, answers>>
    <3>1. SessionShape /\ DOMAIN session[c].mine = {}
      BY <1>3 DEF RuntimeInv, CallsGoOn, SessionShape, Holds
    <3> QED
      BY <1>4, <2>1, <3>1, ProceedsWithBoth
  <2>3. Holds(c, {r}, {r, a})'
    BY <1>1, <1>3, <1>4, <2>2 DEF Holds, Locked
  <2>4. ReleaserIsAt(c)'
    BY <1>6, <2>2, <2>3 DEF ReleaserIsAt, Present, release, audits
  <2>5. GoesOn(c)'
    BY <1>2, <2>2, <2>4 DEF GoesOn, RuntimeOps
  <2> QED
    BY <1>1, <1>3, <1>6, <2>1, <2>5, ProceedKeeps
<1> QED
  BY <1>5, <1>6

\* A deployment locks its release.
LEMMA LockReleaseKeeps ==
  ASSUME RuntimeInv, NEW c \in Clients, LockRelease(c)
  PROVE  RuntimeInv'
<1> DEFINE q == session[c].call
           r == ReleaseRow(q.release)
           d == DeploymentRow(q.release, q.environment)
<1>1. session[c].at = "update" /\ session[c] # Idle /\ Ready(c, "update") /\ At(c, "deploy")
  BY IdleFields DEF LockRelease, Ready
<1>2. q \in DOMAIN answers /\ q.op = "deploy" /\ q.release \in Releases
  BY <1>1, WhoseStatement DEF RuntimeCall
<1>3. session[c].row = r /\ session[c].todo = <<q>> /\ Holds(c, {}, {})
  BY <1>1, <1>2 DEF RuntimeInv, CallsGoOn, GoesOn, DeployerIsAt
<1>4. r # NoRow
  BY <1>2, Rows
<1>5. CASE Present(r)
  <2>1. Proceed(c, <<>>, "again", d, session[c].todo)
    BY <1>3, <1>5 DEF LockRelease, Goes, Asked
  <2>2. /\ session'[c].call = q /\ session'[c].at = "again" /\ session'[c].row = d
        /\ session'[c].todo = session[c].todo
        /\ session'[c].locks = session[c].locks \cup Locked(c)
        /\ DOMAIN session'[c].mine = DOMAIN session[c].mine /\ UNCHANGED <<db, answers>>
    BY <2>1, ProceedsWithout DEF RuntimeInv, CallsGoOn, SessionShape
  <2>3. Holds(c, {r}, {})'
    BY <1>1, <1>3, <1>4, <1>5, <2>2 DEF Holds, Locked
  <2>4. DeployerIsAt(c)'
    BY <1>3, <1>5, <2>2, <2>3 DEF DeployerIsAt, Present
  <2>5. GoesOn(c)'
    BY <1>2, <2>2, <2>4 DEF GoesOn, RuntimeOps
  <2> QED
    BY <1>1, <2>1, <2>5, ProceedKeeps
<1>6. CASE ~Present(r)
  <2>1. Refuse(c, "missing")
    BY <1>3, <1>6 DEF LockRelease
  <2> QED
    BY <1>1, <2>1, RefusedStep
<1> QED
  BY <1>5, <1>6

\* A deployment is looked for.
LEMMA FindDeploymentKeeps ==
  ASSUME RuntimeInv, NEW c \in Clients, FindDeployment(c)
  PROVE  RuntimeInv'
<1> DEFINE q == session[c].call
           r == ReleaseRow(q.release)
           d == DeploymentRow(q.release, q.environment)
<1>1. session[c].at = "again" /\ session[c] # Idle /\ Ready(c, "again") /\ At(c, "deploy")
  BY IdleFields DEF FindDeployment, Ready
<1>2. q \in DOMAIN answers /\ q.op = "deploy" /\ q.release \in Releases /\ q.environment \in Environments
  BY <1>1, WhoseStatement DEF RuntimeCall
<1>3. session[c].row = d /\ session[c].todo = <<q>> /\ Holds(c, {r}, {}) /\ Present(r)
  BY <1>1, <1>2 DEF RuntimeInv, CallsGoOn, GoesOn, DeployerIsAt
<1>4. d # NoRow
  BY <1>2, Rows
<1>5. CASE ~Present(d)
  <2>1. Proceed(c, <<>>, "record", d, session[c].todo)
    BY <1>3, <1>5 DEF FindDeployment, Goes
  <2>2. /\ session'[c].call = q /\ session'[c].at = "record" /\ session'[c].row = d
        /\ session'[c].todo = session[c].todo
        /\ session'[c].locks = session[c].locks \cup Locked(c)
        /\ DOMAIN session'[c].mine = DOMAIN session[c].mine /\ UNCHANGED <<db, answers>>
    BY <2>1, ProceedsWithout DEF RuntimeInv, CallsGoOn, SessionShape
  <2>3. Holds(c, {r}, {})'
    BY <1>1, <1>3, <1>5, <2>2 DEF Holds, Locked
  <2>4. DeployerIsAt(c)'
    BY <1>3, <2>2, <2>3 DEF DeployerIsAt, Present
  <2>5. GoesOn(c)'
    BY <1>2, <2>2, <2>4 DEF GoesOn, RuntimeOps
  <2> QED
    BY <1>1, <2>1, <2>5, ProceedKeeps
<1>6. CASE Present(d) /\ db[d].by = q.by
  <2>1. Proceed(c, <<>>, "done", NoRow, <<>>)
    BY <1>3, <1>6 DEF FindDeployment, Done, Asked
  <2>2. /\ session'[c].call = q /\ session'[c].at = "done"
        /\ session'[c].locks = session[c].locks \cup Locked(c)
        /\ DOMAIN session'[c].mine = DOMAIN session[c].mine /\ UNCHANGED <<db, answers>>
    BY <2>1, ProceedsWithout DEF RuntimeInv, CallsGoOn, SessionShape
  <2>3. Holds(c, {r, d}, {})'
    BY <1>1, <1>3, <1>4, <1>6, <2>2 DEF Holds, Locked
  <2>4. DeployerIsAt(c)'
    BY <1>3, <1>6, <2>2, <2>3 DEF DeployerIsAt, Present
  <2>5. GoesOn(c)'
    BY <1>2, <2>2, <2>4 DEF GoesOn, RuntimeOps
  <2> QED
    BY <1>1, <2>1, <2>5, ProceedKeeps
<1>7. CASE Present(d) /\ db[d].by # q.by
  <2>1. Refuse(c, "conflict")
    BY <1>3, <1>7 DEF FindDeployment, Asked
  <2> QED
    BY <1>1, <2>1, RefusedStep
<1> QED
  BY <1>5, <1>6, <1>7

\* A deployment is inserted with its audit.
LEMMA RecordDeploymentKeeps ==
  ASSUME RuntimeInv, NEW c \in Clients, RecordDeployment(c)
  PROVE  RuntimeInv'
<1> DEFINE q == session[c].call
           r == ReleaseRow(q.release)
           a == AuditRow(q.release)
           d == DeploymentRow(q.release, q.environment)
           deployment == [status |-> "deployed", by |-> q.by]
           audits == [db[a] EXCEPT !.told = Append(@, Audit(q.environment, q.by))]
<1>1. session[c].at = "record" /\ session[c] # Idle /\ Ready(c, "record") /\ At(c, "deploy")
  BY IdleFields DEF RecordDeployment, Ready
<1>2. q \in DOMAIN answers /\ q.op = "deploy" /\ q.release \in Releases /\ q.environment \in Environments
  BY <1>1, WhoseStatement DEF RuntimeCall
<1>3. session[c].row = d /\ Holds(c, {r}, {}) /\ Present(r)
  BY <1>1, <1>2 DEF RuntimeInv, CallsGoOn, GoesOn, DeployerIsAt
<1>4. d # NoRow /\ d # a
  BY <1>2, Rows DEF DeploymentRow, AuditRow
<1>5. CASE Present(d)
  <2>1. Refuse(c, "conflict")
    BY <1>3, <1>5 DEF RecordDeployment
  <2> QED
    BY <1>1, <2>1, RefusedStep
<1>6. CASE ~Present(d)
  <2>1. Proceed(c, Over(RowIs(d, deployment), RowIs(a, audits)), "done", NoRow, <<>>)
    BY <1>3, <1>6 DEF RecordDeployment, Done, Asked
  <2> HIDE DEF deployment, audits
  <2>2. /\ session'[c].call = q /\ session'[c].at = "done"
        /\ session'[c].locks = session[c].locks \cup Locked(c)
        /\ DOMAIN session'[c].mine = {d, a}
        /\ session'[c].mine[d] = deployment /\ session'[c].mine[a] = audits
        /\ UNCHANGED <<db, answers>>
    <3>1. SessionShape /\ DOMAIN session[c].mine = {}
      BY <1>3 DEF RuntimeInv, CallsGoOn, SessionShape, Holds
    <3> QED
      BY <1>4, <2>1, <3>1, ProceedsWithBoth
  <2>3. Holds(c, {r, d}, {d, a})'
    BY <1>1, <1>3, <1>4, <2>2 DEF Holds, Locked
  <2>4. DeployerIsAt(c)'
    BY <1>3, <1>6, <2>2, <2>3 DEF DeployerIsAt, Present, deployment, audits
  <2>5. GoesOn(c)'
    BY <1>2, <2>2, <2>4 DEF GoesOn, RuntimeOps
  <2> QED
    BY <1>1, <1>3, <1>6, <2>1, <2>5, ProceedKeeps
<1> QED
  BY <1>5, <1>6

-----------------------------------------------------------------------------
(* Calls begin.                                                            *)

\* A call that begins where it may be keeps the invariant.
LEMMA BeginKeeps ==
  ASSUME RuntimeInv, NEW c \in Clients, NEW q, NEW at, NEW row, NEW todo,
         Begin(c, q, at, row, todo), GoesOn(c)'
  PROVE  RuntimeInv'
BY Begins, QuietStep DEF RuntimeInv, CallsGoOn, SessionShape, Quiet

\* A call of the runtime or the release store begins.
LEMMA RuntimeCallKeeps ==
  ASSUME RuntimeInv, NEW c \in Clients, NEW q \in DOMAIN answers,
         CallDriver(c, q) \/ CallOperator(c, q) \/ CallRelease(c, q)
  PROVE  RuntimeInv'
<1>1. SessionShape
  BY DEF RuntimeInv, CallsGoOn, SessionShape
<1>2. CASE CallDriver(c, q)
  <2>1. Begin(c, q, "load", NoRow, <<q>>) /\ q.op = "drive"
    BY <1>2 DEF CallDriver
  <2>2. DriverIsAt(c)'
    BY <1>1, <2>1, Begins DEF DriverIsAt, Holds
  <2>3. GoesOn(c)'
    BY <1>1, <2>1, <2>2, Begins DEF GoesOn, RuntimeOps
  <2> QED
    BY <2>1, <2>3, BeginKeeps
<1>3. CASE CallOperator(c, q)
  <2>1. Begin(c, q, "find", ControlRow(q.key), <<q>>) /\ q.op = "operate"
    BY <1>3 DEF CallOperator
  <2>2. OperatorIsAt(c)'
    BY <1>1, <2>1, Begins DEF OperatorIsAt, Holds
  <2>3. GoesOn(c)'
    BY <1>1, <2>1, <2>2, Begins DEF GoesOn, RuntimeOps
  <2> QED
    BY <2>1, <2>3, BeginKeeps
<1>4. CASE q.op = "release" /\ Begin(c, q, "find", ReleaseRow(q.release), <<q>>)
  <2>1. ReleaserIsAt(c)'
    BY <1>1, <1>4, Begins DEF ReleaserIsAt, Holds
  <2>2. GoesOn(c)'
    BY <1>1, <1>4, <2>1, Begins DEF GoesOn, RuntimeOps
  <2> QED
    BY <1>4, <2>2, BeginKeeps
<1>5. CASE q.op = "deploy" /\ Begin(c, q, "update", ReleaseRow(q.release), <<q>>)
  <2>1. DeployerIsAt(c)'
    BY <1>1, <1>5, Begins DEF DeployerIsAt, Holds
  <2>2. GoesOn(c)'
    BY <1>1, <1>5, <2>1, Begins DEF GoesOn, RuntimeOps
  <2> QED
    BY <1>5, <2>2, BeginKeeps
<1> QED
  BY <1>2, <1>3, <1>4, <1>5 DEF CallRelease

\* A call of the integrations begins.
LEMMA IntegrationCallKeeps ==
  ASSUME RuntimeInv, NEW c \in Clients, NEW q \in DOMAIN answers,
         CallGovernance(c, q) \/ CallEvidence(c, q) \/ CallInvoke(c, q) \/ CallWebhook(c, q)
  PROVE  RuntimeInv'
<1>1. SessionShape
  BY DEF RuntimeInv, CallsGoOn, SessionShape
<1>2. q.op \notin {"save", "replay"} \cup RuntimeOps
  BY DEF CallGovernance, CallEvidence, CallInvoke, CallWebhook, Governing, Transitions, RuntimeOps
<1> DEFINE rows == {NoRow, GovernanceAuditRow(q.key), ReliabilityRow(q.key)}
<1>3. PICK at \in {"find", "record", "look up", "verify"}, row \in rows : Begin(c, q, at, row, <<q>>)
  BY DEF CallGovernance, CallEvidence, CallInvoke, CallWebhook
<1>4. Begin(c, q, at, row, <<q>>) /\ row \notin RuntimeRows
  BY <1>3, RowsApart, Rows
<1>5. /\ session'[c].call = q /\ session'[c].at = at /\ session'[c].row = row
      /\ session'[c].todo = <<q>> /\ session'[c].locks = {} /\ DOMAIN session'[c].mine = {}
      /\ answers' = answers
  BY <1>1, <1>4, Begins
<1>6. Head(<<q>>) = q
  BY HeadOfOne
<1>7. IsElsewhere(c)'
  BY <1>2, <1>4, <1>5, <1>6 DEF IsElsewhere
<1>8. GoesOn(c)'
  BY <1>2, <1>5, <1>7 DEF GoesOn, RuntimeOps
<1> QED
  BY <1>4, <1>8, BeginKeeps

-----------------------------------------------------------------------------
(* The statements of the integrations.                                     *)

\* Who is where no call of the runtime is, is a call of the integrations.
LEMMA WhoIsElsewhere ==
  ASSUME RuntimeInv, NEW c \in Clients,
         session[c].at \notin {"idle", "done"},
         \/ session[c].at \notin {"load", "find", "update", "again", "record"}
         \/ /\ session[c].todo # <<>> /\ session[c].at # "load"
            /\ Head(session[c].todo).op \notin {"save", "replay"} \cup RuntimeOps
         \/ session[c].row[1] = "governance audit" /\ session[c].at = "record"
         \/ session[c].call.op \in Governing
  PROVE  /\ session[c] # Idle /\ session[c].call \in DOMAIN answers
         /\ session[c].call.op \notin {"save", "replay"} \cup RuntimeOps
         /\ IsElsewhere(c)
<1>1. session[c] # Idle /\ GoesOn(c)
  BY IdleFields DEF RuntimeInv, CallsGoOn
<1>2. session[c].call \in DOMAIN answers
      /\ session[c].call.op \in RuntimeOps \cup Governing \cup {"evidence", "invoke", "webhook"}
  BY <1>1, IntegrationAssumption DEF GoesOn, RuntimeInv, CallsGoOn
<1>3. session[c].call.op # "drive"
  <2>1. SUFFICES ASSUME session[c].call.op = "drive" PROVE FALSE
    OBVIOUS
  <2>2. session[c].call.op \notin Governing
    BY <2>1 DEF Governing, Transitions
  <2>3. DriverIsAt(c)
    BY <1>1, <2>1 DEF GoesOn
  <2>4. CheckpointRow(session[c].call.instance)[1] # "governance audit"
    BY DEF CheckpointRow
  <2> QED
    BY <2>2, <2>3, <2>4 DEF DriverIsAt, Saves, At
<1>4. session[c].call.op # "operate"
  <2>1. SUFFICES ASSUME session[c].call.op = "operate" PROVE FALSE
    OBVIOUS
  <2>2. session[c].call.op \notin Governing
    BY <2>1 DEF Governing, Transitions
  <2>3. OperatorIsAt(c)
    BY <1>1, <2>1 DEF GoesOn
  <2>4. ControlRow(session[c].call.key)[1] # "governance audit"
    BY DEF ControlRow
  <2>5. Head(<<session[c].call>>).op \in RuntimeOps
    BY <2>1, HeadOfOne DEF RuntimeOps
  <2>6. session[c].todo = <<[op |-> "replay"]>> => Head(session[c].todo).op = "replay"
    <3> DEFINE replay == [op |-> "replay"]
    <3>1. replay.op = "replay"
      OBVIOUS
    <3> HIDE DEF replay
    <3>2. session[c].todo = <<replay>> => Head(session[c].todo) = replay
      BY HeadOfOne
    <3> QED
      BY <3>1, <3>2 DEF replay
  <2>7. \/ session[c].at \in {"find", "update", "record"} /\ session[c].todo = <<session[c].call>>
        \/ session[c].at = "update" /\ session[c].todo = <<[op |-> "replay"]>>
    BY <2>3 DEF OperatorIsAt
  <2>8. session[c].at = "record" => session[c].row[1] # "governance audit"
    BY <2>3, <2>4 DEF OperatorIsAt
  <2>9. Head(session[c].todo).op \in {"replay"} \cup RuntimeOps
    <3>1. CASE session[c].todo = <<session[c].call>>
      BY <2>5, <3>1
    <3>2. CASE session[c].todo = <<[op |-> "replay"]>>
      BY <2>6, <3>2
    <3> QED
      BY <2>7, <3>1, <3>2
  <2> QED
    BY <2>2, <2>7, <2>8, <2>9
<1>5. session[c].call.op # "release"
  <2>1. SUFFICES ASSUME session[c].call.op = "release" PROVE FALSE
    OBVIOUS
  <2>2. session[c].call.op \notin Governing
    BY <2>1 DEF Governing, Transitions
  <2>3. ReleaserIsAt(c)
    BY <1>1, <2>1 DEF GoesOn
  <2>4. ReleaseRow(session[c].call.release)[1] # "governance audit"
    BY DEF ReleaseRow
  <2>5. Head(<<session[c].call>>).op \in RuntimeOps
    BY <2>1, HeadOfOne DEF RuntimeOps
  <2> QED
    BY <2>2, <2>3, <2>4, <2>5 DEF ReleaserIsAt
<1>6. session[c].call.op # "deploy"
  <2>1. SUFFICES ASSUME session[c].call.op = "deploy" PROVE FALSE
    OBVIOUS
  <2>2. session[c].call.op \notin Governing
    BY <2>1 DEF Governing, Transitions
  <2>3. DeployerIsAt(c)
    BY <1>1, <2>1 DEF GoesOn
  <2>4. DeploymentRow(session[c].call.release, session[c].call.environment)[1] # "governance audit"
        /\ ReleaseRow(session[c].call.release)[1] # "governance audit"
    BY DEF ReleaseRow, DeploymentRow
  <2>5. Head(<<session[c].call>>).op \in RuntimeOps
    BY <2>1, HeadOfOne DEF RuntimeOps
  <2> QED
    BY <2>2, <2>3, <2>4, <2>5 DEF DeployerIsAt
<1>7. session[c].call.op \notin {"save", "replay"} \cup RuntimeOps
  BY <1>2, <1>3, <1>4, <1>5, <1>6 DEF RuntimeOps, Governing, Transitions
<1> QED
  BY <1>1, <1>2, <1>7 DEF GoesOn

\* A statement elsewhere that writes no row of the runtime keeps the invariant.
LEMMA ElsewhereKeeps ==
  ASSUME RuntimeInv, NEW c \in Clients, session[c].call \in DOMAIN answers, IsElsewhere(c),
         session[c].call.op \notin RuntimeOps,
         NEW w, NEW at, NEW row, NEW todo, Proceed(c, w, at, row, todo),
         DOMAIN w \cap RuntimeRows = {}, at # "load", row \notin RuntimeRows,
         todo # <<>> => Head(todo).op \notin {"save", "replay"} \cup RuntimeOps
  PROVE  RuntimeInv'
<1> DEFINE mine == session[c].mine
<1>1. /\ SessionShape' /\ Alone(c) /\ UNCHANGED <<db, answers>>
      /\ session'[c].call = session[c].call
      /\ session'[c].at = at /\ session'[c].row = row /\ session'[c].todo = todo
      /\ session'[c].locks = session[c].locks \cup Locked(c)
      /\ session'[c].mine = Over(w, mine)
  BY Proceeds DEF RuntimeInv, CallsGoOn, SessionShape
<1>2. DOMAIN mine \cap RuntimeRows = {}
  BY DEF IsElsewhere
<1> HIDE DEF mine
<1>3. DOMAIN session'[c].mine \cap RuntimeRows = {}
  BY <1>1, <1>2 DEF Over
<1>4. session'[c].locks \cap RuntimeRows = {}
  BY <1>1 DEF IsElsewhere, Locked
<1>5. IsElsewhere(c)'
  BY <1>1, <1>3, <1>4 DEF IsElsewhere
<1>6. GoesOn(c)'
  BY <1>1, <1>5 DEF GoesOn, RuntimeOps
<1> QED
  BY <1>1, <1>4, <1>6, QuietStep DEF Quiet

\* Client c is in a call of the integrations.
Elsewhere(c) ==
  /\ session[c] # Idle /\ session[c].call \in DOMAIN answers
  /\ session[c].call.op \notin {"save", "replay"} \cup RuntimeOps
  /\ IsElsewhere(c)

\* Calls of the integrations may be refused with any answer.
LEMMA RefusedElsewhere ==
  ASSUME RuntimeInv, NEW c \in Clients, Elsewhere(c), NEW outcome, Refuse(c, outcome)
  PROVE  RuntimeInv'
BY RefusedStep DEF Elsewhere, IsStored, RuntimeOps

\* A statement elsewhere that writes nothing keeps the invariant.
LEMMA ReadsElsewhere ==
  ASSUME RuntimeInv, NEW c \in Clients, Elsewhere(c),
         NEW at, NEW row, NEW todo, Proceed(c, <<>>, at, row, todo),
         at # "load", row \notin RuntimeRows,
         todo # <<>> => Head(todo).op \notin {"save", "replay"} \cup RuntimeOps
  PROVE  RuntimeInv'
<1>1. DOMAIN <<>> = {}
  OBVIOUS
<1> QED
  BY <1>1, ElsewhereKeeps DEF Elsewhere

\* A statement elsewhere that writes a row of its own keeps the invariant.
LEMMA WritesElsewhere ==
  ASSUME RuntimeInv, NEW c \in Clients, Elsewhere(c),
         NEW r, r \notin RuntimeRows, NEW value,
         NEW at, NEW row, NEW todo, Proceed(c, RowIs(r, value), at, row, todo),
         at # "load", row \notin RuntimeRows,
         todo # <<>> => Head(todo).op \notin {"save", "replay"} \cup RuntimeOps
  PROVE  RuntimeInv'
<1>1. DOMAIN RowIs(r, value) = {r}
  BY RowIsRow
<1> QED
  BY <1>1, ElsewhereKeeps DEF Elsewhere

\* The statements of governance.
LEMMA GovernanceKeeps ==
  ASSUME RuntimeInv, NEW c \in Clients,
         \/ FindAudit(c) \/ LockNew(c) \/ InsertConnector(c) \/ ApplyTransition(c)
         \/ ControlDelivery(c) \/ InsertAudit(c)
  PROVE  RuntimeInv'
<1> DEFINE q == session[c].call
           s == session[c]
           op == Head(session[c].todo).op
<1>1. Elsewhere(c)
  <2>1. CASE FindAudit(c) \/ ApplyTransition(c)
    <3>1. session[c].at \in {"find", "again"} /\ session[c].call.op \in Governing
      BY <2>1 DEF FindAudit, ApplyTransition, Governs, Ready, Asked, Governing
    <3> QED
      BY <3>1, WhoIsElsewhere DEF Elsewhere
  <2>2. CASE LockNew(c) \/ InsertConnector(c) \/ ControlDelivery(c)
    <3>1. session[c].at \in {"again", "record"} /\ session[c].todo # <<>>
          /\ Head(session[c].todo).op \in {"register", "insert connector", "control"}
      BY <2>2 DEF LockNew, InsertConnector, ControlDelivery, Ready, At
    <3> QED
      BY <3>1, WhoIsElsewhere DEF Elsewhere, RuntimeOps
  <2>3. CASE InsertAudit(c)
    <3>1. session[c].at = "record" /\ session[c].row[1] = "governance audit"
      BY <2>3 DEF InsertAudit, Ready
    <3> QED
      BY <3>1, WhoIsElsewhere DEF Elsewhere
  <2> QED
    BY <2>1, <2>2, <2>3
<1>2. /\ session[c].row \notin RuntimeRows /\ NoRow \notin RuntimeRows
      /\ session[c].todo # <<>> => Head(session[c].todo).op \notin {"save", "replay"} \cup RuntimeOps
  BY <1>1, Rows DEF Elsewhere, IsElsewhere
<1>3. ASSUME NEW outcome, Refuse(c, outcome) PROVE RuntimeInv'
  BY <1>1, <1>3, RefusedElsewhere
<1>4. ASSUME NEW at, NEW row, at # "load", row \notin RuntimeRows, Goes(c, <<>>, at, row)
      PROVE  RuntimeInv'
  BY <1>1, <1>2, <1>4, ReadsElsewhere DEF Goes
<1>5. ASSUME Done(c, <<>>) PROVE RuntimeInv'
  BY <1>1, <1>2, <1>5, ReadsElsewhere DEF Done
<1>6. ASSUME NEW value, Done(c, RowIs(session[c].row, value)) PROVE RuntimeInv'
  BY <1>1, <1>2, <1>6, WritesElsewhere DEF Done
<1>7. ASSUME NEW connector, Writes(c, connector) PROVE RuntimeInv'
  <2>1. Proceed(c, RowIs(ConnectorRow(q.connector), connector), "record", GovernanceAuditRow(q.key),
                session[c].todo)
    BY <1>7 DEF Writes, Goes, Asked
  <2> QED
    BY <1>1, <1>2, <2>1, RowsApart, WritesElsewhere
<1>8. CASE FindAudit(c)
  <2>1. \/ Goes(c, <<>>, "again", ConnectorRow(q.connector)) \/ Done(c, <<>>)
        \/ Refuse(c, "conflict")
    BY <1>8 DEF FindAudit, Asked
  <2> QED
    BY <1>3, <1>4, <1>5, <2>1, RowsApart
<1>9. CASE LockNew(c)
  <2>1. \/ Refuse(c, "conflict")
        \/ Proceed(c, <<>>, "record", session[c].row, <<[op |-> "insert connector"]>>)
    BY <1>9 DEF LockNew
  <2>2. Head(<<[op |-> "insert connector"]>>).op \notin {"save", "replay"} \cup RuntimeOps
    <3> DEFINE x == [op |-> "insert connector"]
    <3>1. x.op \notin {"save", "replay"} \cup RuntimeOps
      BY DEF RuntimeOps
    <3> HIDE DEF x
    <3>2. Head(<<x>>).op \notin {"save", "replay"} \cup RuntimeOps
      BY <3>1, HeadOfOne
    <3> QED
      BY <3>2 DEF x
  <2> QED
    BY <1>1, <1>2, <1>3, <2>1, <2>2, ReadsElsewhere
<1>10. CASE InsertConnector(c)
  <2> DEFINE draft == [status |-> "draft"]
  <2>1. \/ Refuse(c, "unknown")
        \/ Proceed(c, RowIs(session[c].row, draft), "record", GovernanceAuditRow(q.key), <<q>>)
    BY <1>10 DEF InsertConnector, Asked
  <2>2. Head(<<q>>).op \notin {"save", "replay"} \cup RuntimeOps
    BY <1>1, HeadOfOne DEF Elsewhere
  <2> HIDE DEF draft
  <2> QED
    BY <1>1, <1>2, <1>3, <2>1, <2>2, RowsApart, WritesElsewhere
<1>11. CASE ApplyTransition(c)
  <2>1. \/ \E outcome : Refuse(c, outcome)
        \/ \E connector : Writes(c, connector)
    BY <1>11 DEF ApplyTransition
  <2> QED
    BY <1>3, <1>7, <2>1
<1>12. CASE ControlDelivery(c)
  <2>1. \/ Refuse(c, "missing") \/ Refuse(c, "retired")
        \/ Goes(c, <<>>, "record", GovernanceAuditRow(q.key))
    BY <1>12 DEF ControlDelivery, Asked
  <2> QED
    BY <1>3, <1>4, <2>1, RowsApart
<1>13. CASE InsertAudit(c)
  <2>1. Refuse(c, "unknown") \/ \E value : Done(c, RowIs(session[c].row, value))
    BY <1>13 DEF InsertAudit
  <2> QED
    BY <1>3, <1>6, <2>1
<1> QED
  BY <1>8, <1>9, <1>10, <1>11, <1>12, <1>13

\* The statements of the evidence of deliveries.
LEMMA EvidenceKeeps ==
  ASSUME RuntimeInv, NEW c \in Clients, InsertEvidence(c) \/ MergeEvidence(c)
  PROVE  RuntimeInv'
<1>1. Elsewhere(c)
  <2>1. session[c].at \in {"record", "update"} /\ session[c].todo # <<>>
        /\ Head(session[c].todo).op = "evidence"
    BY DEF InsertEvidence, MergeEvidence, Ready, At
  <2> QED
    BY <2>1, WhoIsElsewhere DEF Elsewhere, RuntimeOps
<1>2. session[c].row \notin RuntimeRows /\ NoRow \notin RuntimeRows
  BY <1>1, Rows DEF Elsewhere, IsElsewhere
<1>3. ASSUME Done(c, <<>>) PROVE RuntimeInv'
  BY <1>1, <1>2, <1>3, ReadsElsewhere DEF Done
<1>4. ASSUME NEW value, Done(c, RowIs(session[c].row, value)) PROVE RuntimeInv'
  BY <1>1, <1>2, <1>4, WritesElsewhere DEF Done
<1>5. CASE InsertEvidence(c) /\ Present(session[c].row)
  <2>1. session' = [session EXCEPT ![c].at = "update"] /\ UNCHANGED <<db, answers>>
    BY <1>5 DEF InsertEvidence
  <2>2. DOMAIN session = Clients
        /\ DOMAIN session[c] = {"call", "at", "row", "todo", "locks", "mine"}
        /\ \A d \in Clients : DOMAIN session[d] = DOMAIN Idle
    BY IdleFields DEF RuntimeInv, CallsGoOn
  <2> DEFINE n == [session[c] EXCEPT !.at = "update"]
  <2>3. DOMAIN n = DOMAIN Idle /\ n.call = session[c].call /\ n.at = "update"
        /\ n.row = session[c].row /\ n.todo = session[c].todo
    BY <2>2, IdleFields
  <2>4. n.locks = session[c].locks /\ n.mine = session[c].mine
    BY <2>2
  <2>5. session' = [session EXCEPT ![c] = n]
    BY <2>1, <2>2
  <2> HIDE DEF n
  <2>6. session'[c] = n /\ SessionShape' /\ Alone(c)
    BY <2>2, <2>3, <2>5 DEF SessionShape, Alone
  <2>7. IsElsewhere(c)'
    BY <1>1, <2>3, <2>4, <2>6 DEF Elsewhere, IsElsewhere
  <2>8. GoesOn(c)'
    BY <1>1, <2>1, <2>3, <2>6, <2>7 DEF GoesOn, Elsewhere, RuntimeOps
  <2>9. session'[c].locks \cap RuntimeRows = {}
    BY <1>1, <2>4, <2>6 DEF Elsewhere, IsElsewhere
  <2> QED
    BY <2>1, <2>6, <2>8, <2>9, QuietStep DEF Quiet
<1>6. CASE InsertEvidence(c) /\ ~Present(session[c].row)
  BY <1>4, <1>6 DEF InsertEvidence
<1>7. CASE MergeEvidence(c)
  <2>1. \/ Refuse(c, "conflict") \/ Done(c, <<>>)
        \/ \E value : Done(c, RowIs(session[c].row, value))
    BY <1>7 DEF MergeEvidence
  <2> QED
    BY <1>1, <1>3, <1>4, <2>1, RefusedElsewhere
<1> QED
  BY <1>5, <1>6, <1>7

\* The steps of external actions and webhooks.
LEMMA ActionsKeep ==
  ASSUME RuntimeInv, NEW c \in Clients,
         LookUpInvocation(c) \/ Invoke(c) \/ PutInvocation(c) \/ IngestWebhook(c)
  PROVE  RuntimeInv'
<1>1. Elsewhere(c)
  <2>1. session[c].at \in {"look up", "invoke", "put", "verify"}
    BY DEF LookUpInvocation, Invoke, PutInvocation, IngestWebhook
  <2> QED
    BY <2>1, WhoIsElsewhere DEF Elsewhere
<1>2. NoRow \notin RuntimeRows
  BY Rows
<1>3. ASSUME NEW outcome, Refuse(c, outcome) PROVE RuntimeInv'
  BY <1>1, <1>3, RefusedElsewhere
<1>4. ASSUME NEW at, at # "load", NEW x, x.op \notin {"save", "replay"} \cup RuntimeOps,
             Proceed(c, <<>>, at, NoRow, <<x>>)
      PROVE  RuntimeInv'
  BY <1>1, <1>2, <1>4, HeadOfOne, ReadsElsewhere
<1>5. ASSUME NEW n, Attempt(c, n) PROVE RuntimeInv'
  <2> DEFINE x == [op |-> "attempt", number |-> n]
  <2>1. x.op \notin {"save", "replay"} \cup RuntimeOps
    BY DEF RuntimeOps
  <2>2. Proceed(c, <<>>, "invoke", NoRow, <<x>>)
    BY <1>5 DEF Attempt
  <2> HIDE DEF x
  <2> QED
    BY <1>4, <2>1, <2>2
<1>6. ASSUME NEW outcome \in {"accepted", "unknown"},
             Proceed(c, <<>>, "put", NoRow, <<[op |-> outcome]>>)
      PROVE  RuntimeInv'
  <2> DEFINE x == [op |-> outcome]
  <2>1. x.op \notin {"save", "replay"} \cup RuntimeOps
    BY DEF RuntimeOps
  <2>2. Proceed(c, <<>>, "put", NoRow, <<x>>)
    BY <1>6
  <2> HIDE DEF x
  <2> QED
    BY <1>4, <2>1, <2>2
<1>7. CASE LookUpInvocation(c)
  <2>1. Attempt(c, 1) \/ \E outcome : Refuse(c, outcome)
    BY <1>7 DEF LookUpInvocation
  <2> QED
    BY <1>3, <1>5, <2>1
<1>8. CASE Invoke(c)
  <2>1. \/ \E outcome \in {"accepted", "unknown"} : Proceed(c, <<>>, "put", NoRow, <<[op |-> outcome]>>)
        \/ \E n : Attempt(c, n)
        \/ \E outcome : Refuse(c, outcome)
    BY <1>8 DEF Invoke
  <2> QED
    BY <1>3, <1>5, <1>6, <2>1
<1>9. CASE PutInvocation(c) \/ IngestWebhook(c)
  <2>1. \E outcome : Refuse(c, outcome)
    BY <1>9 DEF PutInvocation, IngestWebhook
  <2> QED
    BY <1>3, <2>1
<1> QED
  BY <1>7, <1>8, <1>9

\* The process starts again.
LEMMA RestartKeeps ==
  ASSUME RuntimeInv, Restart
  PROVE  RuntimeInv'
<1>1. session' = [c \in Clients |-> Idle] /\ UNCHANGED <<db, answers>>
  BY DEF Restart
<1>2. RuntimeTypeOK' /\ RevisionCountsAll' /\ AuditsTellAll'
  BY <1>1, TablesStay
<1>3. RuntimeAnswersAreTrue'
  BY <1>1 DEF RuntimeInv, RuntimeAnswersAreTrue, IsStored, Present
<1>4. \A c \in Clients : session'[c] = Idle
  BY <1>1
<1>5. CallsGoOn'
  BY <1>1, <1>4, IdleFields DEF RuntimeInv, CallsGoOn, GoesOn, HoldersDiffer
<1> QED
  BY <1>2, <1>3, <1>5 DEF RuntimeInv

-----------------------------------------------------------------------------
(* Commits.                                                                *)

\* Checkpoint n has all that p had (what ProgressIsKept says of a step).
Grows(p, n) ==
  /\ p.completed \subseteq n.completed /\ p.events \subseteq n.events
  /\ p.timers \subseteq n.timers /\ Len(p.steps) <= Len(n.steps)
  /\ \A j \in DOMAIN p.steps : SameStep(p.steps[j], n.steps[j])

\* A checkpoint grows with what is recorded.
LEMMA RecordedGrows ==
  ASSUME NEW p \in CheckpointType, NEW x \in Records, x.kind # "start"
  PROVE  Grows(p, Recorded(p, x))
<1> DEFINE n == Recorded(p, x)
<1>1. p.steps \in Seq(StepRow)
  BY DEF CheckpointType
<1>2. p.completed \subseteq n.completed /\ p.events \subseteq n.events /\ p.timers \subseteq n.timers
  <2>1. CASE x.kind = "command"
    BY <2>1, RecordedIsNext
  <2>2. CASE x.kind = "event"
    BY <2>2, RecordedIsNext
  <2>3. CASE x.kind = "timer"
    BY ZenonT(30), <2>3, RecordedIsNext
  <2> QED
    BY <2>1, <2>2, <2>3, RecordedIsNext
<1>3. n.steps = p.steps \/ \E s : n.steps = Append(p.steps, s)
  BY RecordedIsNext
<1> HIDE DEF n
<1>4. Len(p.steps) <= Len(n.steps) /\ \A j \in DOMAIN p.steps : p.steps[j] = n.steps[j]
  BY <1>1, <1>3
<1> QED
  BY <1>2, <1>4 DEF Grows, SameStep, n

\* And with what operators do.
LEMMA OperatedGrows ==
  ASSUME NEW p \in CheckpointType, NEW action \in DOMAIN StepBecomes, Offered(p)[action]
  PROVE  Grows(p, Operated(p, action))
<1>1. Len(p.steps) \in Nat
  BY DEF CheckpointType
<1> QED
  BY <1>1, OperatedIsNext DEF Grows

\* What was known in a checkpoint is known when it has grown.
LEMMA KnownStays ==
  ASSUME NEW p \in CheckpointType, NEW n \in CheckpointType, Grows(p, n), NEW x \in Records,
         x.kind # "start", Known(p, x)
  PROVE  Known(n, x)
<1>1. CASE x.kind = "command"
  <2>1. PICK j \in DOMAIN p.steps : SameStep(p.steps[j], x)
    BY <1>1 DEF Known, Range
  <2>2. j \in DOMAIN n.steps /\ SameStep(n.steps[j], x)
    BY <2>1 DEF Grows, SameStep, CheckpointType
  <2> QED
    BY <1>1, <2>2 DEF Known, Range
<1>2. CASE x.kind # "command"
  BY <1>2 DEF Known, Grows, Records
<1> QED
  BY <1>1, <1>2

\* Checkpoints stay or go on by one revision; all other rows stay once they are
\* there, but for the audits.
TablesMove ==
  /\ \A i \in Instances : LET r == CheckpointRow(i) IN Present(r) =>
       \/ db'[r] = db[r]
       \/ /\ Present(r)' /\ db'[r] \in CheckpointType
          /\ db'[r].revision = db[r].revision + 1 /\ Grows(db[r], db'[r])
  /\ \A k \in ControlKeys : Present(ControlRow(k)) => db'[ControlRow(k)] = db[ControlRow(k)]
  /\ \A d \in Releases :
       /\ Present(ReleaseRow(d)) => db'[ReleaseRow(d)] = db[ReleaseRow(d)]
       /\ \A e \in Environments : Present(DeploymentRow(d, e)) =>
            db'[DeploymentRow(d, e)] = db[DeploymentRow(d, e)]

\* What client c changes it holds, audits by their release.
ChangesOwn(c) ==
  /\ \A i \in Instances :
       \/ CheckpointRow(i) \in session[c].locks
       \/ db'[CheckpointRow(i)] = db[CheckpointRow(i)]
  /\ \A k \in ControlKeys :
       \/ ControlRow(k) \in session[c].locks
       \/ db'[ControlRow(k)] = db[ControlRow(k)]
  /\ \A d \in Releases :
       \/ ReleaseRow(d) \in session[c].locks
       \/ db'[ReleaseRow(d)] = db[ReleaseRow(d)] /\ db'[AuditRow(d)] = db[AuditRow(d)]
  /\ \A d \in Releases, e \in Environments :
       \/ DeploymentRow(d, e) \in session[c].locks
       \/ db'[DeploymentRow(d, e)] = db[DeploymentRow(d, e)]

\* A commit leaves the other calls where they are.
LEMMA Undisturbed ==
  ASSUME RuntimeInv, NEW c \in Clients, NEW d \in Clients \ {c}, session'[d] = session[d],
         DOMAIN answers' = DOMAIN answers, TablesMove, ChangesOwn(c)
  PROVE  GoesOn(d)'
<1> DEFINE q == session[d].call
<1>1. GoesOn(d)
  BY DEF RuntimeInv, CallsGoOn
<1>2. \A r \in RuntimeRows : r \in session[d].locks => r \notin session[c].locks
  BY DEF RuntimeInv, CallsGoOn, HoldersDiffer
<1>3. CASE session[d] = Idle
  BY <1>3 DEF GoesOn
<1>4. CASE session[d] # Idle
  <2>1. q \in DOMAIN answers /\ RuntimeCall(q)
    BY <1>1, <1>4, IntegrationAssumption DEF GoesOn, RuntimeInv, CallsGoOn
  <2>2. CASE q.op = "drive"
    <3> DEFINE r == CheckpointRow(q.instance)
    <3>1. DriverIsAt(d) /\ q.instance \in Instances
      BY <1>1, <1>4, <2>1, <2>2 DEF GoesOn, RuntimeCall
    <3>2. r \in session[d].locks => db'[r] = db[r]
      BY <1>2, <3>1, Rows DEF ChangesOwn
    <3>3. Saves(d) => Saves(d)'
      <4>1. Present(r) => db[r].revision \in Nat
        BY <3>1 DEF RuntimeInv, RuntimeTypeOK, CheckpointType
      <4>2. Present(r) => \/ db'[r] = db[r]
                          \/ Present(r)' /\ db'[r].revision = db[r].revision + 1
        BY <3>1 DEF TablesMove
      <4>4. r' = r
        OBVIOUS
      <4> HIDE DEF r
      <4>3. Saves(d) /\ q.record.kind # "start" =>
              LET p == Head(session[d].todo).checkpoint IN
              /\ Present(r)' /\ p.revision \in Nat /\ p.revision <= db'[r].revision + 1
              /\ p.revision = db'[r].revision + 1 => Recording(db'[r], q.record, p)
        <5> SUFFICES ASSUME Saves(d), q.record.kind # "start"
                     PROVE  LET p == Head(session[d].todo).checkpoint IN
                            /\ Present(r)' /\ p.revision \in Nat /\ p.revision <= db'[r].revision + 1
                            /\ p.revision = db'[r].revision + 1 => Recording(db'[r], q.record, p)
          OBVIOUS
        <5> DEFINE p == Head(session[d].todo).checkpoint
        <5>1. /\ Present(r) /\ p.revision \in Nat /\ p.revision <= db[r].revision + 1
              /\ p.revision = db[r].revision + 1 => Recording(db[r], q.record, p)
          BY DEF Saves, r
        <5> HIDE DEF p
        <5>2. CASE db'[r] = db[r]
          <6>1. Present(r)'
            BY <4>4, <5>1, <5>2 DEF Present
          <6>2. p.revision = db'[r].revision + 1 => Recording(db'[r], q.record, p)
            BY <5>1, <5>2
          <6>3. p.revision \in Nat /\ p.revision <= db'[r].revision + 1
            BY <5>1, <5>2
          <6> QED
            BY <6>1, <6>2, <6>3 DEF p
        <5>3. CASE Present(r)' /\ db'[r].revision = db[r].revision + 1
          <6>1. p.revision <= db'[r].revision + 1 /\ p.revision # db'[r].revision + 1
            BY <4>1, <5>1, <5>3
          <6> QED
            BY <5>1, <5>3, <6>1 DEF p
        <5> QED
          BY <4>2, <5>1, <5>2, <5>3
      <4> QED
        BY <4>3 DEF Saves, At, r
    <3>4. DriverIsAt(d)'
      BY <3>1, <3>2, <3>3 DEF DriverIsAt, Holds, Present, Recording
    <3> QED
      BY <2>1, <2>2, <3>4 DEF GoesOn, RuntimeOps
  <2>3. CASE q.op = "operate"
    <3> DEFINE r == CheckpointRow(q.instance)
               k == ControlRow(q.key)
    <3>1. OperatorIsAt(d) /\ q.instance \in Instances /\ q.key \in ControlKeys
      BY <1>1, <1>4, <2>1, <2>3 DEF GoesOn, RuntimeCall
    <3>2. r \in session[d].locks => db'[r] = db[r]
      BY <1>2, <3>1, Rows DEF ChangesOwn
    <3>3. k \in session[d].locks \/ Present(k) => db'[k] = db[k]
      BY <1>2, <3>1, Rows DEF ChangesOwn, TablesMove
    <3>4. OperatorIsAt(d)'
      BY <3>1, <3>2, <3>3 DEF OperatorIsAt, Holds, Present, ActedOn
    <3> QED
      BY <2>1, <2>3, <3>4 DEF GoesOn, RuntimeOps
  <2>4. CASE q.op = "release"
    <3> DEFINE r == ReleaseRow(q.release)
    <3>1. ReleaserIsAt(d) /\ q.release \in Releases
      BY <1>1, <1>4, <2>1, <2>4 DEF GoesOn, RuntimeCall
    <3>2. r \in session[d].locks => db'[r] = db[r]
      BY <1>2, <3>1, Rows DEF ChangesOwn
    <3>3. ReleaserIsAt(d)'
      BY <3>1, <3>2 DEF ReleaserIsAt, Holds, Present
    <3> QED
      BY <2>1, <2>4, <3>3 DEF GoesOn, RuntimeOps
  <2>5. CASE q.op = "deploy"
    <3> DEFINE r == ReleaseRow(q.release)
               a == AuditRow(q.release)
               s == DeploymentRow(q.release, q.environment)
    <3>1. DeployerIsAt(d) /\ q.release \in Releases /\ q.environment \in Environments
      BY <1>1, <1>4, <2>1, <2>5 DEF GoesOn, RuntimeCall
    <3>2. r \in session[d].locks => db'[r] = db[r] /\ db'[a] = db[a]
      BY <1>2, <3>1, Rows DEF ChangesOwn
    <3>3. s \in session[d].locks => db'[s] = db[s]
      BY <1>2, <3>1, Rows DEF ChangesOwn
    <3>4. DeployerIsAt(d)'
      BY <3>1, <3>2, <3>3 DEF DeployerIsAt, Holds, Present
    <3> QED
      BY <2>1, <2>5, <3>4 DEF GoesOn, RuntimeOps
  <2>6. CASE q.op \notin RuntimeOps
    BY <1>1, <1>4, <2>1, <2>6 DEF GoesOn, IsElsewhere, RuntimeOps
  <2> QED
    BY <2>2, <2>3, <2>4, <2>5, <2>6 DEF RuntimeOps
<1> QED
  BY <1>3, <1>4

\* What is stored for a call stays stored.
LEMMA StoredStays ==
  ASSUME RuntimeInv, TablesMove, NEW q \in DOMAIN answers, IsStored(q)
  PROVE  IsStored(q)'
<1>1. RuntimeCall(q)
  BY IntegrationAssumption DEF RuntimeInv, CallsGoOn
<1>2. CASE q.op = "drive"
  <2> DEFINE r == CheckpointRow(q.instance)
  <2>1. q.instance \in Instances /\ q.record \in Records
    BY <1>1, <1>2 DEF RuntimeCall
  <2>2. Present(r) /\ (q.record.kind # "start" => Known(db[r], q.record))
    BY <1>2 DEF IsStored
  <2>3. db[r] \in CheckpointType
    BY <2>1, <2>2 DEF RuntimeInv, RuntimeTypeOK
  <2>4. \/ db'[r] = db[r]
        \/ Present(r)' /\ db'[r] \in CheckpointType /\ Grows(db[r], db'[r])
    BY <2>1, <2>2 DEF TablesMove
  <2>5. Present(r)' /\ (q.record.kind # "start" => Known(db'[r], q.record))
    <3>1. CASE db'[r] = db[r]
      BY <2>2, <3>1 DEF Present
    <3>2. CASE Present(r)' /\ db'[r] \in CheckpointType /\ Grows(db[r], db'[r])
      BY <2>1, <2>2, <2>3, <3>2, KnownStays
    <3> QED
      BY <2>4, <3>1, <3>2
  <2> QED
    BY <1>2, <2>5 DEF IsStored
<1>3. CASE q.op # "drive"
  BY <1>1, <1>3 DEF IsStored, RuntimeCall, TablesMove, Present
<1> QED
  BY <1>2, <1>3

\* A commit that moves the tables as they may and is truthfully answered keeps the
\* invariant.
LEMMA CommitStep ==
  ASSUME RuntimeInv, NEW c \in Clients, session[c] # Idle, NEW outcome, Answer(c, outcome),
         NEW x, x = session[c].call, IsStored(x)', TablesMove, ChangesOwn(c),
         RuntimeTypeOK', RevisionCountsAll', AuditsTellAll'
  PROVE  RuntimeInv'
<1>1. SessionShape' /\ Alone(c) /\ session'[c] = Idle
      /\ answers' = [answers EXCEPT ![session[c].call] = @ \cup {outcome}]
  BY Answers DEF RuntimeInv, CallsGoOn, SessionShape
<1>2. DOMAIN answers' = DOMAIN answers
  BY <1>1
<1>3. RuntimeAnswersAreTrue'
  <2> SUFFICES ASSUME NEW q \in DOMAIN answers, "ok" \in answers'[q] PROVE IsStored(q)'
    BY <1>2 DEF RuntimeAnswersAreTrue
  <2>1. CASE q = x
    BY <2>1
  <2>2. CASE q # x
    BY <1>1, <2>2, StoredStays DEF RuntimeInv, RuntimeAnswersAreTrue
  <2> QED
    BY <2>1, <2>2
<1>4. GoesOn(c)'
  BY <1>1 DEF GoesOn
<1>5. \A d \in Clients : GoesOn(d)'
  BY <1>1, <1>2, <1>4, Undisturbed DEF Alone
<1>6. HoldersDiffer'
  BY <1>1, IdleFields DEF Alone, RuntimeInv, CallsGoOn, HoldersDiffer
<1> QED
  BY <1>1, <1>2, <1>3, <1>5, <1>6 DEF RuntimeInv, CallsGoOn, SessionShape

\* Different things have different rows.
LEMMA RowsDiffer ==
  /\ \A i, j : CheckpointRow(i) = CheckpointRow(j) => i = j
  /\ \A k, l : ControlRow(k) = ControlRow(l) => k = l
  /\ \A d, e : (ReleaseRow(d) = ReleaseRow(e) => d = e) /\ (AuditRow(d) = AuditRow(e) => d = e)
  /\ \A d, e, f, g : DeploymentRow(d, e) = DeploymentRow(f, g) => d = f /\ e = g
  /\ \A i, k : CheckpointRow(i) # ControlRow(k)
  /\ \A i, d : CheckpointRow(i) # ReleaseRow(d) /\ CheckpointRow(i) # AuditRow(d)
  /\ \A i, d, e : CheckpointRow(i) # DeploymentRow(d, e)
  /\ \A k, d : ControlRow(k) # ReleaseRow(d) /\ ControlRow(k) # AuditRow(d)
  /\ \A k, d, e : ControlRow(k) # DeploymentRow(d, e)
  /\ \A d, e : ReleaseRow(d) # AuditRow(e)
  /\ \A d, e, f : ReleaseRow(d) # DeploymentRow(e, f) /\ AuditRow(d) # DeploymentRow(e, f)
BY DEF CheckpointRow, ControlRow, ReleaseRow, AuditRow, DeploymentRow

\* A commit writes what its call has written.
LEMMA CommitWrites ==
  ASSUME RuntimeInv, NEW c \in Clients, Commits(c)
  PROVE  /\ DOMAIN db' = DOMAIN db \cup DOMAIN session[c].mine
         /\ \A r \in DOMAIN session[c].mine : db'[r] = session[c].mine[r]
         /\ \A r \in RuntimeRows : r \notin DOMAIN session[c].mine => db'[r] = db[r]
         /\ \E outcome : Answer(c, outcome)
<1> DEFINE mine == session[c].mine
<1>1. db' = Over(mine, db) /\ \E outcome : Answer(c, outcome)
  BY DEF Commits
<1>2. RuntimeRows \subseteq DOMAIN db
  BY DEF RuntimeInv, RuntimeTypeOK
<1> HIDE DEF mine
<1>3. DOMAIN db' = DOMAIN db \cup DOMAIN mine
  BY <1>1 DEF Over
<1>4. \A r \in DOMAIN mine : db'[r] = mine[r]
  BY <1>1 DEF Over
<1>5. \A r \in RuntimeRows : r \notin DOMAIN mine => db'[r] = db[r]
  BY <1>1, <1>2 DEF Over
<1> QED
  BY <1>1, <1>3, <1>4, <1>5 DEF mine

\* Who commits without having written a row of the runtime leaves all as it was.
LEMMA NothingCommits ==
  ASSUME RuntimeInv, NEW c \in Clients, session[c] # Idle, Commits(c),
         DOMAIN session[c].mine \cap RuntimeRows = {}, IsStored(session[c].call)
  PROVE  RuntimeInv' /\ TablesMove
<1>1. RuntimeRows \subseteq DOMAIN db' /\ \A r \in RuntimeRows : db'[r] = db[r]
  BY CommitWrites DEF RuntimeInv, RuntimeTypeOK
<1>2. TablesMove
  BY <1>1, Rows DEF TablesMove
<1>3. ChangesOwn(c)
  BY <1>1, Rows DEF ChangesOwn
<1>4. \A i \in Instances : Controls(i)' = Controls(i)
  BY <1>1, Rows DEF Controls, Present
<1>5. RuntimeTypeOK'
  BY <1>1, <1>4, Rows DEF RuntimeInv, RuntimeTypeOK, Present
<1>6. RevisionCountsAll'
  BY <1>1, <1>4, Rows DEF RuntimeInv, RevisionCountsAll, Present
<1>7. AuditsTellAll'
  BY <1>1, Rows, AuditsStay DEF RuntimeInv, AuditsTellAll
<1>8. PICK x \in DOMAIN answers : x = session[c].call
  BY DEF RuntimeInv, CallsGoOn, GoesOn
<1>9. IsStored(x)'
  BY <1>2, <1>8, StoredStays
<1> QED
  BY <1>2, <1>3, <1>5, <1>6, <1>7, <1>8, <1>9, CommitWrites, CommitStep

\* A checkpoint that is new or goes on, while controls are recorded as many as its
\* revision goes on without a record, keeps what is said of checkpoints.
LEMMA CheckpointMoves ==
  ASSUME RuntimeInv, NEW i \in Instances, RuntimeRows \subseteq DOMAIN db',
         \A j \in Instances \ {i} : db'[CheckpointRow(j)] = db[CheckpointRow(j)]
                                    /\ Controls(j)' = Controls(j),
         \A d \in Releases :
           /\ db'[ReleaseRow(d)] = db[ReleaseRow(d)] /\ db'[AuditRow(d)] = db[AuditRow(d)]
           /\ \A e \in Environments : db'[DeploymentRow(d, e)] = db[DeploymentRow(d, e)],
         NEW n, n \in CheckpointType, db'[CheckpointRow(i)] = n,
         IsFiniteSet(n.events), IsFiniteSet(n.timers), IsFiniteSet(Controls(i)'),
         n.revision = Recordings(n) + Cardinality(Controls(i)')
  PROVE  RuntimeTypeOK' /\ RevisionCountsAll' /\ AuditsTellAll'
<1>1. Present(CheckpointRow(i))'
  BY DEF Present, CheckpointType, Absent
<1>2. \A j \in Instances : IsFiniteSet(Controls(j)')
                           /\ (Controls(j)' # {} => Present(CheckpointRow(j))')
  BY <1>1 DEF RuntimeInv, RuntimeTypeOK, Present
<1>3. \A j \in Instances : Present(CheckpointRow(j))' =>
        LET p == db'[CheckpointRow(j)] IN
        p \in CheckpointType /\ IsFiniteSet(p.events) /\ IsFiniteSet(p.timers)
  BY DEF RuntimeInv, RuntimeTypeOK, Present
<1>4. RuntimeTypeOK'
  BY <1>2, <1>3 DEF RuntimeInv, RuntimeTypeOK, Present
<1>5. RevisionCountsAll'
  BY DEF RuntimeInv, RevisionCountsAll, Present
<1>6. AuditsTellAll'
  BY AuditsStay DEF RuntimeInv, AuditsTellAll
<1> QED
  BY <1>4, <1>5, <1>6

\* A driver commits.
LEMMA DriverCommits ==
  ASSUME RuntimeInv, NEW c \in Clients, CommitRuntime(c), session[c].call.op = "drive"
  PROVE  RuntimeInv' /\ TablesMove
<1>1. session[c].at = "done" /\ session[c] # Idle /\ Commits(c)
  BY IdleFields DEF CommitRuntime
<1>2. PICK q \in DOMAIN answers : q = session[c].call
  BY <1>1 DEF RuntimeInv, CallsGoOn, GoesOn
<1> DEFINE r == CheckpointRow(q.instance)
           p == db[r]
           n == session[c].mine[r]
<1>3. q.instance \in Instances /\ q.record \in Records /\ q.op = "drive"
  BY <1>2, IntegrationAssumption DEF RuntimeInv, CallsGoOn, RuntimeCall
<1>4. /\ Holds(c, {r}, {r})
      /\ IF Present(r) THEN Recording(p, q.record, n)
         ELSE q.record.kind = "start" /\ n = NewCheckpoint
  BY <1>1, <1>2, <1>3 DEF RuntimeInv, CallsGoOn, GoesOn, DriverIsAt
<1>5. /\ RuntimeRows \subseteq DOMAIN db' /\ db'[r] = n
      /\ \A s \in RuntimeRows : s # r => db'[s] = db[s]
  BY <1>1, <1>4, CommitWrites DEF RuntimeInv, RuntimeTypeOK, Holds
<1>6. \A j \in Instances : Controls(j)' = Controls(j)
  BY <1>5, Rows, RowsDiffer DEF Controls, Present
<1>7. IsFiniteSet(Controls(q.instance)) /\ Cardinality(Controls(q.instance)) \in Nat
  BY <1>3, FS_CardinalityType DEF RuntimeInv, RuntimeTypeOK
<1>8. /\ n \in CheckpointType /\ IsFiniteSet(n.events) /\ IsFiniteSet(n.timers)
      /\ n.revision = Recordings(n) + Cardinality(Controls(q.instance))
      /\ q.record.kind # "start" => Known(n, q.record)
      /\ Present(r) => n.revision = p.revision + 1 /\ Grows(p, n)
  <2>1. CASE Present(r)
    <3>1. p \in CheckpointType /\ IsFiniteSet(p.events) /\ IsFiniteSet(p.timers)
          /\ p.revision = Recordings(p) + Cardinality(Controls(q.instance))
      BY <1>3, <2>1 DEF RuntimeInv, RuntimeTypeOK, RevisionCountsAll
    <3>2. Recordings(p) \in Nat
      BY <3>1, FS_CardinalityType DEF Recordings, CheckpointType
    <3>3. q.record.kind # "start" /\ ~Known(p, q.record) /\ n = Recorded(p, q.record)
      BY <1>4, <2>1 DEF Recording
    <3> HIDE DEF n, p
    <3>4. n \in CheckpointType /\ n.revision = p.revision + 1
      BY <1>3, <3>1, <3>3, RecordedIsNext
    <3>5. Grows(p, n) /\ Known(n, q.record)
      BY <1>3, <3>1, <3>3, RecordedGrows, RecordedIsKnown
    <3>6. Recordings(n) = Recordings(p) + 1 /\ IsFiniteSet(n.events) /\ IsFiniteSet(n.timers)
      BY <1>3, <3>1, <3>3, RecordedCounts
    <3> QED
      BY <1>7, <3>1, <3>2, <3>4, <3>5, <3>6
  <2>2. CASE ~Present(r)
    <3>1. n = NewCheckpoint /\ q.record.kind = "start"
      BY <1>4, <2>2
    <3>2. Controls(q.instance) = {}
      BY <1>3, <2>2 DEF RuntimeInv, RuntimeTypeOK
    <3>3. NewCheckpoint \in CheckpointType
      BY DEF NewCheckpoint, CheckpointType
    <3>4. NewCheckpoint.revision = 0 /\ NewCheckpoint.steps = <<>>
          /\ NewCheckpoint.events = {} /\ NewCheckpoint.timers = {}
      BY DEF NewCheckpoint
    <3>5. Recordings(NewCheckpoint) = 0
      BY <3>4, FS_EmptySet DEF Recordings
    <3> QED
      BY <2>2, <3>1, <3>2, <3>3, <3>4, <3>5, FS_EmptySet
  <2> QED
    BY <2>1, <2>2
<1>9. Present(r)' /\ r' = r
  BY <1>5, <1>8 DEF Present, CheckpointType, Absent
<1>10. IsStored(q)'
  BY <1>3, <1>5, <1>8, <1>9 DEF IsStored
<1>11. TablesMove
  BY <1>5, <1>8, <1>9, Rows, RowsDiffer DEF TablesMove
<1>12. ChangesOwn(c)
  BY <1>4, <1>5, Rows, RowsDiffer DEF ChangesOwn, Holds
<1>13. RuntimeTypeOK' /\ RevisionCountsAll' /\ AuditsTellAll'
  <2> HIDE DEF n
  <2>1. \A j \in Instances \ {q.instance} : db'[CheckpointRow(j)] = db[CheckpointRow(j)]
                                            /\ Controls(j)' = Controls(j)
    BY <1>5, <1>6, Rows, RowsDiffer
  <2>2. \A d \in Releases :
           /\ db'[ReleaseRow(d)] = db[ReleaseRow(d)] /\ db'[AuditRow(d)] = db[AuditRow(d)]
           /\ \A e \in Environments : db'[DeploymentRow(d, e)] = db[DeploymentRow(d, e)]
    BY <1>5, Rows, RowsDiffer
  <2>3. Controls(q.instance)' = Controls(q.instance)
    BY <1>3, <1>6
  <2>4. PICK m : m = n
    OBVIOUS
  <2> QED
    BY <1>3, <1>5, <1>7, <1>8, <2>1, <2>2, <2>3, <2>4, CheckpointMoves
<1> QED
  BY <1>1, <1>2, <1>10, <1>11, <1>12, <1>13, CommitWrites, CommitStep

\* An operator commits.
LEMMA OperatorCommits ==
  ASSUME RuntimeInv, NEW c \in Clients, CommitRuntime(c), session[c].call.op = "operate"
  PROVE  RuntimeInv' /\ TablesMove
<1>1. session[c].at = "done" /\ session[c] # Idle /\ Commits(c)
  BY IdleFields DEF CommitRuntime
<1>2. PICK q \in DOMAIN answers : q = session[c].call
  BY <1>1 DEF RuntimeInv, CallsGoOn, GoesOn
<1> DEFINE r == CheckpointRow(q.instance)
           k == ControlRow(q.key)
           p == db[r]
           n == session[c].mine[r]
<1>3. /\ q.instance \in Instances /\ q.key \in ControlKeys
      /\ q.action \in DOMAIN StepBecomes /\ q.op = "operate"
  BY <1>2, IntegrationAssumption DEF RuntimeInv, CallsGoOn, RuntimeCall
<1>4. \/ DOMAIN session[c].mine = {} /\ Present(k) /\ SameControl(db[k], q)
      \/ /\ Holds(c, {r, k}, {r, k}) /\ Present(r) /\ Offered(p)[q.action]
         /\ n = Operated(p, q.action) /\ ~Present(k) /\ session[c].mine[k] = ControlOf(q)
  BY <1>1, <1>2, <1>3 DEF RuntimeInv, CallsGoOn, GoesOn, OperatorIsAt, ActedOn
<1>5. CASE DOMAIN session[c].mine = {} /\ Present(k) /\ SameControl(db[k], q)
  <2>1. IsStored(session[c].call)
    BY <1>2, <1>3, <1>5 DEF IsStored
  <2> QED
    BY <1>1, <1>5, <2>1, NothingCommits
<1>6. CASE /\ Holds(c, {r, k}, {r, k}) /\ Present(r) /\ Offered(p)[q.action]
           /\ n = Operated(p, q.action) /\ ~Present(k) /\ session[c].mine[k] = ControlOf(q)
  <2>1. /\ RuntimeRows \subseteq DOMAIN db' /\ db'[r] = n /\ db'[k] = ControlOf(q)
        /\ \A s \in RuntimeRows : s \notin {r, k} => db'[s] = db[s]
    BY <1>1, <1>6, CommitWrites DEF RuntimeInv, RuntimeTypeOK, Holds
  <2>2. db'[k].status = "recorded" /\ db'[k].instance = q.instance /\ SameControl(db'[k], q)
    BY <2>1 DEF ControlOf, SameControl
  <2>3. \A l \in ControlKeys : l # q.key => db'[ControlRow(l)] = db[ControlRow(l)]
    BY <2>1, Rows, RowsDiffer
  <2>4. q.key \notin Controls(q.instance) /\ Controls(q.instance)' = Controls(q.instance) \cup {q.key}
    BY <1>3, <1>6, <2>2, <2>3 DEF Controls, Present, Absent
  <2>5. \A j \in Instances : j # q.instance => Controls(j)' = Controls(j)
    BY <1>6, <2>2, <2>3 DEF Controls, Present, Absent
  <2>6. /\ IsFiniteSet(Controls(q.instance)) /\ Cardinality(Controls(q.instance)) \in Nat
        /\ IsFiniteSet(Controls(q.instance)')
        /\ Cardinality(Controls(q.instance)') = Cardinality(Controls(q.instance)) + 1
    BY <1>3, <2>4, FS_CardinalityType, FS_AddElement DEF RuntimeInv, RuntimeTypeOK
  <2>7. p \in CheckpointType /\ IsFiniteSet(p.events) /\ IsFiniteSet(p.timers)
        /\ p.revision = Recordings(p) + Cardinality(Controls(q.instance))
    BY <1>3, <1>6 DEF RuntimeInv, RuntimeTypeOK, RevisionCountsAll
  <2>8. Recordings(p) \in Nat
    BY <2>7, FS_CardinalityType DEF Recordings, CheckpointType
  <2>9. /\ n \in CheckpointType /\ IsFiniteSet(n.events) /\ IsFiniteSet(n.timers)
        /\ n.revision = Recordings(n) + Cardinality(Controls(q.instance)')
        /\ n.revision = p.revision + 1 /\ Grows(p, n)
    <3> HIDE DEF p, n
    <3>1. n \in CheckpointType /\ n.revision = p.revision + 1 /\ Grows(p, n)
      BY <1>3, <1>6, <2>7, OperatedIsNext, OperatedGrows
    <3>2. n.events = p.events /\ n.timers = p.timers /\ Len(n.steps) = Len(p.steps)
      BY <1>3, <1>6, <2>7, OperatedIsNext
    <3>3. Recordings(n) = Recordings(p)
      BY <3>2 DEF Recordings
    <3> QED
      BY <2>6, <2>7, <2>8, <3>1, <3>2, <3>3
  <2>10. Present(r)' /\ Present(k)'
    BY <2>1, <2>2, <2>9 DEF Present, CheckpointType, Absent
  <2>11. IsStored(q)'
    BY <1>3, <2>2, <2>10 DEF IsStored
  <2>12. TablesMove
    <3>1. \A j \in Instances : j # q.instance => db'[CheckpointRow(j)] = db[CheckpointRow(j)]
      BY <2>1, Rows, RowsDiffer
    <3>2. \A d \in Releases :
             /\ db'[ReleaseRow(d)] = db[ReleaseRow(d)]
             /\ \A e \in Environments : db'[DeploymentRow(d, e)] = db[DeploymentRow(d, e)]
      BY <2>1, Rows, RowsDiffer
    <3> QED
      BY <1>6, <2>1, <2>3, <2>9, <2>10, <3>1, <3>2 DEF TablesMove
  <2>13. ChangesOwn(c)
    BY <1>6, <2>1, Rows, RowsDiffer DEF ChangesOwn, Holds
  <2>14. RuntimeTypeOK' /\ RevisionCountsAll' /\ AuditsTellAll'
    <3> HIDE DEF n
    <3>1. \A j \in Instances \ {q.instance} : db'[CheckpointRow(j)] = db[CheckpointRow(j)]
                                              /\ Controls(j)' = Controls(j)
      BY <2>1, <2>5, Rows, RowsDiffer
    <3>2. \A d \in Releases :
             /\ db'[ReleaseRow(d)] = db[ReleaseRow(d)] /\ db'[AuditRow(d)] = db[AuditRow(d)]
             /\ \A e \in Environments : db'[DeploymentRow(d, e)] = db[DeploymentRow(d, e)]
      BY <2>1, Rows, RowsDiffer
    <3>3. PICK m : m = n
      OBVIOUS
    <3> QED
      BY <1>3, <2>1, <2>6, <2>9, <3>1, <3>2, <3>3, CheckpointMoves
  <2> QED
    BY <1>1, <1>2, <2>11, <2>12, <2>13, <2>14, CommitWrites, CommitStep
<1> QED
  BY <1>4, <1>5, <1>6

\* A release or a deployment moves no checkpoint.
LEMMA ReleasesMove ==
  ASSUME RuntimeInv, RuntimeRows \subseteq DOMAIN db', NEW d \in Releases,
         \A i \in Instances : db'[CheckpointRow(i)] = db[CheckpointRow(i)],
         \A k \in ControlKeys : db'[ControlRow(k)] = db[ControlRow(k)],
         \A e \in Releases \ {d} :
           /\ db'[ReleaseRow(e)] = db[ReleaseRow(e)] /\ db'[AuditRow(e)] = db[AuditRow(e)]
           /\ \A f \in Environments : db'[DeploymentRow(e, f)] = db[DeploymentRow(e, f)],
         Present(AuditRow(d))', Present(ReleaseRow(d))',
         NEW a, a \in [status : {"kept"}, told : Seq(AuditEntries)], db'[AuditRow(d)] = a,
         NEW tell, ToTell(d)' = tell, IsInjective(a.told), ToSet(a.told) = tell
  PROVE  RuntimeTypeOK' /\ RevisionCountsAll' /\ AuditsTellAll'
<1>1. \A i \in Instances : Controls(i)' = Controls(i)
  BY DEF Controls, Present
<1>2. RuntimeTypeOK'
  BY <1>1 DEF RuntimeInv, RuntimeTypeOK, Present
<1>3. RevisionCountsAll'
  BY <1>1 DEF RuntimeInv, RevisionCountsAll, Present
<1>4. ToldOf(d)' = a.told
  BY DEF ToldOf
<1>5. AuditsTellAll'
  BY <1>4, AuditsStay DEF RuntimeInv, AuditsTellAll
<1> QED
  BY <1>2, <1>3, <1>5

\* A release is committed.
LEMMA ReleaserCommits ==
  ASSUME RuntimeInv, NEW c \in Clients, CommitRuntime(c), session[c].call.op = "release"
  PROVE  RuntimeInv' /\ TablesMove
<1>1. session[c].at = "done" /\ session[c] # Idle /\ Commits(c)
  BY IdleFields DEF CommitRuntime
<1>2. PICK q \in DOMAIN answers : q = session[c].call
  BY <1>1 DEF RuntimeInv, CallsGoOn, GoesOn
<1> DEFINE r == ReleaseRow(q.release)
           a == AuditRow(q.release)
           first == Audit("approval", q.by)
           second == Audit("release", q.by)
<1>3. q \in Requests /\ q.release \in Releases /\ q.op = "release"
  BY <1>2, IntegrationAssumption DEF RuntimeInv, CallsGoOn, RuntimeCall
<1>4. \/ Holds(c, {r}, {}) /\ Present(r) /\ db[r].by = q.by
      \/ /\ Holds(c, {r}, {r, a}) /\ ~Present(r)
         /\ session[c].mine[r] = [status |-> "RELEASED", by |-> q.by]
         /\ session[c].mine[a] = [status |-> "kept", told |-> <<first, second>>]
  BY <1>1, <1>2, <1>3 DEF RuntimeInv, CallsGoOn, GoesOn, ReleaserIsAt
<1>5. CASE Holds(c, {r}, {}) /\ Present(r) /\ db[r].by = q.by
  <2>1. IsStored(session[c].call)
    BY <1>2, <1>3, <1>5 DEF IsStored
  <2> QED
    BY <1>1, <1>5, <2>1, NothingCommits DEF Holds
<1>6. CASE /\ Holds(c, {r}, {r, a}) /\ ~Present(r)
           /\ session[c].mine[r] = [status |-> "RELEASED", by |-> q.by]
           /\ session[c].mine[a] = [status |-> "kept", told |-> <<first, second>>]
  <2>1. /\ RuntimeRows \subseteq DOMAIN db'
        /\ db'[r] = [status |-> "RELEASED", by |-> q.by]
        /\ db'[a] = [status |-> "kept", told |-> <<first, second>>]
        /\ \A s \in RuntimeRows : s \notin {r, a} => db'[s] = db[s]
    <3>1. DOMAIN session[c].mine = {r, a} /\ RuntimeRows \subseteq DOMAIN db
      BY <1>6 DEF Holds, RuntimeInv, RuntimeTypeOK
    <3>2. /\ DOMAIN db' = DOMAIN db \cup {r, a}
          /\ \A s \in {r, a} : db'[s] = session[c].mine[s]
          /\ \A s \in RuntimeRows : s \notin {r, a} => db'[s] = db[s]
      BY <1>1, <3>1, CommitWrites
    <3>3. db'[r] = session[c].mine[r] /\ db'[a] = session[c].mine[a]
      BY <3>2
    <3> QED
      BY <1>6, <3>1, <3>2, <3>3
  <2>2. Present(r)' /\ Present(a)' /\ db'[r].by = q.by
    BY <2>1 DEF Present, Absent
  <2>3. \A i \in Instances : db'[CheckpointRow(i)] = db[CheckpointRow(i)]
    BY <2>1, Rows, RowsDiffer
  <2>4. \A k \in ControlKeys : db'[ControlRow(k)] = db[ControlRow(k)]
    BY <2>1, Rows, RowsDiffer
  <2>5. \A e \in Releases \ {q.release} :
           db'[ReleaseRow(e)] = db[ReleaseRow(e)] /\ db'[AuditRow(e)] = db[AuditRow(e)]
    BY <2>1, Rows, RowsDiffer
  <2>6. \A d \in Releases, e \in Environments : db'[DeploymentRow(d, e)] = db[DeploymentRow(d, e)]
    BY <2>1, Rows, RowsDiffer
  <2>7. IsStored(q)'
    BY <1>3, <2>2 DEF IsStored
  <2>8. TablesMove
    BY <1>6, <2>3, <2>4, <2>5, <2>6 DEF TablesMove
  <2>9. ChangesOwn(c)
    <3>1. r \in session[c].locks
      BY <1>6 DEF Holds
    <3>2. \A e \in Releases :
            \/ ReleaseRow(e) \in session[c].locks
            \/ db'[ReleaseRow(e)] = db[ReleaseRow(e)] /\ db'[AuditRow(e)] = db[AuditRow(e)]
      <4> TAKE e \in Releases
      <4>1. CASE e = q.release
        BY <3>1, <4>1
      <4>2. CASE e # q.release
        BY <2>5, <4>2
      <4> QED
        BY <4>1, <4>2
    <3> QED
      BY <2>3, <2>4, <2>6, <3>2 DEF ChangesOwn
  <2>10. first \in AuditEntries /\ second \in AuditEntries
    BY <1>3 DEF AuditEntries
  <2>11. first # second
    BY DEF Audit
  <2> DEFINE told == <<first, second>>
             audits == [status |-> "kept", told |-> told]
  <2>12. ToTell(q.release)' = {first, second}
    <3>1. \A e \in Environments : ~Present(DeploymentRow(q.release, e))'
      BY <1>3, <1>6, <2>6 DEF RuntimeInv, RuntimeTypeOK, Present
    <3> QED
      BY <2>2, <3>1 DEF ToTell
  <2> HIDE DEF first, second
  <2>13. told \in Seq(AuditEntries) /\ IsInjective(told) /\ ToSet(told) = {first, second}
    BY <2>10, <2>11 DEF IsInjective, ToSet
  <2> HIDE DEF told
  <2>14. audits \in [status : {"kept"}, told : Seq(AuditEntries)] /\ audits.told = told
    BY <2>13
  <2>15. db'[a] = audits
    BY <2>1 DEF told
  <2> HIDE DEF audits
  <2>16. PICK tell : tell = {first, second}
    OBVIOUS
  <2>17. RuntimeTypeOK' /\ RevisionCountsAll' /\ AuditsTellAll'
    BY <1>3, <2>1, <2>2, <2>3, <2>4, <2>5, <2>6, <2>12, <2>13, <2>14, <2>15, <2>16, ReleasesMove
  <2> QED
    BY <1>1, <1>2, <2>7, <2>8, <2>9, <2>17, CommitWrites, CommitStep
<1> QED
  BY <1>4, <1>5, <1>6

\* A deployment is committed.
LEMMA DeployerCommits ==
  ASSUME RuntimeInv, NEW c \in Clients, CommitRuntime(c), session[c].call.op = "deploy"
  PROVE  RuntimeInv' /\ TablesMove
<1>1. session[c].at = "done" /\ session[c] # Idle /\ Commits(c)
  BY IdleFields DEF CommitRuntime
<1>2. PICK q \in DOMAIN answers : q = session[c].call
  BY <1>1 DEF RuntimeInv, CallsGoOn, GoesOn
<1> DEFINE r == ReleaseRow(q.release)
           a == AuditRow(q.release)
           d == DeploymentRow(q.release, q.environment)
           entry == Audit(q.environment, q.by)
<1>3. /\ q \in Requests /\ q.release \in Releases /\ q.environment \in Environments
      /\ q.op = "deploy"
  BY <1>2, IntegrationAssumption DEF RuntimeInv, CallsGoOn, RuntimeCall
<1>4. \/ Holds(c, {r, d}, {}) /\ Present(d) /\ db[d].by = q.by
      \/ /\ Holds(c, {r, d}, {d, a}) /\ Present(r) /\ ~Present(d)
         /\ session[c].mine[d] = [status |-> "deployed", by |-> q.by]
         /\ session[c].mine[a] = [db[a] EXCEPT !.told = Append(@, entry)]
  BY <1>1, <1>2, <1>3 DEF RuntimeInv, CallsGoOn, GoesOn, DeployerIsAt
<1>5. CASE Holds(c, {r, d}, {}) /\ Present(d) /\ db[d].by = q.by
  <2>1. IsStored(session[c].call)
    BY <1>2, <1>3, <1>5 DEF IsStored
  <2> QED
    BY <1>1, <1>5, <2>1, NothingCommits DEF Holds
<1>6. CASE /\ Holds(c, {r, d}, {d, a}) /\ Present(r) /\ ~Present(d)
           /\ session[c].mine[d] = [status |-> "deployed", by |-> q.by]
           /\ session[c].mine[a] = [db[a] EXCEPT !.told = Append(@, entry)]
  <2>1. /\ RuntimeRows \subseteq DOMAIN db'
        /\ db'[d] = [status |-> "deployed", by |-> q.by]
        /\ db'[a] = [db[a] EXCEPT !.told = Append(@, entry)]
        /\ \A s \in RuntimeRows : s \notin {d, a} => db'[s] = db[s]
    BY <1>1, <1>6, CommitWrites DEF RuntimeInv, RuntimeTypeOK, Holds
  <2>2. Present(a) /\ db[a] \in [status : {"kept"}, told : Seq(AuditEntries)]
    BY <1>3, <1>6 DEF RuntimeInv, RuntimeTypeOK
  <2>3. \A i \in Instances : db'[CheckpointRow(i)] = db[CheckpointRow(i)]
    BY <2>1, Rows, RowsDiffer
  <2>4. \A k \in ControlKeys : db'[ControlRow(k)] = db[ControlRow(k)]
    BY <2>1, Rows, RowsDiffer
  <2>5. \A e \in Releases : /\ db'[ReleaseRow(e)] = db[ReleaseRow(e)]
                            /\ e # q.release => db'[AuditRow(e)] = db[AuditRow(e)]
    BY <2>1, Rows, RowsDiffer
  <2>6. \A e \in Releases, f \in Environments :
           e # q.release \/ f # q.environment => db'[DeploymentRow(e, f)] = db[DeploymentRow(e, f)]
    BY <2>1, Rows, RowsDiffer
  <2>7. Present(d)' /\ Present(r)' /\ db'[d].by = q.by
    BY <1>3, <1>6, <2>1, <2>5 DEF Present, Absent
  <2>8. IsStored(q)'
    BY <1>3, <2>7 DEF IsStored
  <2>9. TablesMove
    BY <1>6, <2>3, <2>4, <2>5, <2>6 DEF TablesMove
  <2>10. ChangesOwn(c)
    <3>1. r \in session[c].locks /\ d \in session[c].locks
      BY <1>6 DEF Holds
    <3>2. \A e \in Releases :
            \/ ReleaseRow(e) \in session[c].locks
            \/ db'[ReleaseRow(e)] = db[ReleaseRow(e)] /\ db'[AuditRow(e)] = db[AuditRow(e)]
      <4> TAKE e \in Releases
      <4>1. CASE e = q.release
        BY <3>1, <4>1
      <4>2. CASE e # q.release
        BY <2>5, <4>2
      <4> QED
        BY <4>1, <4>2
    <3>3. \A e \in Releases, f \in Environments :
             \/ DeploymentRow(e, f) \in session[c].locks
             \/ db'[DeploymentRow(e, f)] = db[DeploymentRow(e, f)]
      <4> TAKE e \in Releases, f \in Environments
      <4>1. CASE e = q.release /\ f = q.environment
        BY <3>1, <4>1
      <4>2. CASE e # q.release \/ f # q.environment
        BY <2>6, <4>2
      <4> QED
        BY <4>1, <4>2
    <3> QED
      BY <2>3, <2>4, <3>2, <3>3 DEF ChangesOwn
  <2> DEFINE old == db[a].told
             told == Append(old, entry)
             audits == [db[a] EXCEPT !.told = told]
             tell == ToTell(q.release)
  <2>11. old \in Seq(AuditEntries) /\ IsInjective(old) /\ ToSet(old) = tell
    BY <1>3, <2>2 DEF RuntimeInv, AuditsTellAll, ToldOf
  <2>12. entry \in AuditEntries
    BY <1>3 DEF AuditEntries
  <2>13. entry \notin tell
    <3>1. q.environment \notin {"approval", "release"}
      BY <1>3, RuntimeAssumption
    <3> QED
      BY <1>6, <3>1 DEF ToTell, Audit
  <2>14. ToTell(q.release)' = tell \cup {entry}
    <3>1. {e \in Environments : Present(DeploymentRow(q.release, e))'}
            = {e \in Environments : Present(DeploymentRow(q.release, e))} \cup {q.environment}
      BY <1>3, <2>6, <2>7 DEF Present
    <3>2. Present(r)' /\ db'[r] = db[r]
      BY <1>3, <2>5, <2>7
    <3>3. {Audit(e, db'[DeploymentRow(q.release, e)].by) :
             e \in {e \in Environments : Present(DeploymentRow(q.release, e))'}}
          = {Audit(e, db[DeploymentRow(q.release, e)].by) :
               e \in {e \in Environments : Present(DeploymentRow(q.release, e))}} \cup {entry}
      BY <1>3, <1>6, <2>6, <2>7, <3>1
    <3> QED
      BY <1>6, <3>2, <3>3 DEF ToTell
  <2> HIDE DEF old, entry, tell
  <2>15. told \in Seq(AuditEntries)
    BY <2>11, <2>12
  <2>16. IsInjective(told)
    BY <2>11, <2>12, <2>13 DEF IsInjective, ToSet
  <2>17. ToSet(told) = tell \cup {entry}
    <3>1. /\ DOMAIN told = DOMAIN old \cup {Len(old) + 1}
          /\ Len(old) + 1 \notin DOMAIN old
      BY <2>11, <2>12
    <3>2. told[Len(old) + 1] = entry /\ \A n \in DOMAIN old : told[n] = old[n]
      BY <2>11, <2>12
    <3>3. tell = {old[n] : n \in DOMAIN old}
      BY <2>11 DEF ToSet
    <3> HIDE DEF told
    <3> QED
      BY <3>1, <3>2, <3>3 DEF ToSet
  <2> HIDE DEF told
  <2>18. audits \in [status : {"kept"}, told : Seq(AuditEntries)] /\ audits.told = told
         /\ audits.status = "kept"
    BY <2>2, <2>15
  <2>19. db'[a] = audits
    BY <2>1 DEF told, old
  <2> HIDE DEF audits
  <2>20. Present(a)'
    BY <2>18, <2>19 DEF Present, Absent
  <2>21. PICK all : all = tell \cup {entry}
    OBVIOUS
  <2>22. PICK b : b = audits
    OBVIOUS
  <2>23. RuntimeTypeOK' /\ RevisionCountsAll' /\ AuditsTellAll'
    <3>1. \A e \in Releases \ {q.release} :
            /\ db'[ReleaseRow(e)] = db[ReleaseRow(e)] /\ db'[AuditRow(e)] = db[AuditRow(e)]
            /\ \A f \in Environments : db'[DeploymentRow(e, f)] = db[DeploymentRow(e, f)]
      BY <2>5, <2>6
    <3>2. b \in [status : {"kept"}, told : Seq(AuditEntries)] /\ db'[a] = b
      BY <2>18, <2>19, <2>22
    <3>3. IsInjective(b.told) /\ ToSet(b.told) = all
      BY <2>16, <2>17, <2>18, <2>21, <2>22
    <3>4. ToTell(q.release)' = all
      BY <2>14, <2>21 DEF tell
    <3> QED
      BY <1>3, <2>1, <2>3, <2>4, <2>7, <2>20, <3>1, <3>2, <3>3, <3>4, ReleasesMove
  <2> QED
    BY <1>1, <1>2, <2>8, <2>9, <2>10, <2>23, CommitWrites, CommitStep
<1> QED
  BY <1>4, <1>5, <1>6

\* Any call commits.
LEMMA CommitKeeps ==
  ASSUME RuntimeInv, NEW c \in Clients, CommitRuntime(c)
  PROVE  RuntimeInv' /\ TablesMove
<1>1. session[c].at = "done" /\ session[c] # Idle /\ Commits(c)
  BY IdleFields DEF CommitRuntime
<1>2. CASE session[c].call.op \notin RuntimeOps
  <2>1. IsElsewhere(c)
    BY <1>1, <1>2 DEF RuntimeInv, CallsGoOn, GoesOn
  <2>2. IsStored(session[c].call)
    BY <1>2 DEF IsStored, RuntimeOps
  <2> QED
    BY <1>1, <2>1, <2>2, NothingCommits DEF IsElsewhere
<1> QED
  BY <1>2, DriverCommits, OperatorCommits, ReleaserCommits, DeployerCommits DEF RuntimeOps
-----------------------------------------------------------------------------
(* The theorems.                                                           *)

\* At first some checkpoints are there, and nothing else.
LEMMA InitHolds ==
  ASSUME IntegrationInit
  PROVE  RuntimeInv
<1> DEFINE others == [r \in RuntimeRows \cup IntegrationRows |-> [status |-> Absent]]
<1>1. /\ db = Over(Checkpoints, others)
      /\ session = [c \in Clients |-> Idle]
      /\ \E requests \in Scenes : answers = [q \in requests |-> {}]
  BY DEF IntegrationInit
<1>2. /\ DOMAIN db = DOMAIN Checkpoints \cup RuntimeRows \cup IntegrationRows
      /\ \A r \in DOMAIN Checkpoints : db[r] = Checkpoints[r]
      /\ \A r \in RuntimeRows : r \notin DOMAIN Checkpoints => db[r] = [status |-> Absent]
  <2>1. DOMAIN others = RuntimeRows \cup IntegrationRows
        /\ \A r \in RuntimeRows : others[r] = [status |-> Absent]
    OBVIOUS
  <2> HIDE DEF others
  <2> QED
    BY <1>1, <2>1 DEF Over
<1>3. \A r \in RuntimeRows : r \notin DOMAIN Checkpoints => ~Present(r)
  BY <1>2 DEF Present
<1>4. \A k \in ControlKeys : ~Present(ControlRow(k))
  BY <1>3, Rows, RowsDiffer, RuntimeAssumption
<1>5. \A d \in Releases : /\ ~Present(ReleaseRow(d)) /\ ~Present(AuditRow(d))
                          /\ \A e \in Environments : ~Present(DeploymentRow(d, e))
  <2> TAKE d \in Releases
  <2>1. ReleaseRow(d) \notin DOMAIN Checkpoints /\ AuditRow(d) \notin DOMAIN Checkpoints
    BY RowsDiffer, RuntimeAssumption
  <2>2. \A e \in Environments : DeploymentRow(d, e) \notin DOMAIN Checkpoints
    BY RowsDiffer, RuntimeAssumption
  <2> QED
    BY <1>3, <2>1, <2>2, Rows
<1>6. \A i \in Instances : Controls(i) = {}
  BY <1>4 DEF Controls
<1>7. \A i \in Instances : Present(CheckpointRow(i)) =>
        LET p == db[CheckpointRow(i)] IN
        /\ p \in CheckpointType /\ IsFiniteSet(p.events) /\ IsFiniteSet(p.timers)
        /\ p.revision = Recordings(p)
  BY <1>2, <1>3, Rows, RuntimeAssumption
<1>8. RuntimeTypeOK
  <2>1. IsFiniteSet({})
    BY FS_EmptySet
  <2> QED
    BY <1>2, <1>5, <1>6, <1>7, <2>1 DEF RuntimeTypeOK
<1>9. CallsGoOn
  <2>1. DOMAIN answers \subseteq Requests
    BY <1>1, IntegrationAssumption
  <2>2. DOMAIN session = Clients /\ \A c \in Clients : session[c] = Idle
    BY <1>1
  <2> QED
    BY <2>1, <2>2, IdleFields DEF CallsGoOn, GoesOn, HoldersDiffer
<1>10. RevisionCountsAll
  <2>1. Cardinality({}) = 0
    BY FS_EmptySet
  <2>2. \A p \in CheckpointType : IsFiniteSet(p.events) /\ IsFiniteSet(p.timers) => Recordings(p) \in Nat
    BY FS_CardinalityType DEF CheckpointType, Recordings
  <2> SUFFICES ASSUME NEW i \in Instances, Present(CheckpointRow(i))
               PROVE  db[CheckpointRow(i)].revision
                        = Recordings(db[CheckpointRow(i)]) + Cardinality(Controls(i))
    BY DEF RevisionCountsAll
  <2>3. Cardinality(Controls(i)) = 0
    BY <1>6, <2>1
  <2>4. Recordings(db[CheckpointRow(i)]) \in Nat
    BY <1>7, <2>2
  <2> QED
    BY <1>7, <2>3, <2>4
<1>11. AuditsTellAll
  <2> SUFFICES ASSUME NEW d \in Releases PROVE IsInjective(ToldOf(d)) /\ ToSet(ToldOf(d)) = ToTell(d)
    BY DEF AuditsTellAll
  <2>1. ToldOf(d) = <<>> /\ ToTell(d) = {}
    BY <1>5 DEF ToldOf, ToTell
  <2>2. DOMAIN <<>> = {}
    OBVIOUS
  <2> QED
    BY <2>1, <2>2 DEF IsInjective, ToSet
<1>12. RuntimeAnswersAreTrue
  BY <1>1 DEF RuntimeAnswersAreTrue
<1> QED
  BY <1>8, <1>9, <1>10, <1>11, <1>12 DEF RuntimeInv

\* Statements of the runtime keep the invariant and write no table.
LEMMA RuntimeStatementKeeps ==
  ASSUME RuntimeInv, NEW c \in Clients, RuntimeStatement(c)
  PROVE  RuntimeInv' /\ db' = db
<1>0. /\ \A w, at, row, todo : Proceed(c, w, at, row, todo) => db' = db
      /\ \A outcome : Refuse(c, outcome) => db' = db
  BY DEF Proceed, Refuse
<1>1. RuntimeInv'
  BY LoadKeeps, SaveCheckpointKeeps, InsertCheckpointKeeps, FindControlKeeps, ReplayControlKeeps,
     OperateKeeps, RecordControlKeeps, FindReleaseKeeps, RecordReleaseKeeps, LockReleaseKeeps,
     FindDeploymentKeeps, RecordDeploymentKeeps
     DEF RuntimeStatement
<1>2. CASE Load(c)
  BY <1>0, <1>1, <1>2 DEF Load, Save
<1>3. CASE SaveCheckpoint(c)
  BY <1>0, <1>1, <1>3 DEF SaveCheckpoint, Goes, Done
<1>4. CASE InsertCheckpoint(c)
  BY <1>0, <1>1, <1>4 DEF InsertCheckpoint, Done
<1>5. CASE FindControl(c)
  BY <1>0, <1>1, <1>5 DEF FindControl, Goes
<1>6. CASE ReplayControl(c)
  BY <1>0, <1>1, <1>6 DEF ReplayControl, Done
<1>7. CASE Operate(c)
  BY <1>0, <1>1, <1>7 DEF Operate, Goes
<1>8. CASE RecordControl(c)
  BY <1>0, <1>1, <1>8 DEF RecordControl, Done
<1>9. CASE FindRelease(c)
  BY <1>0, <1>1, <1>9 DEF FindRelease, Goes, Done
<1>10. CASE RecordRelease(c)
  BY <1>0, <1>1, <1>10 DEF RecordRelease, Done
<1>11. CASE LockRelease(c)
  BY <1>0, <1>1, <1>11 DEF LockRelease, Goes
<1>12. CASE FindDeployment(c)
  BY <1>0, <1>1, <1>12 DEF FindDeployment, Goes, Done
<1>13. CASE RecordDeployment(c)
  BY <1>0, <1>1, <1>13 DEF RecordDeployment, Done
<1> QED
  BY <1>1, <1>2, <1>3, <1>4, <1>5, <1>6, <1>7, <1>8, <1>9, <1>10, <1>11, <1>12, <1>13 DEF RuntimeStatement

\* Statements of the other stores keep the invariant and write no table.
LEMMA StoreStatementKeeps ==
  ASSUME RuntimeInv, NEW c \in Clients, StoreStatement(c)
  PROVE  RuntimeInv' /\ db' = db
<1>0. /\ \A w, at, row, todo : Proceed(c, w, at, row, todo) => db' = db
      /\ \A outcome : Refuse(c, outcome) => db' = db
  BY DEF Proceed, Refuse
<1>1. RuntimeInv'
  BY GovernanceKeeps, EvidenceKeeps DEF StoreStatement
<1>2. CASE FindAudit(c)
  BY <1>0, <1>1, <1>2 DEF FindAudit, Goes, Done
<1>3. CASE LockNew(c)
  BY <1>0, <1>1, <1>3 DEF LockNew
<1>4. CASE InsertConnector(c)
  BY <1>0, <1>1, <1>4 DEF InsertConnector
<1>5. CASE ApplyTransition(c)
  BY <1>0, <1>1, <1>5 DEF ApplyTransition, Writes, Goes
<1>6. CASE ControlDelivery(c)
  BY <1>0, <1>1, <1>6 DEF ControlDelivery, Goes
<1>7. CASE InsertAudit(c)
  BY <1>0, <1>1, <1>7 DEF InsertAudit, Done
<1>8. CASE InsertEvidence(c)
  BY <1>0, <1>1, <1>8 DEF InsertEvidence, Done
<1>9. CASE MergeEvidence(c)
  BY <1>0, <1>1, <1>9 DEF MergeEvidence, Done
<1> QED
  BY <1>1, <1>2, <1>3, <1>4, <1>5, <1>6, <1>7, <1>8, <1>9 DEF StoreStatement

\* A call begins.
LEMMA CallsKeep ==
  ASSUME RuntimeInv, NEW c \in Clients, Calls(c)
  PROVE  RuntimeInv' /\ db' = db
<1>1. RuntimeInv'
  BY RuntimeCallKeeps, IntegrationCallKeeps DEF Calls
<1>2. db' = db
  BY DEF Calls, CallDriver, CallOperator, CallRelease, CallGovernance, CallEvidence, CallInvoke,
         CallWebhook, Begin
<1> QED
  BY <1>1, <1>2

\* A call is cut off, by the loss of its connection or to end a deadlock.
LEMMA CutOffKeeps ==
  ASSUME RuntimeInv, NEW c \in Clients, Abort(c) \/ DeadlockVictim(c)
  PROVE  RuntimeInv' /\ db' = db
<1>1. Refuse(c, "unknown")
  BY DEF Abort, DeadlockVictim
<1>2. session[c] # Idle
  <2>1. CASE Abort(c)
    BY <2>1 DEF Abort
  <2>2. CASE DeadlockVictim(c)
    <3>1. PICK d : Waits(c, d)
      BY <2>2 DEF DeadlockVictim, Deadlocked
    <3>2. Locked(c) # {}
      BY <3>1 DEF Waits
    <3> QED
      BY <3>2, IdleFields DEF Locked
  <2> QED
    BY <2>1, <2>2
<1> QED
  BY <1>1, <1>2, RefusedStep DEF Refuse

\* Every step keeps the invariant, and only a commit moves the tables, as it may.
LEMMA StepKeeps ==
  ASSUME RuntimeInv, IntegrationNext
  PROVE  RuntimeInv' /\ (db' = db \/ TablesMove)
<1>1. ASSUME NEW c \in Clients,
             Calls(c) \/ RuntimeStatement(c) \/ StoreStatement(c) \/ Abort(c) \/ DeadlockVictim(c)
      PROVE  RuntimeInv' /\ db' = db
  BY <1>1, CallsKeep, RuntimeStatementKeeps, StoreStatementKeeps, CutOffKeeps
<1>2. ASSUME NEW c \in Clients, CommitRuntime(c)
      PROVE  RuntimeInv' /\ TablesMove
  BY <1>2, CommitKeeps
<1>3. ASSUME NEW c \in Clients,
             LookUpInvocation(c) \/ Invoke(c) \/ PutInvocation(c) \/ IngestWebhook(c)
      PROVE  RuntimeInv' /\ db' = db
  <2>1. db' = db
    BY <1>3 DEF LookUpInvocation, Invoke, PutInvocation, IngestWebhook, Attempt, Proceed, Refuse
  <2> QED
    BY <1>3, <2>1, ActionsKeep
<1>4. CASE Restart
  BY <1>4, RestartKeeps DEF Restart
<1> QED
  BY <1>1, <1>2, <1>3, <1>4 DEF IntegrationNext

\* In every behaviour the tables of the runtime agree: an instance's revision counts
\* what was recorded in it and what operators did to it, the audits of a release tell
\* once who approved, released and deployed it, and who was told that a call succeeded
\* finds it stored, whatever calls interleave, are repeated, or are cut off
\* (modules/process/src: runtime-store, operations, release-store).
THEOREM RuntimeInvariant == IntegrationSpec => []RuntimeInv
<1>1. RuntimeInv /\ [IntegrationNext]_vars => RuntimeInv'
  <2> SUFFICES ASSUME RuntimeInv, [IntegrationNext]_vars PROVE RuntimeInv'
    OBVIOUS
  <2>1. CASE UNCHANGED vars
    <3>1. db' = db /\ session' = session /\ answers' = answers
      BY <2>1 DEF vars, sessionVars
    <3>2. \A c \in Clients : GoesOn(c)'
      BY <3>1, StaysThere DEF RuntimeInv, CallsGoOn
    <3>3. CallsGoOn'
      BY <3>1, <3>2 DEF RuntimeInv, CallsGoOn, HoldersDiffer
    <3>4. RuntimeAnswersAreTrue'
      BY <3>1 DEF RuntimeInv, RuntimeAnswersAreTrue, IsStored, Present
    <3> QED
      BY <3>1, <3>3, <3>4, TablesStay DEF RuntimeInv
  <2> QED
    BY <2>1, StepKeeps
<1> QED
  BY <1>1, InitHolds, PTL DEF IntegrationSpec

\* No step takes back the progress of an instance: what was completed, consumed or
\* scheduled and every step with its key stay in the checkpoint, also when a driver
\* saves what it loaded before another driver or an operator moved on
\* (ProcessCheckpointStore, operateRuntime).
THEOREM ProgressAlwaysKept == IntegrationSpec => ProgressIsKept
<1> DEFINE Kept ==
      \A i \in Instances : Present(CheckpointRow(i)) =>
        LET p == db[CheckpointRow(i)]
            n == db'[CheckpointRow(i)]
        IN  /\ p.completed \subseteq n.completed /\ p.events \subseteq n.events
            /\ p.timers \subseteq n.timers /\ Len(p.steps) <= Len(n.steps)
            /\ \A j \in DOMAIN p.steps : SameStep(p.steps[j], n.steps[j])
<1>1. RuntimeInv /\ [IntegrationNext]_vars => [Kept]_sessionVars
  <2> SUFFICES ASSUME RuntimeInv, IntegrationNext, NEW i \in Instances, Present(CheckpointRow(i))
               PROVE  Grows(db[CheckpointRow(i)], db'[CheckpointRow(i)])
    BY DEF Grows, vars
  <2>1. db[CheckpointRow(i)] \in CheckpointType
    BY DEF RuntimeInv, RuntimeTypeOK
  <2>2. \/ db'[CheckpointRow(i)] = db[CheckpointRow(i)]
        \/ Grows(db[CheckpointRow(i)], db'[CheckpointRow(i)])
    BY StepKeeps DEF TablesMove
  <2>3. \A p \in CheckpointType : Grows(p, p)
    BY DEF Grows, SameStep, CheckpointType
  <2> QED
    BY <2>1, <2>2, <2>3
<1> QED
  BY <1>1, RuntimeInvariant, PTL DEF IntegrationSpec, ProgressIsKept

-----------------------------------------------------------------------------
(* Receipts: what the runtime of external actions keeps of what it told.   *)

InvokeStages == {"look up", "invoke", "put"}
Receipts == {"ok", "unknown outcome"}

\* Whoever was told what became of his action left a receipt, as long as the
\* process has not started again; and only calls that invoke an action are at the
\* steps of one, so that no other answer is among what they were told.
ReceiptsInv ==
  /\ DOMAIN session = Clients /\ (\A c \in Clients : DOMAIN session[c] = DOMAIN Idle)
  /\ restarts \in Nat /\ DOMAIN invocations = InvocationKeys
  /\ DOMAIN answers \subseteq Requests
  /\ \A c \in Clients :
       session[c] # Idle =>
         /\ session[c].call \in DOMAIN answers
         /\ session[c].call.op = "invoke" <=> session[c].at \in InvokeStages
  /\ restarts = 0 => \A q \in DOMAIN answers :
       q.op = "invoke" /\ answers[q] \cap Receipts # {} => invocations[q.key] # NoReceipt

\* A step of client c's own session: its call goes on, or is answered.
Turns(c) ==
  \/ \E w, at, row, todo :
       /\ at \in InvokeStages <=> session[c].at \in InvokeStages
       /\ Proceed(c, w, at, row, todo)
  \/ \E outcome : Answer(c, outcome) /\
       (session[c].at \in InvokeStages => outcome \notin Receipts)

\* Such a step keeps the receipts, if it has not asked a provider.
LEMMA TurnKeeps ==
  ASSUME ReceiptsInv, NEW c \in Clients, session[c] # Idle, Turns(c),
         UNCHANGED <<invocations, restarts>>
  PROVE  ReceiptsInv'
<1>1. SessionShape
  BY DEF ReceiptsInv, SessionShape
<1>2. ASSUME NEW w, NEW at, NEW row, NEW todo, Proceed(c, w, at, row, todo),
             at \in InvokeStages <=> session[c].at \in InvokeStages
      PROVE  ReceiptsInv'
  <2>1. /\ SessionShape' /\ Alone(c) /\ session'[c].call = session[c].call
        /\ session'[c].at = at /\ answers' = answers
    BY <1>1, <1>2, Proceeds
  <2> QED
    BY <1>1, <1>2, <2>1 DEF ReceiptsInv, SessionShape, Alone
<1>3. ASSUME NEW outcome, Answer(c, outcome),
             session[c].at \in InvokeStages => outcome \notin Receipts
      PROVE  ReceiptsInv'
  <2>1. /\ SessionShape' /\ Alone(c) /\ session'[c] = Idle
        /\ answers' = [answers EXCEPT ![session[c].call] = @ \cup {outcome}]
    BY <1>1, <1>3, Answers
  <2>2. session[c].call.op = "invoke" => outcome \notin Receipts
    BY <1>1, <1>3 DEF ReceiptsInv
  <2>3. \A q \in DOMAIN answers :
          q.op = "invoke" => answers'[q] \cap Receipts = answers[q] \cap Receipts
    BY <2>1, <2>2
  <2> QED
    BY <1>1, <2>1, <2>3 DEF ReceiptsInv, SessionShape, Alone
<1> QED
  BY <1>2, <1>3 DEF Turns

\* The statements of the runtime and of the release store.
LEMMA RuntimeStatementTurns ==
  ASSUME NEW c \in Clients, RuntimeStatement(c)
  PROVE  session[c].at \notin {"idle", "look up"} /\ Turns(c)
<1> USE IdleFields DEF Ready, Refuse, Turns, InvokeStages
<1>1. CASE Load(c)
  BY <1>1 DEF Load, Save
<1>2. CASE SaveCheckpoint(c) \/ InsertCheckpoint(c)
  BY <1>2 DEF SaveCheckpoint, InsertCheckpoint, Goes, Done
<1>3. CASE FindControl(c) \/ ReplayControl(c)
  BY <1>3 DEF FindControl, ReplayControl, Goes, Done
<1>4. CASE Operate(c) \/ RecordControl(c)
  BY <1>4 DEF Operate, RecordControl, Goes, Done
<1>5. CASE FindRelease(c) \/ RecordRelease(c)
  BY <1>5 DEF FindRelease, RecordRelease, Goes, Done
<1>6. CASE LockRelease(c) \/ FindDeployment(c)
  BY <1>6 DEF LockRelease, FindDeployment, Goes, Done
<1>7. CASE RecordDeployment(c)
  BY <1>7 DEF RecordDeployment, Done
<1> QED
  BY <1>1, <1>2, <1>3, <1>4, <1>5, <1>6, <1>7 DEF RuntimeStatement

\* The statements of governance and of the evidence of deliveries; only the insert
\* of evidence that is there already is no step with a lock.
LEMMA StoreStatementTurns ==
  ASSUME NEW c \in Clients, StoreStatement(c), ~InsertEvidence(c)
  PROVE  session[c].at \notin {"idle", "look up"} /\ Turns(c)
<1> USE IdleFields DEF Ready, Refuse, Turns, InvokeStages
<1>1. CASE FindAudit(c)
  BY <1>1 DEF FindAudit, Goes, Done
<1>2. CASE LockNew(c) \/ InsertConnector(c)
  BY <1>2 DEF LockNew, InsertConnector
<1>3. CASE ApplyTransition(c)
  <2>1. /\ session[c].at = "again"
        /\ (\E connector : Writes(c, connector)) \/ \E outcome : Refuse(c, outcome)
    BY <1>3 DEF ApplyTransition
  <2> QED
    BY <2>1 DEF Writes, Goes
<1>4. CASE ControlDelivery(c)
  BY <1>4 DEF ControlDelivery, Goes
<1>5. CASE InsertAudit(c) \/ MergeEvidence(c)
  BY <1>5 DEF InsertAudit, MergeEvidence, Done
<1> QED
  BY <1>1, <1>2, <1>3, <1>4, <1>5 DEF StoreStatement

\* A call begins at a step that is of its own kind.
LEMMA CallKeepsReceipts ==
  ASSUME ReceiptsInv, NEW c \in Clients, Calls(c), UNCHANGED <<invocations, restarts>>
  PROVE  ReceiptsInv'
<1>1. PICK q \in DOMAIN answers :
        \E at, row, todo : Begin(c, q, at, row, todo) /\ (q.op = "invoke" <=> at \in InvokeStages)
  <2>1. ASSUME NEW q \in DOMAIN answers,
               CallDriver(c, q) \/ CallOperator(c, q) \/ CallRelease(c, q)
        PROVE  \E at, row, todo : /\ Begin(c, q, at, row, todo)
                                  /\ q.op # "invoke" /\ at \notin InvokeStages
    <3>1. /\ q.op \in RuntimeOps
          /\ \E at \in {"load", "find", "update"} : \E row : Begin(c, q, at, row, <<q>>)
      BY <2>1 DEF CallDriver, CallOperator, CallRelease, RuntimeOps
    <3> QED
      BY <3>1 DEF InvokeStages, RuntimeOps
  <2>2. ASSUME NEW q \in DOMAIN answers,
               CallGovernance(c, q) \/ CallEvidence(c, q) \/ CallWebhook(c, q)
        PROVE  \E at, row, todo : /\ Begin(c, q, at, row, todo)
                                  /\ q.op # "invoke" /\ at \notin InvokeStages
    <3>1. /\ q.op \in Governing \cup {"evidence", "webhook"}
          /\ \E at \in {"find", "record", "verify"} : \E row : Begin(c, q, at, row, <<q>>)
      BY <2>2 DEF CallGovernance, CallEvidence, CallWebhook
    <3> QED
      BY <3>1 DEF InvokeStages, Governing, Transitions
  <2>3. ASSUME NEW q \in DOMAIN answers, CallInvoke(c, q)
        PROVE  \E at, row, todo : /\ Begin(c, q, at, row, todo)
                                  /\ q.op = "invoke" /\ at \in InvokeStages
    BY <2>3 DEF CallInvoke, InvokeStages
  <2> QED
    BY <2>1, <2>2, <2>3 DEF Calls
<1>2. PICK at, row, todo : Begin(c, q, at, row, todo) /\ (q.op = "invoke" <=> at \in InvokeStages)
  BY <1>1
<1>3. SessionShape
  BY DEF ReceiptsInv, SessionShape
<1>4. /\ SessionShape' /\ Alone(c) /\ session'[c].call = q /\ session'[c].at = at
      /\ answers' = answers
  BY <1>2, <1>3, Begins
<1> QED
  BY <1>1, <1>2, <1>4 DEF ReceiptsInv, SessionShape, Alone

\* An action's call asks the provider, or is refused; nobody else's is.
LEMMA InvokerTurns ==
  ASSUME NEW c \in Clients, Invoke(c)
  PROVE  session[c].at \notin {"idle", "look up"} /\ Turns(c)
<1> USE DEF Refuse, Turns, InvokeStages
<1>1. session[c].at = "invoke"
  BY DEF Invoke
<1>2. \/ \E at \in {"put", "invoke"} : \E todo : Proceed(c, <<>>, at, NoRow, todo)
      \/ \E outcome \in {"invalid output", "failed"} : Refuse(c, outcome)
  BY DEF Invoke, Attempt
<1> QED
  BY <1>1, <1>2, IdleFields DEF Receipts

\* Who is told what became of his action has its receipt there by then.
LEMMA ReceiptAnswers ==
  ASSUME ReceiptsInv, NEW c \in Clients, session[c] # Idle, NEW outcome, Answer(c, outcome),
         restarts' = restarts, DOMAIN invocations' = InvocationKeys,
         \A k \in InvocationKeys : invocations[k] # NoReceipt => invocations'[k] # NoReceipt,
         session[c].call.op = "invoke" => invocations'[session[c].call.key] # NoReceipt
  PROVE  ReceiptsInv'
<1>1. SessionShape
  BY DEF ReceiptsInv, SessionShape
<1>2. /\ SessionShape' /\ Alone(c) /\ session'[c] = Idle
      /\ answers' = [answers EXCEPT ![session[c].call] = @ \cup {outcome}]
  BY <1>1, Answers
<1>3. \A q \in DOMAIN answers : q.op = "invoke" => q.key \in InvocationKeys
  BY IntegrationAssumption DEF ReceiptsInv
<1>4. \A q \in DOMAIN answers : q # session[c].call => answers'[q] = answers[q]
  BY <1>2
<1> QED
  BY <1>2, <1>3, <1>4 DEF ReceiptsInv, SessionShape, Alone

\* Every step keeps the receipts.
LEMMA ReceiptsKept ==
  ASSUME ReceiptsInv, [IntegrationNext]_vars
  PROVE  ReceiptsInv'
<1>1. CASE UNCHANGED vars
  BY <1>1 DEF vars, sessionVars, integrationVars, ReceiptsInv
<1>2. ASSUME NEW c \in Clients, UNCHANGED integrationVars,
             \/ RuntimeStatement(c) \/ Invoke(c)
             \/ StoreStatement(c) /\ ~InsertEvidence(c)
      PROVE  ReceiptsInv'
  BY <1>2, RuntimeStatementTurns, InvokerTurns, StoreStatementTurns, TurnKeeps, IdleFields DEF integrationVars
<1>3. ASSUME NEW c \in Clients, UNCHANGED integrationVars,
             Abort(c) \/ DeadlockVictim(c) \/ CommitRuntime(c)
      PROVE  ReceiptsInv'
  <2>1. session[c] # Idle
    BY <1>3, IdleFields DEF Abort, DeadlockVictim, Deadlocked, Waits, Locked, CommitRuntime
  <2>2. \/ Answer(c, "unknown")
        \/ session[c].at = "done" /\ \E outcome : Answer(c, outcome)
    BY <1>3 DEF Abort, DeadlockVictim, CommitRuntime, Commits, Refuse
  <2>3. Turns(c)
    <3>1. "unknown" \notin Receipts /\ "done" \notin InvokeStages
      BY DEF Receipts, InvokeStages
    <3> QED
      BY <2>2, <3>1 DEF Turns
  <2> QED
    BY <1>3, <2>1, <2>3, TurnKeeps DEF integrationVars
<1>4. ASSUME NEW c \in Clients, UNCHANGED integrationVars, InsertEvidence(c)
      PROVE  ReceiptsInv'
  <2>1. session[c].at = "record" /\ session[c] # Idle
    BY <1>4, IdleFields DEF InsertEvidence, Ready
  <2>2. CASE Turns(c)
    BY <1>4, <2>1, <2>2, TurnKeeps DEF integrationVars
  <2>3. CASE session' = [session EXCEPT ![c].at = "update"] /\ UNCHANGED <<db, answers, calls>>
    <3> DEFINE n == [session[c] EXCEPT !.at = "update"]
    <3>1. session' = [session EXCEPT ![c] = n] /\ DOMAIN n = DOMAIN Idle /\ n.call = session[c].call
      BY <2>3, IdleFields DEF ReceiptsInv
    <3>2. n.at = "update"
      BY IdleFields DEF ReceiptsInv
    <3> HIDE DEF n
    <3>3. DOMAIN session' = Clients /\ session'[c] = n /\ Alone(c)
      BY <3>1 DEF ReceiptsInv, Alone
    <3>4. session[c].call \in DOMAIN answers /\ session[c].call.op # "invoke"
      BY <2>1 DEF ReceiptsInv, InvokeStages
    <3>5. \A d \in Clients :
            session'[d] # Idle =>
              /\ session'[d].call \in DOMAIN answers
              /\ session'[d].call.op = "invoke" <=> session'[d].at \in InvokeStages
      BY <3>1, <3>2, <3>3, <3>4 DEF ReceiptsInv, Alone, InvokeStages
    <3>6. \A d \in Clients : DOMAIN session'[d] = DOMAIN Idle
      BY <3>1, <3>3 DEF ReceiptsInv, Alone
    <3> QED
      BY <1>4, <2>3, <3>3, <3>5, <3>6 DEF ReceiptsInv, integrationVars
  <2> QED
    BY <1>4, <2>1, <2>2, <2>3 DEF InsertEvidence, Done, Turns, InvokeStages
<1>5. ASSUME NEW c \in Clients, UNCHANGED integrationVars, LookUpInvocation(c)
      PROVE  ReceiptsInv'
  <2>1. session[c].at = "look up" /\ session[c] # Idle
    BY <1>5, IdleFields DEF LookUpInvocation
  <2>2. CASE invocations[Asked(c).key] = NoReceipt
    <3>1. Proceed(c, <<>>, "invoke", NoRow, <<[op |-> "attempt", number |-> 1]>>)
      BY <1>5, <2>2 DEF LookUpInvocation, Attempt
    <3>2. Turns(c)
      BY <2>1, <3>1 DEF Turns, InvokeStages
    <3> QED
      BY <1>5, <2>1, <3>2, TurnKeeps DEF integrationVars
  <2>3. CASE invocations[Asked(c).key] # NoReceipt
    <3>1. \E outcome : Answer(c, outcome)
      BY <1>5, <2>3 DEF LookUpInvocation, Refuse
    <3> QED
      BY <1>5, <2>1, <2>3, <3>1, ReceiptAnswers DEF integrationVars, Asked, ReceiptsInv
  <2> QED
    BY <2>2, <2>3
<1>6. ASSUME NEW c \in Clients, UNCHANGED restarts, PutInvocation(c)
      PROVE  ReceiptsInv'
  <2> DEFINE k == session[c].call.key
             receipt == [outcome |-> Head(session[c].todo).op, action |-> session[c].call.action]
  <2>1. /\ session[c] # Idle /\ \E outcome : Answer(c, outcome)
        /\ invocations' = [invocations EXCEPT ![k] = receipt]
    BY <1>6, IdleFields DEF PutInvocation, Asked, Refuse
  <2>2. receipt # NoReceipt
    <3>1. DOMAIN receipt # DOMAIN NoReceipt
      BY DEF NoReceipt
    <3> QED
      BY <3>1
  <2>3. session[c].call.op = "invoke" => k \in InvocationKeys
    BY <2>1, IntegrationAssumption DEF ReceiptsInv
  <2> HIDE DEF receipt, k
  <2>4. /\ DOMAIN invocations' = InvocationKeys
        /\ \A l \in InvocationKeys : invocations[l] # NoReceipt => invocations'[l] # NoReceipt
        /\ session[c].call.op = "invoke" => invocations'[k] # NoReceipt
    BY <2>1, <2>2, <2>3 DEF ReceiptsInv
  <2> QED
    BY <1>6, <2>1, <2>4, ReceiptAnswers DEF k
<1>7. ASSUME NEW c \in Clients, UNCHANGED <<invocations, restarts>>, IngestWebhook(c)
      PROVE  ReceiptsInv'
  <2>1. session[c].at = "verify" /\ \E outcome : Answer(c, outcome)
    BY <1>7 DEF IngestWebhook, Refuse
  <2>2. session[c] # Idle /\ Turns(c)
    BY <2>1, IdleFields DEF Turns, InvokeStages
  <2> QED
    BY <1>7, <2>2, TurnKeeps
<1>8. CASE Restart
  <2>1. restarts' \in Nat \ {0}
    BY <1>8 DEF Restart, ReceiptsInv
  <2> QED
    BY <1>8, <2>1 DEF Restart, ReceiptsInv, NoInvocations
<1> QED
  BY <1>1, <1>2, <1>3, <1>4, <1>5, <1>6, <1>7, <1>8, CallKeepsReceipts DEF IntegrationNext, integrationVars

\* Nobody goes from the look-up of a receipt to the provider but by looking it up.
LEMMA LookedUp ==
  ASSUME ReceiptsInv, IntegrationNext, NEW c \in Clients,
         session[c].at = "look up", session'[c].at = "invoke"
  PROVE  LookUpInvocation(c) /\ UNCHANGED integrationVars
<1>1. SessionShape
  BY DEF ReceiptsInv, SessionShape
<1>2. ASSUME NEW d \in Clients, Turns(d) PROVE Alone(d)
  <2>1. ASSUME NEW w, NEW at, NEW row, NEW todo, Proceed(d, w, at, row, todo) PROVE Alone(d)
    BY <1>1, <2>1, Proceeds
  <2>2. ASSUME NEW outcome, Answer(d, outcome) PROVE Alone(d)
    BY <1>1, <2>2, Answers
  <2> QED
    BY <1>2, <2>1, <2>2 DEF Turns
<1>3. ASSUME NEW d \in Clients, Alone(d) PROVE c = d
  BY <1>3 DEF Alone
<1>4. ASSUME NEW d \in Clients,
             \/ RuntimeStatement(d) \/ Invoke(d)
             \/ StoreStatement(d) /\ ~InsertEvidence(d)
      PROVE  FALSE
  BY <1>2, <1>3, <1>4, RuntimeStatementTurns, InvokerTurns, StoreStatementTurns
<1>5. ASSUME NEW d \in Clients, InsertEvidence(d) PROVE FALSE
  <2>1. session[d].at = "record"
    BY <1>5 DEF InsertEvidence, Ready
  <2>2. session' = [session EXCEPT ![d].at = "update"] \/ Turns(d)
    BY <1>5, <2>1 DEF InsertEvidence, Done, Turns, InvokeStages
  <2> QED
    BY <1>2, <1>3, <2>1, <2>2 DEF Alone, ReceiptsInv
<1>6. ASSUME NEW d \in Clients, NEW outcome, Answer(d, outcome) PROVE FALSE
  <2>1. Alone(d) /\ session'[d].at = "idle"
    BY <1>1, <1>6, Answers, IdleFields
  <2> QED
    BY <1>3, <2>1
<1>7. ASSUME NEW d \in Clients,
             Abort(d) \/ DeadlockVictim(d) \/ CommitRuntime(d) \/ PutInvocation(d) \/ IngestWebhook(d)
      PROVE  FALSE
  <2>1. \E outcome : Answer(d, outcome)
    BY <1>7 DEF Abort, DeadlockVictim, CommitRuntime, Commits, PutInvocation, IngestWebhook, Refuse
  <2> QED
    BY <1>6, <2>1
<1>8. ASSUME NEW d \in Clients, Calls(d) PROVE FALSE
  <2>1. \E q, at, row, todo : Begin(d, q, at, row, todo)
    BY <1>8 DEF Calls, CallDriver, CallOperator, CallRelease, CallGovernance, CallEvidence,
      CallInvoke, CallWebhook
  <2>2. Alone(d) /\ session[d].at = "idle"
    BY <1>1, <2>1, Begins, IdleFields
  <2> QED
    BY <1>3, <2>2
<1>9. ASSUME NEW d \in Clients, LookUpInvocation(d) PROVE c = d
  <2>1. (\E outcome : Answer(d, outcome)) \/ \E n : Attempt(d, n)
    BY <1>9 DEF LookUpInvocation, Refuse
  <2>2. ASSUME NEW n, Attempt(d, n) PROVE Alone(d)
    BY <1>1, <2>2, Proceeds DEF Attempt
  <2> QED
    BY <1>3, <1>6, <2>1, <2>2
<1>10. ~Restart
  BY IdleFields DEF Restart
<1> QED
  BY <1>4, <1>5, <1>7, <1>8, <1>9, <1>10 DEF IntegrationNext

\* As long as the process has not started again, a provider is not asked for an
\* action by a call that looks for its receipt after a caller was told what became
\* of it, be it that the outcome is unknown (invokeAction of modules/integrations).
THEOREM NeverInvokedAgain == IntegrationSpec => NotInvokedAgain
<1> DEFINE Spared ==
      \A c \in Clients, q \in DOMAIN answers :
        /\ restarts' = 0 /\ session[c].at = "look up" /\ session'[c].at = "invoke"
        /\ q.op = "invoke" /\ q.key = Asked(c).key
        => answers[q] \cap {"ok", "unknown outcome"} = {}
<1>1. IntegrationInit => ReceiptsInv
  <2> SUFFICES ASSUME IntegrationInit PROVE ReceiptsInv
    OBVIOUS
  <2>1. /\ DOMAIN session = Clients /\ \A c \in Clients : session[c] = Idle
        /\ restarts = 0 /\ DOMAIN invocations = InvocationKeys
    BY DEF IntegrationInit, NoInvocations
  <2>2. PICK requests \in Scenes : answers = [q \in requests |-> {}]
    BY DEF IntegrationInit
  <2>3. DOMAIN answers \subseteq Requests /\ \A q \in DOMAIN answers : answers[q] = {}
    BY <2>2, IntegrationAssumption
  <2> QED
    BY <2>1, <2>3 DEF ReceiptsInv
<1>2. ReceiptsInv /\ [IntegrationNext]_vars => ReceiptsInv'
  BY ReceiptsKept
<1>3. ReceiptsInv /\ [IntegrationNext]_vars => [Spared]_vars
  <2> SUFFICES ASSUME ReceiptsInv, IntegrationNext, NEW c \in Clients, NEW q \in DOMAIN answers,
                      restarts' = 0, session[c].at = "look up", session'[c].at = "invoke",
                      q.op = "invoke", q.key = Asked(c).key
               PROVE  answers[q] \cap Receipts = {}
    BY DEF Receipts
  <2>1. LookUpInvocation(c) /\ restarts = 0
    BY LookedUp DEF integrationVars
  <2>2. session'[c].at = "idle" \/ invocations[q.key] = NoReceipt
    BY <2>1, Answers, IdleFields DEF LookUpInvocation, Refuse, Asked, ReceiptsInv, SessionShape
  <2> QED
    BY <2>1, <2>2 DEF ReceiptsInv
<1> QED
  BY <1>1, <1>2, <1>3, PTL DEF IntegrationSpec, NotInvokedAgain

=============================================================================
