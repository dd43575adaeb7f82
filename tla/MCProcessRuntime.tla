-------------------------- MODULE MCProcessRuntime --------------------------
(* An instance of ProcessRuntime, with the integrations beside it, for TLC. *)
EXTENDS ProcessRuntimeProperties

CONSTANTS c1, c2, p1, p2, p3, ka, kb, e1, t1, n1, n2, ga, gb, gc, gd, re, ia, x1, s1, s2, d1, alice, bob

Drive(i, x) == [op |-> "drive", instance |-> i, record |-> x]
Command(s, k, status) == [kind |-> "command", step |-> s, key |-> k, status |-> status]
Seen(kind, id) == [kind |-> kind, id |-> id]
Operating(i, k, action) == [op |-> "operate", instance |-> i, key |-> k, action |-> action,
                            actor |-> alice]
Releasing(a) == [op |-> "release", release |-> d1, by |-> a]
Deploying(e, a) == [op |-> "deploy", release |-> d1, environment |-> e, by |-> a]

(* Two instances have taken a step, to be retried or done; a third starts. *)
Stepped(status) == Recorded(NewCheckpoint, Command(s1, ka, status))
TwoStepped == CheckpointRow(p1) :> Stepped("retry_scheduled")
              @@ CheckpointRow(p2) :> Stepped("command_succeeded")

(* An instance is driven by two processes, while operators act on it with  *)
(* keys that they repeat and that they reuse.                              *)
RuntimeCalls ==
  {Drive(p3, [kind |-> "start"]), Drive(p1, Command(s2, kb, "command_succeeded")),
   Drive(p1, Command(s2, ka, "command_failed")), Drive(p1, Seen("event", e1)),
   Drive(p1, Seen("timer", t1)),
   Operating(p1, ka, "retry"), Operating(p1, ka, "manual_recovery"),
   Operating(p2, ka, "manual_recovery"), Operating(p2, kb, "compensate")}

ReleaseCalls ==
  {Releasing(alice), Releasing(bob), Deploying("PROD", alice), Deploying("PROD", bob)}

Governed(op, n, k) == [op |-> op, connector |-> n, key |-> k]

(* One connector goes from draft to retired with keys that are used twice, *)
(* also for another connector.                                             *)
GovernanceCalls ==
  {Governed("register", n1, ga), Governed("register", n1, gb), Governed("review", n1, gb),
   Governed("review", n1, gc), Governed("activate", n1, gc), Governed("retire", n1, gd),
   Governed("control", n1, gd), Governed("control", n2, gb), Governed("register", n2, gd)}

Evidenced(subject, provider, n) ==
  [op |-> "evidence", key |-> re, subject |-> subject, provider |-> provider, attempts |-> n]

EvidenceCalls ==
  {Evidenced("action", "pending", 0), Evidenced("action", "unknown", 1),
   Evidenced("action", "pending", 1), Evidenced("action", "accepted", 1),
   Evidenced("action", "rejected", 2), Evidenced("event", "accepted", 1)}

Invoking(a) == [op |-> "invoke", key |-> ia, action |-> a]

ExternalCalls == {Invoking("ship"), Invoking("quote"), [op |-> "webhook", event |-> x1]}

TheScenes == {RuntimeCalls, ReleaseCalls, GovernanceCalls, EvidenceCalls, ExternalCalls}

AllCalls == UNION TheScenes

AnyClient == Permutations(Clients)
=============================================================================
