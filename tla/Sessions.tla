------------------------------ MODULE Sessions ------------------------------
(***************************************************************************)
(* The transactions of API calls on PostgreSQL: what Database.query,      *)
(* transaction and withTransaction (platform/postgres) give to services.  *)
(* A call runs statements in one transaction: nested transactions join     *)
(* it, a failure rolls all of it back.                                     *)
(*                                                                         *)
(* External, from how the code uses it: READ COMMITTED, where a statement  *)
(* sees what is committed and what its own transaction wrote; row locks    *)
(* (SELECT FOR UPDATE, UPDATE, the unique index of an INSERT) held to the  *)
(* end of the transaction; deadlocks ended by aborting one of the waiters. *)
(***************************************************************************)
EXTENDS Integers, Sequences, TLC

CONSTANTS Clients,      \* concurrent API calls
          Requests,     \* what may be called, with its input
          MaxCalls,     \* bound on the calls made
          NoCall, NoRow

VARIABLES db,       \* the committed rows
          session,  \* the transaction of each client
          answers,  \* the answers each request was given
          calls     \* how many calls were made

sessionVars == <<db, session, answers, calls>>

(* A call: the statement it is at, the row that statement locks, the       *)
(* inputs it has still to go through, its locks and its uncommitted rows.  *)
Idle == [call |-> NoCall, at |-> "idle", row |-> NoRow, todo |-> <<>>,
         locks |-> {}, mine |-> <<>>]

Absent == "absent"
Present(r) == db[r].status # Absent

(* What client c's transaction sees of a row. *)
Sees(c, r) == IF r \in DOMAIN session[c].mine THEN session[c].mine[r] ELSE db[r]

(* "find", "again" and "update" are SELECT FOR UPDATE and UPDATE of a row   *)
(* that may not be there: only what is committed is found, and only that   *)
(* is locked.                                                              *)
Locked(c) == IF session[c].at \in {"find", "again", "update"} /\ ~Present(session[c].row)
             THEN {} ELSE {session[c].row} \ {NoRow}

(* "record" is an INSERT with a unique key: it waits for who wrote the same *)
(* key, not for who only locked it.                                        *)
Held(c, d) == IF session[c].at = "record" THEN DOMAIN session[d].mine
              ELSE session[d].locks

Waits(c, d) == c # d /\ Locked(c) \cap Held(c, d) # {}

Ready(c, label) == session[c].at = label /\ \A d \in Clients : ~Waits(c, d)

(* A row with its value, and rows over those that were there: TLC's :> and *)
(* @@, which the proof system does not know.                               *)
RowIs(r, value) == [x \in {r} |-> value]
Over(w, rows) == [r \in DOMAIN w \cup DOMAIN rows |-> IF r \in DOMAIN w THEN w[r] ELSE rows[r]]

-----------------------------------------------------------------------------
(* The steps of a call, for the services to build their statements from.   *)

Begin(c, q, at, row, todo) ==
  /\ session[c] = Idle
  /\ calls < MaxCalls
  /\ calls' = calls + 1
  /\ session' = [session EXCEPT ![c] = [Idle EXCEPT !.call = q, !.at = at,
                                                    !.row = row, !.todo = todo]]
  /\ UNCHANGED <<db, answers>>

(* The statement takes its lock and writes w; next is statement at, which  *)
(* locks row.                                                              *)
Proceed(c, w, at, row, todo) ==
  /\ session' = [session EXCEPT ![c] =
       [session[c] EXCEPT !.at = at, !.row = row, !.todo = todo,
                          !.locks = @ \cup Locked(c), !.mine = Over(w, @)]]
  /\ UNCHANGED <<db, answers, calls>>

Goes(c, w, at, row) == Proceed(c, w, at, row, session[c].todo)

Answer(c, outcome) ==
  /\ answers' = [answers EXCEPT ![session[c].call] = @ \cup {outcome}]
  /\ session' = [session EXCEPT ![c] = Idle]
  /\ UNCHANGED calls

(* Mutant: the failure reaches the caller but not the transaction, which   *)
(* stays open.                                                             *)
RefuseLeavesOpen(c, outcome) ==
  /\ answers' = [answers EXCEPT ![session[c].call] = @ \cup {outcome}]
  /\ session' = [session EXCEPT ![c].at = "failed"]
  /\ UNCHANGED <<db, calls>>

(* The call fails with a typed error: everything it wrote is rolled back.  *)
Refuse(c, outcome) == Answer(c, outcome) /\ UNCHANGED db

(* The transaction commits; the answer to COMMIT, or the caller's, may be  *)
(* lost.                                                                   *)
Commits(c) ==
  /\ db' = Over(session[c].mine, db)
  /\ \E outcome \in {"ok", "unknown"} : Answer(c, outcome)

(* A DatabaseFailure before the commit: the connection or the process is   *)
(* lost.                                                                   *)
Abort(c) == session[c] # Idle /\ Refuse(c, "unknown")

(* PostgreSQL aborts one of the transactions that wait for each other.     *)
Deadlocked(c) == \E S \in SUBSET Clients :
                   c \in S /\ \A d \in S : \E e \in S : Waits(d, e)
DeadlockVictim(c) == Deadlocked(c) /\ Refuse(c, "unknown")

=============================================================================
