------------------------------- MODULE Access -------------------------------
(***************************************************************************)
(* Who may do what: user accounts (modules/identity), sessions and         *)
(* external assertions (modules/auth), members and capabilities of one     *)
(* tenant (modules/authorization), and the requests of the API that go     *)
(* through all three (runtime/api/handlers.ts).                            *)
(*                                                                         *)
(* No service opens a transaction here: each statement commits by itself,  *)
(* and other calls run between any two of them.  Time is one clock: the    *)
(* services' and the database's are taken to agree.  E-mails, names and    *)
(* token contents are left out; an account's id is never used again.       *)
(***************************************************************************)
EXTENDS Integers, FiniteSets, TLC

CONSTANTS Clients, Accounts,
          Sessions, Assertions,  \* local tokens, and those of the identity provider
          Subjects, Capabilities,
          Requests,              \* what may be called, with its input
          Administrators,        \* the clients that disable accounts
          Ttl,                   \* how long a token is valid
          Second,                \* clock ticks in a second
          MaxNow, MaxCalls,      \* bounds
          NoAccount, NoCall

(* A token says by itself whose it is, the provider's or a local one.      *)
ASSUME ConstantsAssumption ==
  /\ NoAccount \notin Accounts /\ NoCall \notin Requests
  /\ Sessions \cap Assertions = {}
  /\ Second \in Nat \ {0}
  /\ \A q \in Requests :
       /\ "token" \in DOMAIN q <=> q.op \notin {"issue", "bind", "disable"}
       /\ "token" \in DOMAIN q => q.token \in Sessions \cup Assertions
       /\ q.op # "logout" => q.account \in Accounts
       /\ q.op = "bind" => q.subject \in Subjects
       /\ q.op = "grant" => q.capability \in Capabilities

VARIABLES provider,  \* whether the deployment has an identity provider
          account,   \* the account rows
          session,   \* the session rows
          assertion, \* the assertions the provider has issued
          bound,     \* the account each external subject is mapped to
          member, grants,
          step,      \* the call of each client
          now, calls,
          ended,     \* history: tokens older than an account's last disabling
          witness,   \* history: what was true while a call was running
          told       \* history: <<subject, account>> answered as bound

rows == <<account, session, assertion, bound, member, grants>>
vars == <<provider, rows, step, now, calls, ended, witness, told>>

Idle == [call |-> NoCall, at |-> "idle", as |-> NoAccount, time |-> 0, old |-> {}]
Unissued == [status |-> "unissued", account |-> NoAccount, at |-> 0]

Exists(a) == a # NoAccount /\ account[a].status # "removed"
At(c, op, at) == step[c].call # NoCall /\ step[c].call.op = op /\ step[c].at = at
Asked(c) == step[c].call
Tokens == Sessions \cup Assertions

(* The calls that carry a token go through authentication.                 *)
ByToken(q) == "token" \in DOMAIN q

Issued(t) == IF t \in Sessions THEN session[t] # Unissued ELSE assertion[t].status # "unissued"

Goes(c, at) == step' = [step EXCEPT ![c].at = at]
Returns(c) == step' = [step EXCEPT ![c] = Idle]

Call(c, q) ==
  /\ step[c] = Idle /\ calls < MaxCalls
  /\ q.op # "disable" /\ (ByToken(q) => Issued(q.token))
  /\ calls' = calls + 1
  /\ step' = [step EXCEPT ![c] = [Idle EXCEPT !.call = q,
                !.at = IF ByToken(q) THEN "find" ELSE "account"]]
  /\ UNCHANGED <<rows, now, ended, told>>

-----------------------------------------------------------------------------
(* authenticate *)

Live(t) == session[t].status = "live" /\ now < session[t].at + Ttl

(* With a provider only its assertions are accepted, verified, and their    *)
(* subject is resolved; without one a token is looked up by its hash.       *)
FindToken(c) ==
  /\ step[c].at = "find"
  /\ LET t == Asked(c).token
         a == IF t \in Sessions THEN session[t].account ELSE bound[assertion[t].subject]
     IN  IF IF provider THEN t \in Assertions /\ Exists(a) ELSE t \in Sessions /\ Live(t)
         THEN step' = [step EXCEPT ![c].at = "state", ![c].as = a]
         ELSE Returns(c)
  /\ UNCHANGED <<rows, now, calls, ended, told>>

(* When a token was issued; an assertion says it in whole seconds.         *)
IssuedAt(t) == IF t \in Sessions THEN session[t].at
               ELSE (assertion[t].at \div Second) * Second

NextCheck(c) == IF Asked(c).op = "logout" THEN "operate" ELSE "authorize"

(* Mutant: a session issued in the tick of the disabling survives it.      *)
CheckStateBefore(c) ==
  /\ step[c].at = "state"
  /\ LET a == account[step[c].as] IN
     IF a.status = "active" /\ IssuedAt(Asked(c).token) >= a.cut
     THEN Goes(c, NextCheck(c)) ELSE Returns(c)
  /\ UNCHANGED <<rows, now, calls, ended, told>>

(* The time of a session is the one that was read with it, and never       *)
(* changes.                                                                *)
CheckState(c) ==
  /\ step[c].at = "state"
  /\ LET a == account[step[c].as] IN
     IF a.status = "active" /\ IssuedAt(Asked(c).token) > a.cut
     THEN Goes(c, NextCheck(c)) ELSE Returns(c)
  /\ UNCHANGED <<rows, now, calls, ended, told>>

(* revoke; an external principal has no session to revoke.                 *)
Revoke(c) ==
  /\ At(c, "logout", "operate")
  /\ LET t == Asked(c).token IN
     session' = IF t \in Sessions /\ session[t].status = "live"
                THEN [session EXCEPT ![t].status = "revoked"] ELSE session
  /\ Returns(c)
  /\ UNCHANGED <<account, assertion, bound, member, grants, now, calls, ended, told>>

-----------------------------------------------------------------------------
(* authorize, and the operations on members that it lets through *)

Allowed(a, capability) == member[a] = "active" /\ capability \in grants[a]

(* Mutant: the grant is enough, whatever the membership's status.          *)
AuthorizeGranted(c) ==
  /\ step[c].at = "authorize"
  /\ IF Asked(c).needs \in grants[step[c].as] THEN Goes(c, "operate") ELSE Returns(c)
  /\ UNCHANGED <<rows, now, calls, ended, told>>

Authorize(c) ==
  /\ step[c].at = "authorize"
  /\ IF Allowed(step[c].as, Asked(c).needs) THEN Goes(c, "operate") ELSE Returns(c)
  /\ UNCHANGED <<rows, now, calls, ended, told>>

Adds(a) == IF Exists(a) /\ member[a] = "none"
           THEN member' = [member EXCEPT ![a] = "active"] ELSE member' = member

AddMember(c) ==
  /\ At(c, "add", "operate")
  /\ Adds(Asked(c).account)
  /\ Returns(c)
  /\ UNCHANGED <<account, session, assertion, bound, grants, now, calls, ended, told>>

UpdateStatus(c, op, status) ==
  /\ At(c, op, "operate")
  /\ LET a == Asked(c).account IN
     member' = IF member[a] = "none" THEN member ELSE [member EXCEPT ![a] = status]
  /\ Returns(c)
  /\ UNCHANGED <<account, session, assertion, bound, grants, now, calls, ended, told>>

SuspendMember(c) == UpdateStatus(c, "suspend", "suspended")
ActivateMember(c) == UpdateStatus(c, "activate", "active")

(* The foreign key takes the member's grants with it.                      *)
RemoveMember(c) ==
  /\ At(c, "remove", "operate")
  /\ LET a == Asked(c).account IN
     /\ member' = [member EXCEPT ![a] = "none"]
     /\ grants' = [grants EXCEPT ![a] = {}]
  /\ Returns(c)
  /\ UNCHANGED <<account, session, assertion, bound, now, calls, ended, told>>

(* grant: the membership is read in one statement and the capability       *)
(* inserted in another.                                                    *)
ReadMember(c) ==
  /\ At(c, "grant", "operate")
  /\ IF member[Asked(c).account] = "active" THEN Goes(c, "insert") ELSE Returns(c)
  /\ UNCHANGED <<rows, now, calls, ended, told>>

(* Mutant: the insert relies on the membership that was read.              *)
InsertGrantUnchecked(c) ==
  /\ At(c, "grant", "insert")
  /\ grants' = [grants EXCEPT ![Asked(c).account] = @ \cup {Asked(c).capability}]
  /\ Returns(c)
  /\ UNCHANGED <<account, session, assertion, bound, member, now, calls, ended, told>>

InsertGrant(c) ==
  /\ At(c, "grant", "insert")
  /\ LET a == Asked(c).account IN
     grants' = IF member[a] = "none" THEN grants
               ELSE [grants EXCEPT ![a] = @ \cup {Asked(c).capability}]
  /\ Returns(c)
  /\ UNCHANGED <<account, session, assertion, bound, member, now, calls, ended, told>>

-----------------------------------------------------------------------------
(* issueSession *)

ReadState(c) ==
  /\ At(c, "issue", "account")
  /\ IF account[Asked(c).account].status = "active" THEN Goes(c, "insert") ELSE Returns(c)
  /\ UNCHANGED <<rows, now, calls, ended, told>>

CreateSession(c) ==
  /\ At(c, "issue", "insert")
  /\ LET a == Asked(c).account IN
     IF Exists(a)
     THEN \E t \in Sessions :
            /\ session[t] = Unissued
            /\ session' = [session EXCEPT ![t] = [status |-> "live", account |-> a, at |-> now]]
     ELSE session' = session
  /\ Returns(c)
  /\ UNCHANGED <<account, assertion, bound, member, grants, now, calls, ended, told>>

(* External: the provider issues an assertion of a subject.                *)
IssueAssertion ==
  /\ provider
  /\ \E t \in Assertions, s \in Subjects :
       /\ assertion[t].status = "unissued"
       /\ assertion' = [assertion EXCEPT ![t] = [status |-> "live", subject |-> s, at |-> now]]
  /\ UNCHANGED <<account, session, bound, member, grants, step, now, calls, ended, told>>

-----------------------------------------------------------------------------
(* bindExternalSubject *)

(* getById, then the look-up of the subject.                               *)
GetAccount(c) ==
  /\ At(c, "bind", "account")
  /\ IF Exists(Asked(c).account) THEN Goes(c, "lookup") ELSE Returns(c)
  /\ UNCHANGED <<rows, now, calls, ended, told>>

Answer(c) == told' = told \cup {<<Asked(c).subject, Asked(c).account>>} /\ Returns(c)

Lookup(c) ==
  /\ At(c, "bind", "lookup")
  /\ LET a == bound[Asked(c).subject] IN
     IF a = NoAccount THEN Goes(c, "insert") /\ UNCHANGED told
     ELSE IF a = Asked(c).account THEN Answer(c) ELSE Returns(c) /\ UNCHANGED told
  /\ UNCHANGED <<rows, now, calls, ended>>

InsertMapping(c) ==
  /\ At(c, "bind", "insert")
  /\ LET q == Asked(c) IN
     CASE bound[q.subject] # NoAccount ->
            Goes(c, "recheck") /\ UNCHANGED <<bound, told>>
       [] bound[q.subject] = NoAccount /\ ~Exists(q.account) ->
            Returns(c) /\ UNCHANGED <<bound, told>>
       [] OTHER -> bound' = [bound EXCEPT ![q.subject] = q.account] /\ Answer(c)
  /\ UNCHANGED <<account, session, assertion, member, grants, now, calls, ended>>

RecheckMapping(c) ==
  /\ At(c, "bind", "recheck")
  /\ IF bound[Asked(c).subject] = Asked(c).account THEN Answer(c)
     ELSE Returns(c) /\ UNCHANGED told
  /\ UNCHANGED <<rows, now, calls, ended>>

-----------------------------------------------------------------------------
(* disable, enable and remove *)

(* disable reads the clock; its UPDATE runs later.  old: the tokens of that *)
(* moment.  Of two that overlap, the UPDATE that runs last decides, though  *)
(* it may be the one that read the clock first.                             *)
StartDisable(c, q) ==
  /\ c \in Administrators /\ step[c] = Idle /\ calls < MaxCalls
  /\ q.op = "disable"
  /\ calls' = calls + 1
  /\ step' = [step EXCEPT ![c] = [Idle EXCEPT !.call = q, !.at = "update", !.time = now,
                                            !.old = {t \in Tokens : Issued(t)}]]
  /\ UNCHANGED <<rows, now, ended, told>>

Disable(c) ==
  /\ At(c, "disable", "update")
  /\ LET a == Asked(c).account IN
     IF Exists(a)
     THEN /\ account' = [account EXCEPT ![a] = [status |-> "disabled", cut |-> step[c].time]]
          /\ ended' = {e \in ended : e[2] # a} \cup {<<t, a>> : t \in step[c].old}
     ELSE UNCHANGED <<account, ended>>
  /\ Returns(c)
  /\ UNCHANGED <<session, assertion, bound, member, grants, now, calls, told>>

Enable(a) ==
  /\ account[a].status = "disabled"
  /\ account' = [account EXCEPT ![a].status = "active"]
  /\ UNCHANGED <<session, assertion, bound, member, grants, step, now, calls, ended, told>>

(* The foreign keys take the account's sessions, mappings, membership and  *)
(* grants with it.                                                         *)
RemoveAccount(a) ==
  /\ Exists(a)
  /\ account' = [account EXCEPT ![a].status = "removed"]
  /\ session' = [t \in Sessions |-> IF session[t].account = a
                   THEN [session[t] EXCEPT !.status = "deleted"] ELSE session[t]]
  /\ bound' = [s \in Subjects |-> IF bound[s] = a THEN NoAccount ELSE bound[s]]
  /\ member' = [member EXCEPT ![a] = "none"]
  /\ grants' = [grants EXCEPT ![a] = {}]
  /\ UNCHANGED <<assertion, step, now, calls, ended, told>>

Tick ==
  /\ now < MaxNow
  /\ now' = now + 1
  /\ UNCHANGED <<rows, step, calls, ended, told>>

-----------------------------------------------------------------------------
(* What is true for the request of a client: that its token stands for the *)
(* account it was resolved to, that the account is active and has not been *)
(* disabled since, and that it holds the capability as an active member.   *)

Stands(t, a) ==
  IF t \in Sessions THEN session[t].account = a /\ Live(t)
  ELSE bound[assertion[t].subject] = a

Accepts(t, a) == account[a].status = "active" /\ <<t, a>> \notin ended

Facts(q) ==
  IF q = NoCall \/ ~ByToken(q) THEN {}
  ELSE {<<"stands", a>> : a \in {b \in Accounts : Stands(q.token, b)}}
       \cup {<<"active", a>> : a \in {b \in Accounts : Accepts(q.token, b)}}
       \cup {<<"allowed", a>> : a \in {b \in Accounts : q.op # "logout" /\ Allowed(b, q.needs)}}

Observe == witness' = [c \in Clients |->
             (IF step[c] = Idle THEN {} ELSE witness[c])
             \cup (IF step'[c] = Idle THEN {} ELSE Facts(step[c].call)' )]

Init ==
  /\ provider \in BOOLEAN
  /\ account = [a \in Accounts |-> [status |-> "active", cut |-> -1]]
  /\ session = [t \in Sessions |-> Unissued]
  /\ assertion = [t \in Assertions |-> [status |-> "unissued", subject |-> NoAccount, at |-> 0]]
  /\ bound = [s \in Subjects |-> NoAccount]
  /\ member = [a \in Accounts |-> "active"]
  /\ grants = [a \in Accounts |-> Capabilities]
  /\ step = [c \in Clients |-> Idle]
  /\ now = 0 /\ calls = 0
  /\ ended = {} /\ witness = [c \in Clients |-> {}] /\ told = {}

Request(c) ==
  \/ FindToken(c) \/ CheckState(c) \/ Revoke(c) \/ Authorize(c)
  \/ AddMember(c) \/ SuspendMember(c) \/ ActivateMember(c) \/ RemoveMember(c)
  \/ ReadMember(c) \/ InsertGrant(c)

Service(c) ==
  \/ ReadState(c) \/ CreateSession(c)
  \/ GetAccount(c) \/ Lookup(c) \/ InsertMapping(c) \/ RecheckMapping(c)
  \/ Disable(c)

Next ==
  /\ \/ \E c \in Clients, q \in Requests : Call(c, q) \/ StartDisable(c, q)
     \/ \E c \in Clients : Request(c) \/ Service(c)
     \/ \E a \in Accounts : Enable(a) \/ RemoveAccount(a)
     \/ IssueAssertion \/ Tick
  /\ Observe /\ UNCHANGED provider

Spec == Init /\ [][Next]_vars

-----------------------------------------------------------------------------
(* What authentication, membership and authorization promise together.      *)

(* The values of the variables.  A row that was issued keeps the time and   *)
(* the account or subject it was issued with.                               *)

AccountRow == [status : {"active", "disabled", "removed"}, cut : Int]
SessionRow == [status : {"live", "revoked", "deleted"}, account : Accounts, at : Nat]
AssertionRow == [status : {"live"}, subject : Subjects, at : Nat]
Stages == {"idle", "find", "state", "authorize", "operate", "insert", "account", "lookup",
           "recheck", "update"}
StepRow == [call : Requests \cup {NoCall}, at : Stages, as : Accounts \cup {NoAccount},
            time : Nat, old : SUBSET Tokens]

AccessTypeOK ==
  /\ account \in [Accounts -> AccountRow]
  /\ session \in [Sessions -> SessionRow \cup {Unissued}]
  /\ assertion \in [Assertions -> AssertionRow
                      \cup [status : {"unissued"}, subject : {NoAccount}, at : Nat]]
  /\ bound \in [Subjects -> Accounts \cup {NoAccount}]
  /\ member \in [Accounts -> {"none", "active", "suspended"}]
  /\ grants \in [Accounts -> SUBSET Capabilities]
  /\ step \in [Clients -> StepRow]
  /\ now \in Nat
  /\ ended \subseteq Tokens \X Accounts
  /\ told \subseteq Subjects \X Accounts

(* Where a call can be: who it runs as is known once its token was found,   *)
(* and only calls that carry a token run as somebody.                       *)
CallsAreWellFormed ==
  \A c \in Clients :
    /\ Asked(c) = NoCall => step[c] = Idle
    /\ Asked(c) # NoCall /\ ByToken(Asked(c)) => Issued(Asked(c).token)
    /\ step[c].at \in {"find", "state", "authorize"} => ByToken(Asked(c))
    /\ step[c].at \in {"state", "authorize"} <=>
         step[c].as # NoAccount /\ step[c].at \notin {"operate", "insert"}
    /\ step[c].as # NoAccount => ByToken(Asked(c))
    /\ step[c].at = "authorize" => Asked(c).op # "logout"

(* Tokens are issued in the past; those that were there when the last       *)
(* disabling of an account began are not younger than its cut, nor those a  *)
(* disabling under way has seen than the time it has read.                  *)
TokensAreOfThePast ==
  /\ \A t \in Tokens : Issued(t) => IssuedAt(t) <= now
  /\ \A c \in Clients : \A t \in step[c].old : Issued(t) /\ IssuedAt(t) <= step[c].time
  /\ \A e \in ended : Issued(e[1]) /\ (Exists(e[2]) => IssuedAt(e[1]) <= account[e[2]].cut)

(* A request that was authenticated as an account: while it ran, its token  *)
(* stood for that account (a session neither revoked nor expired, a subject *)
(* bound to it), and at one moment the account was active and the token was *)
(* none of those there when its last disabling began, enabled again or not: *)
(* service.ts compares createdAt and iat with sessionInvalidatedAt.         *)
AuthenticatedIsGood ==
  \A c \in Clients : step[c].as # NoAccount /\ step[c].at # "state" =>
    /\ <<"stands", step[c].as>> \in witness[c]
    /\ <<"active", step[c].as>> \in witness[c]

(* An operation that was authorized: at one moment while the request ran,   *)
(* the principal was an active member and held the capability, though       *)
(* either may be gone when the operation's own statement runs.              *)
AuthorizedIsGranted ==
  \A c \in Clients : step[c].at \in {"operate", "insert"} /\ step[c].as # NoAccount
                     /\ Asked(c).op # "logout" =>
    <<"allowed", step[c].as>> \in witness[c]

(* Capabilities are held by members only, whatever was removed between the *)
(* two statements of grant: who is added again starts with none.           *)
GrantsHaveMember == \A a \in Accounts : grants[a] # {} => member[a] # "none"

(* Whoever was told that a subject is bound to an account keeps it as long *)
(* as the account exists, however many calls bind the same subject.        *)
BindingsHold == \A b \in told : Exists(b[2]) => bound[b[1]] = b[2]

(* What requests leave behind, as one invariant: no capability without a    *)
(* member, no binding that was reported and is gone, no token that outlives *)
(* a disabling; with it, where calls can be and what values they leave.     *)
AccessInv ==
  /\ AccessTypeOK /\ CallsAreWellFormed /\ TokensAreOfThePast
  /\ GrantsHaveMember /\ BindingsHold

=============================================================================
