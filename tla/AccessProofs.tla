---------------------------- MODULE AccessProofs ----------------------------
(***************************************************************************)
(* Proofs about Access for any accounts, tokens, requests and clients, any *)
(* number of them disabling accounts at once, and any length of a second.  *)
(***************************************************************************)
EXTENDS Access, TLAPS

\* An assertion's time in whole seconds is not later than the assertion.
LEMMA WholeSeconds ==
    ASSUME NEW n \in Nat
    PROVE  (n \div Second) * Second \in Nat /\ (n \div Second) * Second <= n
BY ConstantsAssumption

\* What Exists says of an account that may be none.
LEMMA ExistsIsAccount ==
    ASSUME AccessTypeOK, NEW a \in Accounts \cup {NoAccount}, Exists(a)
    PROVE  a \in Accounts
BY DEF Exists

\* Observe: what a running call has seen it remembers, and it sees what is
\* true in every state it is left in.
LEMMA Remembers ==
    ASSUME Observe, NEW c \in Clients
    PROVE  /\ step[c] # Idle => witness[c] \subseteq witness'[c]
           /\ step'[c] # Idle => Facts(step[c].call)' \subseteq witness'[c]
BY DEF Observe

-----------------------------------------------------------------------------
(* Values *)

\* The account a token is resolved to, once it is found to exist, is one.
LEMMA FoundAccount ==
    ASSUME AccessInv, NEW c \in Clients, step[c].at = "find",
           IF provider THEN Asked(c).token \in Assertions ELSE Asked(c).token \in Sessions
    PROVE  LET t == Asked(c).token
               a == IF t \in Sessions THEN session[t].account ELSE bound[assertion[t].subject]
           IN  (IF provider THEN Exists(a) ELSE Live(t)) => a \in Accounts
<1> DEFINE t == Asked(c).token
<1>1. Issued(t) /\ t \in Tokens
  <2>1. Asked(c) # NoCall
    BY DEF AccessInv, CallsAreWellFormed, Idle
  <2> QED
    BY <2>1 DEF AccessInv, CallsAreWellFormed, AccessTypeOK, Tokens
<1>2. CASE t \in Sessions
  BY <1>1, <1>2, ConstantsAssumption DEF AccessInv, AccessTypeOK, Live, Issued, SessionRow
<1>3. CASE t \notin Sessions
  <2>1. assertion[t].subject \in Subjects
    BY <1>1, <1>3 DEF AccessInv, AccessTypeOK, Issued, Tokens, AssertionRow
  <2> QED
    BY <1>3, <2>1, ExistsIsAccount DEF AccessInv, AccessTypeOK
<1> QED
  BY <1>2, <1>3

LEMMA GoesType ==
    ASSUME AccessTypeOK, NEW c \in Clients, NEW at \in Stages, Goes(c, at)
    PROVE  step' \in [Clients -> StepRow]
BY DEF AccessTypeOK, Goes, StepRow

LEMMA ReturnsType ==
    ASSUME AccessTypeOK, NEW c \in Clients, Returns(c)
    PROVE  step' \in [Clients -> StepRow]
BY DEF AccessTypeOK, Returns, StepRow, Idle, Stages

\* Every value the rows and the calls under way ever take has its type.
LEMMA TypeStep == AccessInv /\ [Next]_vars => AccessTypeOK'
<1> SUFFICES ASSUME AccessInv, [Next]_vars PROVE AccessTypeOK'
  OBVIOUS
<1> USE DEF AccessInv, AccessTypeOK
<1>1. ASSUME NEW c \in Clients, NEW q \in Requests, Call(c, q) PROVE AccessTypeOK'
  BY <1>1 DEF Call, rows, Idle, StepRow, Stages
<1>2. ASSUME NEW c \in Clients, NEW q \in Requests, StartDisable(c, q) PROVE AccessTypeOK'
  BY <1>2 DEF StartDisable, rows, Idle, StepRow, Stages
<1>3. ASSUME NEW c \in Clients, FindToken(c) PROVE AccessTypeOK'
  BY <1>3, ReturnsType, FoundAccount DEF FindToken, rows, StepRow, Stages
<1>4. ASSUME NEW c \in Clients, CheckState(c) PROVE AccessTypeOK'
  BY <1>4, GoesType, ReturnsType DEF CheckState, NextCheck, rows, Stages
<1>5. ASSUME NEW c \in Clients, Revoke(c) PROVE AccessTypeOK'
  BY <1>5, ReturnsType DEF Revoke, SessionRow, Unissued
<1>6. ASSUME NEW c \in Clients, Authorize(c) PROVE AccessTypeOK'
  BY <1>6, GoesType, ReturnsType DEF Authorize, rows, Stages
<1>7. ASSUME NEW c \in Clients, AddMember(c) PROVE AccessTypeOK'
  BY <1>7, ReturnsType DEF AddMember, Adds
<1>8. ASSUME NEW c \in Clients, SuspendMember(c) \/ ActivateMember(c) PROVE AccessTypeOK'
  BY <1>8, ReturnsType DEF SuspendMember, ActivateMember, UpdateStatus
<1>9. ASSUME NEW c \in Clients, RemoveMember(c) PROVE AccessTypeOK'
  BY <1>9, ReturnsType DEF RemoveMember
<1>10. ASSUME NEW c \in Clients, ReadMember(c) PROVE AccessTypeOK'
  BY <1>10, GoesType, ReturnsType DEF ReadMember, rows, Stages
<1>11. ASSUME NEW c \in Clients, InsertGrant(c) PROVE AccessTypeOK'
  <2>1. Asked(c) \in Requests /\ Asked(c).op = "grant"
    BY <1>11 DEF InsertGrant, At, Asked, StepRow
  <2>2. Asked(c).capability \in Capabilities
    BY <2>1, ConstantsAssumption
  <2> QED
    BY <1>11, <2>2, ReturnsType DEF InsertGrant
<1>12. ASSUME NEW c \in Clients, ReadState(c) PROVE AccessTypeOK'
  BY <1>12, GoesType, ReturnsType DEF ReadState, rows, Stages
<1>13. ASSUME NEW c \in Clients, CreateSession(c) PROVE AccessTypeOK'
  <2>1. Asked(c).account \in Accounts
    BY <1>13, ConstantsAssumption DEF CreateSession, At, Asked, StepRow
  <2> QED
    BY <1>13, <2>1, ReturnsType DEF CreateSession, SessionRow
<1>14. ASSUME NEW c \in Clients, GetAccount(c) PROVE AccessTypeOK'
  BY <1>14, GoesType, ReturnsType DEF GetAccount, rows, Stages
<1>15. ASSUME NEW c \in Clients, At(c, "bind", step[c].at)
       PROVE  Asked(c).account \in Accounts /\ Asked(c).subject \in Subjects
  BY <1>15, ConstantsAssumption DEF At, Asked, StepRow
<1>16. ASSUME NEW c \in Clients, Lookup(c) PROVE AccessTypeOK'
  BY <1>15, <1>16, GoesType, ReturnsType DEF Lookup, At, Answer, rows, Stages
<1>17. ASSUME NEW c \in Clients, InsertMapping(c) PROVE AccessTypeOK'
  BY <1>15, <1>17, GoesType, ReturnsType DEF InsertMapping, At, Answer, Stages
<1>18. ASSUME NEW c \in Clients, RecheckMapping(c) PROVE AccessTypeOK'
  BY <1>15, <1>18, GoesType, ReturnsType DEF RecheckMapping, At, Answer, rows, Stages
<1>19. ASSUME NEW c \in Clients, Disable(c) PROVE AccessTypeOK'
  <2>1. Asked(c).account \in Accounts
    BY <1>19, ConstantsAssumption DEF Disable, At, Asked, StepRow
  <2>2. account' \in [Accounts -> AccountRow]
    BY <1>19, <2>1 DEF Disable, AccountRow, StepRow
  <2>3. ended' \subseteq Tokens \X Accounts
    BY <1>19, <2>1 DEF Disable, StepRow
  <2> QED
    BY <1>19, <2>2, <2>3, ReturnsType DEF Disable
<1>20. ASSUME NEW a \in Accounts, Enable(a) PROVE AccessTypeOK'
  BY <1>20 DEF Enable, AccountRow
<1>21. ASSUME NEW a \in Accounts, RemoveAccount(a) PROVE AccessTypeOK'
  <2>1. session' \in [Sessions -> SessionRow \cup {Unissued}]
    <3>1. ASSUME NEW t \in Sessions, session[t].account = a
          PROVE  [session[t] EXCEPT !.status = "deleted"] \in SessionRow
      BY <3>1, ConstantsAssumption DEF SessionRow, Unissued
    <3> QED
      BY <1>21, <3>1 DEF RemoveAccount
  <2>2. bound' \in [Subjects -> Accounts \cup {NoAccount}]
    BY <1>21 DEF RemoveAccount
  <2>3. account' \in [Accounts -> AccountRow]
    BY <1>21 DEF RemoveAccount, AccountRow
  <2> QED
    BY <1>21, <2>1, <2>2, <2>3 DEF RemoveAccount
<1>22. CASE IssueAssertion
  <2>1. PICK t \in Assertions, s \in Subjects :
            assertion' = [assertion EXCEPT ![t] = [status |-> "live", subject |-> s, at |-> now]]
    BY <1>22 DEF IssueAssertion
  <2> QED
    BY <1>22, <2>1 DEF IssueAssertion, AssertionRow
<1>23. CASE Tick
  BY <1>23 DEF Tick, rows
<1>24. CASE UNCHANGED vars
  BY <1>24 DEF vars, rows
<1> QED
  BY <1>1, <1>2, <1>3, <1>4, <1>5, <1>6, <1>7, <1>8, <1>9, <1>10, <1>11, <1>12, <1>13, <1>14,
     <1>16, <1>17, <1>18, <1>19, <1>20, <1>21, <1>22, <1>23, <1>24 DEF Next, Request, Service

-----------------------------------------------------------------------------
(* Tokens and the calls under way *)

\* A token that was issued stays so, with the time it was issued at.
LEMMA TokensStay ==
    ASSUME AccessInv, [Next]_vars, NEW t \in Tokens, Issued(t)
    PROVE  Issued(t)' /\ IssuedAt(t)' = IssuedAt(t)
<1> USE DEF AccessInv, AccessTypeOK
<1>1. CASE UNCHANGED <<session, assertion>>
  BY <1>1 DEF Issued, IssuedAt
<1>2. ASSUME NEW c \in Clients, Revoke(c) PROVE Issued(t)' /\ IssuedAt(t)' = IssuedAt(t)
  BY <1>2 DEF Revoke, Issued, IssuedAt, Unissued, SessionRow
<1>3. ASSUME NEW c \in Clients, CreateSession(c) PROVE Issued(t)' /\ IssuedAt(t)' = IssuedAt(t)
  BY <1>3 DEF CreateSession, Issued, IssuedAt, Unissued, SessionRow
<1>4. ASSUME NEW a \in Accounts, RemoveAccount(a) PROVE Issued(t)' /\ IssuedAt(t)' = IssuedAt(t)
  BY <1>4 DEF RemoveAccount, Issued, IssuedAt, Unissued, SessionRow
<1>5. CASE IssueAssertion
  <2>1. PICK r \in Assertions, s \in Subjects :
            /\ assertion[r].status = "unissued"
            /\ assertion' = [assertion EXCEPT ![r] = [status |-> "live", subject |-> s, at |-> now]]
    BY <1>5 DEF IssueAssertion
  <2> QED
    BY <1>5, <2>1, ConstantsAssumption DEF IssueAssertion, Issued, IssuedAt, Tokens
<1> QED
  BY <1>1, <1>2, <1>3, <1>4, <1>5
  DEF Next, vars, rows, Request, Service, Call, StartDisable, FindToken, CheckState, Authorize,
      AddMember, SuspendMember, ActivateMember, UpdateStatus, RemoveMember, ReadMember,
      InsertGrant, ReadState, GetAccount, Lookup, InsertMapping, RecheckMapping, Disable,
      Enable, Tick

\* A step of one client leaves the calls of the others where they are.
LEMMA OthersWait ==
    ASSUME AccessTypeOK, NEW c \in Clients, NEW row,
           step' = [step EXCEPT ![c] = row], NEW d \in Clients
    PROVE  step'[d] = IF d = c THEN row ELSE step[d]
BY DEF AccessTypeOK

\* Where the call of one client can be (CallsAreWellFormed, client by client).
WellFormed(c) ==
  /\ Asked(c) = NoCall => step[c] = Idle
  /\ Asked(c) # NoCall /\ ByToken(Asked(c)) => Issued(Asked(c).token)
  /\ step[c].at \in {"find", "state", "authorize"} => ByToken(Asked(c))
  /\ step[c].at \in {"state", "authorize"} <=>
       step[c].as # NoAccount /\ step[c].at \notin {"operate", "insert"}
  /\ step[c].as # NoAccount => ByToken(Asked(c))
  /\ step[c].at = "authorize" => Asked(c).op # "logout"

\* A call that is left where it was, or is over, or has just begun, is well formed.
LEMMA QuietCall ==
    ASSUME AccessInv, [Next]_vars, NEW c \in Clients, step'[c] = step[c] \/ step'[c] = Idle
    PROVE  WellFormed(c)'
<1>1. CASE step'[c] = step[c]
  <2>1. Asked(c) # NoCall /\ ByToken(Asked(c)) => Asked(c).token \in Tokens
    BY ConstantsAssumption DEF AccessInv, AccessTypeOK, StepRow, Asked, ByToken, Tokens
  <2> QED
    BY <1>1, <2>1, TokensStay DEF AccessInv, CallsAreWellFormed, WellFormed, Asked, ByToken, Idle
<1>2. CASE step'[c] = Idle
  BY <1>2, ConstantsAssumption DEF WellFormed, Asked, Idle
<1> QED
  BY <1>1, <1>2

\* Every call is well formed after every step.
LEMMA CallsStep == AccessInv /\ [Next]_vars => CallsAreWellFormed'
<1> SUFFICES ASSUME AccessInv, [Next]_vars, NEW d \in Clients PROVE WellFormed(d)'
  BY DEF CallsAreWellFormed, WellFormed
<1>1. CASE step'[d] = step[d] \/ step'[d] = Idle
  BY <1>1, QuietCall
<1>2. SUFFICES ASSUME step'[d] # step[d], step'[d] # Idle PROVE WellFormed(d)'
  BY <1>1
<1> USE DEF AccessInv, AccessTypeOK
<1>3. \A c \in Clients : Returns(c) => step' = [step EXCEPT ![c] = Idle]
  BY DEF Returns
<1>4. ASSUME NEW c \in Clients, NEW q \in Requests, Call(c, q) PROVE WellFormed(d)'
  BY <1>2, <1>4, ConstantsAssumption
  DEF Call, WellFormed, Asked, Idle, StepRow, ByToken, Issued, rows
<1>5. ASSUME NEW c \in Clients, NEW q \in Requests, StartDisable(c, q) PROVE WellFormed(d)'
  BY <1>2, <1>5, ConstantsAssumption
  DEF StartDisable, WellFormed, Asked, Idle, StepRow, ByToken, Issued, rows
<1>6. ASSUME NEW c \in Clients, FindToken(c) PROVE WellFormed(d)'
  <2>1. d = c /\ \E a \in Accounts : step' = [step EXCEPT ![c].at = "state", ![c].as = a]
    BY <1>2, <1>3, <1>6, FoundAccount DEF FindToken
  <2>2. PICK a \in Accounts : step' = [step EXCEPT ![c].at = "state", ![c].as = a]
    BY <2>1
  <2>3. /\ step'[d].at = "state" /\ step'[d].as = a
        /\ step'[d].call = step[d].call
    BY <2>1, <2>2 DEF StepRow
  <2> QED
    BY <1>6, <2>1, <2>3, ConstantsAssumption
    DEF FindToken, CallsAreWellFormed, WellFormed, Asked, Issued, Idle, rows
<1>7. ASSUME NEW c \in Clients, NEW at \in Stages, Goes(c, at),
             step[c].at # "idle", at = "authorize" => Asked(c).op # "logout",
             at \in {"authorize", "operate", "insert", "lookup", "recheck"},
             at = "authorize" => step[c].at = "state",
             at = "lookup" \/ at = "recheck" => step[c].as = NoAccount,
             UNCHANGED <<session, assertion>>
      PROVE  WellFormed(d)'
  <2>1. d = c /\ step'[d].at = at /\ step'[d].as = step[d].as /\ step'[d].call = step[d].call
    BY <1>2, <1>7 DEF Goes, StepRow
  <2> QED
    BY <1>7, <2>1, ConstantsAssumption
    DEF CallsAreWellFormed, WellFormed, Asked, Issued, ByToken, Idle
<1>8. ASSUME NEW c \in Clients, CheckState(c) PROVE WellFormed(d)'
  BY <1>2, <1>3, <1>7, <1>8 DEF CheckState, NextCheck, Stages, rows
<1>9. ASSUME NEW c \in Clients, Authorize(c) PROVE WellFormed(d)'
  BY <1>2, <1>3, <1>7, <1>9 DEF Authorize, Stages, rows
<1>10. ASSUME NEW c \in Clients, ReadMember(c) PROVE WellFormed(d)'
  BY <1>2, <1>3, <1>7, <1>10 DEF ReadMember, At, Stages, rows
<1>11. ASSUME NEW c \in Clients, ReadState(c) PROVE WellFormed(d)'
  BY <1>2, <1>3, <1>7, <1>11 DEF ReadState, At, Stages, rows
<1>12. ASSUME NEW c \in Clients, At(c, "bind", step[c].at) PROVE step[c].as = NoAccount
  BY <1>12, ConstantsAssumption DEF At, Asked, CallsAreWellFormed, ByToken, StepRow
<1>13. ASSUME NEW c \in Clients, GetAccount(c) PROVE WellFormed(d)'
  BY <1>2, <1>3, <1>7, <1>12, <1>13 DEF GetAccount, At, Stages, rows
<1>14. ASSUME NEW c \in Clients, Lookup(c) PROVE WellFormed(d)'
  BY <1>2, <1>3, <1>7, <1>12, <1>14 DEF Lookup, Answer, At, Stages, rows
<1>15. ASSUME NEW c \in Clients, InsertMapping(c) PROVE WellFormed(d)'
  BY <1>2, <1>3, <1>7, <1>12, <1>15 DEF InsertMapping, Answer, At, Stages
<1>16. ASSUME NEW c \in Clients,
              Revoke(c) \/ AddMember(c) \/ SuspendMember(c) \/ ActivateMember(c) \/ RemoveMember(c)
                \/ InsertGrant(c) \/ CreateSession(c) \/ RecheckMapping(c) \/ Disable(c)
       PROVE  FALSE
  <2>1. step' = [step EXCEPT ![c] = Idle]
    BY <1>3, <1>16 DEF Revoke, AddMember, SuspendMember, ActivateMember, UpdateStatus, RemoveMember,
       InsertGrant, CreateSession, RecheckMapping, Answer, Disable
  <2> QED
    BY <1>2, <2>1
<1>17. ASSUME UNCHANGED step PROVE FALSE
  BY <1>2, <1>17
<1>18. \/ \E a \in Accounts : Enable(a) \/ RemoveAccount(a)
       \/ IssueAssertion \/ Tick \/ UNCHANGED vars
       => UNCHANGED step
  BY DEF Enable, RemoveAccount, IssueAssertion, Tick, vars
<1> QED
  BY <1>4, <1>5, <1>6, <1>8, <1>9, <1>10, <1>11, <1>13, <1>14, <1>15, <1>16, <1>17, <1>18
  DEF Next, Request, Service

-----------------------------------------------------------------------------
(* Tokens that a disabling has ended *)

\* Tokens are of the past, and so are those a disabling began with.
LEMMA PastStep == AccessInv /\ [Next]_vars => TokensAreOfThePast'
<1> SUFFICES ASSUME AccessInv, [Next]_vars PROVE TokensAreOfThePast'
  OBVIOUS
<1> USE DEF AccessInv, AccessTypeOK
<1>0. AccessTypeOK'
  BY TypeStep
<1>1. now' \in Nat /\ now <= now'
  <2>1. now' = now \/ now' = now + 1
    BY DEF Next, vars, Request, Service, Call, StartDisable, FindToken, CheckState, Revoke,
      Authorize, AddMember, SuspendMember, ActivateMember, UpdateStatus, RemoveMember, ReadMember,
      InsertGrant, ReadState, CreateSession, GetAccount, Lookup, InsertMapping, RecheckMapping,
      Disable, Enable, RemoveAccount, IssueAssertion, Tick
  <2> QED
    BY <2>1
<1>2. \A t \in Tokens : Issued(t) => Issued(t)' /\ IssuedAt(t)' = IssuedAt(t)
  BY TokensStay
<1>3. \A t \in Tokens : Issued(t) => IssuedAt(t) \in Nat
  BY WholeSeconds DEF Issued, IssuedAt, Tokens, SessionRow, AssertionRow
<1>4. ASSUME NEW t \in Tokens, Issued(t)' PROVE IssuedAt(t)' <= now'
  <2>1. CASE Issued(t)
    BY <1>1, <1>2, <1>3, <2>1 DEF TokensAreOfThePast
  <2>2. CASE ~Issued(t)
    <3>1. (t \in Sessions /\ session'[t].at = now) \/ (t \notin Sessions /\ assertion'[t].at = now)
      <4>1. ~UNCHANGED <<session, assertion>>
        BY <1>4, <2>2 DEF Issued
      <4>2. ASSUME NEW c \in Clients, Revoke(c) PROVE FALSE
        BY <1>4, <2>2, <4>2 DEF Revoke, Issued, Unissued, SessionRow
      <4>3. ASSUME NEW a \in Accounts, RemoveAccount(a) PROVE FALSE
        BY <1>4, <2>2, <4>3, ConstantsAssumption DEF RemoveAccount, Issued, Unissued
      <4>4. ASSUME NEW c \in Clients, CreateSession(c)
            PROVE  t \in Sessions /\ session'[t].at = now
        BY <1>4, <2>2, <4>4 DEF CreateSession, Issued, Unissued
      <4>5. ASSUME IssueAssertion
            PROVE  t \notin Sessions /\ assertion'[t].at = now
        <5>1. PICK r \in Assertions, s \in Subjects :
                assertion' = [assertion EXCEPT ![r] = [status |-> "live", subject |-> s, at |-> now]]
          BY <4>5 DEF IssueAssertion
        <5> QED
          BY <1>4, <2>2, <4>5, <5>1, ConstantsAssumption DEF IssueAssertion, Issued, Tokens
      <4> QED
        BY <4>1, <4>2, <4>3, <4>4, <4>5
        DEF Next, vars, rows, Request, Service, Call, StartDisable, FindToken, CheckState, Authorize,
          AddMember, SuspendMember, ActivateMember, UpdateStatus, RemoveMember, ReadMember,
          InsertGrant, ReadState, GetAccount, Lookup, InsertMapping, RecheckMapping, Disable,
          Enable, Tick
    <3> QED
      BY <1>1, <3>1, WholeSeconds DEF IssuedAt
  <2> QED
    BY <2>1, <2>2
<1>5. ASSUME NEW d \in Clients, NEW t \in step'[d].old
      PROVE  Issued(t)' /\ IssuedAt(t)' <= step'[d].time
  <2>1. \/ step'[d].old = step[d].old /\ step'[d].time = step[d].time
        \/ step'[d].old = {}
        \/ step'[d].old = {r \in Tokens : Issued(r)} /\ step'[d].time = now
    <3>1. step'[d] = step[d] => step'[d].old = step[d].old /\ step'[d].time = step[d].time
      OBVIOUS
    <3>9. step'[d] = Idle => step'[d].old = {}
      BY DEF Idle
    <3>2. ASSUME NEW c \in Clients, NEW q \in Requests, Call(c, q), step'[d] # step[d]
          PROVE  step'[d].old = {}
      BY <3>2 DEF Call, Idle
    <3>3. ASSUME NEW c \in Clients, NEW q \in Requests, StartDisable(c, q), step'[d] # step[d]
          PROVE  step'[d].old = {r \in Tokens : Issued(r)} /\ step'[d].time = now
      BY <3>3 DEF StartDisable, Idle
    <3>4. ASSUME NEW c \in Clients, \E at \in Stages : Goes(c, at), step'[d] # step[d]
          PROVE  step'[d].old = step[d].old /\ step'[d].time = step[d].time
      BY <3>4 DEF Goes, StepRow
    <3>5. ASSUME NEW c \in Clients, FindToken(c), step'[d] # step[d], step'[d] # Idle
          PROVE  step'[d].old = step[d].old /\ step'[d].time = step[d].time
      BY <3>5 DEF FindToken, Returns, StepRow
    <3>6. ASSUME NEW c \in Clients, Returns(c) PROVE step'[d] = step[d] \/ step'[d] = Idle
      BY <3>6 DEF Returns
    <3>7. ASSUME NEW c \in Clients, Request(c) \/ Service(c)
          PROVE  FindToken(c) \/ Returns(c) \/ \E at \in Stages : Goes(c, at)
      BY <3>7 DEF Request, Service, CheckState, NextCheck, Revoke, Authorize, AddMember,
        SuspendMember, ActivateMember, UpdateStatus, RemoveMember, ReadMember, InsertGrant,
        ReadState, CreateSession, GetAccount, Lookup, Answer, InsertMapping, RecheckMapping,
        Disable, Stages
    <3>8. \/ UNCHANGED step
          \/ \E c \in Clients, q \in Requests : Call(c, q) \/ StartDisable(c, q)
          \/ \E c \in Clients : Request(c) \/ Service(c)
      BY DEF Next, vars, Enable, RemoveAccount, IssueAssertion, Tick
    <3>10. CASE step'[d] = step[d] \/ step'[d] = Idle
      BY <3>1, <3>9, <3>10
    <3>11. CASE step'[d] # step[d] /\ step'[d] # Idle
      BY <3>2, <3>3, <3>4, <3>5, <3>6, <3>7, <3>8, <3>11
    <3> QED
      BY <3>10, <3>11
  <2> QED
    BY <1>2, <2>1 DEF TokensAreOfThePast, StepRow
<1>6. ASSUME NEW e \in ended'
      PROVE  Issued(e[1])' /\ (Exists(e[2])' => IssuedAt(e[1])' <= account'[e[2]].cut)
  <2>1. CASE UNCHANGED <<account, ended>>
    BY <1>2, <2>1 DEF TokensAreOfThePast, Exists
  <2>2. ASSUME NEW c \in Clients, Disable(c)
        PROVE  Issued(e[1])' /\ (Exists(e[2])' => IssuedAt(e[1])' <= account'[e[2]].cut)
    <3> DEFINE a == Asked(c).account
    <3>1. SUFFICES ASSUME Exists(a) PROVE Issued(e[1])' /\ (Exists(e[2])' => IssuedAt(e[1])' <= account'[e[2]].cut)
      BY <2>1, <2>2 DEF Disable
    <3>2. a \in Accounts
      BY <2>2, ConstantsAssumption DEF Disable, At, Asked, StepRow
    <3>3. /\ account' = [account EXCEPT ![a] = [status |-> "disabled", cut |-> step[c].time]]
          /\ ended' = {f \in ended : f[2] # a} \cup {<<t, a>> : t \in step[c].old}
      BY <2>2, <3>1 DEF Disable
    <3>4. CASE e \in ended /\ e[2] # a
      <4>1. Exists(e[2])' => Exists(e[2]) /\ account'[e[2]] = account[e[2]]
        BY <3>3, <3>4 DEF Exists
      <4> QED
        BY <1>2, <3>4, <4>1 DEF TokensAreOfThePast
    <3>5. CASE \E t \in step[c].old : e = <<t, a>>
      BY <1>2, <3>2, <3>3, <3>5 DEF TokensAreOfThePast, StepRow
    <3> QED
      BY <3>3, <3>4, <3>5
  <2>3. ASSUME NEW a \in Accounts, Enable(a)
        PROVE  Issued(e[1])' /\ (Exists(e[2])' => IssuedAt(e[1])' <= account'[e[2]].cut)
    <3>1. /\ account' = [account EXCEPT ![a].status = "active"]
          /\ account[a].status = "disabled" /\ ended' = ended
      BY <2>3 DEF Enable
    <3>2. Exists(e[2])' => Exists(e[2]) /\ account'[e[2]].cut = account[e[2]].cut
      BY <3>1 DEF Exists, AccountRow
    <3> QED
      BY <1>2, <3>1, <3>2 DEF TokensAreOfThePast
  <2>4. ASSUME NEW a \in Accounts, RemoveAccount(a)
        PROVE  Issued(e[1])' /\ (Exists(e[2])' => IssuedAt(e[1])' <= account'[e[2]].cut)
    <3>1. account' = [account EXCEPT ![a].status = "removed"] /\ ended' = ended
      BY <2>4 DEF RemoveAccount
    <3>2. Exists(e[2])' => Exists(e[2]) /\ account'[e[2]].cut = account[e[2]].cut
      BY <3>1 DEF Exists, AccountRow
    <3> QED
      BY <1>2, <3>1, <3>2 DEF TokensAreOfThePast
  <2> QED
    BY <2>1, <2>2, <2>3, <2>4
    DEF Next, vars, rows, Request, Service, Call, StartDisable, FindToken, CheckState, Revoke,
      Authorize, AddMember, SuspendMember, ActivateMember, UpdateStatus, RemoveMember, ReadMember,
      InsertGrant, ReadState, CreateSession, GetAccount, Lookup, InsertMapping, RecheckMapping,
      IssueAssertion, Tick
<1> QED
  BY <1>4, <1>5, <1>6 DEF TokensAreOfThePast

-----------------------------------------------------------------------------
(* Grants and bindings *)

\* Between the two statements of grant a membership may go and come again: the
\* insertion finds the membership it needs, or inserts nothing.
LEMMA GrantsStep == AccessInv /\ [Next]_vars => GrantsHaveMember'
<1> SUFFICES ASSUME AccessInv, [Next]_vars, NEW a \in Accounts, grants'[a] # {}
             PROVE  member'[a] # "none"
  BY DEF GrantsHaveMember
<1> USE DEF AccessInv, AccessTypeOK
<1>1. CASE UNCHANGED <<member, grants>>
  BY <1>1 DEF GrantsHaveMember
<1>2. ASSUME NEW c \in Clients, AddMember(c) PROVE member'[a] # "none"
  BY <1>2 DEF AddMember, Adds, GrantsHaveMember
<1>3. ASSUME NEW c \in Clients, SuspendMember(c) \/ ActivateMember(c) PROVE member'[a] # "none"
  BY <1>3 DEF SuspendMember, ActivateMember, UpdateStatus, GrantsHaveMember
<1>4. ASSUME NEW c \in Clients, RemoveMember(c) PROVE member'[a] # "none"
  BY <1>4 DEF RemoveMember, GrantsHaveMember
<1>5. ASSUME NEW c \in Clients, InsertGrant(c) PROVE member'[a] # "none"
  BY <1>5 DEF InsertGrant, GrantsHaveMember
<1>6. ASSUME NEW b \in Accounts, RemoveAccount(b) PROVE member'[a] # "none"
  BY <1>6 DEF RemoveAccount, GrantsHaveMember
<1> QED
  BY <1>1, <1>2, <1>3, <1>4, <1>5, <1>6
  DEF Next, vars, rows, Request, Service, Call, StartDisable, FindToken, CheckState, Revoke,
    Authorize, ReadMember, ReadState, CreateSession, GetAccount, Lookup, InsertMapping,
    RecheckMapping, Disable, Enable, IssueAssertion, Tick

\* A binding that is told is in the row, and only removing the account takes
\* it away; an account that was removed never exists again.
LEMMA BindingsStep == AccessInv /\ [Next]_vars => BindingsHold'
<1> SUFFICES ASSUME AccessInv, [Next]_vars, NEW b \in told', Exists(b[2])'
             PROVE  bound'[b[1]] = b[2]
  BY DEF BindingsHold
<1> USE DEF AccessInv, AccessTypeOK
<1>1. ASSUME NEW c \in Clients, At(c, "bind", step[c].at)
      PROVE  Asked(c).account \in Accounts /\ Asked(c).subject \in Subjects
  BY <1>1, ConstantsAssumption DEF At, Asked, StepRow
<1>2. CASE UNCHANGED <<account, bound, told>>
  BY <1>2 DEF BindingsHold, Exists
<1>3. ASSUME NEW c \in Clients, Lookup(c) PROVE bound'[b[1]] = b[2]
  BY <1>1, <1>2, <1>3 DEF Lookup, At, Answer, rows, BindingsHold, Exists
<1>4. ASSUME NEW c \in Clients, InsertMapping(c) PROVE bound'[b[1]] = b[2]
  <2>1. Asked(c).account \in Accounts /\ Asked(c).subject \in Subjects
    BY <1>1, <1>4 DEF InsertMapping, At
  <2>2. SUFFICES ASSUME /\ bound[Asked(c).subject] = NoAccount
                        /\ bound' = [bound EXCEPT ![Asked(c).subject] = Asked(c).account]
                        /\ told' = told \cup {<<Asked(c).subject, Asked(c).account>>}
                 PROVE  bound'[b[1]] = b[2]
    BY <1>2, <1>4 DEF InsertMapping, Answer
  <2>3. CASE b \in told
    <3>1. b[1] \in Subjects /\ b[2] \in Accounts /\ bound[b[1]] = b[2]
      BY <1>4, <2>3 DEF InsertMapping, BindingsHold, Exists
    <3> QED
      BY <2>2, <3>1, ConstantsAssumption
  <2>4. CASE b = <<Asked(c).subject, Asked(c).account>>
    BY <2>1, <2>2, <2>4
  <2> QED
    BY <2>2, <2>3, <2>4
<1>5. ASSUME NEW c \in Clients, RecheckMapping(c) PROVE bound'[b[1]] = b[2]
  BY <1>1, <1>5 DEF RecheckMapping, At, Answer, rows, BindingsHold, Exists
<1>6. ASSUME NEW c \in Clients, Disable(c) PROVE bound'[b[1]] = b[2]
  BY <1>6 DEF Disable, BindingsHold, Exists
<1>7. ASSUME NEW a \in Accounts, Enable(a) PROVE bound'[b[1]] = b[2]
  BY <1>7 DEF Enable, BindingsHold, Exists
<1>8. ASSUME NEW a \in Accounts, RemoveAccount(a) PROVE bound'[b[1]] = b[2]
  BY <1>8 DEF RemoveAccount, BindingsHold, Exists
<1> QED
  BY <1>2, <1>3, <1>4, <1>5, <1>6, <1>7, <1>8
  DEF Next, vars, rows, Request, Service, Call, StartDisable, FindToken, CheckState, Revoke,
    Authorize, AddMember, SuspendMember, ActivateMember, UpdateStatus, RemoveMember, ReadMember,
    InsertGrant, ReadState, CreateSession, GetAccount, IssueAssertion, Tick

\* In every reachable state values have their types, calls are where they can
\* be, tokens that a disabling has ended are older than the account's cut, no
\* capability is left without a member, and no reported binding is gone
\* (grant, bindExternalSubject, disable: modules/authorization, auth, identity).
THEOREM AccessInvariant == Spec => []AccessInv
<1>1. Init => AccessInv
  <2> SUFFICES ASSUME Init PROVE AccessInv
    OBVIOUS
  <2>1. AccessTypeOK
    BY DEF Init, AccessTypeOK, AccountRow, SessionRow, Unissued, StepRow, Idle, Stages
  <2>2. CallsAreWellFormed
    BY ConstantsAssumption DEF Init, CallsAreWellFormed, Asked, Idle
  <2>3. TokensAreOfThePast
    BY ConstantsAssumption DEF Init, TokensAreOfThePast, Issued, Unissued, Tokens, Idle
  <2> QED
    BY <2>1, <2>2, <2>3 DEF Init, AccessInv, GrantsHaveMember, BindingsHold
<1>2. AccessInv /\ [Next]_vars => AccessInv'
  BY TypeStep, CallsStep, PastStep, GrantsStep, BindingsStep DEF AccessInv
<1> QED
  BY <1>1, <1>2, PTL DEF Spec

-----------------------------------------------------------------------------
(* Requests *)

\* A step whose call goes on remembers what it had seen, and what is true of
\* the state it reaches it has seen.
LEMMA Seen ==
    ASSUME [Next]_vars, NEW c \in Clients, step[c] # Idle, step'[c] # Idle
    PROVE  /\ witness[c] \subseteq witness'[c]
           /\ ~UNCHANGED vars => Facts(step[c].call)' \subseteq witness'[c]
BY DEF Next, Observe, vars

\* How the account that a call runs as, and its place, can change.
LEMMA Passage ==
    ASSUME AccessInv, [Next]_vars, NEW d \in Clients, step'[d].as # NoAccount
    PROVE  /\ step'[d].call = step[d].call /\ step[d] # Idle /\ step'[d] # Idle
           /\ \/ step'[d] = step[d]
              \/ FindToken(d) /\ step'[d].at = "state"
              \/ CheckState(d) /\ step'[d].as = step[d].as /\ step'[d].at = NextCheck(d)
              \/ Authorize(d) /\ step'[d].as = step[d].as /\ step'[d].at = "operate"
              \/ ReadMember(d) /\ step'[d].as = step[d].as /\ step'[d].at = "insert"
<1> USE DEF AccessInv, AccessTypeOK
<1>1. step'[d] # Idle
  BY DEF Idle
<1>2. CASE step'[d] = step[d]
  BY <1>1, <1>2
<1>3. SUFFICES ASSUME step'[d] # step[d]
               PROVE  /\ step'[d].call = step[d].call /\ step[d] # Idle
                      /\ \/ FindToken(d) /\ step'[d].at = "state"
                         \/ CheckState(d) /\ step'[d].as = step[d].as /\ step'[d].at = NextCheck(d)
                         \/ Authorize(d) /\ step'[d].as = step[d].as /\ step'[d].at = "operate"
                         \/ ReadMember(d) /\ step'[d].as = step[d].as /\ step'[d].at = "insert"
  BY <1>1, <1>2
<1>4. ASSUME NEW c \in Clients, Returns(c) PROVE FALSE
  BY <1>1, <1>3, <1>4 DEF Returns
<1>5. ASSUME NEW c \in Clients, \E at \in Stages : Goes(c, at)
      PROVE  c = d /\ step'[d].call = step[d].call /\ step'[d].as = step[d].as /\ step[d] # Idle
  <2>1. c = d /\ step'[d].call = step[d].call /\ step'[d].as = step[d].as
    BY <1>3, <1>5 DEF Goes, StepRow
  <2> QED
    BY <2>1 DEF Idle
<1>6. ASSUME NEW c \in Clients, NEW q \in Requests, Call(c, q) \/ StartDisable(c, q) PROVE FALSE
  <2>1. step'[c].as = NoAccount
    <3>1. CASE Call(c, q)
      BY <3>1 DEF Call, Idle
    <3>2. CASE StartDisable(c, q)
      BY <3>2 DEF StartDisable, Idle
    <3> QED
      BY <1>6, <3>1, <3>2
  <2>2. c # d => step'[d] = step[d]
    BY <1>6 DEF Call, StartDisable
  <2> QED
    BY <1>3, <2>1, <2>2
<1>7. ASSUME NEW c \in Clients, FindToken(c)
      PROVE  /\ c = d /\ step'[d].call = step[d].call /\ step[d] # Idle
             /\ step'[d].at = "state"
  BY <1>3, <1>4, <1>7 DEF FindToken, StepRow, Idle
<1>8. ASSUME NEW c \in Clients, CheckState(c) PROVE c = d /\ step'[d].at = NextCheck(d)
  BY <1>3, <1>4, <1>8 DEF CheckState, Goes, StepRow
<1>9. ASSUME NEW c \in Clients, Authorize(c) PROVE c = d /\ step'[d].at = "operate"
  BY <1>3, <1>4, <1>9 DEF Authorize, Goes, StepRow
<1>10. ASSUME NEW c \in Clients, ReadMember(c) PROVE c = d /\ step'[d].at = "insert"
  BY <1>3, <1>4, <1>10 DEF ReadMember, Goes, StepRow
<1>11. ASSUME NEW c \in Clients, CheckState(c) \/ Authorize(c) \/ ReadMember(c)
       PROVE  \E at \in Stages : Goes(c, at)
  BY <1>4, <1>11 DEF CheckState, NextCheck, Authorize, ReadMember, Stages
<1>12. ASSUME NEW c \in Clients, At(c, "issue", "account") \/ At(c, "bind", step[c].at)
       PROVE  step[c].as = NoAccount
  BY <1>12, ConstantsAssumption DEF At, Asked, CallsAreWellFormed, ByToken, StepRow
<1>13. ASSUME NEW c \in Clients, ReadState(c) \/ GetAccount(c) \/ Lookup(c) \/ InsertMapping(c)
       PROVE  FALSE
  <2>1. \E at \in Stages : Goes(c, at)
    BY <1>4, <1>13 DEF ReadState, GetAccount, Lookup, InsertMapping, Answer, Stages
  <2>2. step[c].as = NoAccount
    BY <1>12, <1>13 DEF ReadState, GetAccount, Lookup, InsertMapping, At
  <2> QED
    BY <1>5, <2>1, <2>2
<1>14. ASSUME NEW c \in Clients,
              Revoke(c) \/ AddMember(c) \/ SuspendMember(c) \/ ActivateMember(c) \/ RemoveMember(c)
                \/ InsertGrant(c) \/ CreateSession(c) \/ RecheckMapping(c) \/ Disable(c)
       PROVE  FALSE
  BY <1>4, <1>14 DEF Revoke, AddMember, SuspendMember, ActivateMember, UpdateStatus, RemoveMember,
    InsertGrant, CreateSession, RecheckMapping, Answer, Disable
<1>15. \/ \E c \in Clients, q \in Requests : Call(c, q) \/ StartDisable(c, q)
       \/ \E c \in Clients : Request(c) \/ Service(c)
  BY <1>3 DEF Next, vars, Enable, RemoveAccount, IssueAssertion, Tick
<1>16. PICK c \in Clients : FindToken(c) \/ CheckState(c) \/ Authorize(c) \/ ReadMember(c)
  <2>1. PICK c \in Clients : Request(c) \/ Service(c)
    BY <1>6, <1>15
  <2> QED
    BY <1>13, <1>14, <2>1 DEF Request, Service
<1>17. CASE FindToken(c)
  BY <1>7, <1>17
<1>18. CASE CheckState(c) \/ Authorize(c) \/ ReadMember(c)
  <2>1. c = d /\ step'[d].call = step[d].call /\ step'[d].as = step[d].as /\ step[d] # Idle
    BY <1>5, <1>11, <1>18
  <2> QED
    BY <1>8, <1>9, <1>10, <1>18, <2>1
<1> QED
  BY <1>16, <1>17, <1>18

\* What a request has seen by the time it is where it is: its token stood for
\* the account since the token was found, which is more than the two
\* properties say of a request whose account is not yet checked.
RequestsAreGood ==
  /\ \A c \in Clients : step[c].as # NoAccount => <<"stands", step[c].as>> \in witness[c]
  /\ AuthenticatedIsGood /\ AuthorizedIsGranted

\* Whether the account was active and its token not ended is seen by the
\* statement that reads the account's state.
LEMMA CheckSees ==
    ASSUME AccessInv, NEW c \in Clients, CheckState(c), step'[c] # Idle
    PROVE  <<"active", step[c].as>> \in Facts(step[c].call)'
<1> DEFINE t == Asked(c).token
           a == step[c].as
<1> USE DEF AccessInv, AccessTypeOK
<1>1. account[a].status = "active" /\ IssuedAt(t) > account[a].cut
  BY DEF CheckState, Returns
<1>2. a \in Accounts /\ ByToken(Asked(c)) /\ Asked(c) # NoCall
  BY DEF CheckState, CallsAreWellFormed, StepRow, Idle
<1>3. t \in Tokens /\ Issued(t)
  BY <1>2, ConstantsAssumption DEF CallsAreWellFormed, ByToken, Tokens, StepRow, Asked
<1>4. IssuedAt(t) \in Nat
  BY <1>3, WholeSeconds DEF Issued, IssuedAt, Tokens, SessionRow, AssertionRow
<1>5. account[a].cut \in Int /\ Exists(a)
  BY <1>1, <1>2, ConstantsAssumption DEF AccountRow, Exists
<1>6. <<t, a>> \notin ended
  BY <1>1, <1>4, <1>5 DEF TokensAreOfThePast
<1>7. step'[c].call = step[c].call
  BY DEF CheckState, Goes, Returns, StepRow
<1>8. account'[a].status = "active" /\ <<t, a>> \notin ended'
  BY <1>1, <1>6 DEF CheckState, rows
<1> QED
  BY <1>2, <1>7, <1>8 DEF Facts, Accepts, Asked, ByToken

\* A request's token stands for the account it is resolved to, in the very
\* state the resolution reads.
LEMMA FindSees ==
    ASSUME AccessInv, NEW c \in Clients, FindToken(c), step'[c].as # NoAccount
    PROVE  <<"stands", step'[c].as>> \in Facts(step[c].call)'
<1> DEFINE t == Asked(c).token
           a == IF t \in Sessions THEN session[t].account ELSE bound[assertion[t].subject]
<1> USE DEF AccessInv, AccessTypeOK
<1>1. /\ IF provider THEN t \in Assertions /\ Exists(a) ELSE t \in Sessions /\ Live(t)
      /\ step' = [step EXCEPT ![c].at = "state", ![c].as = a]
  BY DEF FindToken, Returns, Idle
<1>2. a \in Accounts
  BY <1>1, FoundAccount DEF FindToken
<1>3. step'[c].as = a /\ step'[c].call = step[c].call
  BY <1>1 DEF StepRow
<1>4. ByToken(Asked(c)) /\ Asked(c) # NoCall
  BY DEF FindToken, CallsAreWellFormed, Idle
<1>5. IF t \in Sessions THEN session'[t].account = a /\ session'[t].status = "live" /\ now' < session'[t].at + Ttl
      ELSE bound'[assertion'[t].subject] = a
  BY <1>1, ConstantsAssumption DEF FindToken, Live, rows
<1> HIDE DEF AccessInv, AccessTypeOK
<1> QED
  <2>1. CASE t \in Sessions
    BY <1>2, <1>3, <1>4, <1>5, <2>1 DEF Facts, Stands, Live, Asked, ByToken
  <2>2. CASE t \notin Sessions
    BY <1>2, <1>3, <1>4, <1>5, <2>2 DEF Facts, Stands, Live, Asked, ByToken
  <2> QED
    BY <2>1, <2>2

\* What the authorization read is true in the state it reads.
LEMMA AuthorizeSees ==
    ASSUME AccessInv, NEW c \in Clients, Authorize(c), step'[c] # Idle
    PROVE  <<"allowed", step[c].as>> \in Facts(step[c].call)'
<1> USE DEF AccessInv, AccessTypeOK
<1>1. Allowed(step[c].as, Asked(c).needs)
  BY DEF Authorize, Returns
<1>2. step[c].as \in Accounts /\ ByToken(Asked(c)) /\ Asked(c) # NoCall /\ Asked(c).op # "logout"
  BY DEF Authorize, CallsAreWellFormed, StepRow, Idle
<1>3. step'[c].call = step[c].call
  BY DEF Authorize, Goes, Returns, StepRow
<1>4. member'[step[c].as] = "active" /\ Asked(c).needs \in grants'[step[c].as]
  BY <1>1 DEF Authorize, Allowed, rows
<1> QED
  BY <1>2, <1>3, <1>4 DEF Facts, Allowed, Asked, ByToken

LEMMA RequestsStep == AccessInv /\ RequestsAreGood /\ [Next]_vars => RequestsAreGood'
<1> SUFFICES ASSUME AccessInv, RequestsAreGood, [Next]_vars,
                    NEW d \in Clients, step'[d].as # NoAccount
             PROVE  /\ <<"stands", step'[d].as>> \in witness'[d]
                    /\ step'[d].at # "state" => <<"active", step'[d].as>> \in witness'[d]
                    /\ step'[d].at \in {"operate", "insert"} /\ Asked(d)'.op # "logout"
                         => <<"allowed", step'[d].as>> \in witness'[d]
  BY DEF RequestsAreGood, AuthenticatedIsGood, AuthorizedIsGranted
<1> USE DEF RequestsAreGood, AuthenticatedIsGood, AuthorizedIsGranted
<1>1. step'[d].call = step[d].call /\ step[d] # Idle /\ step'[d] # Idle
  BY Passage
<1>2. witness[d] \subseteq witness'[d]
  BY <1>1, Seen
<1>3. ASSUME step'[d] # step[d] PROVE Facts(step[d].call)' \subseteq witness'[d]
  BY <1>1, <1>3, Seen DEF vars
<1>4. CASE step'[d] = step[d]
  BY <1>1, <1>2, <1>4 DEF Asked
<1>5. CASE FindToken(d) /\ step'[d].at = "state" /\ step'[d] # step[d]
  BY <1>3, <1>5, FindSees
<1>6. CASE CheckState(d) /\ step'[d].as = step[d].as /\ step'[d].at = NextCheck(d) /\ step'[d] # step[d]
  <2>1. step'[d].at = "operate" => Asked(d)'.op = "logout"
    BY <1>1, <1>6 DEF NextCheck, Asked
  <2>2. step'[d].at # "insert"
    BY <1>6 DEF NextCheck
  <2> QED
    BY <1>1, <1>2, <1>3, <1>6, <2>1, <2>2, CheckSees
<1>7. CASE Authorize(d) /\ step'[d].as = step[d].as /\ step'[d].at = "operate" /\ step'[d] # step[d]
  BY <1>1, <1>2, <1>3, <1>7, AuthorizeSees DEF Authorize
<1>8. CASE ReadMember(d) /\ step'[d].as = step[d].as /\ step'[d].at = "insert" /\ step'[d] # step[d]
  BY <1>1, <1>2, <1>8 DEF ReadMember, At, Asked
<1> QED
  BY <1>4, <1>5, <1>6, <1>7, <1>8, Passage

\* A request that was authenticated as an account: at moments while it ran its
\* token stood for that account, and the account was active with the token not
\* among those its last disabling ended (authenticate, resolveState).
THEOREM AuthenticatedIsGoodAlways == Spec => []AuthenticatedIsGood
<1>1. Init => RequestsAreGood
  BY DEF Init, RequestsAreGood, AuthenticatedIsGood, AuthorizedIsGranted, Idle
<1>2. RequestsAreGood => AuthenticatedIsGood
  BY DEF RequestsAreGood
<1> QED
  BY <1>1, <1>2, RequestsStep, AccessInvariant, PTL DEF Spec

\* An operation that was authorized: at one moment while the request ran the
\* principal was an active member and held the capability (authorize).
THEOREM AuthorizedIsGrantedAlways == Spec => []AuthorizedIsGranted
<1>1. Init => RequestsAreGood
  BY DEF Init, RequestsAreGood, AuthenticatedIsGood, AuthorizedIsGranted, Idle
<1>2. RequestsAreGood => AuthorizedIsGranted
  BY DEF RequestsAreGood
<1> QED
  BY <1>1, <1>2, RequestsStep, AccessInvariant, PTL DEF Spec

=============================================================================
