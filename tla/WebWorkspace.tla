---------------------------- MODULE WebWorkspace ----------------------------
(***************************************************************************)
(* The web application (apps/web/src) in one browser: signing in and out,  *)
(* choosing a tenant, the page that is mounted for a session, the forms on *)
(* it with their requests, and the reads of its lists.  A behaviour looks  *)
(* at one scene: a page and what else there is of routes, one of its lists *)
(* and some of its forms.  The server is what the requests see of it: which*)
(* tokens and memberships it accepts, and which commands took effect.      *)
(*                                                                         *)
(* A user of a form fills in one intent after each opening, and types a    *)
(* new idempotency key for it where the form asks for one.  Tanstack's     *)
(* queries and mutations are modelled from how src/ uses them.             *)
(***************************************************************************)
EXTENDS WebForms, Integers, FiniteSets, SequencesExt

CONSTANTS Tenants,  \* their ids, which memberships are listed by
          Scenes,   \* [page, list, forms, acts], acts a bound
          MaxSignIns, MaxOpenings, MaxSubmits,  \* bounds
          NoSession, NoAnswer

ASSUME TenantsAreNumbers == Tenants \subseteq Nat

VARIABLES scene,
          session,  \* the session signal: a token with the tenant chosen for it
          details,  \* user, tenants and capabilities, as answered for a session
          asks,     \* requests of sign-in, sign-out and tenant selection
          page,     \* whether the route is the scene's page
          view,     \* what the list shows, or that reading it failed
          reading,  \* the read of the list that is running
          forms,    \* the forms that were opened on the page
          requests, \* the commands under way
          alive, issued, members,  \* server: tokens, and tenants the user is in
          took,     \* server: the requests that took effect
          spent     \* how often something bounded was done

sessionVars == <<session, details>>
pageVars == <<page, view, reading, forms, requests>>
serverVars == <<alive, issued, members, took>>
vars == <<scene, sessionVars, asks, pageVars, serverVars, spent>>

NoDetails == [of |-> NoSession, members |-> {}]
NoView == [by |-> NoSession, shows |-> {}, failed |-> FALSE]
NoRead == [by |-> NoSession, for |-> {}, shows |-> NoAnswer]
NoForms == [m \in {} |-> NoAnswer]
Unopened == [open |-> FALSE, state |-> "idle", opening |-> 0, sent |-> 0, request |-> 0,
             reloading |-> FALSE, doubted |-> FALSE]

(* What the user does, and what ends a token or a membership, is bounded   *)
(* together, and some of it on its own.                                    *)
Acts == spent.acts < scene.acts /\ spent' = [spent EXCEPT !.acts = @ + 1]
Spends(what, max) ==
  /\ spent.acts < scene.acts /\ spent[what] < max
  /\ spent' = [spent EXCEPT !.acts = @ + 1, ![what] = @ + 1]

-----------------------------------------------------------------------------
(* The session and the page.  Both the session and the route are keys of   *)
(* the boundary: whatever sets one of them mounts it anew, with an empty   *)
(* cache, and aborts the requests of the old one; the server may still     *)
(* take those that were sent.                                              *)

(* Mutant: the page of a session goes on when another one replaces it. *)
StillHeard == requests

Abandoned == {[r EXCEPT !.heard = FALSE] : r \in {x \in requests : x.answer = NoAnswer}}

SessionRouteBoundary(s, p) ==
  /\ session' = s /\ page' = p
  /\ view' = NoView /\ forms' = NoForms
  /\ reading' = IF s # NoSession /\ p THEN [NoRead EXCEPT !.by = s] ELSE NoRead
  /\ requests' = Abandoned

(* The 401 of any request: ritsei:unauthorized.                            *)
SessionRecovery == SessionRouteBoundary(NoSession, FALSE) /\ details' = NoDetails

Ask(op, of) == asks' = asks \cup {[op |-> op, of |-> of, answer |-> NoAnswer, members |-> {}]}

Connect ==
  /\ Spends("signIns", MaxSignIns)
  /\ Ask("signIn", NoSession)
  /\ UNCHANGED <<sessionVars, pageVars, serverVars>>

SelectTenant(t) ==
  /\ session # NoSession /\ t \in details.members /\ session.tenant # t
  /\ Spends("signIns", MaxSignIns)
  /\ Ask("select", [session EXCEPT !.tenant = t])
  /\ UNCHANGED <<sessionVars, pageVars, serverVars>>

SignOut ==
  /\ session # NoSession
  /\ Acts
  /\ Ask("signOut", session)
  /\ SessionRecovery
  /\ UNCHANGED serverVars

Visit(p) ==
  /\ session # NoSession
  /\ Acts
  /\ SessionRouteBoundary(session, p)
  /\ UNCHANGED <<details, asks, serverVars>>

(* The server: a sign-in issues a token and answers the first membership   *)
(* there is; a selection answers the tenant that was asked for or refuses. *)
Answered(a, answer) == asks' = (asks \ {a}) \cup {answer}

AnswerSignIn(a) ==
  /\ members # {}
  /\ issued' = issued + 1 /\ alive' = alive \cup {issued'}
  /\ Answered(a, [a EXCEPT !.of = [token |-> issued', tenant |-> Min(members)],
                           !.answer = "ok", !.members = members])

AnswerSelect(a) ==
  /\ Answered(a, IF a.of.token \notin alive THEN [a EXCEPT !.answer = "unauthorized"]
                 ELSE IF a.of.tenant \notin members THEN [a EXCEPT !.answer = "forbidden"]
                 ELSE [a EXCEPT !.answer = "ok", !.members = members])
  /\ UNCHANGED <<issued, alive>>

AnswerSignOut(a) ==
  alive' = alive \ {a.of.token} /\ asks' = asks \ {a} /\ UNCHANGED issued

Answer(a) ==
  /\ a.answer = NoAnswer
  /\ \/ a.op = "signIn" /\ AnswerSignIn(a)
     \/ a.op = "select" /\ AnswerSelect(a)
     \/ a.op = "signOut" /\ AnswerSignOut(a)
  /\ UNCHANGED <<sessionVars, pageVars, members, took, spent>>

(* The answer comes back, whatever session there is by then.  What is left *)
(* of a sign-in that failed is a message on the page.                      *)
Granted(a) == details' = [of |-> a.of, members |-> a.members]

Signed(a) == a.op = "signIn" /\ Granted(a) /\ SessionRouteBoundary(a.of, FALSE)

TenantSelected(a) ==
  /\ a.op = "select" /\ a.answer = "ok"
  /\ Granted(a) /\ SessionRouteBoundary(a.of, page)

SelectionRefused(a) ==
  /\ a.op = "select"
  /\ \/ a.answer = "unauthorized" /\ SessionRecovery
     \/ a.answer = "forbidden" /\ UNCHANGED <<sessionVars, pageVars>>

Return(a) ==
  /\ a.answer # NoAnswer
  /\ asks' = asks \ {a}
  /\ Signed(a) \/ TenantSelected(a) \/ SelectionRefused(a)
  /\ UNCHANGED <<serverVars, spent>>

LoseAsk(a) ==
  asks' = asks \ {a} /\ UNCHANGED <<sessionVars, pageVars, serverVars, spent>>

(* Tokens expire and memberships end on the server. *)
Expire(k) ==
  /\ Acts
  /\ alive' = alive \ {k}
  /\ UNCHANGED <<sessionVars, asks, pageVars, issued, members, took>>

EndMembership(t) ==
  /\ Acts
  /\ members' = members \ {t}
  /\ UNCHANGED <<sessionVars, asks, pageVars, issued, alive, took>>

-----------------------------------------------------------------------------
(* The list.  A read that is asked for while one is running takes its      *)
(* place; who waited for the old one waits no more or for the new one.     *)

Mounted == session # NoSession /\ page
Here == Features[scene.page]

Restart(waits) ==
  \E kept \in {{}, reading.for} :
    reading' = [by |-> session, for |-> kept \cup waits, shows |-> NoAnswer]

Reread(lists, waits) == IF scene.list \in lists THEN Restart(waits) ELSE reading' = reading

Intent(r) ==
  [form |-> r.form, tenant |-> r.by.tenant,
   opening |-> IF Here.forms[r.form].of = "record" THEN 0 ELSE r.opening]

Happened(tenant) == {i \in {Intent(r) : r \in took} : i.tenant = tenant}

ServeRead ==
  /\ reading.by # NoSession /\ reading.shows = NoAnswer
  /\ reading.by.token \in alive /\ reading.by.tenant \in members
  /\ reading' = [reading EXCEPT !.shows = Happened(reading.by.tenant)]
  /\ UNCHANGED <<sessionVars, asks, page, view, forms, requests, serverVars, spent>>

ReadArrives ==
  /\ reading.by # NoSession /\ reading.shows # NoAnswer
  /\ view' = [by |-> reading.by, shows |-> reading.shows, failed |-> FALSE]
  /\ reading' = NoRead
  /\ UNCHANGED <<sessionVars, asks, page, forms, requests, serverVars, spent>>

(* The read is refused, times out or cannot be decoded: the boundary that  *)
(* follows the list shows the failure instead of what stood in it; whether *)
(* the forms do is left open.                                              *)
ReadFails ==
  /\ reading.by # NoSession
  /\ reading' = NoRead /\ view' = [NoView EXCEPT !.failed = TRUE]
  /\ forms' \in {forms, NoForms}
  /\ UNCHANGED <<sessionVars, asks, page, requests, serverVars, spent>>

ReadUnauthorized ==
  /\ reading.by # NoSession /\ reading.shows = NoAnswer /\ reading.by.token \notin alive
  /\ SessionRecovery
  /\ UNCHANGED <<asks, serverVars, spent>>

Reload ==
  /\ Mounted /\ Acts
  /\ Restart({})
  /\ UNCHANGED <<sessionVars, asks, page, view, forms, requests, serverVars>>

-----------------------------------------------------------------------------
(* The forms *)

Form(m) == IF m \in DOMAIN forms THEN forms[m] ELSE Unopened
IsPending(m) == Form(m).state \in {"pending", "awaiting"}
Becomes(m, f) == forms' = (m :> f) @@ forms

(* Opening a dialog resets its mutation.  Closing it changes nothing that  *)
(* another opening would find.                                             *)
OpenChange(m) ==
  /\ ~IsPending(m)
  /\ Spends("openings", MaxOpenings)
  /\ LET f == [Form(m) EXCEPT !.open = TRUE, !.opening = spent'.openings] IN
     Becomes(m, IF Here.forms[m].kind = "inline" THEN f
                ELSE [f EXCEPT !.state = "idle", !.request = 0])
  /\ UNCHANGED <<sessionVars, asks, page, view, reading, requests, serverVars>>

(* Mutant: the button is not disabled while a submission is pending. *)
SubmitTwice(m) ==
  /\ Form(m).open /\ Form(m).state # "unknown-outcome"
  /\ Spends("submits", MaxSubmits)
  /\ requests' = requests \cup
       {[n |-> spent'.submits, form |-> m, opening |-> Form(m).opening,
         by |-> session, doubted |-> Form(m).doubted, heard |-> TRUE, answer |-> NoAnswer]}
  /\ Becomes(m, [Form(m) EXCEPT !.state = "pending", !.request = spent'.submits,
                                !.sent = Form(m).opening])
  /\ UNCHANGED <<sessionVars, asks, page, view, reading, serverVars>>

Submit(m) ==
  /\ Form(m).open /\ ~IsPending(m) /\ Form(m).state # "unknown-outcome"
  /\ Spends("submits", MaxSubmits)
  /\ requests' = requests \cup
       {[n |-> spent'.submits, form |-> m, opening |-> Form(m).opening,
         by |-> session, doubted |-> Form(m).doubted, heard |-> TRUE, answer |-> NoAnswer]}
  /\ Becomes(m, [Form(m) EXCEPT !.state = "pending", !.request = spent'.submits,
                                !.sent = Form(m).opening])
  /\ UNCHANGED <<sessionVars, asks, page, view, reading, serverVars>>

ReloadForm(m) ==
  /\ Form(m).open /\ Form(m).state = "unknown-outcome" /\ ~Form(m).reloading
  /\ Becomes(m, [Form(m) EXCEPT !.reloading = TRUE])
  /\ Reread(Here.forms[m].reload, {<<m, "reload">>})
  /\ UNCHANGED <<sessionVars, asks, page, view, requests, serverVars, spent>>

(* reload().then(reset): whatever the reads came to, and whatever the form *)
(* does by then.                                                           *)
Reloaded(m) ==
  /\ Form(m).reloading /\ <<m, "reload">> \notin reading.for
  /\ Becomes(m, [Form(m) EXCEPT !.reloading = FALSE, !.state = "idle", !.request = 0,
                                !.open = @ /\ Here.forms[m].reloaded = "reset"])
  /\ UNCHANGED <<sessionVars, asks, page, view, reading, requests, serverVars, spent>>

(* The server takes a command or not.  An answer may say that it is not    *)
(* available although the command has taken effect.                        *)
Repeated(r) == \E x \in took : Intent(x) = Intent(r)

Allowed(r) == r.by.token \in alive /\ r.by.tenant \in members

Applies(r) == Allowed(r) /\ (Repeated(r) => Here.forms[r.form].repeat = "adds")

AnswersOf(r) ==
  IF r.by.token \notin alive THEN {"unauthorized"}
  ELSE IF r.by.tenant \notin members THEN {"forbidden"}
  ELSE {"conflict", "unavailable"} \cup
       IF Repeated(r) /\ Here.forms[r.form].repeat = "same"
       THEN {"ok"} \cup IF r.form \in Here.expects THEN {"mismatch"} ELSE {}
       ELSE {}

Serve(r) ==
  /\ r.answer = NoAnswer
  /\ \E answer \in AnswersOf(r), applied \in BOOLEAN :
       /\ applied => Applies(r)
       /\ LET said == IF applied /\ answer # "unavailable" THEN "ok" ELSE answer IN
          requests' = (requests \ {r}) \cup
                      IF r.heard THEN {[r EXCEPT !.answer = said]} ELSE {}
       /\ took' = IF applied THEN took \cup {[r EXCEPT !.heard = TRUE]} ELSE took
  /\ UNCHANGED <<sessionVars, asks, page, view, reading, forms, alive, issued, members, spent>>

Awaits(r) == r.form \in DOMAIN forms /\ forms[r.form].request = r.n

(* onSuccess: first what the form does, then the mutation's invalidations, *)
(* which it awaits before it reports success.                              *)
Succeeds(r) ==
  LET kind == Here.forms[r.form]
      lists == Here.refetches[r.form]
               \cup IF kind.then = "reload" THEN kind.reload ELSE {}
      waits == IF Awaits(r) /\ scene.list \in Here.refetches[r.form]
               THEN {<<r.form, "await">>} ELSE {} IN
  /\ IF r.form \notin DOMAIN forms THEN UNCHANGED forms
     ELSE Becomes(r.form, [forms[r.form] EXCEPT
                             !.open = @ /\ kind.then = "stay",
                             !.state = IF Awaits(r) THEN "awaiting" ELSE @])
  /\ Reread(lists, waits)
  /\ requests' = requests \ {r}
  /\ UNCHANGED <<sessionVars, page, view>>

Fails(r, state) ==
  /\ IF ~Awaits(r) THEN UNCHANGED forms
     ELSE Becomes(r.form, [forms[r.form] EXCEPT
            !.state = state, !.doubted = @ \/ state \in {"unknown-outcome", "unavailable"}])
  /\ UNCHANGED <<sessionVars, page, view, reading>>

Arrive(r) ==
  /\ r.heard /\ r.answer # NoAnswer
  /\ CASE r.answer = "unauthorized" -> SessionRecovery
       [] r.answer = "ok" /\ Here.forms[r.form].then = "navigate" ->
            SessionRouteBoundary(session, TRUE) /\ UNCHANGED details
       [] r.answer = "ok" /\ Here.forms[r.form].then # "navigate" -> Succeeds(r)
       [] r.answer = "mismatch" -> Fails(r, "unknown-outcome") /\ requests' = requests \ {r}
       [] OTHER -> Fails(r, r.answer) /\ requests' = requests \ {r}
  /\ UNCHANGED <<asks, serverVars, spent>>

(* Mutant: a time-out is reported as any failure to connect. *)
TimeOutIsNetwork(r) ==
  /\ r.heard
  /\ Fails(r, "network")
  /\ requests' = (requests \ {r}) \cup
                 IF r.answer = NoAnswer THEN {[r EXCEPT !.heard = FALSE]} ELSE {}
  /\ UNCHANGED <<asks, serverVars, spent>>

(* Mutant: only the body is given ten seconds. *)
TimeOutOfBody(r) ==
  /\ r.heard /\ r.answer # NoAnswer
  /\ Fails(r, "unknown-outcome")
  /\ requests' = requests \ {r}
  /\ UNCHANGED <<asks, serverVars, spent>>

(* No answer within ten seconds, or none that can be read: the outcome is  *)
(* unknown, and the server may still take the command.                     *)
TimeOut(r) ==
  /\ r.heard
  /\ Fails(r, "unknown-outcome")
  /\ requests' = (requests \ {r}) \cup
                 IF r.answer = NoAnswer THEN {[r EXCEPT !.heard = FALSE]} ELSE {}
  /\ UNCHANGED <<asks, serverVars, spent>>

Awaited(m) ==
  /\ Form(m).state = "awaiting" /\ <<m, "await">> \notin reading.for
  /\ Becomes(m, [Form(m) EXCEPT !.state = "success"])
  /\ UNCHANGED <<sessionVars, asks, page, view, reading, requests, serverVars, spent>>

-----------------------------------------------------------------------------
Init ==
  /\ session = NoSession /\ details = NoDetails /\ asks = {}
  /\ scene \in Scenes /\ page = FALSE /\ view = NoView /\ reading = NoRead
  /\ forms = NoForms /\ requests = {}
  /\ alive = {} /\ issued = 0 /\ members = Tenants /\ took = {}
  /\ spent = [acts |-> 0, signIns |-> 0, openings |-> 0, submits |-> 0]

User ==
  \/ Connect \/ SignOut \/ Reload
  \/ \E t \in Tenants : SelectTenant(t)
  \/ \E p \in BOOLEAN : Visit(p)
  \/ Mounted /\ \E m \in scene.forms : OpenChange(m) \/ Submit(m) \/ ReloadForm(m)

Server ==
  \/ ServeRead
  \/ \E a \in asks : Answer(a)
  \/ \E r \in requests : Serve(r)
  \/ \E k \in alive : Expire(k)
  \/ \E t \in members : EndMembership(t)

Browser ==
  \/ ReadArrives \/ ReadFails \/ ReadUnauthorized
  \/ \E a \in asks : Return(a) \/ LoseAsk(a)
  \/ \E r \in requests : Arrive(r) \/ TimeOut(r)
  \/ \E m \in DOMAIN forms : Awaited(m) \/ Reloaded(m)

Next ==
  /\ User \/ Server \/ Browser
  /\ UNCHANGED scene

(* A request ends by its time-out if nothing else ends it, and what the    *)
(* browser has been told it acts on.                                       *)
Keeps(A) == A /\ UNCHANGED scene

Spec ==
  /\ Init /\ [][Next]_vars
  /\ WF_vars(Keeps(\E r \in requests : Arrive(r) \/ TimeOut(r)))
  /\ WF_vars(Keeps(ReadArrives \/ ReadFails \/ ReadUnauthorized))
  /\ WF_vars(Keeps(\E m \in DOMAIN forms : Awaited(m)))

-----------------------------------------------------------------------------
(***************************************************************************)
(* What the web application tells its user, whatever answers are late,     *)
(* lost or refused and whatever the user does meanwhile.                   *)
(***************************************************************************)

IntentOf(m) == Intent([form |-> m, by |-> session, opening |-> forms[m].sent])

\* What is on the screen belongs to the session that requests are sent with: the
\* tenants and capabilities shown were answered for it, the list was read for it,
\* and no answer to another session's command can still arrive, whatever order
\* sign-ins, selections, sign-outs and their answers come in (SessionContext and
\* the keyed SessionRouteBoundary).
SessionHangsTogether ==
  /\ details.of = session
  /\ {view.by, reading.by} \subseteq {session, NoSession}
  /\ \A r \in requests : r.heard => r.by = session /\ page

\* A command that is reported as refused had no effect and will have none: what
\* may have happened is reported as an unknown outcome (mutationRequest).
RefusedHadNoEffect ==
  \A m \in DOMAIN forms :
    forms[m].state \in {"forbidden", "conflict", "network"} =>
      /\ \A r \in took : r.n # forms[m].request
      /\ \A r \in requests : r.n # forms[m].request

\* What is reported as saved can be seen: the followed list shows the effect as
\* soon as the form reports success, or is being read again or says that it could
\* not be read (the mutations' onSuccess with the server's answers).
SuccessIsSeen ==
  \A m \in DOMAIN forms :
    /\ forms[m].state = "success" => IntentOf(m) \in Happened(session.tenant)
    /\ forms[m].state = "success" /\ scene.list \in Here.changes[m] =>
         IntentOf(m) \in view.shows \/ view.failed \/ reading # NoRead

\* An opening of a form has one effect, however often it is submitted, unless the
\* user submits it again after an unknown outcome: only a form whose command the
\* server would do twice is exposed to that.
OneEffect ==
  \A r, s \in took :
    r # s /\ Intent(r) = Intent(s) =>
      /\ Here.forms[r.form].repeat = "adds"
      /\ r.doubted \/ s.doubted

\* A form does not say "Saving" for ever: its request times out and the reads it
\* waits for end.
EverySubmissionEnds ==
  (\E m \in DOMAIN forms : IsPending(m)) ~> (\A m \in DOMAIN forms : ~IsPending(m))
=============================================================================
