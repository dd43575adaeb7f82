-------------------------- MODULE AccountingMemory --------------------------
(***************************************************************************)
(* The books as the memory adapter of accounting keeps them                *)
(* (modules/accounting/src/memory.ts): every operation happens at once.    *)
(* This is what Accounting, on PostgreSQL, promises.                       *)
(*                                                                         *)
(* An answer is given when an operation happens, or is lost; and a call    *)
(* may fail without having happened.  A refusal states a reason that holds *)
(* then; when there are several, which one is left open.  Orders belong to *)
(* Sales, entities to Party, and the engine of an entity to its cutover,   *)
(* which the memory adapter never completes.  That adapter compares only   *)
(* the amount of a journal under the reference of a revenue, and nothing   *)
(* of one under that of a reversal; here they must be what was asked for.  *)
(***************************************************************************)
EXTENDS Integers, Sequences, FiniteSets, Functions

CONSTANTS Registered, DaysOf, Today, Total,
          Books,           \* what is stored at first
          Unstored

VARIABLES configurations,  \* of each legal entity
          profiles,        \* for the posting of its revenue
          periods,         \* for each legal entity, the status of each
          storedAccounts,  \* by code
          storedJournals,  \* by reference
          announced,       \* for each order, the entity whose revenue was announced
          orders,          \* their status
          answers          \* what each request was answered

stored == <<configurations, profiles, periods, storedAccounts, storedJournals, announced, orders>>
memoryVars == <<stored, answers>>

LegalEntities == DOMAIN configurations

-----------------------------------------------------------------------------

ConfigureLegalEntity(q) ==
  /\ configurations[q.entity] = Unstored
  /\ q.engine = "postgresql" /\ q.entity \in Registered
  /\ configurations' = [configurations EXCEPT ![q.entity] =
                          [status |-> "postgresql", posting |-> q.posting]]
  /\ UNCHANGED <<profiles, periods, storedAccounts, storedJournals, announced, orders>>

CreateAccount(q) ==
  /\ storedAccounts[q.account] = Unstored
  /\ storedAccounts' = [storedAccounts EXCEPT ![q.account] = [status |-> q.type]]
  /\ UNCHANGED <<configurations, profiles, periods, storedJournals, announced, orders>>

ConfigureRevenuePosting(q) ==
  /\ storedAccounts[q.receivable].status = "asset"
  /\ storedAccounts[q.revenue].status = "revenue"
  /\ profiles[q.entity] = Unstored
  /\ profiles' = [profiles EXCEPT ![q.entity] =
       [status |-> "configured", receivable |-> q.receivable, revenue |-> q.revenue]]
  /\ UNCHANGED <<configurations, periods, storedAccounts, storedJournals, announced, orders>>

Overlap(q) == \E p \in DOMAIN DaysOf : /\ periods[q.entity][p] # Unstored
                                       /\ DaysOf[p] \cap DaysOf[q.period] # {}

SetPeriod(q, status) ==
  /\ periods' = [periods EXCEPT ![q.entity][q.period] = [status |-> status]]
  /\ UNCHANGED <<configurations, profiles, storedAccounts, storedJournals, announced, orders>>

OpenPeriod(q) == ~Overlap(q) /\ SetPeriod(q, "open")
ClosePeriod(q) == periods[q.entity][q.period] # Unstored /\ SetPeriod(q, "closed")

-----------------------------------------------------------------------------
(* A journal: its lines as a bag, each of an account with a debit or a     *)
(* credit, and for a reversal the journal it reverses.                     *)

Bag(lines) == [l \in Range(lines) |-> Cardinality({i \in DOMAIN lines : lines[i] = l})]

Line(a, debit, credit) == [account |-> a, debit |-> debit, credit |-> credit]

Journal(lines) == [status |-> "posted", lines |-> Bag(lines)]

RevenueJournal(q) ==
  LET profile == profiles[q.entity] IN
  Journal(<<Line(profile.receivable, Total[q.order], 0),
            Line(profile.revenue, 0, Total[q.order])>>)

Mirrored(l) == Line(l.account, l.credit, l.debit)
Reversal(reference) ==
  LET lines == storedJournals[reference].lines IN
  [status |-> "reversed", lines |-> [l \in {Mirrored(k) : k \in DOMAIN lines} |-> lines[Mirrored(l)]],
   reverses |-> reference]

RevenueOf(q) == <<"revenue", q.entity, q.order>>
ReversalOf(q) == <<"reversal", q.entity, q.order>>

Store(reference, journal) ==
  /\ storedJournals' = [storedJournals EXCEPT ![reference] = journal]
  /\ UNCHANGED <<configurations, profiles, periods, storedAccounts, orders>>

(* Today is in an open period of the entity, which may post.               *)
MayPost(e) ==
  /\ configurations[e] # Unstored /\ configurations[e].posting
  /\ \E p \in DOMAIN DaysOf : Today \in DaysOf[p] /\ periods[e][p] = [status |-> "open"]

PostRevenueForOrder(q) ==
  /\ orders[q.order] = "confirmed"
  /\ profiles[q.entity] # Unstored
  /\ \/ storedJournals[RevenueOf(q)] = RevenueJournal(q) /\ UNCHANGED stored
     \/ /\ storedJournals[RevenueOf(q)] = Unstored
        /\ MayPost(q.entity)
        /\ announced[q.order] = Unstored
        /\ announced' = [announced EXCEPT ![q.order] = [status |-> "recorded", entity |-> q.entity]]
        /\ Store(RevenueOf(q), RevenueJournal(q))

IsReversed(q) == /\ storedJournals[RevenueOf(q)].status = "posted"
                 /\ storedJournals[ReversalOf(q)] = Reversal(RevenueOf(q))

ReverseRevenueForOrder(q) ==
  \/ storedJournals[ReversalOf(q)] # Unstored /\ IsReversed(q) /\ UNCHANGED stored
  \/ /\ storedJournals[ReversalOf(q)] = Unstored
     /\ profiles[q.entity] # Unstored /\ MayPost(q.entity)
     /\ storedJournals[RevenueOf(q)].status = "posted"
     /\ Store(ReversalOf(q), Reversal(RevenueOf(q)))
     /\ UNCHANGED announced

Debits(lines) == FoldFunction(LAMBDA l, n : n + l.debit, 0, lines)
Credits(lines) == FoldFunction(LAMBDA l, n : n + l.credit, 0, lines)

Balanced(lines) ==
  /\ Len(lines) >= 2
  /\ \A l \in Range(lines) : (l.debit = 0) # (l.credit = 0)
  /\ Debits(lines) = Credits(lines)

AccountsExist(lines) == \A l \in Range(lines) : storedAccounts[l.account] # Unstored

PostJournal(q) ==
  /\ Balanced(q.lines) /\ AccountsExist(q.lines)
  /\ \/ storedJournals[q.reference] = Journal(q.lines) /\ UNCHANGED stored
     \/ /\ storedJournals[q.reference] = Unstored
        /\ Store(q.reference, Journal(q.lines))
        /\ UNCHANGED announced

(* The order's, in Sales.                                                  *)
CancelOrder(q) ==
  /\ orders' = [orders EXCEPT ![q.order] = "cancelled"]
  /\ UNCHANGED <<configurations, profiles, periods, storedAccounts, storedJournals, announced>>

Happens(q) ==
  \/ q.op = "configure entity" /\ ConfigureLegalEntity(q)
  \/ q.op = "create account" /\ CreateAccount(q)
  \/ q.op = "configure revenue" /\ ConfigureRevenuePosting(q)
  \/ q.op = "open period" /\ OpenPeriod(q)
  \/ q.op = "close period" /\ ClosePeriod(q)
  \/ q.op = "post revenue" /\ PostRevenueForOrder(q)
  \/ q.op = "reverse revenue" /\ ReverseRevenueForOrder(q)
  \/ q.op = "post journal" /\ PostJournal(q)
  \/ q.op = "cancel order" /\ CancelOrder(q)

-----------------------------------------------------------------------------
(* Why an operation is refused. *)

Exists(q) ==
  CASE q.op = "configure entity" -> configurations[q.entity] # Unstored
    [] q.op = "create account" -> storedAccounts[q.account] # Unstored
    [] q.op = "configure revenue" -> profiles[q.entity] # Unstored
    [] q.op = "post journal" -> storedJournals[q.reference].status = "reversed"
    [] OTHER -> FALSE

NoAccount(q) ==
  CASE q.op = "configure revenue" -> {q.receivable, q.revenue}
                                     \cap {a \in DOMAIN storedAccounts : storedAccounts[a] = Unstored} # {}
    [] q.op = "post journal" -> ~AccountsExist(q.lines)
    [] OTHER -> FALSE

Invalid(q) ==
  CASE q.op = "configure revenue" -> \/ storedAccounts[q.receivable].status # "asset"
                                     \/ storedAccounts[q.revenue].status # "revenue"
    [] q.op = "post journal" -> ~Balanced(q.lines)
    [] OTHER -> FALSE

(* Something else has the reference.                                       *)
Conflict(q) ==
  CASE q.op = "post revenue" ->
         storedJournals[RevenueOf(q)] # Unstored
         /\ (profiles[q.entity] # Unstored => storedJournals[RevenueOf(q)] # RevenueJournal(q))
    [] q.op = "reverse revenue" -> storedJournals[ReversalOf(q)] # Unstored /\ ~IsReversed(q)
    [] q.op = "post journal" ->
         storedJournals[q.reference] \notin {Unstored, Journal(q.lines)}
    [] OTHER -> FALSE

Posts(q) == q.op \in {"post revenue", "reverse revenue"}

Reasons(q) ==
  [unknown |-> TRUE, exists |-> Exists(q), noAccount |-> NoAccount(q), invalid |-> Invalid(q),
   conflict |-> Conflict(q),
   blocked |-> q.op = "configure entity" /\ q.engine = "tigerbeetle",
   noEntity |-> q.op = "configure entity" /\ q.entity \notin Registered,
   overlap |-> q.op = "open period" /\ Overlap(q),
   missing |-> q.op = "close period" /\ periods[q.entity][q.period] = Unstored,
   notConfirmed |-> q.op = "post revenue" /\ orders[q.order] # "confirmed",
   noProfile |-> Posts(q) /\ profiles[q.entity] = Unstored,
   notOpen |-> Posts(q) /\ ~MayPost(q.entity),
   noJournal |-> q.op = "reverse revenue" /\ storedJournals[RevenueOf(q)].status # "posted",
   announced |-> q.op = "post revenue" /\ announced[q.order] # Unstored,
   activated |-> \E e \in LegalEntities : configurations[e].status = "tigerbeetle"]

Refuses(q, answer) == answer \in DOMAIN Reasons(q) /\ Reasons(q)[answer]

Init ==
  /\ <<configurations, profiles, periods, storedAccounts>> = Books
  /\ \A x \in DOMAIN storedJournals : storedJournals[x] = Unstored
  /\ \A o \in DOMAIN orders : orders[o] = "confirmed" /\ announced[o] = Unstored
  /\ \A q \in DOMAIN answers : answers[q] = {}

(* An entity is moved to the other engine.                                 *)
Activation ==
  \E e \in LegalEntities :
    /\ configurations[e].status = "postgresql"
    /\ configurations' = [configurations EXCEPT ![e].status = "tigerbeetle"]
    /\ UNCHANGED <<profiles, periods, storedAccounts, storedJournals, announced, orders, answers>>

Answered(q, answer) ==
  /\ answers' = [answers EXCEPT ![q] = @ \cup {answer}]
  /\ \/ answer \in {"ok", "unknown"} /\ Happens(q)
     \/ Refuses(q, answer) /\ UNCHANGED stored

Next == \/ Activation
        \/ \E q \in DOMAIN answers : \E answer \in answers'[q] : Answered(q, answer)

Spec == Init /\ [][Next]_memoryVars
=============================================================================
