-------------------------- MODULE FinancialPosting --------------------------
(***************************************************************************)
(* What the financial operation protocol promises, with no jobs, leases,   *)
(* fences or lost messages: each requested movement is decided at most     *)
(* once by the ledger, is published only when the ledger accepted it, is   *)
(* refused only when the ledger never will, and is settled in an open      *)
(* accounting period (docs/architecture/financial-ledger.md, "Financial    *)
(* Operation Protocol").                                                   *)
(***************************************************************************)
CONSTANT Ops

VARIABLES
    request,   \* what the command side says of each operation
    fact,      \* what the ledger has decided about it
    books      \* whether the accounting period takes movements


PostingInit ==
    /\ request = [o \in Ops |-> "none"]
    /\ fact = [o \in Ops |-> "none"]
    /\ books = "open"

Become(o, from, to) == request[o] \in from /\ request' = [request EXCEPT ![o] = to]

Ask(o) ==
    /\ books = "open"
    /\ Become(o, {"none"}, "pending")
    /\ UNCHANGED <<fact, books>>

\* An operation under manual recovery may still have a request on its way.
LedgerDecides(o, verdict) ==
    /\ request[o] \in {"pending", "recovery"}
    /\ fact[o] = "none"
    /\ fact' = [fact EXCEPT ![o] = verdict]
    /\ UNCHANGED <<request, books>>

Publish(o) ==
    /\ books = "open"
    /\ fact[o] = "accepted"
    /\ Become(o, {"pending"}, "posted")
    /\ UNCHANGED <<fact, books>>

Refuse(o) ==
    /\ fact[o] # "accepted"
    /\ Become(o, {"pending"}, "refused")
    /\ UNCHANGED <<fact, books>>

Recover(o) ==
    /\ Become(o, {"pending", "refused"}, "recovery")
    /\ UNCHANGED <<fact, books>>

CloseBooks ==
    /\ \A o \in Ops : request[o] \notin {"pending", "recovery"}
    /\ books' = "closed"
    /\ UNCHANGED <<request, fact>>

PostingNext ==
    \/ \E o \in Ops : Ask(o) \/ Publish(o) \/ Refuse(o) \/ Recover(o)
    \/ \E o \in Ops, verdict \in {"accepted", "rejected"} : LedgerDecides(o, verdict)
    \/ CloseBooks

PostingSpec == PostingInit /\ [][PostingNext]_<<request, fact, books>>

=============================================================================
