------------------------------ MODULE MCAccess ------------------------------
(* Two accounts of one tenant, one capability that every operation needs;  *)
(* requests of both tokens act on the membership of one account.  Whether  *)
(* the tokens are the provider's is chosen at first.                       *)
EXTENDS Access

CONSTANTS c1, c2, a1, a2, s1, x1, u1

MemberRequests ==
  {[op |-> o, token |-> x1, needs |-> "manage", account |-> a1] :
     o \in {"add", "suspend", "activate", "remove"}}
  \cup {[op |-> "remove", token |-> s1, needs |-> "manage", account |-> a1]}
  \cup {[op |-> "grant", token |-> t, needs |-> "manage", account |-> a1,
         capability |-> "manage"] : t \in {s1, x1}}

MCRequests ==
  MemberRequests
  \cup {[op |-> "logout", token |-> s1]}
  \cup {[op |-> "issue", account |-> a1], [op |-> "disable", account |-> a1]}
  \cup {[op |-> "bind", subject |-> u1, account |-> a] : a \in {a1, a2}}

AnyClient == Permutations(Clients)

=============================================================================
