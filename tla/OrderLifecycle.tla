--------------------------- MODULE OrderLifecycle ---------------------------
(***************************************************************************)
(* What the order workflow promises: an order is confirmed at most once    *)
(* and then cancelled or fulfilled at most once, and each of these is one  *)
(* step of the order, its stock and its revenue together.                  *)
(***************************************************************************)
CONSTANTS Orders

VARIABLES fate

Confirm(o) == fate[o] = "draft" /\ fate' = [fate EXCEPT ![o] = "confirmed"]
Cancel(o)  == fate[o] = "confirmed" /\ fate' = [fate EXCEPT ![o] = "cancelled"]
Fulfil(o)  == fate[o] = "confirmed" /\ fate' = [fate EXCEPT ![o] = "fulfilled"]

Init == fate = [o \in Orders |-> "draft"]
Next == \E o \in Orders : Confirm(o) \/ Cancel(o) \/ Fulfil(o)
Spec == Init /\ [][Next]_fate
=============================================================================
