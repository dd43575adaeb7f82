------------------------------- MODULE MCWeb --------------------------------
(* One browser and two tenants: every form with every list of its page,    *)
(* and a few of them for longer.                                           *)
EXTENDS WebWorkspace

Scene(p, l, used, acts) == [page |-> p, list |-> l, forms |-> used, acts |-> acts]

Catalogue ==
  UNION {{Scene(p, l, {m}, 4) : l \in Features[p].lists, m \in DOMAIN Features[p].forms} :
           p \in DOMAIN Features}

Closely ==
  {Scene("inventory", "balances", {"receiveStock"}, 7),
   Scene("inventory", "movements", {"adjustStock"}, 6),
   Scene("inventory", "reservations", {"reserveStock", "releaseReservation"}, 6),
   Scene("sales", "order", {"confirmOrder"}, 6),
   Scene("procurement", "orders", {"createPurchaseOrder"}, 6),
   Scene("parties", "party", {"assignRole"}, 6),
   Scene("access", "memberships", {"removeMembership"}, 6)}

MCScenes == Catalogue \cup Closely

=============================================================================
