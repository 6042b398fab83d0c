---------------------------- MODULE MCNotifications ----------------------------
(* An instance of Notifications for TLC: what the watchers are told, and what *)
(* tells the parties that their order ended.                                  *)
EXTENDS Notifications, TLC

CONSTANT b   \* the buyer of every order: the one whose orders give back each other's listing
OneBuyer == [o \in Orders |-> b]

EndsAndDeletions ==
  {"status", "authentication-failed", "delivery-rejected"} \X (Dead \cup Outcomes)
    \cup {<<"deleted", None>>}

\* Bound: once nothing is said of the watchers any more, what is left is what the
\* parties of an order hear of it, and one order is enough.
OneOrder == Cardinality({o \in Orders : status[o] # "none"}) <= 1
Focus == ~(overtaken \/ irregular) \/ OneOrder

Symmetry == Permutations(Orders)
=============================================================================
