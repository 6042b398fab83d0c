------------------------------- MODULE Wishlist -------------------------------
(***************************************************************************)
(* What users may expect of the listings they save: saving one and letting *)
(* it go happen at once, and the number shown with a listing goes up by    *)
(* one or down by one with each of them.                                   *)
(***************************************************************************)
EXTENDS Naturals

CONSTANTS Users, Products

VARIABLES listing, \* what became of each listing
          wanted,  \* the users who saved a listing on display
          total    \* and how many it says they are

Init ==
  /\ listing = [p \in Products |-> "new"]
  /\ wanted = [p \in Products |-> {}]
  /\ total = [p \in Products |-> 0]

List(p) ==
  /\ listing[p] = "new"
  /\ listing' = [listing EXCEPT ![p] = "listed"]
  /\ UNCHANGED <<wanted, total>>

Save(u, p) ==
  /\ listing[p] = "listed" /\ u \notin wanted[p]
  /\ total' = [total EXCEPT ![p] = @ + 1]
  /\ wanted' = [wanted EXCEPT ![p] = @ \cup {u}]
  /\ UNCHANGED listing

Unsave(u, p) ==
  /\ listing[p] = "listed" /\ u \in wanted[p]
  /\ total' = [total EXCEPT ![p] = @ - 1]
  /\ wanted' = [wanted EXCEPT ![p] = @ \ {u}]
  /\ UNCHANGED listing

\* A listing that is gone is nobody's, and does not come back.
Withdraw(p) ==
  /\ listing[p] = "listed"
  /\ listing' = [listing EXCEPT ![p] = "deleted"]
  /\ wanted' = [wanted EXCEPT ![p] = {}]
  /\ total' = [total EXCEPT ![p] = 0]

Next ==
  \E p \in Products :
    \/ List(p) \/ Withdraw(p)
    \/ \E u \in Users : Save(u, p) \/ Unsave(u, p)

Spec == Init /\ [][Next]_<<listing, wanted, total>>

===============================================================================
