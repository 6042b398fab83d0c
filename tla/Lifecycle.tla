------------------------------- MODULE Lifecycle -------------------------------
(***************************************************************************)
(* What the state machine of an order promises: its statuses follow each   *)
(* other as the table says, the item goes out only once the payout is on   *)
(* record, and in the step in which an order is called off it is recorded  *)
(* that its buyer's payment was returned and that its seller's payout does *)
(* not stand.                                                              *)
(* An order that comes to the attention of a human leaves the scheme.      *)
(***************************************************************************)
EXTENDS OrderStates

CONSTANT Orders

VARIABLES status,  \* how far an order got, None if it left the scheme
          paidOut, \* orders with a payout on record
          returned \* and with a payment returned

Init ==
  /\ status = [o \in Orders |-> "secured"]
  /\ paidOut = {} /\ returned = {}

InScheme(o) == status[o] # None

MoveOn(o) ==
  /\ InScheme(o)
  /\ \E next \in Transitions[status[o]] \ Dead :
       /\ next = "ready_for_delivery" => o \in paidOut
       /\ status' = [status EXCEPT ![o] = next]
  /\ UNCHANGED <<paidOut, returned>>

PayOut(o) ==
  /\ status[o] = "payout_processing"
  /\ paidOut' = paidOut \cup {o}
  /\ UNCHANGED <<status, returned>>

CallOff(o) ==
  /\ InScheme(o)
  /\ \E next \in Transitions[status[o]] \cap Dead : status' = [status EXCEPT ![o] = next]
  /\ paidOut' = paidOut \ {o}
  /\ returned' = returned \cup {o}

\* A cancelled order whose payment comes back by another way counts as refunded.
ReturnLate(o) ==
  /\ status[o] = "cancelled"
  /\ status' = [status EXCEPT ![o] = "refunded"]
  /\ UNCHANGED <<paidOut, returned>>

Leave(o) ==
  /\ InScheme(o)
  /\ status' = [status EXCEPT ![o] = None]
  /\ paidOut' = paidOut \ {o} /\ returned' = returned \ {o}

Next == \E o \in Orders : MoveOn(o) \/ PayOut(o) \/ CallOff(o) \/ ReturnLate(o) \/ Leave(o)

Spec == Init /\ [][Next]_<<status, paidOut, returned>>

===============================================================================
