-------------------------------- MODULE Escrow --------------------------------
(***************************************************************************)
(* What a marketplace promises that holds the price of an order until the  *)
(* item is on its way: the money is sent to the seller, or it goes back to *)
(* the buyer; once the seller has it, the buyer is refunded only after the *)
(* transfer was reversed, and a buyer who was refunded has the last word.  *)
(* An order that comes to the attention of a human, because something went *)
(* wrong with it, leaves the scheme.                                       *)
(***************************************************************************)
CONSTANT Orders

VARIABLES sent,      \* orders whose seller was sent the money,
          recalled,  \*   whose transfer was taken back
          refunded,  \*   and whose buyer was refunded
          lost       \* orders that left the scheme

ledger == <<sent, recalled, refunded>>

Init ==
  /\ sent = {} /\ recalled = {} /\ refunded = {}
  /\ lost = {}

Send(o) ==
  /\ o \notin sent \cup refunded \cup lost
  /\ sent' = sent \cup {o}
  /\ UNCHANGED <<recalled, refunded, lost>>

Recall(o) ==
  /\ o \in sent \ (recalled \cup refunded \cup lost)
  /\ recalled' = recalled \cup {o}
  /\ UNCHANGED <<sent, refunded, lost>>

Refund(o) ==
  /\ o \notin refunded \cup lost
  /\ o \in sent => o \in recalled
  /\ refunded' = refunded \cup {o}
  /\ UNCHANGED <<sent, recalled, lost>>

\* The scheme forgets what it knew of the order.
Lose(o) ==
  /\ o \notin lost
  /\ lost' = lost \cup {o}
  /\ sent' = sent \ {o} /\ recalled' = recalled \ {o} /\ refunded' = refunded \ {o}

Next == \E o \in Orders : Send(o) \/ Recall(o) \/ Refund(o) \/ Lose(o)

Spec == Init /\ [][Next]_<<ledger, lost>>

=============================================================================
