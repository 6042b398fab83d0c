--------------------------------- MODULE Sale ---------------------------------
(***************************************************************************)
(* What a shop of single items promises its buyers: an item is with one    *)
(* order at a time, from the moment its buyer begins to check out until    *)
(* the order has ended and the item was let go; an order that was placed   *)
(* ends only by being called off, and one that is over stays so.           *)
(***************************************************************************)
CONSTANTS Orders, Products, None

VARIABLES stage, \* how far each order got
          item   \* and what it is for

Stages == {"none", "checkout", "placed", "paid", "ending", "over"}

\* The order has its item.
Has(o) == stage[o] \in {"checkout", "placed", "paid", "ending"}

Init ==
  /\ stage = [o \in Orders |-> "none"]
  /\ item = [o \in Orders |-> None]

Take(o, p) ==
  /\ stage[o] = "none"
  /\ \A other \in Orders : Has(other) => item[other] # p
  /\ stage' = [stage EXCEPT ![o] = "checkout"]
  /\ item' = [item EXCEPT ![o] = p]

Move(o, from, next) ==
  /\ stage[o] \in from
  /\ stage' = [stage EXCEPT ![o] = next]
  /\ UNCHANGED item

Place(o)   == Move(o, {"checkout"}, "placed")
Pay(o)     == Move(o, {"placed"}, "paid")
CallOff(o) == Move(o, {"placed", "paid"}, "ending")
LetGo(o)   == Move(o, {"checkout", "ending"}, "over")

Next ==
  \E o \in Orders :
    \/ \E p \in Products : Take(o, p)
    \/ Place(o) \/ Pay(o) \/ CallOff(o) \/ LetGo(o)

Spec == Init /\ [][Next]_<<stage, item>>

=============================================================================
