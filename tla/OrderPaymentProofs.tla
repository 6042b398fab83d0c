------------------------- MODULE OrderPaymentProofs -------------------------
(***************************************************************************)
(* Proofs of the invariants of OrderPayment, for every number of orders,   *)
(* listings, buyers and handlers in flight, every environment and every    *)
(* number of faults.                                                       *)
(*                                                                         *)
(* None of the first three invariants is inductive: a handler acts on what *)
(* it read some awaits ago, so the proof has to say what of that is still  *)
(* true when it acts.  The four groups below do: which order a handler in  *)
(* flight works on (Known), that what was seen unpaid cannot have become   *)
(* paid (PaidInv), that a handler about to record a refund has made it     *)
(* (RefundInv), and that a usual order past its payment is settled, so the *)
(* webhook that finds nothing to do may be acknowledged (UsualInv).        *)
(*                                                                         *)
(* The last three sections are about the circumstances in which handlers   *)
(* do not overlap: one mover for each order (MoverInv), so that dead       *)
(* orders stay dead; one order for each listing (Exclusive), so that an    *)
(* item is sold once; and, from the two, that OrderPayment implements      *)
(* Sale (Progress).                                                        *)
(***************************************************************************)
EXTENDS OrderPayment, TLAPS

Unborn == {"unused", "draft"}

(* The order of a handler: a checkout has its own order number, which is a *)
(* draft; every other handler works on an order that exists.               *)
Known ==
  /\ \A e \in sent : status[e[2]] \notin Unborn
  /\ \A r \in Requests :
       /\ ~At(r, "idle") => on[r] \in Orders
       /\ at[r] \in CheckoutSteps => status[on[r]] = "draft"
       /\ at[r] \notin CheckoutSteps \cup {"idle"} => status[on[r]] \notin Unborn
       /\ at[r] \in {"adminRefund", "adminRelist", "adminSave"} => to[r] \in AdminTargets
       /\ at[r] \in {"adminRefund", "adminRelist"} => to[r] = "cancelled"
  /\ \A r1, r2 \in Requests :
       at[r1] \in CheckoutSteps /\ at[r2] \in CheckoutSteps /\ on[r1] = on[r2] => r1 = r2

Cancelling(r) ==
  \/ at[r] \in {"cancelRefund", "cancelSave"}
  \/ at[r] \in {"adminRefund", "adminRelist", "adminSave"} /\ to[r] = "cancelled"

PendingIsUnpaid ==
  \A o \in Orders :
    status[o] \in Unborn \cup {"pending_payment"} => payment[o] \in {"pending", "failed"}

(* An order seen unpaid by a handler that will cancel it was past          *)
(* PENDING_PAYMENT when it was read, so no webhook can claim it any more.  *)
SawUnpaid ==
  \A r \in Requests :
    Cancelling(r) /\ saw[r] # "paid" =>
      /\ payment[on[r]] # "paid"
      /\ status[on[r]] \notin Unborn \cup {"pending_payment"}

PaidInv == PendingIsUnpaid /\ DeadIsNotPaid /\ SawUnpaid

HasRefunded ==
  \A r \in Requests :
    \/ at[r] \in {"markLate", "markInvalid", "releaseInvalid"}
    \/ /\ at[r] \in {"cancelSave", "adminRelist", "adminSave"}
       /\ Cancelling(r)
       /\ saw[r] = "paid"
    => refund[on[r]] # "none"

RefundInv == HasRefunded /\ RefundedAtStripe

OnlyDeclinedFail ==
  /\ \A o \in Orders : payment[o] = "failed" => <<"failed", o>> \in sent
  /\ \A r \in Requests :
       at[r] \in {"saveFailed", "releaseFailed"} => <<"failed", on[r]>> \in sent

Settled(o) == payment[o] \in {"paid", "refunded"}

UsualIsSettled ==
  /\ \A o \in Orders :
       Usual(o) /\ status[o] \in Open \ {"pending_payment"} => Settled(o)
  /\ \A r \in Requests :
       Usual(on[r]) =>
         /\ at[r] = "secure" => Settled(on[r])
         /\ at[r] = "stale" => status[on[r]] # "pending_payment"
         /\ at[r] = "adminSave" /\ to[r] \notin {"cancelled", "secured"}
              => Settled(on[r])

NoMoneyBeforeOrder ==
  \A o \in Orders : status[o] \in Unborn => intent[o] # "captured"

UsualInv ==
  OnlyDeclinedFail /\ UsualIsSettled /\ NoMoneyBeforeOrder /\ UsualCaptureAccounted

IInv == TypeOK /\ Known /\ PaidInv /\ RefundInv /\ UsualInv

-----------------------------------------------------------------------------
\* Handlers stay on the order they started on, and only a checkout has a draft.
LEMMA KnownStep == TypeOK /\ Known /\ [Next]_vars => Known'
  <1> SUFFICES ASSUME TypeOK /\ Known, [Next]_vars PROVE Known'
    OBVIOUS
  <1> USE NoneAssumption, TargetAssumption DEF
        order, stripe, job, At, Goto, Return, Begin, Ack, SetOrder, Emit,
        StripeRefunds, TypeOK, Known, CheckoutSteps, Unborn, Open, Dead,
        Payable, Transitions, OrderStatuses, CancelAtStripe, AfterRefund,
        Refundable
  <1>1. ASSUME NEW o \in Orders, Pay(o) PROVE Known'
    BY <1>1 DEF Pay
  <1>2. ASSUME NEW o \in Orders, Decline(o) PROVE Known'
    BY <1>2 DEF Decline
  <1>3. ASSUME NEW p \in Products, NEW s \in ListingStatuses,
              EditListing(p, s) PROVE Known'
    BY <1>3 DEF EditListing
  <1>4. ASSUME NEW r \in Requests, NEW o \in Orders, NEW b \in Buyers,
              NEW p \in Products, Reserve(r, o, b, p) PROVE Known'
    BY <1>4 DEF Reserve
  <1>5. ASSUME NEW r \in Requests, CreateIntent(r) PROVE Known'
    BY <1>5 DEF CreateIntent
  <1>6. ASSUME NEW r \in Requests, CreateIntentThrows(r) PROVE Known'
    BY <1>6 DEF CreateIntentThrows
  <1>7. ASSUME NEW r \in Requests, InsertOrder(r) PROVE Known'
    BY <1>7 DEF InsertOrder
  <1>8. ASSUME NEW r \in Requests, InsertOrderThrows(r) PROVE Known'
    BY <1>8 DEF InsertOrderThrows
  <1>9. ASSUME NEW r \in Requests, UndoIntent(r) PROVE Known'
    BY <1>9 DEF UndoIntent
  <1>10. ASSUME NEW r \in Requests, UndoHold(r) PROVE Known'
    BY <1>10 DEF UndoHold
  <1>11. ASSUME NEW r \in Requests, ClaimPayment(r) PROVE Known'
    BY <1>11 DEF ClaimPayment
  <1>12. ASSUME NEW r \in Requests, FindStale(r) PROVE Known'
    BY <1>12 DEF FindStale
  <1>13. ASSUME NEW r \in Requests, RefundLate(r) PROVE Known'
    BY <1>13 DEF RefundLate
  <1>14. ASSUME NEW r \in Requests, MarkLate(r) PROVE Known'
    BY <1>14 DEF MarkLate
  <1>15. ASSUME NEW r \in Requests, SecureProduct(r) PROVE Known'
    BY <1>15 DEF SecureProduct
  <1>16. ASSUME NEW r \in Requests, RefundInvalid(r) PROVE Known'
    BY <1>16 DEF RefundInvalid
  <1>17. ASSUME NEW r \in Requests, MarkInvalid(r) PROVE Known'
    BY <1>17 DEF MarkInvalid
  <1>18. ASSUME NEW r \in Requests, ReleaseInvalid(r) PROVE Known'
    BY <1>18 DEF ReleaseInvalid
  <1>19. ASSUME NEW r \in Requests, SaveFailed(r) PROVE Known'
    BY <1>19 DEF SaveFailed
  <1>20. ASSUME NEW r \in Requests, ReleaseFailed(r) PROVE Known'
    BY <1>20 DEF ReleaseFailed
  <1>21. ASSUME NEW r \in Requests, RefundThrows(r) PROVE Known'
    BY <1>21 DEF RefundThrows
  <1>22. ASSUME NEW r \in Requests, CancelClaim(r) PROVE Known'
    BY <1>22 DEF CancelClaim
  <1>23. ASSUME NEW r \in Requests, CancelRefund(r) PROVE Known'
    BY <1>23 DEF CancelRefund
  <1>24. ASSUME NEW r \in Requests, CancelSave(r) PROVE Known'
    BY <1>24 DEF CancelSave
  <1>25. ASSUME NEW r \in Requests, Relist(r) PROVE Known'
    BY <1>25 DEF Relist
  <1>26. ASSUME NEW r \in Requests, CancelIntent(r) PROVE Known'
    BY <1>26 DEF CancelIntent
  <1>27. ASSUME NEW r \in Requests, Release(r) PROVE Known'
    BY <1>27 DEF Release
  <1>28. ASSUME NEW r \in Requests, AdminRefund(r) PROVE Known'
    BY <1>28 DEF AdminRefund
  <1>29. ASSUME NEW r \in Requests, AdminRelist(r) PROVE Known'
    BY <1>29 DEF AdminRelist
  <1>30. ASSUME NEW r \in Requests, AdminSave(r) PROVE Known'
    BY <1>30 DEF AdminSave
  <1>31. ASSUME NEW r \in Requests, Abort(r) PROVE Known'
    BY <1>31 DEF Abort
  <1>32. ASSUME NEW r \in Requests, NEW o \in Orders, ReceiveSucceeded(r, o) PROVE Known'
    BY <1>32 DEF ReceiveSucceeded
  <1>33. ASSUME NEW r \in Requests, NEW o \in Orders, ReceiveMismatched(r, o) PROVE Known'
    BY <1>33 DEF ReceiveMismatched
  <1>34. ASSUME NEW r \in Requests, NEW o \in Orders, ReceiveFailed(r, o) PROVE Known'
    BY <1>34 DEF ReceiveFailed
  <1>35. ASSUME NEW r \in Requests, NEW o \in Orders, StartCancel(r, o) PROVE Known'
    BY <1>35 DEF StartCancel
  <1>36. ASSUME NEW r \in Requests, NEW o \in Orders, Expire(r, o) PROVE Known'
    BY <1>36 DEF Expire
  <1>37. ASSUME NEW r \in Requests, NEW o \in Orders, NEW target \in AdminTargets,
              StartAdmin(r, o, target) PROVE Known'
    BY <1>37 DEF StartAdmin
  <1>38. CASE UNCHANGED vars
    BY <1>38 DEF vars
  <1> HIDE DEF
        order, stripe, job, At, Goto, Return, Begin, Ack, SetOrder, Emit,
        StripeRefunds, TypeOK, Known, CheckoutSteps, Unborn, Open, Dead,
        Payable, Transitions, OrderStatuses, CancelAtStripe, AfterRefund,
        Refundable
  <1> QED
    BY
      <1>1, <1>2, <1>3, <1>4, <1>5, <1>6, <1>7, <1>8, <1>9, <1>10, <1>11,
      <1>12, <1>13, <1>14, <1>15, <1>16, <1>17, <1>18, <1>19, <1>20, <1>21,
      <1>22, <1>23, <1>24, <1>25, <1>26, <1>27, <1>28, <1>29, <1>30, <1>31,
      <1>32, <1>33, <1>34, <1>35, <1>36, <1>37, <1>38
    DEF Next, Checkout, Receive, Webhook, Ending

\* Every variable keeps its type.
LEMMA TypeStep == TypeOK /\ Known /\ [Next]_vars => TypeOK'
  <1> SUFFICES ASSUME TypeOK /\ Known, [Next]_vars PROVE TypeOK'
    OBVIOUS
  <1> USE NoneAssumption, TargetAssumption, FaultAssumption DEF
        order, stripe, job, At, Goto, Return, Begin, Ack, SetOrder, Emit,
        StripeRefunds, TypeOK, Known, CheckoutSteps, Unborn, Open, Dead,
        SetProduct, Available, Listings, ListingStatuses, Steps,
        OrderStatuses, PaymentStatuses, EventTypes, CancelAtStripe,
        AfterRefund, FreeFromBuyer
  <1>1. ASSUME NEW o \in Orders, Pay(o) PROVE TypeOK'
    BY <1>1 DEF Pay
  <1>2. ASSUME NEW o \in Orders, Decline(o) PROVE TypeOK'
    BY <1>2 DEF Decline
  <1>3. ASSUME NEW p \in Products, NEW s \in ListingStatuses,
              EditListing(p, s) PROVE TypeOK'
    <2>1. [product[p] EXCEPT !.status = s] \in Listings
      OBVIOUS
    <2> QED
      BY <1>3, <2>1 DEF EditListing
  <1>4. ASSUME NEW r \in Requests, NEW o \in Orders, NEW b \in Buyers,
              NEW p \in Products, Reserve(r, o, b, p) PROVE TypeOK'
    BY <1>4 DEF Reserve
  <1>5. ASSUME NEW r \in Requests, CreateIntent(r) PROVE TypeOK'
    BY <1>5 DEF CreateIntent
  <1>6. ASSUME NEW r \in Requests, CreateIntentThrows(r) PROVE TypeOK'
    BY <1>6 DEF CreateIntentThrows
  <1>7. ASSUME NEW r \in Requests, InsertOrder(r) PROVE TypeOK'
    BY <1>7 DEF InsertOrder
  <1>8. ASSUME NEW r \in Requests, InsertOrderThrows(r) PROVE TypeOK'
    BY <1>8 DEF InsertOrderThrows
  <1>9. ASSUME NEW r \in Requests, UndoIntent(r) PROVE TypeOK'
    BY <1>9 DEF UndoIntent
  <1>10. ASSUME NEW r \in Requests, UndoHold(r) PROVE TypeOK'
    BY <1>10 DEF UndoHold
  <1>11. ASSUME NEW r \in Requests, ClaimPayment(r) PROVE TypeOK'
    BY <1>11, SMTT(40) DEF ClaimPayment
  <1>12. ASSUME NEW r \in Requests, FindStale(r) PROVE TypeOK'
    <2>1. CASE status[on[r]] \in Dead
      BY <1>12, <2>1 DEF FindStale
    <2>2. CASE status[on[r]] \notin Dead
      BY <1>12, <2>2, SMTT(40) DEF FindStale
    <2> QED
      BY <2>1, <2>2
  <1>13. ASSUME NEW r \in Requests, RefundLate(r) PROVE TypeOK'
    BY <1>13 DEF RefundLate
  <1>14. ASSUME NEW r \in Requests, MarkLate(r) PROVE TypeOK'
    BY <1>14 DEF MarkLate
  <1>15. ASSUME NEW r \in Requests, SecureProduct(r) PROVE TypeOK'
    <2>1. buyer[on[r]] \in Buyers \cup {None}
      BY <1>15 DEF SecureProduct
    <2>2. [status |-> "secured", buyer |-> buyer[on[r]], hold |-> None] \in Listings
      BY <2>1
    <2>3. product' \in [Products -> Listings]
      BY <1>15, <2>2 DEF SecureProduct
    <2> QED
      BY <1>15, <2>3 DEF SecureProduct
  <1>16. ASSUME NEW r \in Requests, RefundInvalid(r) PROVE TypeOK'
    BY <1>16 DEF RefundInvalid
  <1>17. ASSUME NEW r \in Requests, MarkInvalid(r) PROVE TypeOK'
    BY <1>17 DEF MarkInvalid
  <1>18. ASSUME NEW r \in Requests, ReleaseInvalid(r) PROVE TypeOK'
    <2>1. product' \in [Products -> Listings]
      BY <1>18 DEF ReleaseInvalid
    <2> QED
      BY <1>18, <2>1 DEF ReleaseInvalid
  <1>19. ASSUME NEW r \in Requests, SaveFailed(r) PROVE TypeOK'
    BY <1>19 DEF SaveFailed
  <1>20. ASSUME NEW r \in Requests, ReleaseFailed(r) PROVE TypeOK'
    BY <1>20 DEF ReleaseFailed
  <1>21. ASSUME NEW r \in Requests, RefundThrows(r) PROVE TypeOK'
    BY <1>21 DEF RefundThrows
  <1>22. ASSUME NEW r \in Requests, CancelClaim(r) PROVE TypeOK'
    <2>1. CASE Return(r) /\ UNCHANGED order
      BY <1>22, <2>1 DEF CancelClaim
    <2>2. CASE SetOrder(on[r], "cancelled", "pending") /\ Goto(r, "cancelIntent")
      BY <1>22, <2>2 DEF CancelClaim
    <2> QED
      BY <1>22, <2>1, <2>2 DEF CancelClaim
  <1>23. ASSUME NEW r \in Requests, CancelRefund(r) PROVE TypeOK'
    BY <1>23 DEF CancelRefund
  <1>24. ASSUME NEW r \in Requests, CancelSave(r) PROVE TypeOK'
    BY <1>24 DEF CancelSave
  <1>25. ASSUME NEW r \in Requests, Relist(r) PROVE TypeOK'
    BY <1>25 DEF Relist
  <1>26. ASSUME NEW r \in Requests, CancelIntent(r) PROVE TypeOK'
    BY <1>26 DEF CancelIntent
  <1>27. ASSUME NEW r \in Requests, Release(r) PROVE TypeOK'
    BY <1>27 DEF Release
  <1>28. ASSUME NEW r \in Requests, AdminRefund(r) PROVE TypeOK'
    BY <1>28 DEF AdminRefund
  <1>29. ASSUME NEW r \in Requests, AdminRelist(r) PROVE TypeOK'
    BY <1>29 DEF AdminRelist
  <1>30. ASSUME NEW r \in Requests, AdminSave(r) PROVE TypeOK'
    <2>1. forced' \subseteq Orders
      BY <1>30 DEF AdminSave
    <2>2. status' \in [Orders -> OrderStatuses]
      BY <1>30 DEF AdminSave
    <2>3. payment' \in [Orders -> PaymentStatuses]
      BY <1>30 DEF AdminSave
    <2>4. UNCHANGED <<product, buyer, item, stripe, owed, faults>> /\ Return(r)
      BY <1>30 DEF AdminSave
    <2> QED
      BY <2>1, <2>2, <2>3, <2>4
  <1>31. ASSUME NEW r \in Requests, Abort(r) PROVE TypeOK'
    BY <1>31 DEF Abort
  <1>32. ASSUME NEW r \in Requests, NEW o \in Orders, ReceiveSucceeded(r, o) PROVE TypeOK'
    BY <1>32 DEF ReceiveSucceeded
  <1>33. ASSUME NEW r \in Requests, NEW o \in Orders, ReceiveMismatched(r, o) PROVE TypeOK'
    BY <1>33 DEF ReceiveMismatched
  <1>34. ASSUME NEW r \in Requests, NEW o \in Orders, ReceiveFailed(r, o) PROVE TypeOK'
    <2>1. CASE payment[o] = "paid"
      BY <1>34, <2>1 DEF ReceiveFailed
    <2>2. CASE payment[o] # "paid"
      <3>1. Begin(r, o, "saveFailed", payment[o], None)
        BY <1>34, <2>2 DEF ReceiveFailed
      <3>2. UNCHANGED <<product, order, stripe, owed, forced, faults>>
        BY <1>34, <2>2 DEF ReceiveFailed
      <3> QED
        BY <3>1, <3>2
    <2> QED
      BY <2>1, <2>2
  <1>35. ASSUME NEW r \in Requests, NEW o \in Orders, StartCancel(r, o) PROVE TypeOK'
    BY <1>35 DEF StartCancel
  <1>36. ASSUME NEW r \in Requests, NEW o \in Orders, Expire(r, o) PROVE TypeOK'
    BY <1>36 DEF Expire
  <1>37. ASSUME NEW r \in Requests, NEW o \in Orders, NEW target \in AdminTargets,
              StartAdmin(r, o, target) PROVE TypeOK'
    BY <1>37 DEF StartAdmin
  <1>38. CASE UNCHANGED vars
    BY <1>38 DEF vars
  <1> HIDE DEF
        order, stripe, job, At, Goto, Return, Begin, Ack, SetOrder, Emit,
        StripeRefunds, TypeOK, Known, CheckoutSteps, Unborn, Open, Dead,
        SetProduct, Available, Listings, ListingStatuses, Steps,
        OrderStatuses, PaymentStatuses, EventTypes, CancelAtStripe,
        AfterRefund, FreeFromBuyer
  <1> QED
    BY
      <1>1, <1>2, <1>3, <1>4, <1>5, <1>6, <1>7, <1>8, <1>9, <1>10, <1>11,
      <1>12, <1>13, <1>14, <1>15, <1>16, <1>17, <1>18, <1>19, <1>20, <1>21,
      <1>22, <1>23, <1>24, <1>25, <1>26, <1>27, <1>28, <1>29, <1>30, <1>31,
      <1>32, <1>33, <1>34, <1>35, <1>36, <1>37, <1>38
    DEF Next, Checkout, Receive, Webhook, Ending

\* No step makes a dead order count as paid.
LEMMA PaidStep == TypeOK /\ Known /\ PaidInv /\ [Next]_vars => PaidInv'
  <1> SUFFICES ASSUME TypeOK /\ Known /\ PaidInv, [Next]_vars PROVE PaidInv'
    OBVIOUS
  <1> USE NoneAssumption, TargetAssumption DEF
        order, stripe, job, At, Goto, Return, Begin, Ack, SetOrder, Emit,
        StripeRefunds, TypeOK, Known, CheckoutSteps, Unborn, Open, Dead,
        Transitions, OrderStatuses, AfterRefund, PaidInv, PendingIsUnpaid,
        DeadIsNotPaid, SawUnpaid, Cancelling
  <1>1. ASSUME NEW o \in Orders, Pay(o) PROVE PaidInv'
    BY <1>1 DEF Pay
  <1>2. ASSUME NEW o \in Orders, Decline(o) PROVE PaidInv'
    BY <1>2 DEF Decline
  <1>3. ASSUME NEW p \in Products, NEW s \in ListingStatuses,
              EditListing(p, s) PROVE PaidInv'
    BY <1>3 DEF EditListing
  <1>4. ASSUME NEW r \in Requests, NEW o \in Orders, NEW b \in Buyers,
              NEW p \in Products, Reserve(r, o, b, p) PROVE PaidInv'
    BY <1>4 DEF Reserve
  <1>5. ASSUME NEW r \in Requests, CreateIntent(r) PROVE PaidInv'
    BY <1>5 DEF CreateIntent
  <1>6. ASSUME NEW r \in Requests, CreateIntentThrows(r) PROVE PaidInv'
    BY <1>6 DEF CreateIntentThrows
  <1>7. ASSUME NEW r \in Requests, InsertOrder(r) PROVE PaidInv'
    BY <1>7 DEF InsertOrder
  <1>8. ASSUME NEW r \in Requests, InsertOrderThrows(r) PROVE PaidInv'
    BY <1>8 DEF InsertOrderThrows
  <1>9. ASSUME NEW r \in Requests, UndoIntent(r) PROVE PaidInv'
    BY <1>9 DEF UndoIntent
  <1>10. ASSUME NEW r \in Requests, UndoHold(r) PROVE PaidInv'
    BY <1>10 DEF UndoHold
  <1>11. ASSUME NEW r \in Requests, ClaimPayment(r) PROVE PaidInv'
    BY <1>11 DEF ClaimPayment
  <1>12. ASSUME NEW r \in Requests, FindStale(r) PROVE PaidInv'
    BY <1>12 DEF FindStale
  <1>13. ASSUME NEW r \in Requests, RefundLate(r) PROVE PaidInv'
    BY <1>13 DEF RefundLate
  <1>14. ASSUME NEW r \in Requests, MarkLate(r) PROVE PaidInv'
    BY <1>14 DEF MarkLate
  <1>15. ASSUME NEW r \in Requests, SecureProduct(r) PROVE PaidInv'
    BY <1>15 DEF SecureProduct
  <1>16. ASSUME NEW r \in Requests, RefundInvalid(r) PROVE PaidInv'
    BY <1>16 DEF RefundInvalid
  <1>17. ASSUME NEW r \in Requests, MarkInvalid(r) PROVE PaidInv'
    BY <1>17 DEF MarkInvalid
  <1>18. ASSUME NEW r \in Requests, ReleaseInvalid(r) PROVE PaidInv'
    BY <1>18 DEF ReleaseInvalid
  <1>19. ASSUME NEW r \in Requests, SaveFailed(r) PROVE PaidInv'
    BY <1>19 DEF SaveFailed
  <1>20. ASSUME NEW r \in Requests, ReleaseFailed(r) PROVE PaidInv'
    BY <1>20 DEF ReleaseFailed
  <1>21. ASSUME NEW r \in Requests, RefundThrows(r) PROVE PaidInv'
    BY <1>21 DEF RefundThrows
  <1>22. ASSUME NEW r \in Requests, CancelClaim(r) PROVE PaidInv'
    BY <1>22 DEF CancelClaim
  <1>23. ASSUME NEW r \in Requests, CancelRefund(r) PROVE PaidInv'
    BY <1>23 DEF CancelRefund
  <1>24. ASSUME NEW r \in Requests, CancelSave(r) PROVE PaidInv'
    BY <1>24 DEF CancelSave
  <1>25. ASSUME NEW r \in Requests, Relist(r) PROVE PaidInv'
    BY <1>25 DEF Relist
  <1>26. ASSUME NEW r \in Requests, CancelIntent(r) PROVE PaidInv'
    BY <1>26 DEF CancelIntent
  <1>27. ASSUME NEW r \in Requests, Release(r) PROVE PaidInv'
    BY <1>27 DEF Release
  <1>28. ASSUME NEW r \in Requests, AdminRefund(r) PROVE PaidInv'
    BY <1>28 DEF AdminRefund
  <1>29. ASSUME NEW r \in Requests, AdminRelist(r) PROVE PaidInv'
    BY <1>29 DEF AdminRelist
  <1>30. ASSUME NEW r \in Requests, AdminSave(r) PROVE PaidInv'
    BY <1>30 DEF AdminSave
  <1>31. ASSUME NEW r \in Requests, Abort(r) PROVE PaidInv'
    BY <1>31 DEF Abort
  <1>32. ASSUME NEW r \in Requests, NEW o \in Orders, ReceiveSucceeded(r, o) PROVE PaidInv'
    BY <1>32 DEF ReceiveSucceeded
  <1>33. ASSUME NEW r \in Requests, NEW o \in Orders, ReceiveMismatched(r, o) PROVE PaidInv'
    BY <1>33 DEF ReceiveMismatched
  <1>34. ASSUME NEW r \in Requests, NEW o \in Orders, ReceiveFailed(r, o) PROVE PaidInv'
    BY <1>34 DEF ReceiveFailed
  <1>35. ASSUME NEW r \in Requests, NEW o \in Orders, StartCancel(r, o) PROVE PaidInv'
    BY <1>35 DEF StartCancel
  <1>36. ASSUME NEW r \in Requests, NEW o \in Orders, Expire(r, o) PROVE PaidInv'
    BY <1>36 DEF Expire
  <1>37. ASSUME NEW r \in Requests, NEW o \in Orders, NEW target \in AdminTargets,
              StartAdmin(r, o, target) PROVE PaidInv'
    BY <1>37 DEF StartAdmin
  <1>38. CASE UNCHANGED vars
    BY <1>38 DEF vars
  <1> HIDE DEF
        order, stripe, job, At, Goto, Return, Begin, Ack, SetOrder, Emit,
        StripeRefunds, TypeOK, Known, CheckoutSteps, Unborn, Open, Dead,
        Transitions, OrderStatuses, AfterRefund, PaidInv, PendingIsUnpaid,
        DeadIsNotPaid, SawUnpaid, Cancelling
  <1> QED
    BY
      <1>1, <1>2, <1>3, <1>4, <1>5, <1>6, <1>7, <1>8, <1>9, <1>10, <1>11,
      <1>12, <1>13, <1>14, <1>15, <1>16, <1>17, <1>18, <1>19, <1>20, <1>21,
      <1>22, <1>23, <1>24, <1>25, <1>26, <1>27, <1>28, <1>29, <1>30, <1>31,
      <1>32, <1>33, <1>34, <1>35, <1>36, <1>37, <1>38
    DEF Next, Checkout, Receive, Webhook, Ending

\* No step records a refund that was not made.
LEMMA RefundStep == TypeOK /\ Known /\ RefundInv /\ [Next]_vars => RefundInv'
  <1> SUFFICES ASSUME TypeOK /\ Known /\ RefundInv, [Next]_vars PROVE RefundInv'
    OBVIOUS
  <1> USE NoneAssumption, TargetAssumption DEF
        order, stripe, job, At, Goto, Return, Begin, Ack, SetOrder, Emit,
        StripeRefunds, TypeOK, Known, CheckoutSteps, Unborn, Open, Dead,
        AfterRefund, RefundInv, HasRefunded, RefundedAtStripe, Cancelling
  <1>1. ASSUME NEW o \in Orders, Pay(o) PROVE RefundInv'
    BY <1>1 DEF Pay
  <1>2. ASSUME NEW o \in Orders, Decline(o) PROVE RefundInv'
    BY <1>2 DEF Decline
  <1>3. ASSUME NEW p \in Products, NEW s \in ListingStatuses,
              EditListing(p, s) PROVE RefundInv'
    BY <1>3 DEF EditListing
  <1>4. ASSUME NEW r \in Requests, NEW o \in Orders, NEW b \in Buyers,
              NEW p \in Products, Reserve(r, o, b, p) PROVE RefundInv'
    BY <1>4 DEF Reserve
  <1>5. ASSUME NEW r \in Requests, CreateIntent(r) PROVE RefundInv'
    BY <1>5 DEF CreateIntent
  <1>6. ASSUME NEW r \in Requests, CreateIntentThrows(r) PROVE RefundInv'
    BY <1>6 DEF CreateIntentThrows
  <1>7. ASSUME NEW r \in Requests, InsertOrder(r) PROVE RefundInv'
    BY <1>7 DEF InsertOrder
  <1>8. ASSUME NEW r \in Requests, InsertOrderThrows(r) PROVE RefundInv'
    BY <1>8 DEF InsertOrderThrows
  <1>9. ASSUME NEW r \in Requests, UndoIntent(r) PROVE RefundInv'
    BY <1>9 DEF UndoIntent
  <1>10. ASSUME NEW r \in Requests, UndoHold(r) PROVE RefundInv'
    BY <1>10 DEF UndoHold
  <1>11. ASSUME NEW r \in Requests, ClaimPayment(r) PROVE RefundInv'
    BY <1>11 DEF ClaimPayment
  <1>12. ASSUME NEW r \in Requests, FindStale(r) PROVE RefundInv'
    BY <1>12 DEF FindStale
  <1>13. ASSUME NEW r \in Requests, RefundLate(r) PROVE RefundInv'
    BY <1>13 DEF RefundLate
  <1>14. ASSUME NEW r \in Requests, MarkLate(r) PROVE RefundInv'
    BY <1>14 DEF MarkLate
  <1>15. ASSUME NEW r \in Requests, SecureProduct(r) PROVE RefundInv'
    BY <1>15 DEF SecureProduct
  <1>16. ASSUME NEW r \in Requests, RefundInvalid(r) PROVE RefundInv'
    BY <1>16 DEF RefundInvalid
  <1>17. ASSUME NEW r \in Requests, MarkInvalid(r) PROVE RefundInv'
    BY <1>17 DEF MarkInvalid
  <1>18. ASSUME NEW r \in Requests, ReleaseInvalid(r) PROVE RefundInv'
    BY <1>18 DEF ReleaseInvalid
  <1>19. ASSUME NEW r \in Requests, SaveFailed(r) PROVE RefundInv'
    BY <1>19 DEF SaveFailed
  <1>20. ASSUME NEW r \in Requests, ReleaseFailed(r) PROVE RefundInv'
    BY <1>20 DEF ReleaseFailed
  <1>21. ASSUME NEW r \in Requests, RefundThrows(r) PROVE RefundInv'
    BY <1>21 DEF RefundThrows
  <1>22. ASSUME NEW r \in Requests, CancelClaim(r) PROVE RefundInv'
    BY <1>22 DEF CancelClaim
  <1>23. ASSUME NEW r \in Requests, CancelRefund(r) PROVE RefundInv'
    BY <1>23 DEF CancelRefund
  <1>24. ASSUME NEW r \in Requests, CancelSave(r) PROVE RefundInv'
    BY <1>24 DEF CancelSave
  <1>25. ASSUME NEW r \in Requests, Relist(r) PROVE RefundInv'
    BY <1>25 DEF Relist
  <1>26. ASSUME NEW r \in Requests, CancelIntent(r) PROVE RefundInv'
    BY <1>26 DEF CancelIntent
  <1>27. ASSUME NEW r \in Requests, Release(r) PROVE RefundInv'
    BY <1>27 DEF Release
  <1>28. ASSUME NEW r \in Requests, AdminRefund(r) PROVE RefundInv'
    BY <1>28 DEF AdminRefund
  <1>29. ASSUME NEW r \in Requests, AdminRelist(r) PROVE RefundInv'
    BY <1>29 DEF AdminRelist
  <1>30. ASSUME NEW r \in Requests, AdminSave(r) PROVE RefundInv'
    BY <1>30 DEF AdminSave
  <1>31. ASSUME NEW r \in Requests, Abort(r) PROVE RefundInv'
    BY <1>31 DEF Abort
  <1>32. ASSUME NEW r \in Requests, NEW o \in Orders, ReceiveSucceeded(r, o) PROVE RefundInv'
    BY <1>32 DEF ReceiveSucceeded
  <1>33. ASSUME NEW r \in Requests, NEW o \in Orders, ReceiveMismatched(r, o) PROVE RefundInv'
    BY <1>33 DEF ReceiveMismatched
  <1>34. ASSUME NEW r \in Requests, NEW o \in Orders, ReceiveFailed(r, o) PROVE RefundInv'
    BY <1>34 DEF ReceiveFailed
  <1>35. ASSUME NEW r \in Requests, NEW o \in Orders, StartCancel(r, o) PROVE RefundInv'
    BY <1>35 DEF StartCancel
  <1>36. ASSUME NEW r \in Requests, NEW o \in Orders, Expire(r, o) PROVE RefundInv'
    BY <1>36 DEF Expire
  <1>37. ASSUME NEW r \in Requests, NEW o \in Orders, NEW target \in AdminTargets,
              StartAdmin(r, o, target) PROVE RefundInv'
    BY <1>37 DEF StartAdmin
  <1>38. CASE UNCHANGED vars
    BY <1>38 DEF vars
  <1> HIDE DEF
        order, stripe, job, At, Goto, Return, Begin, Ack, SetOrder, Emit,
        StripeRefunds, TypeOK, Known, CheckoutSteps, Unborn, Open, Dead,
        AfterRefund, RefundInv, HasRefunded, RefundedAtStripe, Cancelling
  <1> QED
    BY
      <1>1, <1>2, <1>3, <1>4, <1>5, <1>6, <1>7, <1>8, <1>9, <1>10, <1>11,
      <1>12, <1>13, <1>14, <1>15, <1>16, <1>17, <1>18, <1>19, <1>20, <1>21,
      <1>22, <1>23, <1>24, <1>25, <1>26, <1>27, <1>28, <1>29, <1>30, <1>31,
      <1>32, <1>33, <1>34, <1>35, <1>36, <1>37, <1>38
    DEF Next, Checkout, Receive, Webhook, Ending

\* No step loses captured money of a usual order.
LEMMA UsualStep == TypeOK /\ Known /\ PaidInv /\ RefundInv /\ UsualInv /\ [Next]_vars => UsualInv'
  <1> SUFFICES ASSUME TypeOK /\ Known /\ PaidInv /\ RefundInv /\ UsualInv, [Next]_vars PROVE UsualInv'
    OBVIOUS
  <1> USE NoneAssumption, TargetAssumption DEF
        order, stripe, job, At, Goto, Return, Begin, Ack, SetOrder, Emit,
        StripeRefunds, TypeOK, Known, CheckoutSteps, Unborn, Open, Dead,
        AfterRefund, PaidInv, PendingIsUnpaid, RefundInv, HasRefunded,
        RefundedAtStripe, Cancelling, UsualInv, OnlyDeclinedFail,
        UsualIsSettled, NoMoneyBeforeOrder, UsualCaptureAccounted, Settled,
        Accounted, Usual, Payable, Transitions, OrderStatuses,
        CancelAtStripe
  <1>1. ASSUME NEW o \in Orders, Pay(o) PROVE UsualInv'
    BY <1>1 DEF Pay
  <1>2. ASSUME NEW o \in Orders, Decline(o) PROVE UsualInv'
    BY <1>2 DEF Decline
  <1>3. ASSUME NEW p \in Products, NEW s \in ListingStatuses,
              EditListing(p, s) PROVE UsualInv'
    BY <1>3 DEF EditListing
  <1>4. ASSUME NEW r \in Requests, NEW o \in Orders, NEW b \in Buyers,
              NEW p \in Products, Reserve(r, o, b, p) PROVE UsualInv'
    BY <1>4 DEF Reserve
  <1>5. ASSUME NEW r \in Requests, CreateIntent(r) PROVE UsualInv'
    BY <1>5 DEF CreateIntent
  <1>6. ASSUME NEW r \in Requests, CreateIntentThrows(r) PROVE UsualInv'
    BY <1>6 DEF CreateIntentThrows
  <1>7. ASSUME NEW r \in Requests, InsertOrder(r) PROVE UsualInv'
    BY <1>7 DEF InsertOrder
  <1>8. ASSUME NEW r \in Requests, InsertOrderThrows(r) PROVE UsualInv'
    BY <1>8 DEF InsertOrderThrows
  <1>9. ASSUME NEW r \in Requests, UndoIntent(r) PROVE UsualInv'
    BY <1>9 DEF UndoIntent
  <1>10. ASSUME NEW r \in Requests, UndoHold(r) PROVE UsualInv'
    BY <1>10 DEF UndoHold
  <1>11. ASSUME NEW r \in Requests, ClaimPayment(r) PROVE UsualInv'
    BY <1>11 DEF ClaimPayment
  <1>12. ASSUME NEW r \in Requests, FindStale(r) PROVE UsualInv'
    BY <1>12 DEF FindStale
  <1>13. ASSUME NEW r \in Requests, RefundLate(r) PROVE UsualInv'
    BY <1>13 DEF RefundLate
  <1>14. ASSUME NEW r \in Requests, MarkLate(r) PROVE UsualInv'
    BY <1>14 DEF MarkLate
  <1>15. ASSUME NEW r \in Requests, SecureProduct(r) PROVE UsualInv'
    BY <1>15 DEF SecureProduct
  <1>16. ASSUME NEW r \in Requests, RefundInvalid(r) PROVE UsualInv'
    BY <1>16 DEF RefundInvalid
  <1>17. ASSUME NEW r \in Requests, MarkInvalid(r) PROVE UsualInv'
    BY <1>17 DEF MarkInvalid
  <1>18. ASSUME NEW r \in Requests, ReleaseInvalid(r) PROVE UsualInv'
    BY <1>18 DEF ReleaseInvalid
  <1>19. ASSUME NEW r \in Requests, SaveFailed(r) PROVE UsualInv'
    BY <1>19 DEF SaveFailed
  <1>20. ASSUME NEW r \in Requests, ReleaseFailed(r) PROVE UsualInv'
    BY <1>20 DEF ReleaseFailed
  <1>21. ASSUME NEW r \in Requests, RefundThrows(r) PROVE UsualInv'
    BY <1>21 DEF RefundThrows
  <1>22. ASSUME NEW r \in Requests, CancelClaim(r) PROVE UsualInv'
    BY <1>22 DEF CancelClaim
  <1>23. ASSUME NEW r \in Requests, CancelRefund(r) PROVE UsualInv'
    BY <1>23 DEF CancelRefund
  <1>24. ASSUME NEW r \in Requests, CancelSave(r) PROVE UsualInv'
    BY <1>24 DEF CancelSave
  <1>25. ASSUME NEW r \in Requests, Relist(r) PROVE UsualInv'
    BY <1>25 DEF Relist
  <1>26. ASSUME NEW r \in Requests, CancelIntent(r) PROVE UsualInv'
    BY <1>26 DEF CancelIntent
  <1>27. ASSUME NEW r \in Requests, Release(r) PROVE UsualInv'
    BY <1>27 DEF Release
  <1>28. ASSUME NEW r \in Requests, AdminRefund(r) PROVE UsualInv'
    BY <1>28 DEF AdminRefund
  <1>29. ASSUME NEW r \in Requests, AdminRelist(r) PROVE UsualInv'
    BY <1>29 DEF AdminRelist
  <1>30. ASSUME NEW r \in Requests, AdminSave(r) PROVE UsualInv'
    <2>1. OnlyDeclinedFail'
      BY <1>30 DEF AdminSave
    <2>2. UsualIsSettled'
      <3>1. CASE to[r] = "secured"
        BY <1>30, <3>1 DEF AdminSave
      <3>2. CASE to[r] = "cancelled"
        BY <1>30, <3>2 DEF AdminSave
      <3>3. CASE to[r] \notin {"secured", "cancelled"}
        BY <1>30, <3>3 DEF AdminSave
      <3> QED
        BY <3>1, <3>2, <3>3
    <2>3. NoMoneyBeforeOrder'
      BY <1>30 DEF AdminSave
    <2>4. UsualCaptureAccounted'
      BY <1>30 DEF AdminSave
    <2> QED
      BY <2>1, <2>2, <2>3, <2>4
  <1>31. ASSUME NEW r \in Requests, Abort(r) PROVE UsualInv'
    BY <1>31 DEF Abort
  <1>32. ASSUME NEW r \in Requests, NEW o \in Orders, ReceiveSucceeded(r, o) PROVE UsualInv'
    BY <1>32 DEF ReceiveSucceeded
  <1>33. ASSUME NEW r \in Requests, NEW o \in Orders, ReceiveMismatched(r, o) PROVE UsualInv'
    BY <1>33 DEF ReceiveMismatched
  <1>34. ASSUME NEW r \in Requests, NEW o \in Orders, ReceiveFailed(r, o) PROVE UsualInv'
    <2>1. CASE payment[o] = "paid"
      BY <1>34, <2>1 DEF ReceiveFailed
    <2>2. CASE payment[o] # "paid"
      BY <1>34, <2>2 DEF ReceiveFailed
    <2> QED
      BY <2>1, <2>2
  <1>35. ASSUME NEW r \in Requests, NEW o \in Orders, StartCancel(r, o) PROVE UsualInv'
    BY <1>35 DEF StartCancel
  <1>36. ASSUME NEW r \in Requests, NEW o \in Orders, Expire(r, o) PROVE UsualInv'
    BY <1>36 DEF Expire
  <1>37. ASSUME NEW r \in Requests, NEW o \in Orders, NEW target \in AdminTargets,
              StartAdmin(r, o, target) PROVE UsualInv'
    BY <1>37 DEF StartAdmin
  <1>38. CASE UNCHANGED vars
    BY <1>38 DEF vars
  <1> HIDE DEF
        order, stripe, job, At, Goto, Return, Begin, Ack, SetOrder, Emit,
        StripeRefunds, TypeOK, Known, CheckoutSteps, Unborn, Open, Dead,
        AfterRefund, PaidInv, PendingIsUnpaid, RefundInv, HasRefunded,
        RefundedAtStripe, Cancelling, UsualInv, OnlyDeclinedFail,
        UsualIsSettled, NoMoneyBeforeOrder, UsualCaptureAccounted, Settled,
        Accounted, Usual, Payable, Transitions, OrderStatuses,
        CancelAtStripe
  <1> QED
    BY
      <1>1, <1>2, <1>3, <1>4, <1>5, <1>6, <1>7, <1>8, <1>9, <1>10, <1>11,
      <1>12, <1>13, <1>14, <1>15, <1>16, <1>17, <1>18, <1>19, <1>20, <1>21,
      <1>22, <1>23, <1>24, <1>25, <1>26, <1>27, <1>28, <1>29, <1>30, <1>31,
      <1>32, <1>33, <1>34, <1>35, <1>36, <1>37, <1>38
    DEF Next, Checkout, Receive, Webhook, Ending

\* The inductive invariant holds before anything was bought.
LEMMA Initially == Init => IInv
BY FaultAssumption, NoneAssumption
DEF Init, IInv, TypeOK, Known, PaidInv, PendingIsUnpaid, DeadIsNotPaid, SawUnpaid,
    RefundInv, HasRefunded, RefundedAtStripe, UsualInv, OnlyDeclinedFail, UsualIsSettled,
    NoMoneyBeforeOrder, UsualCaptureAccounted, Accounted, Cancelling, CheckoutSteps, Unborn,
    Available, Listings, ListingStatuses, Steps, OrderStatuses, Open, Dead, PaymentStatuses,
    EventTypes, At

\* The inductive invariant holds in every reachable state.
THEOREM Invariance == Spec => []IInv
  <1>1. IInv /\ [Next]_vars => IInv'
    BY KnownStep, TypeStep, PaidStep, RefundStep, UsualStep DEF IInv
  <1> QED
    BY Initially, <1>1, PTL DEF Spec

\* Every variable has its type in every reachable state.
THEOREM Typing == Spec => []TypeOK
  <1>1. IInv => TypeOK
    BY DEF IInv
  <1> QED
    BY Invariance, <1>1, PTL

\* However the handlers interleave, no cancelled or refunded order counts as paid.
THEOREM DeadNeverPaid == Spec => []DeadIsNotPaid
  <1>1. IInv => DeadIsNotPaid
    BY DEF IInv, PaidInv
  <1> QED
    BY Invariance, <1>1, PTL

\* A payment recorded as refunded has been refunded at Stripe.
THEOREM RefundsAreMade == Spec => []RefundedAtStripe
  <1>1. IInv => RefundedAtStripe
    BY DEF IInv, RefundInv
  <1> QED
    BY Invariance, <1>1, PTL

\* Captured money of a usual order is recorded, returned, or still being reported.
THEOREM CaptureNeverLost == Spec => []UsualCaptureAccounted
  <1>1. IInv => UsualCaptureAccounted
    BY DEF IInv, UsualInv
  <1> QED
    BY Invariance, <1>1, PTL

-----------------------------------------------------------------------------
(* One handler at a time moves an order on: what follows where nobody may  *)
(* overlap with it, and no payment comes in that has to be refused.        *)

\* Movers of one order are one handler.
OneMover ==
  \A r1, r2 \in Requests :
    at[r1] \in Movers /\ at[r2] \in Movers /\ on[r1] = on[r2] => r1 = r2

\* What a mover is about to end or to save is open; what it has ended is dead.
Moving(r) ==
  /\ at[r] \in {"cancelRefund", "cancelSave", "adminRefund", "adminRelist", "adminSave"}
       => status[on[r]] \in Open
  /\ at[r] \in Ends => status[on[r]] \in Dead
  /\ at[r] = "adminSave" => to[r] \in AdminTargets

\* No payment of another amount was reported.
NoMismatch ==
  /\ \A e \in sent : e[1] # "mismatched"
  /\ \A r \in Requests : at[r] \notin {"refundInvalid", "markInvalid", "releaseInvalid"}

MoverInv == NoMismatch /\ OneMover /\ \A r \in Requests : Moving(r)

\* The circumstances in which it holds.
OneAtATime == Env \cap {"overlap", "mismatch"} = {}

\* A step of handler r leaves the others alone.
OthersWait(r) ==
  \A q \in Requests \ {r} : at'[q] = at[q] /\ on'[q] = on[q] /\ to'[q] = to[q]

\* A handler in flight keeps to its order and becomes no other kind of handler.
Local(r) ==
  /\ OthersWait(r)
  /\ UNCHANGED <<sent, item>>
  /\ on'[r] = on[r] \/ at'[r] = "idle"
  /\ at'[r] \in Movers => at[r] \in Movers
  /\ at'[r] \in CheckoutSteps => at[r] \in CheckoutSteps
  /\ at'[r] \in {"saveFailed", "releaseFailed"} => at[r] \in {"saveFailed", "releaseFailed"}
  /\ at'[r] \in {"refundInvalid", "markInvalid", "releaseInvalid"}
       => at[r] \in {"refundInvalid", "markInvalid", "releaseInvalid"}
  /\ \A o \in Orders : o # on[r] => status'[o] = status[o]

LEMMA HandlerLocal ==
  ASSUME TypeOK, NEW r \in Requests, Checkout(r) \/ Webhook(r) \/ Ending(r) \/ Abort(r)
  PROVE  Local(r)
  <1> USE DEF
        order, stripe, job, At, Goto, Return, Ack, SetOrder, TypeOK, Local,
        OthersWait, CheckoutSteps, Movers
  <1>1. CASE CreateIntent(r)
    BY <1>1 DEF CreateIntent
  <1>2. CASE CreateIntentThrows(r)
    BY <1>2 DEF CreateIntentThrows
  <1>3. CASE InsertOrder(r)
    BY <1>3 DEF InsertOrder
  <1>4. CASE InsertOrderThrows(r)
    BY <1>4 DEF InsertOrderThrows
  <1>5. CASE UndoIntent(r)
    BY <1>5 DEF UndoIntent
  <1>6. CASE UndoHold(r)
    BY <1>6 DEF UndoHold
  <1>7. CASE ClaimPayment(r)
    BY <1>7 DEF ClaimPayment
  <1>8. CASE FindStale(r)
    BY <1>8 DEF FindStale
  <1>9. CASE RefundLate(r)
    BY <1>9 DEF RefundLate, StripeRefunds
  <1>10. CASE MarkLate(r)
    BY <1>10 DEF MarkLate
  <1>11. CASE SecureProduct(r)
    BY <1>11 DEF SecureProduct
  <1>12. CASE RefundInvalid(r)
    BY <1>12 DEF RefundInvalid, StripeRefunds
  <1>13. CASE MarkInvalid(r)
    BY <1>13 DEF MarkInvalid
  <1>14. CASE ReleaseInvalid(r)
    BY <1>14 DEF ReleaseInvalid
  <1>15. CASE SaveFailed(r)
    BY <1>15 DEF SaveFailed
  <1>16. CASE ReleaseFailed(r)
    BY <1>16 DEF ReleaseFailed
  <1>17. CASE RefundThrows(r)
    BY <1>17 DEF RefundThrows
  <1>18. CASE CancelClaim(r)
    BY <1>18 DEF CancelClaim
  <1>19. CASE CancelRefund(r)
    BY <1>19 DEF CancelRefund, StripeRefunds
  <1>20. CASE CancelSave(r)
    BY <1>20 DEF CancelSave
  <1>21. CASE Relist(r)
    BY <1>21 DEF Relist
  <1>22. CASE CancelIntent(r)
    BY <1>22 DEF CancelIntent
  <1>23. CASE Release(r)
    BY <1>23 DEF Release
  <1>24. CASE AdminRefund(r)
    BY <1>24 DEF AdminRefund, StripeRefunds
  <1>25. CASE AdminRelist(r)
    BY <1>25 DEF AdminRelist
  <1>26. CASE AdminSave(r)
    BY <1>26 DEF AdminSave
  <1>27. CASE Abort(r)
    BY <1>27 DEF Abort
  <1> HIDE DEF
        order, stripe, job, At, Goto, Return, Ack, SetOrder, TypeOK, Local,
        OthersWait, CheckoutSteps, Movers
  <1> QED
    BY <1>1, <1>2, <1>3, <1>4, <1>5, <1>6, <1>7, <1>8, <1>9, <1>10, <1>11, <1>12,
       <1>13, <1>14, <1>15, <1>16, <1>17, <1>18, <1>19, <1>20, <1>21, <1>22, <1>23,
       <1>24, <1>25, <1>26, <1>27
    DEF Checkout, Webhook, Ending

\* Nobody but a mover ends an order, and no order comes back to life.
LEMMA WebhookStatus ==
  ASSUME TypeOK, Known, NoMismatch, NEW r \in Requests, at[r] \notin Movers,
         Checkout(r) \/ Webhook(r) \/ Ending(r) \/ Abort(r)
  PROVE  /\ status[on[r]] \in Open => status'[on[r]] \in Open
         /\ status[on[r]] \in Dead => status'[on[r]] \in Dead
         /\ status'[on[r]] \in Open => status[on[r]] \in Open \/ at[r] = "insert"
  <1>1. on[r] \in Orders /\ at[r] # "idle"
    BY DEF Known, At, Checkout, Webhook, Ending, Abort, CreateIntent, CreateIntentThrows,
           InsertOrder, InsertOrderThrows, UndoIntent, UndoHold, ClaimPayment, FindStale,
           RefundLate, MarkLate, SecureProduct, RefundInvalid, MarkInvalid, ReleaseInvalid,
           SaveFailed, ReleaseFailed, RefundThrows, CancelClaim, CancelRefund, CancelSave,
           Relist, CancelIntent, Release, AdminRefund, AdminRelist, AdminSave
  <1>2. CASE InsertOrder(r)
    <2>1. status[on[r]] = "draft"
      BY <1>2 DEF InsertOrder, At, Known, CheckoutSteps
    <2> QED
      BY <1>2, <2>1 DEF InsertOrder, At, Open, Dead
  <1>3. CASE ClaimPayment(r)
    BY <1>1, <1>3 DEF ClaimPayment, SetOrder, order, TypeOK, Open, Dead
  <1>4. CASE MarkLate(r)
    BY <1>1, <1>4 DEF MarkLate, SetOrder, order, TypeOK, Open, Dead
  <1>5. CASE SaveFailed(r)
    BY <1>1, <1>5 DEF SaveFailed, SetOrder, order, TypeOK
  <1>6. CASE ~InsertOrder(r) /\ ~ClaimPayment(r) /\ ~MarkLate(r) /\ ~SaveFailed(r)
    <2>1. status' = status
      BY <1>6 DEF order, At, Movers, NoMismatch, Checkout, Webhook, Ending, Abort,
           CreateIntent, CreateIntentThrows, InsertOrderThrows, UndoIntent, UndoHold, FindStale,
           RefundLate, SecureProduct, RefundInvalid, MarkInvalid, ReleaseInvalid,
           ReleaseFailed, RefundThrows, CancelClaim, CancelRefund, CancelSave,
           Relist, CancelIntent, Release, AdminRefund, AdminRelist, AdminSave
    <2> QED
      BY <2>1
  <1> QED
    BY <1>2, <1>3, <1>4, <1>5, <1>6

\* A mover ends an order that is open, and saves only what is open still.
LEMMA MoverStatus ==
  ASSUME TypeOK, Known, NEW r \in Requests, at[r] \in Movers, Moving(r),
         Checkout(r) \/ Webhook(r) \/ Ending(r) \/ Abort(r)
  PROVE  /\ Moving(r)'
         /\ status[on[r]] \in Dead => status'[on[r]] \in Dead
         /\ status'[on[r]] \in Open => status[on[r]] \in Open
         /\ at'[r] \in Ends => at[r] \in Ends \/ status[on[r]] \in Open
  <1>1. on[r] \in Orders
    BY DEF Known, At, Movers
  <1> USE DEF At, Goto, Return, SetOrder, order, job, stripe, TypeOK, Moving, Ends, Open, Dead
  <1>2. CASE CancelClaim(r)
    BY <1>1, <1>2 DEF CancelClaim
  <1>3. CASE CancelRefund(r)
    BY <1>1, <1>3 DEF CancelRefund
  <1>4. CASE CancelSave(r)
    BY <1>1, <1>4 DEF CancelSave
  <1>5. CASE Relist(r)
    BY <1>1, <1>5 DEF Relist
  <1>6. CASE CancelIntent(r)
    BY <1>1, <1>6 DEF CancelIntent
  <1>7. CASE Release(r)
    BY <1>1, <1>7 DEF Release
  <1>8. CASE AdminRefund(r)
    BY <1>1, <1>8 DEF AdminRefund, Known
  <1>9. CASE AdminRelist(r)
    BY <1>1, <1>9 DEF AdminRelist, Known
  <1>10. CASE AdminSave(r)
    <2>1. status[on[r]] \in Open
      BY <1>10 DEF AdminSave
    <2>2. at'[r] = "idle"
      BY <1>10 DEF AdminSave
    <2> QED
      BY <2>1, <2>2
  <1>11. CASE RefundThrows(r) \/ Abort(r)
    BY <1>1, <1>11 DEF RefundThrows, Abort
  <1>12. ~Checkout(r) /\ (Webhook(r) => RefundThrows(r))
    BY DEF Movers, Checkout, Webhook, CreateIntent, CreateIntentThrows,
           InsertOrder, InsertOrderThrows, UndoIntent, UndoHold, ClaimPayment, FindStale,
           RefundLate, MarkLate, SecureProduct, RefundInvalid, MarkInvalid, ReleaseInvalid,
           SaveFailed, ReleaseFailed
  <1> QED
    BY <1>2, <1>3, <1>4, <1>5, <1>6, <1>7, <1>8, <1>9, <1>10, <1>11, <1>12 DEF Ending

\* A handler that begins changes no other, and moves an order on only if no
\* other handler does.
Beginning(r, o) ==
  /\ OthersWait(r)
  /\ at'[r] \in Movers =>
       /\ on'[r] = o
       /\ "overlap" \notin Env => \A q \in Requests : on[q] = o => at[q] \notin Movers
  /\ Moving(r)'
  /\ at'[r] \in {"refundInvalid", "markInvalid", "releaseInvalid"}
       => \E e \in sent : e[1] = "mismatched"
  /\ at'[r] \in {"saveFailed", "releaseFailed"} => \E e \in sent : e[1] = "failed"
  /\ \A p \in Orders \ {o} : status'[p] = status[p] /\ item'[p] = item[p]
  /\ sent' = sent
  /\ \/ status'[o] = status[o]
     \/ status[o] = "unused"
     \/ "overlap" \notin Env => \A q \in Requests : on[q] = o => at[q] \notin Movers
  /\ status[o] \in Dead => status'[o] = status[o]

LEMMA StartLocal ==
  ASSUME TypeOK, NEW r \in Requests, NEW o \in Orders, at[r] = "idle",
         \/ \E b \in Buyers, p \in Products : Reserve(r, o, b, p)
         \/ Receive(r, o) \/ StartCancel(r, o) \/ Expire(r, o)
         \/ \E target \in AdminTargets : StartAdmin(r, o, target)
  PROVE  Beginning(r, o)
  <1> USE DEF Begin, At, SetOrder, order, job, stripe, TypeOK, Beginning, OthersWait, Moving,
              Ends, Open, Dead, Movers
  <1>1. ASSUME NEW b \in Buyers, NEW p \in Products, Reserve(r, o, b, p)
        PROVE  Beginning(r, o)
    BY <1>1 DEF Reserve
  <1>2. CASE ReceiveSucceeded(r, o)
    BY <1>2 DEF ReceiveSucceeded
  <1>3. CASE ReceiveMismatched(r, o)
    BY <1>3 DEF ReceiveMismatched
  <1>4. CASE ReceiveFailed(r, o)
    <2>1. CASE payment[o] = "paid"
      BY <1>4, <2>1 DEF ReceiveFailed
    <2>2. CASE payment[o] # "paid"
      BY <1>4, <2>2 DEF ReceiveFailed
    <2> QED
      BY <2>1, <2>2
  <1>5. CASE StartCancel(r, o)
    BY <1>5 DEF StartCancel, Free
  <1>6. CASE Expire(r, o)
    BY <1>6 DEF Expire, Free
  <1>7. ASSUME NEW target \in AdminTargets, StartAdmin(r, o, target)
        PROVE  Beginning(r, o)
    <2>1. status[o] \in Open
      BY <1>7 DEF StartAdmin, Transitions, OrderStatuses
    <2>2. /\ at'[r] \in {"adminSave", "adminRefund", "adminRelist"}
          /\ at' = [at EXCEPT ![r] = at'[r]]
          /\ on' = [on EXCEPT ![r] = o] /\ to' = [to EXCEPT ![r] = target]
          /\ UNCHANGED <<status, item, sent>>
      BY <1>7 DEF StartAdmin
    <2> QED
      BY <1>7, <2>1, <2>2 DEF StartAdmin, Free
  <1> QED
    BY <1>1, <1>2, <1>3, <1>4, <1>5, <1>6, <1>7 DEF Receive

\* What the environment does touches no handler and no order document.
LEMMA EnvLocal ==
  ASSUME \/ \E o \in Orders : Pay(o) \/ Decline(o)
         \/ \E p \in Products, s \in ListingStatuses : EditListing(p, s)
         \/ UNCHANGED vars
  PROVE  /\ UNCHANGED <<order, job>>
         /\ \A e \in sent' : e \in sent \/ (e[1] = "mismatched" /\ "mismatch" \in Env)
                                        \/ (e[1] = "failed" /\ "decline" \in Env)
                                        \/ e[1] = "succeeded"
         /\ Env = {} => UNCHANGED product
BY DEF Pay, Decline, EditListing, Emit, vars, stripe, order, job

\* The four kinds of step, for the proofs that treat each kind alike.
LEMMA NextCases ==
  ASSUME [Next]_vars
  PROVE  \/ \E r \in Requests : Checkout(r) \/ Webhook(r) \/ Ending(r) \/ Abort(r)
         \/ \E r \in Requests, o \in Orders :
              /\ at[r] = "idle"
              /\ \/ \E b \in Buyers, p \in Products : Reserve(r, o, b, p)
                 \/ Receive(r, o) \/ StartCancel(r, o) \/ Expire(r, o)
                 \/ \E target \in AdminTargets : StartAdmin(r, o, target)
         \/ \E o \in Orders : Pay(o) \/ Decline(o)
         \/ \E p \in Products, s \in ListingStatuses : EditListing(p, s)
         \/ UNCHANGED vars
  <1>1. ASSUME NEW r \in Requests, NEW o \in Orders,
               \/ \E b \in Buyers, p \in Products : Reserve(r, o, b, p)
               \/ Receive(r, o) \/ StartCancel(r, o) \/ Expire(r, o)
               \/ \E target \in AdminTargets : StartAdmin(r, o, target)
        PROVE  at[r] = "idle"
    BY <1>1 DEF Reserve, Receive, ReceiveSucceeded, ReceiveMismatched, ReceiveFailed,
                StartCancel, Expire, StartAdmin, Begin, At
  <1> QED
    BY <1>1, Zenon DEF Next

\* One mover at a time stays one, and its order is what it takes it for.
LEMMA MoverStep ==
  ASSUME OneAtATime, TypeOK, Known, MoverInv, [Next]_vars
  PROVE  /\ MoverInv'
         /\ \A o \in Orders : status[o] \in Dead => status'[o] \in Dead
  <1> DEFINE Stays == \A o \in Orders : status[o] \in Dead => status'[o] \in Dead
  <1>1. ASSUME NEW r \in Requests, Checkout(r) \/ Webhook(r) \/ Ending(r) \/ Abort(r)
        PROVE  MoverInv' /\ Stays
    <2>1. Local(r)
      BY <1>1, HandlerLocal
    <2>2. NoMismatch'
      BY <2>1 DEF Local, OthersWait, MoverInv, NoMismatch
    <2>3. OneMover'
      BY <2>1 DEF Local, OthersWait, MoverInv, OneMover, Movers
    <2>4. /\ Moving(r)'
          /\ status[on[r]] \in Dead => status'[on[r]] \in Dead
      <3>1. CASE at[r] \in Movers
        BY <1>1, <3>1, MoverStatus DEF MoverInv
      <3>2. CASE at[r] \notin Movers
        <4>1. status[on[r]] \in Dead => status'[on[r]] \in Dead
          BY <1>1, <3>2, WebhookStatus DEF MoverInv
        <4>2. at'[r] \notin Movers
          BY <2>1, <3>2 DEF Local
        <4> QED
          BY <4>1, <4>2 DEF Moving, Movers, Ends
      <3> QED
        BY <3>1, <3>2
    <2>5. Stays
      BY <2>1, <2>4 DEF Local
    <2>6. ASSUME NEW q \in Requests \ {r} PROVE Moving(q)'
      <3>1. at'[q] = at[q] /\ on'[q] = on[q] /\ to'[q] = to[q] /\ Moving(q)
        BY <2>1 DEF Local, OthersWait, MoverInv
      <3>2. CASE at[q] \notin Movers
        BY <3>1, <3>2 DEF Moving, Movers, Ends
      <3>3. CASE at[q] \in Movers /\ on[q] # on[r]
        <4>1. on[q] \in Orders
          BY <3>3 DEF Known, At, Movers
        <4>2. status'[on[q]] = status[on[q]]
          BY <2>1, <3>3, <4>1 DEF Local
        <4> QED
          BY <3>1, <4>2 DEF Moving
      <3>4. CASE at[q] \in Movers /\ on[q] = on[r]
        <4>1. at[r] \notin Movers
          BY <3>4 DEF MoverInv, OneMover
        <4>2. /\ status[on[q]] \in Open => status'[on[q]] \in Open
              /\ status[on[q]] \in Dead => status'[on[q]] \in Dead
          BY <1>1, <3>4, <4>1, WebhookStatus DEF MoverInv
        <4> QED
          BY <3>1, <4>2 DEF Moving
      <3> QED
        BY <3>2, <3>3, <3>4
    <2> QED
      BY <2>2, <2>3, <2>4, <2>5, <2>6 DEF MoverInv
  <1>2. ASSUME NEW r \in Requests, NEW o \in Orders, at[r] = "idle",
               \/ \E b \in Buyers, p \in Products : Reserve(r, o, b, p)
               \/ Receive(r, o) \/ StartCancel(r, o) \/ Expire(r, o)
               \/ \E target \in AdminTargets : StartAdmin(r, o, target)
        PROVE  MoverInv' /\ Stays
    <2>1. Beginning(r, o)
      BY <1>2, StartLocal
    <2>2. NoMismatch'
      BY <2>1 DEF Beginning, OthersWait, MoverInv, NoMismatch
    <2>3. OneMover'
      BY <2>1 DEF Beginning, OthersWait, MoverInv, OneMover, Movers, OneAtATime
    <2>4. Stays
      BY <2>1 DEF Beginning
    <2>5. ASSUME NEW q \in Requests \ {r} PROVE Moving(q)'
      <3>1. at'[q] = at[q] /\ on'[q] = on[q] /\ to'[q] = to[q] /\ Moving(q)
        BY <2>1 DEF Beginning, OthersWait, MoverInv
      <3>2. CASE at[q] \notin Movers
        BY <3>1, <3>2 DEF Moving, Movers, Ends
      <3>3. CASE at[q] \in Movers
        <4>1. on[q] \in Orders
          BY <3>3 DEF Known, At, Movers
        <4>2. status'[on[q]] = status[on[q]] \/ status[on[q]] = "unused"
          BY <2>1, <3>3, <4>1 DEF Beginning, OneAtATime
        <4> QED
          BY <3>1, <4>2 DEF Moving, Open, Dead, Ends
      <3> QED
        BY <3>2, <3>3
    <2> QED
      BY <2>1, <2>2, <2>3, <2>4, <2>5 DEF MoverInv, Beginning
  <1>3. ASSUME \/ \E o \in Orders : Pay(o) \/ Decline(o)
               \/ \E p \in Products, s \in ListingStatuses : EditListing(p, s)
               \/ UNCHANGED vars
        PROVE  MoverInv' /\ Stays
    <2>1. UNCHANGED <<status, at, on, to>>
      BY <1>3, EnvLocal DEF order, job
    <2>2. NoMismatch'
      BY <1>3, <2>1, EnvLocal DEF MoverInv, NoMismatch, OneAtATime
    <2> QED
      BY <2>1, <2>2 DEF MoverInv, OneMover, Moving
  <1> QED
    BY <1>1, <1>2, <1>3, NextCases

LEMMA MoverInitially == Init => MoverInv
BY DEF Init, MoverInv, NoMismatch, OneMover, Moving, Movers, Ends

\* Where handlers that move an order on do not overlap, and no payment has to
\* be refused, a cancelled or refunded order stays so.
THEOREM DeadForGood ==
  ASSUME OneAtATime
  PROVE  Spec => DeadStaysDead
  <1>1. IInv /\ MoverInv /\ [Next]_vars => MoverInv'
    BY OneAtATime, MoverStep DEF IInv
  <1>2. IInv /\ MoverInv /\ [Next]_vars
          => [\A o \in Orders : status[o] \in Dead => status'[o] \in Dead]_vars
    BY OneAtATime, MoverStep DEF IInv
  <1> QED
    BY MoverInitially, Invariance, <1>1, <1>2, PTL DEF Spec, DeadStaysDead

-----------------------------------------------------------------------------
(* A listing is let go only by the order that has it.                      *)

\* The circumstances in which an item is sold once.
NothingUnusual == Env = {} /\ "cancelled" \notin AdminTargets

\* No payment was reported to have failed.
NoDecline ==
  /\ \A e \in sent : e[1] # "failed"
  /\ \A r \in Requests : at[r] \notin {"saveFailed", "releaseFailed"}

\* An order has its listing from the reservation until it is dead and the
\* handler that puts the listing on sale is done, or its checkout has failed.
HasListing(o) ==
  \/ status[o] \in Open
  \/ \E r \in Requests : on[r] = o /\ at[r] \in CheckoutSteps \cup Ends

OneHasListing ==
  /\ \A o1, o2 \in Orders : o1 # o2 /\ HasListing(o1) /\ HasListing(o2) => item[o1] # item[o2]
  /\ \A o \in Orders :
       HasListing(o) => item[o] \in Products /\ product[item[o]].status # "available"

Exclusive == NoDecline /\ OneHasListing

\* No order comes to have a listing while its handler runs.
LEMMA ListingKept ==
  ASSUME TypeOK, Known, MoverInv, NEW r \in Requests, NEW o \in Orders,
         Checkout(r) \/ Webhook(r) \/ Ending(r) \/ Abort(r), HasListing(o)'
  PROVE  HasListing(o)
  <1>1. Local(r)
    BY HandlerLocal
  <1>2. /\ status'[on[r]] \in Open => status[on[r]] \in Open \/ at[r] \in CheckoutSteps
        /\ at'[r] \in Ends => at[r] \in Ends \/ status[on[r]] \in Open
    <2>1. CASE at[r] \in Movers
      BY <2>1, MoverStatus DEF MoverInv
    <2>2. CASE at[r] \notin Movers
      BY <1>1, <2>2, WebhookStatus DEF MoverInv, Local, CheckoutSteps, Movers, Ends
    <2> QED
      BY <2>1, <2>2
  <1>3. CASE status'[o] \in Open
    BY <1>1, <1>2, <1>3 DEF HasListing, Local
  <1>4. ASSUME NEW q \in Requests, on'[q] = o, at'[q] \in CheckoutSteps \cup Ends
        PROVE  HasListing(o)
    <2>1. CASE q # r
      BY <1>1, <1>4, <2>1 DEF HasListing, Local, OthersWait
    <2>2. CASE q = r
      BY <1>1, <1>2, <1>4, <2>2 DEF HasListing, Local, CheckoutSteps, Ends
    <2> QED
      BY <2>1, <2>2
  <1> QED
    BY <1>3, <1>4 DEF HasListing

\* Only a handler that undoes a reservation or follows an end up puts a
\* listing on sale: its order's, and it is done.
LetsGo(r) ==
  /\ at[r] \in {"undoHold", "relist", "release"}
  /\ at'[r] = "idle"
  /\ \A p \in Products : p # item[on[r]] => product'[p] = product[p]

LEMMA ProductStep ==
  ASSUME NothingUnusual, TypeOK, Known, NoMismatch, NoDecline, NEW r \in Requests,
         Checkout(r) \/ Webhook(r) \/ Ending(r) \/ Abort(r)
  PROVE  LetsGo(r) \/ \A p \in Products : product'[p].status = "available"
                                            => product[p].status = "available"
  <1> USE DEF LetsGo, At, Return, SetProduct, TypeOK
  <1>1. CASE UndoHold(r)
    BY <1>1 DEF UndoHold
  <1>2. CASE Relist(r)
    BY <1>2 DEF Relist
  <1>3. CASE Release(r)
    BY <1>3 DEF Release, FreeFromBuyer
  <1>4. CASE SecureProduct(r)
    BY <1>4 DEF SecureProduct
  <1>5. ~ReleaseInvalid(r) /\ ~ReleaseFailed(r) /\ ~AdminRelist(r)
    BY DEF ReleaseInvalid, ReleaseFailed, AdminRelist, NoMismatch, NoDecline, Known,
           NothingUnusual
  <1>6. CASE ~UndoHold(r) /\ ~Relist(r) /\ ~Release(r) /\ ~SecureProduct(r)
    <2>1. product' = product
      BY <1>5, <1>6 DEF Checkout, Webhook, Ending, Abort,
           CreateIntent, CreateIntentThrows, InsertOrder, InsertOrderThrows, UndoIntent,
           ClaimPayment, FindStale, RefundLate, MarkLate, RefundInvalid, MarkInvalid,
           SaveFailed, RefundThrows, CancelClaim, CancelRefund, CancelSave, CancelIntent,
           AdminRefund, AdminSave
    <2> QED
      BY <2>1
  <1> QED
    BY <1>1, <1>2, <1>3, <1>4, <1>6

\* An order whose handler lets the listing go does not have it any more.
LEMMA LetGo ==
  ASSUME TypeOK, Known, MoverInv, NEW r \in Requests, LetsGo(r),
         Checkout(r) \/ Webhook(r) \/ Ending(r) \/ Abort(r)
  PROVE  \E o \in Orders : on[r] = o /\ HasListing(o) /\ ~HasListing(o)'
  <1>1. Local(r)
    BY HandlerLocal
  <1>2. on[r] \in Orders /\ HasListing(on[r])
    BY DEF LetsGo, Known, At, HasListing, CheckoutSteps, Ends
  <1>3. status'[on[r]] \notin Open
    <2>1. CASE at[r] = "undoHold"
      <3>1. status[on[r]] = "draft"
        BY <2>1 DEF Known, CheckoutSteps
      <3> QED
        BY <2>1, <3>1, WebhookStatus DEF MoverInv, Movers, Open
    <2>2. CASE at[r] \in {"relist", "release"}
      <3>1. status[on[r]] \in Dead
        BY <2>2 DEF MoverInv, Moving, Ends
      <3> QED
        BY <2>2, <3>1, MoverStatus DEF MoverInv, Movers, Open, Dead
    <2> QED
      BY <2>1, <2>2 DEF LetsGo
  <1>4. ASSUME NEW q \in Requests, on'[q] = on[r], at'[q] \in CheckoutSteps \cup Ends
        PROVE  FALSE
    <2>1. q # r /\ on[q] = on[r] /\ at[q] \in CheckoutSteps \cup Ends
      BY <1>1, <1>4 DEF Local, OthersWait, LetsGo, CheckoutSteps, Ends
    <2>2. CASE at[r] = "undoHold"
      BY <2>1, <2>2 DEF Known, CheckoutSteps, Ends, Unborn
    <2>3. CASE at[r] \in {"relist", "release"}
      <3>1. status[on[r]] \in Dead
        BY <2>3 DEF MoverInv, Moving, Ends
      <3> QED
        BY <2>1, <2>3, <3>1 DEF Known, CheckoutSteps, Ends, Dead, MoverInv, OneMover, Movers
    <2> QED
      BY <2>2, <2>3 DEF LetsGo
  <1> DEFINE o == on[r]
  <1>5. PICK p \in Orders : p = o
    BY <1>2
  <1> HIDE DEF o
  <1>6. HasListing(p) /\ ~HasListing(p)'
    BY <1>2, <1>3, <1>4, <1>5 DEF HasListing, o
  <1> QED
    BY <1>5, <1>6 DEF o

\* A handler that begins on an order leaves the others without what they lack.
LEMMA StartListing ==
  ASSUME TypeOK, Known, NEW r \in Requests, NEW o \in Orders, at[r] = "idle",
         \/ Receive(r, o) \/ StartCancel(r, o) \/ Expire(r, o)
         \/ \E target \in AdminTargets : StartAdmin(r, o, target)
  PROVE  /\ \A p \in Orders : HasListing(p)' => HasListing(p)
         /\ UNCHANGED <<product, item>>
  <1> USE DEF order, job, At, Begin
  <1>1. UNCHANGED <<product, item>>
    BY DEF Receive, ReceiveSucceeded, ReceiveMismatched, ReceiveFailed,
           StartCancel, Expire, SetOrder, StartAdmin
  <1>2. OthersWait(r)
    BY StartLocal DEF Beginning
  <1>3. \A p \in Orders : status'[p] \in Open => status[p] \in Open
    BY DEF Receive, ReceiveSucceeded, ReceiveMismatched, ReceiveFailed,
           StartCancel, Expire, SetOrder, StartAdmin, TypeOK, Open
  <1>4. at'[r] \in CheckoutSteps \cup Ends => on'[r] = o /\ status[o] \in Open
    <2>1. CASE Expire(r, o)
      BY <2>1 DEF Expire, TypeOK, Open
    <2>2. CASE ~Expire(r, o)
      BY <2>2 DEF Receive, ReceiveSucceeded, ReceiveMismatched, ReceiveFailed,
             StartCancel, StartAdmin, TypeOK, CheckoutSteps, Ends
    <2> QED
      BY <2>1, <2>2
  <1> QED
    BY <1>1, <1>2, <1>3, <1>4 DEF HasListing, OthersWait

\* A checkout takes a listing nobody has.
LEMMA ReserveListing ==
  ASSUME TypeOK, Known, OneHasListing, NEW r \in Requests, NEW o \in Orders,
         NEW b \in Buyers, NEW p \in Products, Reserve(r, o, b, p)
  PROVE  OneHasListing'
  <1> USE DEF Reserve, Begin, At, TypeOK
  <1>1. ~HasListing(o)
    BY DEF HasListing, Known, CheckoutSteps, Ends, Unborn, Open
  <1>2. ASSUME NEW q \in Orders, q # o, HasListing(q)' PROVE HasListing(q)
    BY <1>2 DEF HasListing
  <1>3. /\ item'[o] = p /\ product'[p].status = "secured"
        /\ \A q \in Orders \ {o} : item'[q] = item[q]
        /\ \A q \in Products \ {p} : product'[q] = product[q]
    OBVIOUS
  <1>4. \A q \in Orders : HasListing(q) => item[q] # p
    BY DEF OneHasListing
  <1> HIDE DEF Reserve, Begin, At, TypeOK
  <1>5. ASSUME NEW o1 \in Orders, NEW o2 \in Orders, o1 # o2, HasListing(o1)', HasListing(o2)'
        PROVE  item'[o1] # item'[o2]
    BY <1>2, <1>3, <1>4, <1>5 DEF OneHasListing
  <1>6. ASSUME NEW q \in Orders, HasListing(q)'
        PROVE  item'[q] \in Products /\ product'[item'[q]].status # "available"
    <2>1. CASE q = o
      BY <1>3, <2>1
    <2>2. CASE q # o
      <3>1. HasListing(q) /\ item'[q] = item[q] /\ item[q] # p
        BY <1>2, <1>3, <1>4, <1>6, <2>2
      <3> QED
        BY <1>3, <3>1 DEF OneHasListing
    <2> QED
      BY <2>1, <2>2
  <1> QED
    BY <1>5, <1>6 DEF OneHasListing

\* No step gives a listing to two orders.
LEMMA ExclusiveStep ==
  ASSUME NothingUnusual, TypeOK, Known, MoverInv, Exclusive, [Next]_vars
  PROVE  Exclusive'
  <1>1. ASSUME NEW r \in Requests, Checkout(r) \/ Webhook(r) \/ Ending(r) \/ Abort(r)
        PROVE  Exclusive'
    <2>1. Local(r)
      BY <1>1, HandlerLocal
    <2>2. NoDecline'
      BY <2>1 DEF Local, OthersWait, Exclusive, NoDecline
    <2>3. item' = item /\ \A o \in Orders : HasListing(o)' => HasListing(o)
      BY <1>1, <2>1, ListingKept DEF Local
    <2>4. CASE LetsGo(r)
      <3>1. PICK o \in Orders : on[r] = o /\ HasListing(o) /\ ~HasListing(o)'
        BY <1>1, <2>4, LetGo
      <3>2. ASSUME NEW q \in Orders, HasListing(q)'
            PROVE  item[q] \in Products /\ product'[item[q]].status # "available"
        <4>1. HasListing(q) /\ q # o
          BY <2>3, <3>1, <3>2
        <4>2. item[q] # item[o] /\ item[q] \in Products /\ product[item[q]].status # "available"
          BY <3>1, <4>1 DEF Exclusive, OneHasListing
        <4> QED
          BY <2>4, <3>1, <4>2 DEF LetsGo
      <3> QED
        BY <2>2, <2>3, <3>2 DEF Exclusive, OneHasListing
    <2>5. CASE \A p \in Products : product'[p].status = "available"
                                     => product[p].status = "available"
      BY <2>2, <2>3, <2>5 DEF Exclusive, OneHasListing
    <2> QED
      BY <1>1, <2>4, <2>5, ProductStep DEF MoverInv, Exclusive
  <1>2. ASSUME NEW r \in Requests, NEW o \in Orders, at[r] = "idle",
               \/ \E b \in Buyers, p \in Products : Reserve(r, o, b, p)
               \/ Receive(r, o) \/ StartCancel(r, o) \/ Expire(r, o)
               \/ \E target \in AdminTargets : StartAdmin(r, o, target)
        PROVE  Exclusive'
    <2>1. NoDecline'
      BY <1>2, StartLocal DEF Beginning, OthersWait, Exclusive, NoDecline
    <2>2. ASSUME NEW b \in Buyers, NEW p \in Products, Reserve(r, o, b, p) PROVE OneHasListing'
      BY <2>2, ReserveListing DEF Exclusive
    <2>3. ASSUME \/ Receive(r, o) \/ StartCancel(r, o) \/ Expire(r, o)
                 \/ \E target \in AdminTargets : StartAdmin(r, o, target)
          PROVE  OneHasListing'
      <3>1. /\ \A p \in Orders : HasListing(p)' => HasListing(p)
            /\ UNCHANGED <<product, item>>
        BY <1>2, <2>3, StartListing
      <3> QED
        BY <3>1 DEF Exclusive, OneHasListing
    <2> QED
      BY <1>2, <2>1, <2>2, <2>3 DEF Exclusive
  <1>3. ASSUME \/ \E o \in Orders : Pay(o) \/ Decline(o)
               \/ \E p \in Products, s \in ListingStatuses : EditListing(p, s)
               \/ UNCHANGED vars
        PROVE  Exclusive'
    <2>1. UNCHANGED <<product, status, item, at, on>>
      BY <1>3, EnvLocal DEF order, job, NothingUnusual
    <2>2. NoDecline'
      BY <1>3, <2>1, EnvLocal DEF Exclusive, NoDecline, NothingUnusual
    <2> QED
      BY <2>1, <2>2 DEF Exclusive, OneHasListing, HasListing
  <1> QED
    BY <1>1, <1>2, <1>3, NextCases

LEMMA ExclusiveInitially == Init => Exclusive
BY DEF Init, Exclusive, NoDecline, OneHasListing, HasListing, CheckoutSteps, Ends, Open

\* Where nothing unusual happens but faults, whichever handlers race for a
\* listing and whichever die, no two live orders have it.
THEOREM OneSale ==
  ASSUME NothingUnusual
  PROVE  Spec => []SoldOnce
  <1>1. OneAtATime
    BY NothingUnusual DEF OneAtATime, NothingUnusual
  <1>2. IInv /\ MoverInv /\ [Next]_vars => MoverInv'
    BY <1>1, MoverStep DEF IInv
  <1>3. IInv /\ MoverInv /\ Exclusive /\ [Next]_vars => Exclusive'
    BY NothingUnusual, ExclusiveStep DEF IInv
  <1>4. Exclusive => SoldOnce
    BY DEF Exclusive, OneHasListing, HasListing, SoldOnce
  <1> QED
    BY MoverInitially, ExclusiveInitially, Invariance, <1>2, <1>3, <1>4, PTL DEF Spec

\* Where nobody edits a listing, it is on sale or secured.
OnSaleOrSecured == \A p \in Products : product[p].status \in {"available", "secured"}

LEMMA OnSaleOrSecuredStep ==
  ASSUME NothingUnusual, TypeOK, Known, OnSaleOrSecured, [Next]_vars
  PROVE  OnSaleOrSecured'
  <1> USE DEF OnSaleOrSecured, TypeOK, Available
  <1>1. ASSUME NEW r \in Requests, Checkout(r) \/ Webhook(r) \/ Ending(r) \/ Abort(r)
        PROVE  OnSaleOrSecured'
    <2>1. \/ product' = product
          \/ SetProduct(on[r], Available)
          \/ SetProduct(on[r], [status |-> "secured", buyer |-> buyer[on[r]], hold |-> None])
      BY <1>1 DEF Checkout, Webhook, Ending, Abort, FreeFromBuyer,
         CreateIntent, CreateIntentThrows, InsertOrder, InsertOrderThrows, UndoIntent, UndoHold,
         ClaimPayment, FindStale, RefundLate, MarkLate, SecureProduct, RefundInvalid,
         MarkInvalid, ReleaseInvalid, SaveFailed, ReleaseFailed, RefundThrows, CancelClaim,
         CancelRefund, CancelSave, Relist, CancelIntent, Release,
         AdminRefund, AdminRelist, AdminSave
    <2> QED
      BY <2>1 DEF SetProduct
  <1>2. ASSUME NEW r \in Requests, NEW o \in Orders, NEW b \in Buyers, NEW p \in Products,
               Reserve(r, o, b, p)
        PROVE  OnSaleOrSecured'
    BY <1>2 DEF Reserve
  <1>3. ASSUME NEW r \in Requests, NEW o \in Orders, at[r] = "idle",
               \/ Receive(r, o) \/ StartCancel(r, o) \/ Expire(r, o)
               \/ \E target \in AdminTargets : StartAdmin(r, o, target)
        PROVE  OnSaleOrSecured'
    BY <1>3, StartListing
  <1>4. ASSUME \/ \E o \in Orders : Pay(o) \/ Decline(o)
               \/ \E p \in Products, s \in ListingStatuses : EditListing(p, s)
               \/ UNCHANGED vars
        PROVE  OnSaleOrSecured'
    BY <1>4, EnvLocal DEF NothingUnusual
  <1> HIDE DEF OnSaleOrSecured
  <1> QED
    BY <1>1, <1>2, <1>3, <1>4, NextCases

\* In the same circumstances the listing of a live order is secured: this is how
\* OrderFulfilment finds an order whose payment was claimed.
THEOREM SecuredUntilItEnds ==
  ASSUME NothingUnusual
  PROVE  Spec => []LiveIsSecured
  <1>1. OneAtATime
    BY NothingUnusual DEF OneAtATime, NothingUnusual
  <1>2. IInv /\ MoverInv /\ [Next]_vars => MoverInv'
    BY <1>1, MoverStep DEF IInv
  <1>3. IInv /\ MoverInv /\ Exclusive /\ [Next]_vars => Exclusive'
    BY NothingUnusual, ExclusiveStep DEF IInv
  <1>4. Init => OnSaleOrSecured
    BY DEF Init, OnSaleOrSecured, Available
  <1>5. IInv /\ OnSaleOrSecured /\ [Next]_vars => OnSaleOrSecured'
    BY NothingUnusual, OnSaleOrSecuredStep DEF IInv
  <1>6. Exclusive /\ OnSaleOrSecured => LiveIsSecured
    BY DEF Exclusive, OneHasListing, HasListing, OnSaleOrSecured, LiveIsSecured
  <1> QED
    BY MoverInitially, ExclusiveInitially, Invariance,
       <1>2, <1>3, <1>4, <1>5, <1>6, PTL DEF Spec

-----------------------------------------------------------------------------
(* OrderPayment implements Sale, in the same circumstances.  A step moves  *)
(* one order on at most, by one stage.                                     *)

Abstract == [Trade!Next]_<<stages, item>>

\* Order o stays at its stage, or reaches the next.
Progress(o) ==
  \/ Stage(o)' = Stage(o)
  \/ Stage(o) = "checkout" /\ Stage(o)' \in {"placed", "over"}
  \/ Stage(o) = "placed" /\ Stage(o)' \in {"paid", "ending"}
  \/ Stage(o) = "paid" /\ Stage(o)' = "ending"
  \/ Stage(o) = "ending" /\ Stage(o)' = "over"

LEMMA ProgressIsAbstract ==
  ASSUME item' = item, NEW o \in Orders, Progress(o),
         \A p \in Orders \ {o} : Stage(p)' = Stage(p)
  PROVE  Abstract
  <1>1. stages' = [stages EXCEPT ![o] = Stage(o)'] /\ stages[o] = Stage(o)
    BY DEF stages
  <1>2. CASE Stage(o)' = Stage(o)
    BY <1>2 DEF stages, Abstract
  <1>3. ASSUME NEW from, NEW next, stages[o] \in from, Stage(o)' = next
        PROVE  Trade!Move(o, from, next)
    BY <1>1, <1>3 DEF Trade!Move
  <1>4. CASE Stage(o) = "checkout" /\ Stage(o)' = "placed"
    BY <1>1, <1>3, <1>4 DEF Trade!Place, Trade!Next, Abstract
  <1>5. CASE Stage(o) = "placed" /\ Stage(o)' = "paid"
    BY <1>1, <1>3, <1>5 DEF Trade!Pay, Trade!Next, Abstract
  <1>6. CASE Stage(o) \in {"placed", "paid"} /\ Stage(o)' = "ending"
    BY <1>1, <1>3, <1>6 DEF Trade!CallOff, Trade!Next, Abstract
  <1>7. CASE Stage(o) \in {"checkout", "ending"} /\ Stage(o)' = "over"
    BY <1>1, <1>3, <1>7 DEF Trade!LetGo, Trade!Next, Abstract
  <1> QED
    BY <1>2, <1>4, <1>5, <1>6, <1>7 DEF Progress

\* Whoever has a stage that names a handler has that handler.
LEMMA Stages ==
  ASSUME Known, NEW o \in Orders
  PROVE  /\ InHand(o, CheckoutSteps) => status[o] = "draft"
         /\ InHand(o, Ends) => status[o] \notin Unborn
         /\ HasListing(o) <=> Trade!Has(o)
  <1>1. InHand(o, CheckoutSteps) => status[o] = "draft"
    BY DEF InHand, Known
  <1>2. InHand(o, Ends) => status[o] \notin Unborn
    BY DEF InHand, Known, CheckoutSteps, Ends
  <1>3. HasListing(o) <=> status[o] \in Open \/ InHand(o, CheckoutSteps) \/ InHand(o, Ends)
    BY DEF HasListing, InHand
  <1>4. stages[o] = Stage(o)
    BY DEF stages
  <1> QED
    BY <1>1, <1>2, <1>3, <1>4 DEF Trade!Has, Stage, Open, Unborn

\* An order that a handler does not work on stays where it is.
LEMMA OthersStay ==
  ASSUME NEW r \in Requests, OthersWait(r), NEW p \in Orders,
         on[r] = p => at[r] \notin CheckoutSteps \cup Ends,
         on'[r] = p => at'[r] \notin CheckoutSteps \cup Ends,
         status'[p] = status[p], payment'[p] = payment[p]
  PROVE  Stage(p)' = Stage(p)
  <1>1. InHand(p, CheckoutSteps)' <=> InHand(p, CheckoutSteps)
    BY DEF InHand, OthersWait
  <1>2. InHand(p, Ends)' <=> InHand(p, Ends)
    BY DEF InHand, OthersWait
  <1> QED
    BY <1>1, <1>2 DEF Stage

LEMMA PaymentLocal ==
  ASSUME TypeOK, NEW r \in Requests, Checkout(r) \/ Webhook(r) \/ Ending(r) \/ Abort(r)
  PROVE  \A o \in Orders : o # on[r] => payment'[o] = payment[o]
BY DEF order, TypeOK, SetOrder, Checkout, Webhook, Ending, Abort, CreateIntent,
       CreateIntentThrows, InsertOrder, InsertOrderThrows, UndoIntent, UndoHold, ClaimPayment,
       FindStale, RefundLate, MarkLate, SecureProduct, RefundInvalid, MarkInvalid,
       ReleaseInvalid, SaveFailed, ReleaseFailed, RefundThrows, CancelClaim, CancelRefund,
       CancelSave, Relist, CancelIntent, Release, AdminRefund, AdminRelist, AdminSave

\* A checkout places its order, or is over with it.
LEMMA CheckoutStage ==
  ASSUME TypeOK, Known, PendingIsUnpaid, NEW r \in Requests, NEW o \in Orders, on[r] = o,
         at[r] \in CheckoutSteps,
         Checkout(r) \/ Webhook(r) \/ Ending(r) \/ Abort(r)
  PROVE  Progress(o)
  <1>1. Local(r)
    BY HandlerLocal
  <1>2. status[o] = "draft" /\ Stage(o) = "checkout"
    BY DEF Known, Stage, InHand, Open
  <1>3. \A q \in Requests \ {r} : on[q] = o => at[q] \notin CheckoutSteps \cup Ends
    BY <1>2 DEF Known, CheckoutSteps, Ends, Unborn
  <1>4. CASE InsertOrder(r)
    <2>1. status'[o] = "pending_payment" /\ payment'[o] = "pending"
      BY <1>4 DEF InsertOrder, SetOrder, TypeOK
    <2> QED
      BY <1>2, <2>1 DEF Progress, Stage, Open
  <1>5. CASE ~InsertOrder(r)
    <2>1. status'[o] = "draft"
      BY <1>2, <1>5 DEF order, At, CheckoutSteps, Checkout, Webhook, Ending, Abort,
           CreateIntent, CreateIntentThrows, InsertOrderThrows, UndoIntent, UndoHold,
           ClaimPayment, FindStale, RefundLate, MarkLate, SecureProduct, RefundInvalid,
           MarkInvalid, ReleaseInvalid, SaveFailed, ReleaseFailed, RefundThrows, CancelClaim,
           CancelRefund, CancelSave, Relist, CancelIntent, Release, AdminRefund, AdminRelist,
           AdminSave
    <2>2. ~InHand(o, Ends)'
      BY <1>1, <1>3 DEF InHand, Local, OthersWait, Movers, CheckoutSteps, Ends
    <2> QED
      BY <1>2, <2>1, <2>2 DEF Progress, Stage, Open
  <1> QED
    BY <1>4, <1>5

\* A handler that puts the listing on sale is the last to do anything for it.
LEMMA EndingStage ==
  ASSUME TypeOK, Known, MoverInv, NEW r \in Requests, NEW o \in Orders, on[r] = o,
         at[r] \in Ends,
         Checkout(r) \/ Webhook(r) \/ Ending(r) \/ Abort(r)
  PROVE  Progress(o)
  <1>1. Local(r)
    BY HandlerLocal
  <1>2. status[o] \in Dead
    BY DEF MoverInv, Moving
  <1>3. status'[o] \in Dead
    BY <1>2, MoverStatus DEF MoverInv, Movers, Ends
  <1>4. \A q \in Requests : on[q] = o => at[q] \notin CheckoutSteps
    BY <1>2 DEF Known, Dead
  <1>5. ~InHand(o, CheckoutSteps) /\ ~InHand(o, CheckoutSteps)' /\ InHand(o, Ends)
    BY <1>1, <1>4 DEF InHand, Local, OthersWait, CheckoutSteps
  <1> QED
    BY <1>2, <1>3, <1>5 DEF Progress, Stage, Open, Dead

\* Any other handler leaves the order where it is, has it paid or ends it.
Same(o) ==
  /\ status'[o] = "unused" <=> status[o] = "unused"
  /\ status'[o] \in Open <=> status[o] \in Open
  /\ status[o] \in Open => (payment'[o] = "paid" <=> payment[o] = "paid")
Paid(o) ==
  /\ status[o] \in Open /\ payment[o] # "paid"
  /\ status'[o] \in Open /\ payment'[o] = "paid"
Ended(o) == status[o] \in Open /\ status'[o] \in Dead

LEMMA OtherPapers ==
  ASSUME NothingUnusual, TypeOK, Known, MoverInv, NoDecline,
         NEW r \in Requests, NEW o \in Orders, on[r] = o,
         at[r] \notin CheckoutSteps \cup Ends,
         Checkout(r) \/ Webhook(r) \/ Ending(r) \/ Abort(r)
  PROVE  \/ (Same(o) \/ Paid(o)) /\ at'[r] \notin CheckoutSteps \cup Ends
         \/ Ended(o) /\ at'[r] \in Ends /\ on'[r] = o
  <1> USE DEF At, Goto, Return, Ack, SetOrder, order, job, TypeOK, Same, Paid, Ended, Open, Dead,
              CheckoutSteps, Ends
  <1>1. CASE ClaimPayment(r)
    BY <1>1 DEF ClaimPayment
  <1>2. CASE MarkLate(r)
    BY <1>2 DEF MarkLate
  <1>3. CASE CancelClaim(r)
    BY <1>3 DEF CancelClaim
  <1>4. CASE CancelSave(r)
    BY <1>4 DEF CancelSave, MoverInv, Moving
  <1>5. CASE AdminSave(r)
    <2>1. at[r] = "adminSave"
      BY <1>5 DEF AdminSave
    <2>2. to[r] \in AdminTargets /\ status[o] \in Open
      BY <2>1 DEF Known, MoverInv, Moving
    <2>3. to[r] \in Open \ Dead
      BY <2>2, TargetAssumption DEF NothingUnusual
    <2> QED
      BY <1>5, <2>2, <2>3 DEF AdminSave
  <1>6. ~MarkInvalid(r) /\ ~SaveFailed(r)
    BY DEF MarkInvalid, SaveFailed, MoverInv, NoMismatch, NoDecline
  <1>7. CASE ~(ClaimPayment(r) \/ MarkLate(r) \/ CancelClaim(r) \/ CancelSave(r) \/ AdminSave(r))
    BY <1>6, <1>7 DEF Checkout, Webhook, Ending, Abort, CreateIntent, CreateIntentThrows,
       InsertOrder, InsertOrderThrows, UndoIntent, UndoHold, FindStale, RefundLate,
       SecureProduct, RefundInvalid, ReleaseInvalid, ReleaseFailed, RefundThrows, CancelRefund,
       Relist, CancelIntent, Release, AdminRefund, AdminRelist
  <1> QED
    BY <1>1, <1>2, <1>3, <1>4, <1>5, <1>7

LEMMA OtherStage ==
  ASSUME TypeOK, Known, NEW r \in Requests, NEW o \in Orders, OthersWait(r),
         on[r] = o => at[r] \notin CheckoutSteps \cup Ends,
         on'[r] = o \/ at'[r] = "idle",
         \/ (Same(o) \/ Paid(o)) /\ at'[r] \notin CheckoutSteps \cup Ends
         \/ Ended(o) /\ at'[r] \in Ends /\ on'[r] = o
  PROVE  Progress(o)
  <1>1. CASE (Same(o) \/ Paid(o)) /\ at'[r] \notin CheckoutSteps \cup Ends
    <2>1. InHand(o, CheckoutSteps)' <=> InHand(o, CheckoutSteps)
      BY <1>1 DEF InHand, OthersWait
    <2>2. InHand(o, Ends)' <=> InHand(o, Ends)
      BY <1>1 DEF InHand, OthersWait
    <2> QED
      BY <1>1, <2>1, <2>2 DEF Progress, Stage, Same, Paid, Open
  <1>2. CASE Ended(o) /\ at'[r] \in Ends /\ on'[r] = o
    <2>1. ~InHand(o, CheckoutSteps)
      BY <1>2, Stages DEF Ended, Open
    <2>2. ~InHand(o, CheckoutSteps)' /\ InHand(o, Ends)'
      BY <1>2, <2>1 DEF InHand, OthersWait, CheckoutSteps, Ends
    <2> QED
      BY <1>2, <2>2 DEF Progress, Stage, Ended, Open, Dead
  <1> QED
    BY <1>1, <1>2

\* The handlers of the system move the order they work on, and no other.
LEMMA HandlerIsAbstract ==
  ASSUME NothingUnusual, TypeOK, Known, MoverInv, NoDecline, PendingIsUnpaid,
         NEW r \in Requests, Checkout(r) \/ Webhook(r) \/ Ending(r) \/ Abort(r)
  PROVE  Abstract
  <1>1. Local(r)
    BY HandlerLocal
  <1>2. PICK o \in Orders : o = on[r]
    BY DEF Known, At, Checkout, Webhook, Ending, Abort, CreateIntent, CreateIntentThrows,
           InsertOrder, InsertOrderThrows, UndoIntent, UndoHold, ClaimPayment, FindStale,
           RefundLate, MarkLate, SecureProduct, RefundInvalid, MarkInvalid, ReleaseInvalid,
           SaveFailed, ReleaseFailed, RefundThrows, CancelClaim, CancelRefund, CancelSave,
           Relist, CancelIntent, Release, AdminRefund, AdminRelist, AdminSave
  <1>3. \A p \in Orders \ {o} : Stage(p)' = Stage(p)
    <2> SUFFICES ASSUME NEW p \in Orders \ {o} PROVE Stage(p)' = Stage(p)
      OBVIOUS
    <2>1. status'[p] = status[p] /\ payment'[p] = payment[p]
      BY <1>1, <1>2, PaymentLocal DEF Local
    <2>2. on'[r] = p => at'[r] \notin CheckoutSteps \cup Ends
      BY <1>1, <1>2 DEF Local, CheckoutSteps, Ends
    <2> QED
      BY <1>1, <1>2, <2>1, <2>2, OthersStay DEF Local
  <1>4. Progress(o)
    <2>1. CASE at[r] \in CheckoutSteps
      BY <1>2, <2>1, CheckoutStage
    <2>2. CASE at[r] \in Ends
      BY <1>2, <2>2, EndingStage
    <2>3. CASE at[r] \notin CheckoutSteps \cup Ends
      BY <1>1, <1>2, <2>3, OtherPapers, OtherStage DEF Local
    <2> QED
      BY <2>1, <2>2, <2>3
  <1> QED
    BY <1>1, <1>3, <1>4, ProgressIsAbstract DEF Local

\* A checkout that reserves a listing takes an item nobody has.
LEMMA ReserveIsAbstract ==
  ASSUME TypeOK, Known, OneHasListing, NEW r \in Requests, NEW o \in Orders,
         NEW b \in Buyers, NEW p \in Products, Reserve(r, o, b, p)
  PROVE  Abstract
  <1> USE DEF Reserve, Begin, At, TypeOK
  <1>1. stages[o] = "none"
    BY DEF stages, Stage
  <1>2. \A q \in Orders : Trade!Has(q) => item[q] # p
    BY Stages DEF OneHasListing
  <1>3. Stage(o)' = "checkout"
    BY DEF Stage, InHand, CheckoutSteps, Open
  <1>4. \A q \in Orders \ {o} : Stage(q)' = Stage(q)
    <2>1. OthersWait(r)
      BY DEF OthersWait
    <2> SUFFICES ASSUME NEW q \in Orders \ {o} PROVE Stage(q)' = Stage(q)
      OBVIOUS
    <2>2. status'[q] = status[q] /\ payment'[q] = payment[q] /\ on'[r] = o
      OBVIOUS
    <2> QED
      BY <2>1, <2>2, OthersStay DEF CheckoutSteps, Ends
  <1>5. stages' = [stages EXCEPT ![o] = "checkout"]
    BY <1>3, <1>4 DEF stages
  <1>6. Trade!Take(o, p)
    BY <1>1, <1>2, <1>5 DEF Trade!Take
  <1> QED
    BY <1>6 DEF Trade!Next, Abstract

\* Any other handler that begins on an order leaves it where it is, or ends it.
LEMMA StartIsAbstract ==
  ASSUME TypeOK, Known, NEW r \in Requests, NEW o \in Orders, at[r] = "idle",
         \/ Receive(r, o) \/ StartCancel(r, o) \/ Expire(r, o)
         \/ \E target \in AdminTargets : StartAdmin(r, o, target)
  PROVE  Abstract
  <1> USE DEF order, job, At, Begin
  <1>1. OthersWait(r) /\ item' = item
    BY StartLocal, StartListing DEF Beginning
  <1>2. on'[r] = o \/ at'[r] = "idle"
    BY DEF Receive, ReceiveSucceeded, ReceiveMismatched, ReceiveFailed, StartCancel, Expire,
           StartAdmin, TypeOK
  <1>3. /\ \A p \in Orders \ {o} : status'[p] = status[p] /\ payment'[p] = payment[p]
        /\ \/ Same(o) /\ at'[r] \notin CheckoutSteps \cup Ends
           \/ Ended(o) /\ at'[r] \in Ends /\ on'[r] = o
    <2>1. CASE Expire(r, o)
      BY <2>1 DEF Expire, SetOrder, TypeOK, Ended, Open, Dead, Ends
    <2>2. CASE ~Expire(r, o)
      <3>1. UNCHANGED <<status, payment>>
        BY <2>2 DEF Receive, ReceiveSucceeded, ReceiveMismatched, ReceiveFailed,
               StartCancel, StartAdmin
      <3>2. at'[r] \notin CheckoutSteps \cup Ends
        BY <2>2 DEF Receive, ReceiveSucceeded, ReceiveMismatched, ReceiveFailed,
               StartCancel, StartAdmin, TypeOK, CheckoutSteps, Ends
      <3> QED
        BY <3>1, <3>2 DEF Same
    <2> QED
      BY <2>1, <2>2
  <1>4. \A p \in Orders \ {o} : Stage(p)' = Stage(p)
    <2> SUFFICES ASSUME NEW p \in Orders \ {o} PROVE Stage(p)' = Stage(p)
      OBVIOUS
    <2>1. at[r] \notin CheckoutSteps \cup Ends
      BY DEF CheckoutSteps, Ends
    <2>2. on'[r] = p => at'[r] \notin CheckoutSteps \cup Ends
      BY <1>2 DEF CheckoutSteps, Ends
    <2> QED
      BY <1>1, <1>3, <2>1, <2>2, OthersStay
  <1>5. Progress(o)
    BY <1>1, <1>2, <1>3, OtherStage DEF CheckoutSteps, Ends
  <1> QED
    BY <1>1, <1>4, <1>5, ProgressIsAbstract

LEMMA AbstractInit == Init => Trade!Init
BY DEF Init, Trade!Init, stages, Stage

LEMMA AbstractStep ==
  ASSUME NothingUnusual, TypeOK, Known, MoverInv, Exclusive, PendingIsUnpaid, [Next]_vars
  PROVE  Abstract
  <1>1. ASSUME \/ \E o \in Orders : Pay(o) \/ Decline(o)
               \/ \E p \in Products, s \in ListingStatuses : EditListing(p, s)
               \/ UNCHANGED vars
        PROVE  Abstract
    <2>1. UNCHANGED <<status, payment, item, at, on>>
      BY <1>1, EnvLocal DEF order, job
    <2> QED
      BY <2>1 DEF Abstract, stages, Stage, InHand
  <1> QED
    BY <1>1, NextCases, HandlerIsAbstract, ReserveIsAbstract, StartIsAbstract DEF Exclusive

\* Where nothing unusual happens but faults, a listing is with one order at a
\* time, whichever handlers race for it and whichever die: OrderPayment
\* implements Sale.
THEOREM ItemIsSoldInTurn ==
  ASSUME NothingUnusual
  PROVE  Spec => SoldInTurn
  <1>1. OneAtATime
    BY NothingUnusual DEF OneAtATime, NothingUnusual
  <1>2. IInv /\ MoverInv /\ [Next]_vars => MoverInv'
    BY <1>1, MoverStep DEF IInv
  <1>3. IInv /\ MoverInv /\ Exclusive /\ [Next]_vars => Exclusive'
    BY NothingUnusual, ExclusiveStep DEF IInv
  <1>4. IInv /\ MoverInv /\ Exclusive /\ [Next]_vars => [Trade!Next]_<<stages, item>>
    BY NothingUnusual, AbstractStep DEF IInv, PaidInv, Abstract
  <1> QED
    BY MoverInitially, ExclusiveInitially, Invariance, AbstractInit, <1>2, <1>3, <1>4, PTL
    DEF Spec, SoldInTurn, Trade!Spec
=============================================================================
