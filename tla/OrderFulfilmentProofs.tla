----------------------- MODULE OrderFulfilmentProofs -----------------------
(***************************************************************************)
(* Proofs of what OrderFulfilment keeps true however many orders, handlers *)
(* and faults there are and however the handlers interleave.               *)
(*                                                                         *)
(* A handler acts on the order as it read it, some awaits ago.  What it    *)
(* read can be out of date, but only in one direction: money that was sent *)
(* stays sent, a refund stays made and a payment that is not paid never    *)
(* becomes paid again.  The invariants below say, for each group of steps, *)
(* which such fact the handler still holds when it saves.                  *)
(*                                                                         *)
(* Of an order whose handlers came one by one more is true, because what a *)
(* handler read of it is not out of date at all: that is the second half.  *)
(* The last part shows that OrderFulfilment implements Escrow.             *)
(***************************************************************************)
EXTENDS OrderFulfilment, TLAPS

\* A handler in flight has an order, and a status to give it when it saves.
Known ==
  \A r \in Requests :
    /\ ~At(r, "idle") => on[r] \in Orders
    /\ at[r] \in {"reverse", "refund", "missedSave"} => to[r] \in Dead
    /\ at[r] \in {"reverse", "refund", "listing", "save", "missedSave"}
         => to[r] \in OrderStatuses

\* A payout recorded as paid was sent, and what moves on in delivery was paid for.
SentInv ==
  /\ PaidBeforeDelivery
  /\ \A o \in Orders : payout[o] = "paid" => o \in transferred
  /\ \A r \in Requests :
       /\ at[r] = "savePaid" => on[r] \in transferred
       /\ at[r] \in {"listing", "save"} /\ to[r] \in Delivering => on[r] \in transferred

\* What a handler that ends an order read as not paid is still not paid.
PaidInv ==
  /\ DeadIsNotPaid
  /\ \A r \in Requests :
       at[r] \in {"reverse", "refund", "listing", "save", "missedSave"}
         /\ to[r] \in Dead /\ ~owes[r] => payment[on[r]] # "paid"

\* A handler past its refund has made it.
Returned(o) == refund[o] # "none" \/ o \in late
RefundInv ==
  /\ RefundIsReal
  /\ \A r \in Requests :
       /\ at[r] \in {"listing", "save"} /\ to[r] \in Dead /\ owes[r] => Returned(on[r])
       /\ at[r] = "lateMark" => Returned(on[r])

IInv == TypeOK /\ Known /\ SentInv /\ PaidInv /\ RefundInv

-----------------------------------------------------------------------------
\* Handlers keep their order and a status to move it to.
LEMMA KnownStep == TypeOK /\ Known /\ [Next]_vars => Known'
  <1> SUFFICES ASSUME TypeOK /\ Known, [Next]_vars PROVE Known'
    OBVIOUS
  <1> USE NoneAssumption DEF
        order, stripe, job, desk, At, Goto, Return, Enter, Decide, TypeOK,
        Known, OrderStatuses, Dead, Delivering, MayMove, FirstStep,
        AfterReverse, KnowsTransfer, Transitions, Outcomes, AtVerification,
        AtDelivery, AtCollection
  <1>1. ASSUME NEW r \in Requests, ReverseTransfer(r) PROVE Known'
    BY <1>1 DEF ReverseTransfer
  <1>2. ASSUME NEW r \in Requests, RefundBuyer(r) PROVE Known'
    BY <1>2 DEF RefundBuyer
  <1>3. ASSUME NEW r \in Requests, UpdateListing(r) PROVE Known'
    BY <1>3 DEF UpdateListing
  <1>4. ASSUME NEW r \in Requests, Save(r) PROVE Known'
    BY <1>4 DEF Save
  <1>5. ASSUME NEW r \in Requests, OpenPolicyIssue(r) PROVE Known'
    BY <1>5 DEF OpenPolicyIssue
  <1>6. ASSUME NEW r \in Requests, CountOffence(r) PROVE Known'
    BY <1>6 DEF CountOffence
  <1>7. ASSUME NEW r \in Requests, MarkProcessing(r) PROVE Known'
    BY <1>7 DEF MarkProcessing
  <1>8. ASSUME NEW r \in Requests, Transfer(r) PROVE Known'
    BY <1>8 DEF Transfer
  <1>9. ASSUME NEW r \in Requests, TransferThrows(r) PROVE Known'
    BY <1>9 DEF TransferThrows
  <1>10. ASSUME NEW r \in Requests, SavePaid(r) PROVE Known'
    BY <1>10 DEF SavePaid
  <1>11. ASSUME NEW r \in Requests, SavePaidThrows(r) PROVE Known'
    BY <1>11 DEF SavePaidThrows
  <1>12. ASSUME NEW r \in Requests, SaveFailed(r) PROVE Known'
    BY <1>12 DEF SaveFailed
  <1>13. ASSUME NEW r \in Requests, SaveMissed(r) PROVE Known'
    BY <1>13 DEF SaveMissed
  <1>14. ASSUME NEW r \in Requests, RelistMissed(r) PROVE Known'
    BY <1>14 DEF RelistMissed
  <1>15. ASSUME NEW r \in Requests, ReadForIssue(r) PROVE Known'
    BY <1>15 DEF ReadForIssue
  <1>16. ASSUME NEW r \in Requests, CreateIssue(r) PROVE Known'
    BY <1>16 DEF CreateIssue
  <1>17. ASSUME NEW r \in Requests, ResolveListing(r) PROVE Known'
    BY <1>17 DEF ResolveListing
  <1>18. ASSUME NEW r \in Requests, ResolveDelete(r) PROVE Known'
    BY <1>18 DEF ResolveDelete
  <1>19. ASSUME NEW r \in Requests, CloseIssue(r) PROVE Known'
    BY <1>19 DEF CloseIssue
  <1>20. ASSUME NEW r \in Requests, RefundLate(r) PROVE Known'
    BY <1>20 DEF RefundLate
  <1>21. ASSUME NEW r \in Requests, MarkLate(r) PROVE Known'
    BY <1>21 DEF MarkLate
  <1>22. ASSUME NEW r \in Requests, RefundThrows(r) PROVE Known'
    BY <1>22 DEF RefundThrows
  <1>23. ASSUME NEW r \in Requests, Abort(r) PROVE Known'
    BY <1>23 DEF Abort
  <1>24. ASSUME NEW r \in Requests, NEW o \in Orders, StartPayout(r, o) PROVE Known'
    BY <1>24 DEF StartPayout
  <1>25. ASSUME NEW r \in Requests, NEW o \in Orders, StartMissed(r, o) PROVE Known'
    BY <1>25 DEF StartMissed
  <1>26. ASSUME NEW r \in Requests, NEW o \in Orders, StartLate(r, o) PROVE Known'
    BY <1>26 DEF StartLate
  <1>27. ASSUME NEW r \in Requests, NEW o \in Orders, NEW target \in OrderStatuses,
              NEW outcome \in Outcomes \cup {None}, StartUpdate(r, o, target, outcome) PROVE Known'
    BY <1>27 DEF StartUpdate
  <1>28. ASSUME NEW r \in Requests, NEW o \in Orders,
              NEW outcome \in AtVerification \cup AtDelivery \cup {None},
              StartIssue(r, o, outcome) PROVE Known'
    BY <1>28 DEF StartIssue
  <1>29. ASSUME NEW r \in Requests, NEW o \in Orders, NEW i \in IssueIds,
              NEW step \in {"resolveListing", "resolveDelete"}, StartResolve(r, o, i, step) PROVE Known'
    BY <1>29 DEF StartResolve
  <1>30. CASE UNCHANGED vars
    BY <1>30 DEF vars
  <1> HIDE DEF
        order, stripe, job, desk, At, Goto, Return, Enter, Decide, TypeOK,
        Known, OrderStatuses, Dead, Delivering, MayMove, FirstStep,
        AfterReverse, KnowsTransfer, Transitions, Outcomes, AtVerification,
        AtDelivery, AtCollection
  <1> QED
    BY
      <1>1, <1>2, <1>3, <1>4, <1>5, <1>6, <1>7, <1>8, <1>9, <1>10, <1>11,
      <1>12, <1>13, <1>14, <1>15, <1>16, <1>17, <1>18, <1>19, <1>20, <1>21,
      <1>22, <1>23, <1>24, <1>25, <1>26, <1>27, <1>28, <1>29, <1>30
    DEF Next, Continue, Start

\* Every variable keeps its type.
LEMMA TypeStep == TypeOK /\ Known /\ [Next]_vars => TypeOK'
  <1> SUFFICES ASSUME TypeOK /\ Known, [Next]_vars PROVE TypeOK'
    OBVIOUS
  <1> USE NoneAssumption, BoundAssumption DEF
        order, stripe, job, desk, At, Goto, Return, Enter, Decide, TypeOK,
        Known, OrderStatuses, Dead, Delivering, MayMove, FirstStep,
        AfterReverse, KnowsTransfer, Transitions, Outcomes, AtVerification,
        AtDelivery, AtCollection, SetListing, Amount, Amounts, Steps,
        PayoutStatuses, PaymentAfter, NewIssues
  <1>1. ASSUME NEW r \in Requests, ReverseTransfer(r) PROVE TypeOK'
    BY <1>1 DEF ReverseTransfer
  <1>2. ASSUME NEW r \in Requests, RefundBuyer(r) PROVE TypeOK'
    BY <1>2 DEF RefundBuyer
  <1>3. ASSUME NEW r \in Requests, UpdateListing(r) PROVE TypeOK'
    BY <1>3 DEF UpdateListing
  <1>4. ASSUME NEW r \in Requests, Save(r) PROVE TypeOK'
    <2>1. status' \in [Orders -> OrderStatuses]
      BY <1>4 DEF Save
    <2>2. payment' \in [Orders -> {"paid", "refunded"}]
      BY <1>4 DEF Save
    <2>3. payout' \in [Orders -> PayoutStatuses]
      BY <1>4 DEF Save
    <2>4. recorded' \in [Orders -> Amounts \cup {"none"}]
      BY <1>4 DEF Save
    <2>5. UNCHANGED <<transferId, missed, listing, named, desk, stripe, crossed, died>>
      BY <1>4 DEF Save
    <2>6. CASE Return(r)
      BY <2>6, <2>1, <2>2, <2>3, <2>4, <2>5
    <2>7. CASE Goto(r, "missedRelist")
      BY <2>7, <2>1, <2>2, <2>3, <2>4, <2>5
    <2>8. CASE Goto(r, "offence")
      BY <2>8, <2>1, <2>2, <2>3, <2>4, <2>5
    <2>9. CASE Goto(r, "policyIssue")
      BY <2>9, <2>1, <2>2, <2>3, <2>4, <2>5
    <2> QED
      BY <1>4, <2>6, <2>7, <2>8, <2>9 DEF Save
  <1>5. ASSUME NEW r \in Requests, OpenPolicyIssue(r) PROVE TypeOK'
    <2>1. open' \in [Orders -> SUBSET IssueIds]
      BY <1>5 DEF OpenPolicyIssue
    <2>2. UNCHANGED <<order, listing, named, offences, relisted, stripe, crossed, died>>
      BY <1>5 DEF OpenPolicyIssue
    <2>3. Goto(r, "offence")
      BY <1>5 DEF OpenPolicyIssue
    <2> QED
      BY <2>1, <2>2, <2>3
  <1>6. ASSUME NEW r \in Requests, CountOffence(r) PROVE TypeOK'
    <2>1. offences' \in [Orders -> Nat]
      BY <1>6 DEF CountOffence
    <2>2. UNCHANGED <<order, listing, named, open, relisted, stripe, crossed, died>>
      BY <1>6 DEF CountOffence
    <2>3. CASE Return(r)
      BY <2>3, <2>1, <2>2
    <2>4. CASE Goto(r, "issueCreate")
      BY <2>4, <2>1, <2>2
    <2> QED
      BY <1>6, <2>3, <2>4 DEF CountOffence
  <1>7. ASSUME NEW r \in Requests, MarkProcessing(r) PROVE TypeOK'
    BY <1>7 DEF MarkProcessing
  <1>8. ASSUME NEW r \in Requests, Transfer(r) PROVE TypeOK'
    BY <1>8 DEF Transfer
  <1>9. ASSUME NEW r \in Requests, TransferThrows(r) PROVE TypeOK'
    BY <1>9 DEF TransferThrows
  <1>10. ASSUME NEW r \in Requests, SavePaid(r) PROVE TypeOK'
    BY <1>10 DEF SavePaid
  <1>11. ASSUME NEW r \in Requests, SavePaidThrows(r) PROVE TypeOK'
    BY <1>11 DEF SavePaidThrows
  <1>12. ASSUME NEW r \in Requests, SaveFailed(r) PROVE TypeOK'
    BY <1>12 DEF SaveFailed
  <1>13. ASSUME NEW r \in Requests, SaveMissed(r) PROVE TypeOK'
    <2>1. missed' \in [Orders -> Nat]
      BY <1>13 DEF SaveMissed
    <2>2. UNCHANGED <<status, payment, payout, transferId, recorded,
                      listing, named, desk, stripe, crossed, died>>
      BY <1>13 DEF SaveMissed
    <2>3. CASE Return(r)
      BY <2>3, <2>1, <2>2
    <2>4. CASE Goto(r, "reverse")
      BY <2>4, <2>1, <2>2
    <2>5. CASE Goto(r, "refund")
      BY <2>5, <2>1, <2>2
    <2>6. CASE Goto(r, "save")
      BY <2>6, <2>1, <2>2
    <2>7. CASE Goto(r, "listing")
      BY <2>7, <2>1, <2>2
    <2> QED
      BY <1>13, <2>3, <2>4, <2>5, <2>6, <2>7 DEF SaveMissed
  <1>14. ASSUME NEW r \in Requests, RelistMissed(r) PROVE TypeOK'
    BY <1>14 DEF RelistMissed
  <1>15. ASSUME NEW r \in Requests, ReadForIssue(r) PROVE TypeOK'
    <2>1. CASE Return(r)
      BY <1>15, <2>1 DEF ReadForIssue
    <2>2. CASE Goto(r, "issueCreate")
      BY <1>15, <2>2 DEF ReadForIssue
    <2>3. CASE /\ Decide(r, on[r], FirstStep(on[r], "refunded"), "refunded", why[r])
               /\ UNCHANGED <<on, count>>
      BY <1>15, <2>3 DEF ReadForIssue
    <2> QED
      BY <1>15, <2>1, <2>2, <2>3 DEF ReadForIssue
  <1>16. ASSUME NEW r \in Requests, CreateIssue(r) PROVE TypeOK'
    BY <1>16 DEF CreateIssue
  <1>17. ASSUME NEW r \in Requests, ResolveListing(r) PROVE TypeOK'
    BY <1>17 DEF ResolveListing
  <1>18. ASSUME NEW r \in Requests, ResolveDelete(r) PROVE TypeOK'
    BY <1>18 DEF ResolveDelete
  <1>19. ASSUME NEW r \in Requests, CloseIssue(r) PROVE TypeOK'
    BY <1>19 DEF CloseIssue
  <1>20. ASSUME NEW r \in Requests, RefundLate(r) PROVE TypeOK'
    BY <1>20 DEF RefundLate
  <1>21. ASSUME NEW r \in Requests, MarkLate(r) PROVE TypeOK'
    <2>1. status' \in [Orders -> OrderStatuses] /\ payment' \in [Orders -> {"paid", "refunded"}]
      <3>1. CASE status[on[r]] \in Dead
        <4>1. /\ status' = [status EXCEPT ![on[r]] = "refunded"]
              /\ payment' = [payment EXCEPT ![on[r]] = "refunded"]
          BY <1>21, <3>1 DEF MarkLate
        <4>2. /\ status \in [Orders -> OrderStatuses]
              /\ payment \in [Orders -> {"paid", "refunded"}]
          OBVIOUS
        <4>3. "refunded" \in OrderStatuses
          OBVIOUS
        <4> HIDE DEF OrderStatuses, TypeOK, Known, Transitions
        <4> QED
          BY <4>1, <4>2, <4>3
      <3>2. CASE status[on[r]] \notin Dead
        BY <1>21, <3>2 DEF MarkLate
      <3> QED
        BY <3>1, <3>2
    <2>2. UNCHANGED <<payout, transferId, missed, recorded,
                      listing, named, desk, stripe, crossed, died>>
      BY <1>21 DEF MarkLate
    <2>3. Return(r)
      BY <1>21 DEF MarkLate
    <2> QED
      BY <2>1, <2>2, <2>3
  <1>22. ASSUME NEW r \in Requests, RefundThrows(r) PROVE TypeOK'
    BY <1>22 DEF RefundThrows
  <1>23. ASSUME NEW r \in Requests, Abort(r) PROVE TypeOK'
    BY <1>23 DEF Abort
  <1>24. ASSUME NEW r \in Requests, NEW o \in Orders, StartPayout(r, o) PROVE TypeOK'
    BY <1>24 DEF StartPayout
  <1>25. ASSUME NEW r \in Requests, NEW o \in Orders, StartMissed(r, o) PROVE TypeOK'
    BY <1>25 DEF StartMissed
  <1>26. ASSUME NEW r \in Requests, NEW o \in Orders, StartLate(r, o) PROVE TypeOK'
    BY <1>26 DEF StartLate
  <1>27. ASSUME NEW r \in Requests, NEW o \in Orders, NEW target \in OrderStatuses,
              NEW outcome \in Outcomes \cup {None}, StartUpdate(r, o, target, outcome) PROVE TypeOK'
    BY <1>27 DEF StartUpdate
  <1>28. ASSUME NEW r \in Requests, NEW o \in Orders,
              NEW outcome \in AtVerification \cup AtDelivery \cup {None},
              StartIssue(r, o, outcome) PROVE TypeOK'
    BY <1>28 DEF StartIssue
  <1>29. ASSUME NEW r \in Requests, NEW o \in Orders, NEW i \in IssueIds,
              NEW step \in {"resolveListing", "resolveDelete"}, StartResolve(r, o, i, step) PROVE TypeOK'
    BY <1>29 DEF StartResolve
  <1>30. CASE UNCHANGED vars
    BY <1>30 DEF vars
  <1> HIDE DEF
        order, stripe, job, desk, At, Goto, Return, Enter, Decide, TypeOK,
        Known, OrderStatuses, Dead, Delivering, MayMove, FirstStep,
        AfterReverse, KnowsTransfer, Transitions, Outcomes, AtVerification,
        AtDelivery, AtCollection, SetListing, Amount, Amounts, Steps,
        PayoutStatuses, PaymentAfter, NewIssues
  <1> QED
    BY
      <1>1, <1>2, <1>3, <1>4, <1>5, <1>6, <1>7, <1>8, <1>9, <1>10, <1>11,
      <1>12, <1>13, <1>14, <1>15, <1>16, <1>17, <1>18, <1>19, <1>20, <1>21,
      <1>22, <1>23, <1>24, <1>25, <1>26, <1>27, <1>28, <1>29, <1>30
    DEF Next, Continue, Start

\* No step sends an item out whose seller was not paid.
LEMMA SentStep == TypeOK /\ Known /\ SentInv /\ [Next]_vars => SentInv'
  <1> SUFFICES ASSUME TypeOK /\ Known /\ SentInv, [Next]_vars PROVE SentInv'
    OBVIOUS
  <1> USE NoneAssumption DEF
        order, stripe, job, desk, At, Goto, Return, Enter, Decide, TypeOK,
        Known, OrderStatuses, Dead, Delivering, MayMove, FirstStep,
        AfterReverse, KnowsTransfer, Transitions, Outcomes, AtVerification,
        AtDelivery, AtCollection, SentInv, PaidBeforeDelivery
  <1>1. ASSUME NEW r \in Requests, ReverseTransfer(r) PROVE SentInv'
    BY <1>1 DEF ReverseTransfer
  <1>2. ASSUME NEW r \in Requests, RefundBuyer(r) PROVE SentInv'
    BY <1>2 DEF RefundBuyer
  <1>3. ASSUME NEW r \in Requests, UpdateListing(r) PROVE SentInv'
    BY <1>3 DEF UpdateListing
  <1>4. ASSUME NEW r \in Requests, Save(r) PROVE SentInv'
    BY <1>4 DEF Save
  <1>5. ASSUME NEW r \in Requests, OpenPolicyIssue(r) PROVE SentInv'
    BY <1>5 DEF OpenPolicyIssue
  <1>6. ASSUME NEW r \in Requests, CountOffence(r) PROVE SentInv'
    BY <1>6 DEF CountOffence
  <1>7. ASSUME NEW r \in Requests, MarkProcessing(r) PROVE SentInv'
    BY <1>7 DEF MarkProcessing
  <1>8. ASSUME NEW r \in Requests, Transfer(r) PROVE SentInv'
    BY <1>8 DEF Transfer
  <1>9. ASSUME NEW r \in Requests, TransferThrows(r) PROVE SentInv'
    BY <1>9 DEF TransferThrows
  <1>10. ASSUME NEW r \in Requests, SavePaid(r) PROVE SentInv'
    BY <1>10 DEF SavePaid
  <1>11. ASSUME NEW r \in Requests, SavePaidThrows(r) PROVE SentInv'
    BY <1>11 DEF SavePaidThrows
  <1>12. ASSUME NEW r \in Requests, SaveFailed(r) PROVE SentInv'
    BY <1>12 DEF SaveFailed
  <1>13. ASSUME NEW r \in Requests, SaveMissed(r) PROVE SentInv'
    BY <1>13 DEF SaveMissed
  <1>14. ASSUME NEW r \in Requests, RelistMissed(r) PROVE SentInv'
    BY <1>14 DEF RelistMissed
  <1>15. ASSUME NEW r \in Requests, ReadForIssue(r) PROVE SentInv'
    BY <1>15 DEF ReadForIssue
  <1>16. ASSUME NEW r \in Requests, CreateIssue(r) PROVE SentInv'
    BY <1>16 DEF CreateIssue
  <1>17. ASSUME NEW r \in Requests, ResolveListing(r) PROVE SentInv'
    BY <1>17 DEF ResolveListing
  <1>18. ASSUME NEW r \in Requests, ResolveDelete(r) PROVE SentInv'
    BY <1>18 DEF ResolveDelete
  <1>19. ASSUME NEW r \in Requests, CloseIssue(r) PROVE SentInv'
    BY <1>19 DEF CloseIssue
  <1>20. ASSUME NEW r \in Requests, RefundLate(r) PROVE SentInv'
    BY <1>20 DEF RefundLate
  <1>21. ASSUME NEW r \in Requests, MarkLate(r) PROVE SentInv'
    BY <1>21 DEF MarkLate
  <1>22. ASSUME NEW r \in Requests, RefundThrows(r) PROVE SentInv'
    BY <1>22 DEF RefundThrows
  <1>23. ASSUME NEW r \in Requests, Abort(r) PROVE SentInv'
    BY <1>23 DEF Abort
  <1>24. ASSUME NEW r \in Requests, NEW o \in Orders, StartPayout(r, o) PROVE SentInv'
    BY <1>24 DEF StartPayout
  <1>25. ASSUME NEW r \in Requests, NEW o \in Orders, StartMissed(r, o) PROVE SentInv'
    BY <1>25 DEF StartMissed
  <1>26. ASSUME NEW r \in Requests, NEW o \in Orders, StartLate(r, o) PROVE SentInv'
    BY <1>26 DEF StartLate
  <1>27. ASSUME NEW r \in Requests, NEW o \in Orders, NEW target \in OrderStatuses,
              NEW outcome \in Outcomes \cup {None}, StartUpdate(r, o, target, outcome) PROVE SentInv'
    BY <1>27 DEF StartUpdate
  <1>28. ASSUME NEW r \in Requests, NEW o \in Orders,
              NEW outcome \in AtVerification \cup AtDelivery \cup {None},
              StartIssue(r, o, outcome) PROVE SentInv'
    BY <1>28 DEF StartIssue
  <1>29. ASSUME NEW r \in Requests, NEW o \in Orders, NEW i \in IssueIds,
              NEW step \in {"resolveListing", "resolveDelete"}, StartResolve(r, o, i, step) PROVE SentInv'
    BY <1>29 DEF StartResolve
  <1>30. CASE UNCHANGED vars
    BY <1>30 DEF vars
  <1> HIDE DEF
        order, stripe, job, desk, At, Goto, Return, Enter, Decide, TypeOK,
        Known, OrderStatuses, Dead, Delivering, MayMove, FirstStep,
        AfterReverse, KnowsTransfer, Transitions, Outcomes, AtVerification,
        AtDelivery, AtCollection, SentInv, PaidBeforeDelivery
  <1> QED
    BY
      <1>1, <1>2, <1>3, <1>4, <1>5, <1>6, <1>7, <1>8, <1>9, <1>10, <1>11,
      <1>12, <1>13, <1>14, <1>15, <1>16, <1>17, <1>18, <1>19, <1>20, <1>21,
      <1>22, <1>23, <1>24, <1>25, <1>26, <1>27, <1>28, <1>29, <1>30
    DEF Next, Continue, Start

\* No step makes a dead order count as paid.
LEMMA PaidStep == TypeOK /\ Known /\ PaidInv /\ [Next]_vars => PaidInv'
  <1> SUFFICES ASSUME TypeOK /\ Known /\ PaidInv, [Next]_vars PROVE PaidInv'
    OBVIOUS
  <1> USE NoneAssumption DEF
        order, stripe, job, desk, At, Goto, Return, Enter, Decide, TypeOK,
        Known, OrderStatuses, Dead, Delivering, MayMove, FirstStep,
        AfterReverse, KnowsTransfer, Transitions, Outcomes, AtVerification,
        AtDelivery, AtCollection, PaymentAfter, PaidInv, DeadIsNotPaid
  <1>1. ASSUME NEW r \in Requests, ReverseTransfer(r) PROVE PaidInv'
    BY <1>1 DEF ReverseTransfer
  <1>2. ASSUME NEW r \in Requests, RefundBuyer(r) PROVE PaidInv'
    BY <1>2 DEF RefundBuyer
  <1>3. ASSUME NEW r \in Requests, UpdateListing(r) PROVE PaidInv'
    BY <1>3 DEF UpdateListing
  <1>4. ASSUME NEW r \in Requests, Save(r) PROVE PaidInv'
    BY <1>4 DEF Save
  <1>5. ASSUME NEW r \in Requests, OpenPolicyIssue(r) PROVE PaidInv'
    BY <1>5 DEF OpenPolicyIssue
  <1>6. ASSUME NEW r \in Requests, CountOffence(r) PROVE PaidInv'
    BY <1>6 DEF CountOffence
  <1>7. ASSUME NEW r \in Requests, MarkProcessing(r) PROVE PaidInv'
    BY <1>7 DEF MarkProcessing
  <1>8. ASSUME NEW r \in Requests, Transfer(r) PROVE PaidInv'
    BY <1>8 DEF Transfer
  <1>9. ASSUME NEW r \in Requests, TransferThrows(r) PROVE PaidInv'
    BY <1>9 DEF TransferThrows
  <1>10. ASSUME NEW r \in Requests, SavePaid(r) PROVE PaidInv'
    BY <1>10 DEF SavePaid
  <1>11. ASSUME NEW r \in Requests, SavePaidThrows(r) PROVE PaidInv'
    BY <1>11 DEF SavePaidThrows
  <1>12. ASSUME NEW r \in Requests, SaveFailed(r) PROVE PaidInv'
    BY <1>12 DEF SaveFailed
  <1>13. ASSUME NEW r \in Requests, SaveMissed(r) PROVE PaidInv'
    BY <1>13 DEF SaveMissed
  <1>14. ASSUME NEW r \in Requests, RelistMissed(r) PROVE PaidInv'
    BY <1>14 DEF RelistMissed
  <1>15. ASSUME NEW r \in Requests, ReadForIssue(r) PROVE PaidInv'
    <2>1. CASE Return(r)
      BY <1>15, <2>1 DEF ReadForIssue
    <2>2. CASE Goto(r, "issueCreate")
      BY <1>15, <2>2 DEF ReadForIssue
    <2>3. CASE /\ Decide(r, on[r], FirstStep(on[r], "refunded"), "refunded", why[r])
               /\ UNCHANGED <<on, count>>
      <3>1. owes'[r] <=> payment[on[r]] = "paid"
        BY <2>3, ZenonT(30)
      <3> QED
        BY <1>15, <2>3, <3>1 DEF ReadForIssue
    <2> QED
      BY <1>15, <2>1, <2>2, <2>3 DEF ReadForIssue
  <1>16. ASSUME NEW r \in Requests, CreateIssue(r) PROVE PaidInv'
    BY <1>16 DEF CreateIssue
  <1>17. ASSUME NEW r \in Requests, ResolveListing(r) PROVE PaidInv'
    BY <1>17 DEF ResolveListing
  <1>18. ASSUME NEW r \in Requests, ResolveDelete(r) PROVE PaidInv'
    BY <1>18 DEF ResolveDelete
  <1>19. ASSUME NEW r \in Requests, CloseIssue(r) PROVE PaidInv'
    BY <1>19 DEF CloseIssue
  <1>20. ASSUME NEW r \in Requests, RefundLate(r) PROVE PaidInv'
    BY <1>20 DEF RefundLate
  <1>21. ASSUME NEW r \in Requests, MarkLate(r) PROVE PaidInv'
    BY <1>21 DEF MarkLate
  <1>22. ASSUME NEW r \in Requests, RefundThrows(r) PROVE PaidInv'
    BY <1>22 DEF RefundThrows
  <1>23. ASSUME NEW r \in Requests, Abort(r) PROVE PaidInv'
    BY <1>23 DEF Abort
  <1>24. ASSUME NEW r \in Requests, NEW o \in Orders, StartPayout(r, o) PROVE PaidInv'
    BY <1>24 DEF StartPayout
  <1>25. ASSUME NEW r \in Requests, NEW o \in Orders, StartMissed(r, o) PROVE PaidInv'
    <2>1. owes'[r] <=> payment[o] = "paid"
      BY <1>25 DEF StartMissed
    <2>2. on'[r] = o /\ UNCHANGED payment
      BY <1>25 DEF StartMissed
    <2> QED
      BY <1>25, <2>1, <2>2 DEF StartMissed
  <1>26. ASSUME NEW r \in Requests, NEW o \in Orders, StartLate(r, o) PROVE PaidInv'
    BY <1>26 DEF StartLate
  <1>27. ASSUME NEW r \in Requests, NEW o \in Orders, NEW target \in OrderStatuses,
              NEW outcome \in Outcomes \cup {None}, StartUpdate(r, o, target, outcome) PROVE PaidInv'
    <2>1. Enter(r, o) /\ Decide(r, o, FirstStep(o, target), target, outcome)
      BY <1>27 DEF StartUpdate
    <2>2. owes'[r] <=> payment[o] = "paid"
      <3>1. owes' = [owes EXCEPT ![r] = (payment[o] = "paid")] /\ owes \in [Requests -> BOOLEAN]
        BY <2>1
      <3> HIDE DEF TypeOK, Known, PaidInv
      <3> QED
        BY <3>1
    <2>3. on'[r] = o /\ UNCHANGED payment
      BY <2>1
    <2> QED
      BY <2>1, <2>2, <2>3
  <1>28. ASSUME NEW r \in Requests, NEW o \in Orders,
              NEW outcome \in AtVerification \cup AtDelivery \cup {None},
              StartIssue(r, o, outcome) PROVE PaidInv'
    BY <1>28 DEF StartIssue
  <1>29. ASSUME NEW r \in Requests, NEW o \in Orders, NEW i \in IssueIds,
              NEW step \in {"resolveListing", "resolveDelete"}, StartResolve(r, o, i, step) PROVE PaidInv'
    BY <1>29 DEF StartResolve
  <1>30. CASE UNCHANGED vars
    BY <1>30 DEF vars
  <1> HIDE DEF
        order, stripe, job, desk, At, Goto, Return, Enter, Decide, TypeOK,
        Known, OrderStatuses, Dead, Delivering, MayMove, FirstStep,
        AfterReverse, KnowsTransfer, Transitions, Outcomes, AtVerification,
        AtDelivery, AtCollection, PaymentAfter, PaidInv, DeadIsNotPaid
  <1> QED
    BY
      <1>1, <1>2, <1>3, <1>4, <1>5, <1>6, <1>7, <1>8, <1>9, <1>10, <1>11,
      <1>12, <1>13, <1>14, <1>15, <1>16, <1>17, <1>18, <1>19, <1>20, <1>21,
      <1>22, <1>23, <1>24, <1>25, <1>26, <1>27, <1>28, <1>29, <1>30
    DEF Next, Continue, Start

\* No step records a refund that was not made.
LEMMA RefundStep == TypeOK /\ Known /\ RefundInv /\ [Next]_vars => RefundInv'
  <1> SUFFICES ASSUME TypeOK /\ Known /\ RefundInv, [Next]_vars PROVE RefundInv'
    OBVIOUS
  <1> USE NoneAssumption DEF
        order, stripe, job, desk, At, Goto, Return, Enter, Decide, TypeOK,
        Known, OrderStatuses, Dead, Delivering, MayMove, FirstStep,
        AfterReverse, KnowsTransfer, Transitions, Outcomes, AtVerification,
        AtDelivery, AtCollection, PaymentAfter, Amount, RefundInv,
        RefundIsReal, Returned
  <1>1. ASSUME NEW r \in Requests, ReverseTransfer(r) PROVE RefundInv'
    BY <1>1 DEF ReverseTransfer
  <1>2. ASSUME NEW r \in Requests, RefundBuyer(r) PROVE RefundInv'
    BY <1>2 DEF RefundBuyer
  <1>3. ASSUME NEW r \in Requests, UpdateListing(r) PROVE RefundInv'
    BY <1>3 DEF UpdateListing
  <1>4. ASSUME NEW r \in Requests, Save(r) PROVE RefundInv'
    BY <1>4 DEF Save
  <1>5. ASSUME NEW r \in Requests, OpenPolicyIssue(r) PROVE RefundInv'
    BY <1>5 DEF OpenPolicyIssue
  <1>6. ASSUME NEW r \in Requests, CountOffence(r) PROVE RefundInv'
    BY <1>6 DEF CountOffence
  <1>7. ASSUME NEW r \in Requests, MarkProcessing(r) PROVE RefundInv'
    BY <1>7 DEF MarkProcessing
  <1>8. ASSUME NEW r \in Requests, Transfer(r) PROVE RefundInv'
    BY <1>8 DEF Transfer
  <1>9. ASSUME NEW r \in Requests, TransferThrows(r) PROVE RefundInv'
    BY <1>9 DEF TransferThrows
  <1>10. ASSUME NEW r \in Requests, SavePaid(r) PROVE RefundInv'
    BY <1>10 DEF SavePaid
  <1>11. ASSUME NEW r \in Requests, SavePaidThrows(r) PROVE RefundInv'
    BY <1>11 DEF SavePaidThrows
  <1>12. ASSUME NEW r \in Requests, SaveFailed(r) PROVE RefundInv'
    BY <1>12 DEF SaveFailed
  <1>13. ASSUME NEW r \in Requests, SaveMissed(r) PROVE RefundInv'
    BY <1>13 DEF SaveMissed
  <1>14. ASSUME NEW r \in Requests, RelistMissed(r) PROVE RefundInv'
    BY <1>14 DEF RelistMissed
  <1>15. ASSUME NEW r \in Requests, ReadForIssue(r) PROVE RefundInv'
    BY <1>15 DEF ReadForIssue
  <1>16. ASSUME NEW r \in Requests, CreateIssue(r) PROVE RefundInv'
    BY <1>16 DEF CreateIssue
  <1>17. ASSUME NEW r \in Requests, ResolveListing(r) PROVE RefundInv'
    BY <1>17 DEF ResolveListing
  <1>18. ASSUME NEW r \in Requests, ResolveDelete(r) PROVE RefundInv'
    BY <1>18 DEF ResolveDelete
  <1>19. ASSUME NEW r \in Requests, CloseIssue(r) PROVE RefundInv'
    BY <1>19 DEF CloseIssue
  <1>20. ASSUME NEW r \in Requests, RefundLate(r) PROVE RefundInv'
    BY <1>20 DEF RefundLate
  <1>21. ASSUME NEW r \in Requests, MarkLate(r) PROVE RefundInv'
    BY <1>21 DEF MarkLate
  <1>22. ASSUME NEW r \in Requests, RefundThrows(r) PROVE RefundInv'
    BY <1>22 DEF RefundThrows
  <1>23. ASSUME NEW r \in Requests, Abort(r) PROVE RefundInv'
    BY <1>23 DEF Abort
  <1>24. ASSUME NEW r \in Requests, NEW o \in Orders, StartPayout(r, o) PROVE RefundInv'
    BY <1>24 DEF StartPayout
  <1>25. ASSUME NEW r \in Requests, NEW o \in Orders, StartMissed(r, o) PROVE RefundInv'
    BY <1>25 DEF StartMissed
  <1>26. ASSUME NEW r \in Requests, NEW o \in Orders, StartLate(r, o) PROVE RefundInv'
    BY <1>26 DEF StartLate
  <1>27. ASSUME NEW r \in Requests, NEW o \in Orders, NEW target \in OrderStatuses,
              NEW outcome \in Outcomes \cup {None}, StartUpdate(r, o, target, outcome) PROVE RefundInv'
    BY <1>27 DEF StartUpdate
  <1>28. ASSUME NEW r \in Requests, NEW o \in Orders,
              NEW outcome \in AtVerification \cup AtDelivery \cup {None},
              StartIssue(r, o, outcome) PROVE RefundInv'
    BY <1>28 DEF StartIssue
  <1>29. ASSUME NEW r \in Requests, NEW o \in Orders, NEW i \in IssueIds,
              NEW step \in {"resolveListing", "resolveDelete"}, StartResolve(r, o, i, step) PROVE RefundInv'
    BY <1>29 DEF StartResolve
  <1>30. CASE UNCHANGED vars
    BY <1>30 DEF vars
  <1> HIDE DEF
        order, stripe, job, desk, At, Goto, Return, Enter, Decide, TypeOK,
        Known, OrderStatuses, Dead, Delivering, MayMove, FirstStep,
        AfterReverse, KnowsTransfer, Transitions, Outcomes, AtVerification,
        AtDelivery, AtCollection, PaymentAfter, Amount, RefundInv,
        RefundIsReal, Returned
  <1> QED
    BY
      <1>1, <1>2, <1>3, <1>4, <1>5, <1>6, <1>7, <1>8, <1>9, <1>10, <1>11,
      <1>12, <1>13, <1>14, <1>15, <1>16, <1>17, <1>18, <1>19, <1>20, <1>21,
      <1>22, <1>23, <1>24, <1>25, <1>26, <1>27, <1>28, <1>29, <1>30
    DEF Next, Continue, Start

\* The inductive invariant holds when the payment has just been claimed.
LEMMA Initially == Init => IInv
BY NoneAssumption, BoundAssumption
DEF Init, IInv, TypeOK, Known, SentInv, PaidInv, RefundInv, PaidBeforeDelivery,
    DeadIsNotPaid, RefundIsReal, Returned, OrderStatuses, Dead, Delivering,
    PayoutStatuses, Amounts, Steps, At

\* The inductive invariant holds in every reachable state.
THEOREM Invariance == Spec => []IInv
  <1>1. IInv /\ [Next]_vars => IInv'
    BY KnownStep, TypeStep, SentStep, PaidStep, RefundStep DEF IInv
  <1> QED
    BY Initially, <1>1, PTL DEF Spec

\* Every variable has its type in every reachable state.
THEOREM Typing == Spec => []TypeOK
  <1>1. IInv => TypeOK
    BY DEF IInv
  <1> QED
    BY Invariance, <1>1, PTL

\* An item goes out for delivery only when its seller was sent the payout.
THEOREM SellerIsPaidFirst == Spec => []PaidBeforeDelivery
  <1>1. IInv => PaidBeforeDelivery
    BY DEF IInv, SentInv
  <1> QED
    BY Invariance, <1>1, PTL

\* No refunded or cancelled order counts as paid.
THEOREM DeadNeverPaid == Spec => []DeadIsNotPaid
  <1>1. IInv => DeadIsNotPaid
    BY DEF IInv, PaidInv
  <1> QED
    BY Invariance, <1>1, PTL

\* A payment recorded as refunded has been refunded at Stripe.
THEOREM RefundsAreMade == Spec => []RefundIsReal
  <1>1. IInv => RefundIsReal
    BY DEF IInv, RefundInv
  <1> QED
    BY Invariance, <1>1, PTL

-----------------------------------------------------------------------------
(* Orders whose handlers came one by one *)

\* No two handlers have order o in hand.
Alone(o) == \A r, q \in Requests : on[r] = o /\ on[q] = o => r = q

\* An idle slot has no order and no issue in hand.
Idle == \A r \in Requests : at[r] = "idle" => on[r] = None /\ issue[r] = None

\* The steps of a handler that has decided where the order goes.
Working == {"reverse", "refund", "listing", "save"}
BeforeTransfer == {"secured", "collection_pending", "collected", "verification"}

\* What is true of an order whoever died on it, if its handlers came one by one.
Facts(o) ==
  /\ status[o] # "pending_payment"
  /\ status[o] \notin Dead => payment[o] = "paid" /\ o \notin late
  /\ payout[o] = "paid" => transferId[o] /\ status[o] \notin BeforeTransfer \cup Dead
  /\ status[o] \in Delivering => payout[o] = "paid"
  /\ o \in transferred /\ status[o] \in BeforeTransfer \cup Dead => o \in reversed
  /\ recorded[o] # "none" => recorded[o] = refund[o]
  /\ offences[o] <= 1
  /\ status[o] # "refunded" => offences[o] = 0
  /\ \A i, j \in open[o] : i = j
  /\ died[o] = 0 /\ (refund[o] # "none" \/ o \in late) /\ o \in transferred => o \in reversed

\* What is true besides of an order no handler died on, between two of them.
Unreturned(o) == status[o] \notin Dead => refund[o] = "none"
Unlisted(o) == listing[o] = "available" /\ o \notin relisted => status[o] \in Dead
Cleared(o) == status[o] \in Dead => listing[o] \notin {"secured", "sold"}
Short(o) == status[o] \in {"secured", "collection_pending"} => missed[o] < Threshold
Rested(o) == died[o] = 0 => Unreturned(o) /\ Unlisted(o) /\ Cleared(o) /\ Short(o)

\* The status and the outcome a handler has decided on are still to be had.
Allowed(r, o) ==
  /\ to[r] \in Transitions[status[o]]
  /\ \/ why[r] \in PolicyOutcomes(status[o], to[r])
     \/ status[o] = "collection_pending" /\ to[r] = "cancelled" /\ why[r] = "seller_unavailable"
  /\ to[r] = "ready_for_delivery" => payout[o] = "paid"
  /\ owes[r] /\ (knows[r] <=> KnowsTransfer(o))

\* What handler r may rely on while it has order o in hand.
Informed(r, o) ==
  /\ at[r] \in Working \cup {"missedSave"} => Allowed(r, o)
  /\ at[r] = "missedSave" => to[r] = "cancelled" /\ why[r] = "seller_unavailable"
  /\ at[r] \in {"reverse", "refund"} => to[r] \in Dead
  /\ at[r] \in {"listing", "save"} /\ to[r] \in Dead => refund[o] = Amount(r)
  /\ at[r] \in {"refund", "listing", "save"} /\ to[r] \in Dead
       => (o \in transferred => o \in reversed)
  /\ at[r] = "save" /\ to[r] \in Dead /\ why[r] \notin AtCollection
       => listing[o] \notin {"secured", "sold"}
  /\ at[r] \in {"markProcessing", "transfer", "savePaid", "saveFailed"}
       => status[o] = "payout_processing" /\ payout[o] # "paid"
  /\ at[r] = "missedRelist" => status[o] = "cancelled"
  /\ at[r] \in {"policyIssue", "offence"} => status[o] = "refunded" /\ offences[o] = 0
  /\ at[r] = "policyIssue" => issue[r] # "new"
  /\ at[r] \in {"issueRead", "issueCreate"} => open[o] = {}
  /\ at[r] \in Working \cup {"offence"} /\ issue[r] = "new" => open[o] = {}
  /\ at[r] = "missedSave" => issue[r] # "new"
  /\ at[r] \in {"lateRefund", "lateMark"} => status[o] \in Dead
  /\ died[o] = 0 =>
       /\ Unreturned(o) \/ (at[r] \in {"listing", "save"} /\ to[r] \in Dead)
       /\ Unlisted(o) \/ (at[r] = "save" /\ to[r] = "cancelled")
       /\ Cleared(o) \/ at[r] = "missedRelist"
       /\ Short(o) \/ (at[r] \in Working /\ to[r] = "cancelled")

Good(o) ==
  /\ Alone(o)
  /\ Facts(o)
  /\ \A r \in Requests : on[r] = o => Informed(r, o)
  /\ (\A r \in Requests : on[r] # o) => Rested(o)

OneByOne == Idle /\ \A o \in Orders \ crossed : Good(o)


\* A step leaves order o alone.
Untouched(o) ==
  /\ status'[o] = status[o] /\ payment'[o] = payment[o]
  /\ payout'[o] = payout[o] /\ transferId'[o] = transferId[o]
  /\ missed'[o] = missed[o] /\ recorded'[o] = recorded[o]
  /\ listing'[o] = listing[o] /\ open'[o] = open[o]
  /\ offences'[o] = offences[o] /\ refund'[o] = refund[o] /\ died'[o] = died[o]
  /\ (o \in transferred' <=> o \in transferred) /\ (o \in reversed' <=> o \in reversed)
  /\ (o \in late' <=> o \in late) /\ (o \in relisted' <=> o \in relisted)

\* A step of handler r leaves the others alone.
OthersWait(r) ==
  \A q \in Requests \ {r} :
    /\ at'[q] = at[q] /\ on'[q] = on[q] /\ to'[q] = to[q] /\ why'[q] = why[q]
    /\ owes'[q] = owes[q] /\ knows'[q] = knows[q] /\ issue'[q] = issue[q]

\* Handler r takes a step on the order it has in hand, and may be done with it.
OnOne(r) ==
  /\ OthersWait(r)
  /\ crossed' = crossed
  /\ on'[r] \in {on[r], None}
  /\ on'[r] = None => at'[r] = "idle" /\ issue'[r] = None
  /\ on'[r] = on[r] => at'[r] # "idle"
  /\ \A o \in Orders : o # on[r] => Untouched(o)

\* A handler in flight changes its own order only.
LEMMA ContinueLocal ==
  ASSUME TypeOK, Known, NEW r \in Requests, Continue(r) \/ Abort(r) PROVE OnOne(r)
  <1> USE NoneAssumption DEF
        order, stripe, job, desk, At, Goto, Return, Decide, TypeOK, Known,
        FirstStep, AfterReverse, SetListing, OnOne, OthersWait, Untouched
  <1>1. CASE ReverseTransfer(r)
    BY <1>1 DEF ReverseTransfer
  <1>2. CASE RefundBuyer(r)
    BY <1>2 DEF RefundBuyer
  <1>3. CASE UpdateListing(r)
    BY <1>3 DEF UpdateListing
  <1>4. CASE Save(r)
    BY <1>4 DEF Save
  <1>5. CASE OpenPolicyIssue(r)
    BY <1>5 DEF OpenPolicyIssue
  <1>6. CASE CountOffence(r)
    BY <1>6 DEF CountOffence
  <1>7. CASE MarkProcessing(r)
    BY <1>7 DEF MarkProcessing
  <1>8. CASE Transfer(r)
    BY <1>8 DEF Transfer
  <1>9. CASE TransferThrows(r)
    BY <1>9 DEF TransferThrows
  <1>10. CASE SavePaid(r)
    BY <1>10 DEF SavePaid
  <1>11. CASE SavePaidThrows(r)
    BY <1>11 DEF SavePaidThrows
  <1>12. CASE SaveFailed(r)
    BY <1>12 DEF SaveFailed
  <1>13. CASE SaveMissed(r)
    BY <1>13 DEF SaveMissed
  <1>14. CASE RelistMissed(r)
    BY <1>14 DEF RelistMissed
  <1>15. CASE ReadForIssue(r)
    BY <1>15 DEF ReadForIssue
  <1>16. CASE CreateIssue(r)
    BY <1>16 DEF CreateIssue
  <1>17. CASE ResolveListing(r)
    BY <1>17 DEF ResolveListing
  <1>18. CASE ResolveDelete(r)
    BY <1>18 DEF ResolveDelete
  <1>19. CASE CloseIssue(r)
    BY <1>19 DEF CloseIssue
  <1>20. CASE RefundLate(r)
    BY <1>20 DEF RefundLate
  <1>21. CASE MarkLate(r)
    BY <1>21 DEF MarkLate
  <1>22. CASE RefundThrows(r)
    BY <1>22 DEF RefundThrows
  <1>23. CASE Abort(r)
    BY <1>23 DEF Abort
  <1> HIDE DEF
        order, stripe, job, desk, At, Goto, Return, Decide, TypeOK, Known,
        FirstStep, AfterReverse, SetListing, OnOne, OthersWait, Untouched
  <1> QED
    BY <1>1, <1>2, <1>3, <1>4, <1>5, <1>6, <1>7, <1>8, <1>9, <1>10, <1>11, <1>12,
       <1>13, <1>14, <1>15, <1>16, <1>17, <1>18, <1>19, <1>20, <1>21, <1>22, <1>23
    DEF Continue

\* A handler in flight has an order.
LEMMA HasOrder ==
  ASSUME Known, NEW r \in Requests, Continue(r) \/ Abort(r) PROVE on[r] \in Orders
BY DEF Continue, Abort, Known, At, ReverseTransfer, RefundBuyer, UpdateListing, Save,
       OpenPolicyIssue, CountOffence, MarkProcessing, Transfer, TransferThrows, SavePaid,
       SavePaidThrows, SaveFailed, SaveMissed, RelistMissed, ReadForIssue, CreateIssue,
       ResolveListing, ResolveDelete, CloseIssue, RefundLate, MarkLate, RefundThrows

\* A handler that takes up order o changes no order, and is alone on it unless
\* the order counts as crossed.
TakesUp(r, o) ==
  /\ OthersWait(r)
  /\ at[r] = "idle" /\ at'[r] # "idle" /\ on'[r] = o
  /\ crossed \subseteq crossed' /\ crossed' \subseteq crossed \cup {o}
  /\ o \notin crossed' => \A q \in Requests \ {r} : on[q] # o
  /\ \A p \in Orders : Untouched(p)

LEMMA StartLocal ==
  ASSUME TypeOK, NEW r \in Requests, NEW o \in Orders, Start(r, o) PROVE TakesUp(r, o)
  <1> USE DEF
        order, stripe, job, desk, At, Enter, Decide, TypeOK, FirstStep,
        TakesUp, OthersWait, Untouched
  <1>1. CASE StartPayout(r, o)
    BY <1>1 DEF StartPayout
  <1>2. CASE StartMissed(r, o)
    BY <1>2 DEF StartMissed
  <1>3. CASE StartLate(r, o)
    BY <1>3 DEF StartLate
  <1>4. ASSUME NEW target \in OrderStatuses,
              NEW outcome \in Outcomes \cup {None},
              StartUpdate(r, o, target, outcome) PROVE TakesUp(r, o)
    BY <1>4 DEF StartUpdate
  <1>5. ASSUME NEW outcome \in AtVerification \cup AtDelivery \cup {None},
              StartIssue(r, o, outcome) PROVE TakesUp(r, o)
    BY <1>5 DEF StartIssue
  <1>6. ASSUME NEW i \in IssueIds,
              NEW step \in {"resolveListing", "resolveDelete"},
              StartResolve(r, o, i, step) PROVE TakesUp(r, o)
    BY <1>6 DEF StartResolve
  <1> HIDE DEF
        order, stripe, job, desk, At, Enter, Decide, TypeOK, FirstStep,
        TakesUp, OthersWait, Untouched
  <1> QED
    BY <1>1, <1>2, <1>3, <1>4, <1>5, <1>6 DEF Start

\* What an order's handlers rely on is not disturbed by work on other orders.
LEMMA Elsewhere ==
  ASSUME NEW r \in Requests, NEW o \in Orders, Good(o), OthersWait(r), Untouched(o),
         on[r] # o, on'[r] # o
  PROVE  Good(o)'
  <1>1. Alone(o)' /\ ((\A q \in Requests : on'[q] # o) => \A q \in Requests : on[q] # o)
    BY DEF Good, Alone, OthersWait
  <1>2. Facts(o)'
    BY DEF Good, Facts, Untouched
  <1>3. Rested(o) => Rested(o)'
    BY DEF Rested, Unreturned, Unlisted, Cleared, Short, Untouched
  <1>4. ASSUME NEW q \in Requests, on'[q] = o PROVE Informed(q, o)'
    <2>1. q # r /\ on[q] = o
      BY <1>4 DEF OthersWait
    <2>2. Informed(q, o)
      BY <2>1 DEF Good
    <2>3. /\ at'[q] = at[q] /\ to'[q] = to[q] /\ why'[q] = why[q]
          /\ owes'[q] = owes[q] /\ knows'[q] = knows[q] /\ issue'[q] = issue[q]
      BY <2>1 DEF OthersWait
    <2>4. Allowed(q, o) => Allowed(q, o)'
      BY <2>3 DEF Allowed, KnowsTransfer, Untouched
    <2>5. Amount(q)' = Amount(q)
      BY <2>3 DEF Amount
    <2> QED
      BY <2>2, <2>3, <2>4, <2>5
      DEF Informed, Unreturned, Unlisted, Cleared, Short, Untouched
  <1> QED
    BY <1>1, <1>2, <1>3, <1>4 DEF Good

\* What a handler's step has to establish for its order.
Handled(r, o) ==
  /\ Facts(o)'
  /\ on'[r] = o => Informed(r, o)'
  /\ on'[r] # o => Rested(o)'

\* It is enough: nobody else has the order in hand.
LEMMA Here ==
  ASSUME NEW r \in Requests, NEW o \in Orders, OthersWait(r),
         \A q \in Requests \ {r} : on[q] # o, Handled(r, o)
  PROVE  Good(o)'
BY DEF Good, Alone, OthersWait, Handled

-----------------------------------------------------------------------------
\* Where an order may go: it leaves an end for nothing, is paid out on the way
\* to the buyer, and does not come back.
LEMMA Moves ==
  ASSUME NEW s \in OrderStatuses, NEW t \in Transitions[s]
  PROVE  /\ s \notin Dead \cup {"completed"}
         /\ t \in OrderStatuses \ {"pending_payment"}
         /\ t \in Delivering => t = "ready_for_delivery" \/ s \in Delivering
         /\ t \in BeforeTransfer => s \in BeforeTransfer \cup {"pending_payment"}
         /\ t \in {"secured", "collection_pending"} => s \in {"pending_payment", "secured"}
         /\ t = "cancelled" => s \in {"secured", "collection_pending"}
         /\ t = "refunded" => s \in {"collected", "verification", "ready_for_delivery"}
  <1>1. Transitions[s] =
          CASE s = "pending_payment"    -> {"secured"}
            [] s = "secured"            -> {"collection_pending", "collected", "cancelled"}
            [] s = "collection_pending" -> {"collected", "cancelled"}
            [] s = "collected"          -> {"verification", "payout_processing", "refunded"}
            [] s = "verification"       -> {"payout_processing", "refunded"}
            [] s = "payout_processing"  -> {"ready_for_delivery"}
            [] s = "ready_for_delivery" -> {"delivered", "refunded"}
            [] s = "delivered"          -> {"completed"}
            [] OTHER                    -> {}
    BY DEF Transitions
  <1> QED
    BY <1>1 DEF OrderStatuses, Dead, Delivering, BeforeTransfer

\* What a handler that decided on a move knows of the order and its outcome.
LEMMA AllowedMoves ==
  ASSUME TypeOK, NEW r \in Requests, NEW o \in Orders, Allowed(r, o)
  PROVE  /\ to[r] \in Transitions[status[o]] /\ status[o] \in OrderStatuses
         /\ why[r] \in AtCollection => to[r] = "cancelled"
         /\ why[r] # None /\ why[r] \notin AtCollection => to[r] = "refunded"
         /\ to[r] = "refunded" => why[r] # None /\ why[r] \notin AtCollection
  <1> DEFINE s == status[o]
             t == to[r]
  <1>1. s \in OrderStatuses /\ t \in Transitions[s]
    BY DEF Allowed, TypeOK
  <1> HIDE DEF s, t
  <1>2. \/ t # "refunded" /\ why[r] = None
        \/ t = "refunded" /\ why[r] \in AtDelivery \cup AtVerification
        \/ t = "cancelled" /\ why[r] = "seller_unavailable"
    BY DEF Allowed, PolicyOutcomes, s, t
  <1>3. None \notin AtCollection /\ None \notin AtDelivery \cup AtVerification
    BY NoneAssumption DEF Outcomes
  <1> QED
    BY <1>1, <1>2, <1>3 DEF AtCollection, AtDelivery, AtVerification, s, t
\* A reversal makes way for the refund.
LEMMA ReverseHandled ==
  ASSUME TypeOK, NEW r \in Requests, NEW o \in Orders, on[r] = o, Facts(o), Informed(r, o),
         ReverseTransfer(r)
  PROVE  Handled(r, o)
  <1> USE DEF ReverseTransfer, At, Goto, order, desk, TypeOK
  <1>1. Facts(o)'
    BY DEF Facts
  <1>2. Allowed(r, o)' /\ to'[r] \in Dead /\ at'[r] = "refund" /\ owes[r]
    BY DEF Informed, Allowed, AfterReverse, KnowsTransfer, Working
  <1>3. Informed(r, o)'
    BY <1>2 DEF Informed, Unreturned, Unlisted, Cleared, Short, Working
  <1> QED
    BY <1>1, <1>3 DEF Handled

\* A refund leaves the seller without the money, and has the amount of the outcome.
LEMMA RefundHandled ==
  ASSUME TypeOK, NEW r \in Requests, NEW o \in Orders, on[r] = o, Facts(o), Informed(r, o),
         RefundBuyer(r)
  PROVE  Handled(r, o)
  <1> USE DEF RefundBuyer, At, Goto, order, desk, TypeOK
  <1>1. Facts(o)'
    BY DEF Facts, Informed, Refundable, Allowed
  <1>2. Allowed(r, o)' /\ to'[r] \in Dead /\ Amount(r)' = Amount(r) /\ refund'[o] = Amount(r)
    BY DEF Informed, Allowed, KnowsTransfer, Working, Amount
  <1>3. Informed(r, o)'
    BY <1>2 DEF Informed, Unreturned, Unlisted, Cleared, Short, Working
  <1> QED
    BY <1>1, <1>3 DEF Handled

\* The listing is put away, offered again or sold before the order says so.
LEMMA ListingHandled ==
  ASSUME TypeOK, NEW r \in Requests, NEW o \in Orders, on[r] = o, Facts(o), Informed(r, o),
         UpdateListing(r)
  PROVE  Handled(r, o)
  <1>1. Allowed(r, o) /\ at[r] = "listing"
    BY DEF Informed, Working, UpdateListing, At
  <1>2. to[r] \in Dead => why[r] # None \/ to[r] = "cancelled"
    BY <1>1, AllowedMoves DEF Dead
  <1>3. why[r] # None /\ why[r] \notin AtCollection => to[r] = "refunded"
    BY <1>1, AllowedMoves
  <1> USE DEF UpdateListing, At, Goto, order, desk, stripe, TypeOK
  <1>4. Facts(o)'
    BY DEF Facts
  <1>5. Allowed(r, o)' /\ Amount(r)' = Amount(r)
    BY <1>1 DEF Allowed, KnowsTransfer, Amount
  <1>6. /\ listing'[o] = "available" => to[r] = "cancelled" \/ listing[o] = "available"
        /\ listing'[o] = "secured" => FALSE
        /\ to[r] \in Dead => listing'[o] # "sold"
    BY <1>2 DEF SetListing
  <1>7. status[o] \notin Dead
    BY <1>1, AllowedMoves, Moves
  <1>8. Informed(r, o)'
    BY <1>1, <1>5, <1>6, <1>7 DEF Informed, Unreturned, Unlisted, Cleared, Short, Working
  <1> QED
    BY <1>4, <1>8 DEF Handled

\* The save gives the order the status its money and its listing are ready for.
LEMMA SaveHandled ==
  ASSUME TypeOK, NEW r \in Requests, NEW o \in Orders, on[r] = o, Facts(o), Informed(r, o),
         Save(r)
  PROVE  Handled(r, o)
  <1>1. /\ Allowed(r, o) /\ owes[r] /\ at[r] = "save"
        /\ to[r] \in Dead => refund[o] = Amount(r) /\ (o \in transferred => o \in reversed)
        /\ to[r] \in Dead /\ why[r] \notin AtCollection => listing[o] \notin {"secured", "sold"}
        /\ issue[r] = "new" => open[o] = {}
        /\ to[r] = "ready_for_delivery" => payout[o] = "paid"
    BY DEF Informed, Save, At, Working, Allowed
  <1>2. /\ to[r] \in Transitions[status[o]] /\ status[o] \in OrderStatuses
        /\ why[r] \in AtCollection => to[r] = "cancelled"
        /\ why[r] # None /\ why[r] \notin AtCollection => to[r] = "refunded"
        /\ to[r] = "refunded" => why[r] # None
    BY <1>1, AllowedMoves
  <1>3. /\ status[o] \notin Dead
        /\ to[r] \in OrderStatuses \ {"pending_payment"}
        /\ to[r] \in Delivering => to[r] = "ready_for_delivery" \/ status[o] \in Delivering
        /\ to[r] \in BeforeTransfer => status[o] \in BeforeTransfer \cup {"pending_payment"}
        /\ to[r] \in {"secured", "collection_pending"}
             => status[o] \in {"pending_payment", "secured"}
    BY <1>2, Moves
  <1>4. why[r] # None => to[r] \in Dead /\ to[r] \notin Delivering
    BY <1>2 DEF Dead, Delivering
  <1>5. /\ status'[o] = to[r]
        /\ payment'[o] = IF to[r] \in Dead THEN "refunded" ELSE payment[o]
        /\ payout'[o] = IF why[r] # None /\ knows[r] THEN "reversed" ELSE payout[o]
        /\ recorded'[o] = IF why[r] # None THEN Amount(r) ELSE recorded[o]
    BY <1>1 DEF Save, PaymentAfter, TypeOK
  <1>6. UNCHANGED <<transferId, missed, listing, named, open, offences, relisted,
                    transferred, reversed, refund, late, crossed, died>>
    BY DEF Save, desk, stripe
  <1>7. Facts(o)'
    <2>1. payout'[o] = "paid" => /\ payout[o] = "paid" /\ transferId'[o]
                                 /\ status'[o] \notin BeforeTransfer \cup Dead
      <3> SUFFICES ASSUME payout'[o] = "paid" PROVE status'[o] \notin BeforeTransfer \cup Dead
        BY <1>5, <1>6 DEF Facts
      <3>1. /\ payout[o] = "paid" /\ KnowsTransfer(o)
            /\ status[o] \notin BeforeTransfer \cup {"pending_payment"}
        BY <1>5 DEF Facts, KnowsTransfer
      <3>2. why[r] = None
        BY <1>1, <1>5, <3>1 DEF Allowed
      <3> QED
        BY <1>2, <1>3, <1>5, <3>1, <3>2, Moves DEF BeforeTransfer, Dead
    <2> QED
      BY <1>1, <1>3, <1>4, <1>5, <1>6, <2>1 DEF Facts, Dead
  <1>8. /\ died[o] = 0 =>
             /\ Unreturned(o) \/ to[r] \in Dead
             /\ Unlisted(o) \/ to[r] = "cancelled"
             /\ Cleared(o)
             /\ Short(o) \/ to[r] = "cancelled"
    BY <1>1 DEF Informed
  <1>9. died[o] = 0 => Unreturned(o)' /\ Unlisted(o)' /\ Short(o)'
    BY <1>3, <1>5, <1>6, <1>8 DEF Unreturned, Unlisted, Short, Facts, Dead
  <1>10. Cleared(o)' \/ why[r] \in AtCollection
    BY <1>1, <1>5, <1>6 DEF Cleared
  <1>11. CASE why[r] = None
    <2>1. Rested(o)'
      BY <1>6, <1>9, <1>10, <1>11, NoneAssumption DEF Rested, Outcomes
    <2>2. on'[r] = None
      BY <1>11 DEF Save, Return, TypeOK
    <2> QED
      BY <1>7, <2>1, <2>2, NoneAssumption DEF Handled
  <1>12. CASE why[r] # None
    <2>1. /\ at'[r] = IF why[r] \in AtCollection THEN "missedRelist"
                      ELSE IF issue[r] = "new" THEN "offence" ELSE "policyIssue"
          /\ on'[r] = o /\ to'[r] = to[r] /\ why'[r] = why[r] /\ issue'[r] = issue[r]
      BY <1>12 DEF Save, Goto, TypeOK
    <2>2. to[r] = "refunded" => offences'[o] = 0
      BY <1>3, <1>6 DEF Facts, Dead
    <2>3. Informed(r, o)'
      BY <1>1, <1>2, <1>5, <1>6, <1>9, <1>10, <1>12, <2>1, <2>2 DEF Informed, Working
    <2> QED
      BY <1>7, <2>1, <2>3 DEF Handled
  <1> QED
    BY <1>11, <1>12

\* The policy's issue is the only one open.
LEMMA PolicyIssueHandled ==
  ASSUME TypeOK, NEW r \in Requests, NEW o \in Orders, on[r] = o, Facts(o), Informed(r, o),
         OpenPolicyIssue(r)
  PROVE  Handled(r, o)
  <1> USE DEF OpenPolicyIssue, At, Goto, order, stripe, TypeOK
  <1>1. \A i, j \in open'[o] : i = j
    BY DEF Facts
  <1>2. Facts(o)'
    BY <1>1 DEF Facts
  <1>3. Informed(r, o)'
    BY DEF Informed, Unreturned, Unlisted, Cleared, Short, Working
  <1> QED
    BY <1>2, <1>3 DEF Handled

\* The first penalty of the order is its last.
LEMMA OffenceHandled ==
  ASSUME TypeOK, NEW r \in Requests, NEW o \in Orders, on[r] = o, Facts(o), Informed(r, o),
         CountOffence(r)
  PROVE  Handled(r, o)
  <1> USE DEF CountOffence, At, order, stripe, TypeOK
  <1>1. offences[o] = 0 /\ status[o] = "refunded" /\ at[r] = "offence"
    BY DEF Informed
  <1>2. offences'[o] \in {0, 1}
    BY <1>1
  <1>3. Facts(o)'
    BY <1>1, <1>2 DEF Facts
  <1>4. died[o] = 0 => Unreturned(o) /\ Unlisted(o) /\ Cleared(o) /\ Short(o)
    BY <1>1 DEF Informed, Working
  <1>5. Rested(o)'
    BY <1>4 DEF Rested, Unreturned, Unlisted, Cleared, Short
  <1>6. ASSUME issue[r] = "new" PROVE Informed(r, o)'
    <2>1. at'[r] = "issueCreate" /\ open[o] = {} /\ open' = open
      BY <1>1, <1>6 DEF Goto, Informed
    <2> QED
      BY <2>1, <1>5 DEF Informed, Rested, Working
  <1>7. ASSUME issue[r] # "new" PROVE on'[r] = None
    BY <1>7 DEF Return
  <1> QED
    BY <1>3, <1>5, <1>6, <1>7, NoneAssumption DEF Handled

\* The payout goes on while the order waits for it, and nothing was refunded yet.
LEMMA PayoutHandled ==
  ASSUME TypeOK, NEW r \in Requests, NEW o \in Orders, on[r] = o, Facts(o), Informed(r, o),
         \/ MarkProcessing(r) \/ Transfer(r) \/ TransferThrows(r)
         \/ SavePaid(r) \/ SavePaidThrows(r) \/ SaveFailed(r)
  PROVE  Handled(r, o)
  <1> USE DEF MarkProcessing, Transfer, TransferThrows, SavePaid, SavePaidThrows, SaveFailed,
              At, desk
  <1>1. /\ at[r] \in {"markProcessing", "transfer", "savePaid", "saveFailed"}
        /\ status[o] = "payout_processing" /\ status' = status
    BY DEF Informed, order
  <1>2. UNCHANGED <<payment, missed, recorded, listing, open, offences, relisted,
                    reversed, refund, late, died>>
    BY DEF order, stripe
  <1>3. died[o] = 0 => Unreturned(o) /\ Unlisted(o) /\ Cleared(o) /\ Short(o)
    BY <1>1 DEF Informed, Working
  <1>4. Rested(o)'
    BY <1>1, <1>2, <1>3 DEF Rested, Unreturned, Unlisted, Cleared, Short
  <1>5. died[o] = 0 => refund[o] = "none" /\ o \notin late
    BY <1>1, <1>3 DEF Unreturned, Facts, Dead
  <1>6. payout'[o] = "paid" => transferId'[o]
    BY DEF order, Facts, TypeOK
  <1>7. Facts(o)'
    BY <1>1, <1>2, <1>5, <1>6 DEF Facts, Dead, Delivering, BeforeTransfer
  <1>8. on'[r] = None \/ (on'[r] = o /\ at'[r] \in {"transfer", "savePaid", "saveFailed"})
    BY DEF Goto, Return, TypeOK
  <1>9. on'[r] = o => payout'[o] # "paid"
    BY NoneAssumption DEF Informed, Return, order, TypeOK
  <1>10. on'[r] = o => Informed(r, o)'
    BY <1>1, <1>4, <1>8, <1>9, NoneAssumption DEF Informed, Rested, Working
  <1> QED
    BY <1>4, <1>7, <1>10 DEF Handled

\* A handler that leaves the order as it was can stop, or go on in the same state.
LEMMA Rests ==
  ASSUME NEW r \in Requests, NEW o \in Orders, on[r] = o, Informed(r, o),
         at[r] \notin Working \cup {"missedRelist"}
  PROVE  Rested(o)
BY DEF Informed, Rested, Working

\* A missed collection is counted, and the last one goes on to cancel the order.
LEMMA MissedHandled ==
  ASSUME TypeOK, NEW r \in Requests, NEW o \in Orders, on[r] = o, Facts(o), Informed(r, o),
         SaveMissed(r)
  PROVE  Handled(r, o)
  <1>1. /\ at[r] = "missedSave" /\ Allowed(r, o) /\ owes[r] /\ issue[r] # "new"
        /\ to[r] = "cancelled" /\ why[r] = "seller_unavailable"
    BY DEF SaveMissed, At, Informed, Allowed
  <1>2. died[o] = 0 => Unreturned(o) /\ Unlisted(o) /\ Cleared(o)
    BY <1>1 DEF Informed, Working
  <1>3. UNCHANGED <<status, payment, payout, transferId, recorded, listing, open, offences,
                    relisted, transferred, reversed, refund, late, died>>
    BY DEF SaveMissed, desk, stripe
  <1>4. Facts(o)'
    BY <1>3 DEF Facts
  <1>5. Allowed(r, o) /\ status[o] \in BeforeTransfer
    BY <1>1, AllowedMoves, Moves DEF BeforeTransfer
  <1>6. CASE count[r] + 1 < Threshold
    <2>1. missed'[o] < Threshold /\ on'[r] = None
      BY <1>6 DEF SaveMissed, Return, TypeOK
    <2>2. Rested(o)'
      BY <1>2, <1>3, <2>1 DEF Rested, Unreturned, Unlisted, Cleared, Short
    <2> QED
      BY <1>4, <2>1, <2>2, NoneAssumption DEF Handled
  <1>7. CASE ~(count[r] + 1 < Threshold)
    <2>1. Goto(r, IF knows[r] THEN "reverse" ELSE "refund")
      BY <1>1, <1>7 DEF SaveMissed, AfterReverse
    <2>2. /\ at'[r] \in {"reverse", "refund"} /\ on'[r] = o /\ to' = to /\ why' = why
          /\ owes' = owes /\ knows' = knows /\ issue' = issue
      BY <2>1 DEF Goto, TypeOK
    <2>3. Allowed(r, o)'
      BY <1>1, <1>3, <2>2 DEF Allowed, KnowsTransfer
    <2>4. o \in transferred => o \in reversed
      BY <1>5 DEF Facts
    <2>5. Informed(r, o)'
      BY <1>1, <1>2, <1>3, <2>2, <2>3, <2>4
      DEF Informed, Unreturned, Unlisted, Cleared, Working, Dead
    <2> QED
      BY <1>4, <2>2, <2>5 DEF Handled
  <1> QED
    BY <1>6, <1>7

\* The listing of an order cancelled for missed collections is on sale again.
LEMMA RelistHandled ==
  ASSUME TypeOK, NEW r \in Requests, NEW o \in Orders, on[r] = o, Facts(o), Informed(r, o),
         RelistMissed(r)
  PROVE  Handled(r, o)
  <1> USE DEF RelistMissed, At, order, desk, stripe, TypeOK
  <1>1. status[o] = "cancelled" /\ at[r] = "missedRelist"
    BY DEF Informed
  <1>2. Facts(o)'
    BY DEF Facts
  <1>3. listing'[o] \in {"available", "deleted"} /\ on'[r] = None
    BY DEF SetListing, Return
  <1>4. Rested(o)'
    BY <1>1, <1>3 DEF Rested, Informed, Unreturned, Unlisted, Cleared, Short, Working, Dead
  <1> QED
    BY <1>2, <1>3, <1>4, NoneAssumption DEF Handled

\* What a move's first step needs is there when the move is decided on.
LEMMA DecideHandled ==
  ASSUME TypeOK, NEW r \in Requests, NEW o \in Orders, Facts(o), Rested(o),
         NEW target \in OrderStatuses, NEW outcome \in Outcomes \cup {None},
         MayMove(o, target, outcome), Decide(r, o, FirstStep(o, target), target, outcome),
         on'[r] = o, issue[r] = "new" => open[o] = {}, issue[r] = "new" => target = "refunded",
         Untouched(o)
  PROVE  Handled(r, o)
  <1>1. /\ target \in Transitions[status[o]] /\ status[o] \in OrderStatuses
        /\ outcome \in PolicyOutcomes(status[o], target)
        /\ target = "ready_for_delivery" => payout[o] = "paid"
    BY DEF MayMove, TypeOK
  <1>2. /\ status[o] \notin Dead
        /\ target = "cancelled" => status[o] \in BeforeTransfer
        /\ target = "refunded" => status[o] \in BeforeTransfer \cup {"ready_for_delivery"}
    BY <1>1, Moves DEF BeforeTransfer
  <1>3. payment[o] = "paid"
    BY <1>2 DEF Facts
  <1>4. /\ at'[r] = FirstStep(o, target) /\ to'[r] = target /\ why'[r] = outcome
        /\ owes'[r] /\ (knows'[r] <=> KnowsTransfer(o)) /\ issue'[r] = issue[r]
    BY <1>3 DEF Decide, TypeOK
  <1>5. /\ target \in Dead => FirstStep(o, target) \in {"reverse", "refund"}
        /\ target \notin Dead => FirstStep(o, target) \in {"listing", "save"}
    BY <1>3 DEF FirstStep, Dead
  <1>6. FirstStep(o, target) = "refund" /\ o \in transferred => o \in reversed
    BY <1>2, <1>3 DEF FirstStep, Facts, KnowsTransfer, Delivering, Dead
  <1>7. Facts(o)'
    BY DEF Facts, Untouched
  <1>8. Rested(o)'
    BY DEF Rested, Unreturned, Unlisted, Cleared, Short, Untouched
  <1>9. Allowed(r, o)'
    BY <1>1, <1>4 DEF Allowed, KnowsTransfer, Untouched
  <1>10. /\ open'[o] = open[o]
         /\ o \in transferred' => o \in transferred
         /\ o \in reversed => o \in reversed'
    BY DEF Untouched
  <1>11. Informed(r, o)'
    BY <1>4, <1>5, <1>6, <1>8, <1>9, <1>10 DEF Informed, Rested, Working
  <1> QED
    BY <1>7, <1>11 DEF Handled

\* An issue's report refunds the order as an update would, or opens an issue.
LEMMA ReadForIssueHandled ==
  ASSUME TypeOK, NEW r \in Requests, NEW o \in Orders, on[r] = o, Facts(o), Informed(r, o),
         ReadForIssue(r)
  PROVE  Handled(r, o)
  <1>1. at[r] = "issueRead" /\ open[o] = {} /\ Rested(o)
    BY Rests DEF ReadForIssue, At, Informed, Working
  <1>2. UNCHANGED <<order, listing, named, desk, stripe, crossed, died>>
    BY DEF ReadForIssue
  <1>3. Untouched(o)
    BY <1>2 DEF order, desk, stripe, Untouched
  <1>4. Facts(o)'
    BY <1>3 DEF Facts, Untouched
  <1>5. Rested(o)'
    BY <1>1, <1>3 DEF Rested, Unreturned, Unlisted, Cleared, Short, Untouched
  <1>6. CASE Return(r)
    BY <1>4, <1>5, <1>6, NoneAssumption DEF Handled, Return, TypeOK
  <1>7. CASE Goto(r, "issueCreate")
    <2>1. at'[r] = "issueCreate" /\ open'[o] = {}
      BY <1>1, <1>3, <1>7 DEF Goto, TypeOK, Untouched
    <2>2. Informed(r, o)'
      BY <1>5, <2>1 DEF Informed, Rested, Working
    <2> QED
      BY <1>4, <1>7, <2>2 DEF Handled, Goto
  <1>8. CASE /\ MayMove(o, "refunded", why[r])
             /\ Decide(r, o, FirstStep(o, "refunded"), "refunded", why[r])
             /\ UNCHANGED on
    <2>1. "refunded" \in OrderStatuses /\ why[r] \in Outcomes \cup {None} /\ on'[r] = o
      BY <1>8 DEF OrderStatuses, Dead, TypeOK
    <2> QED
      BY <1>1, <1>3, <1>8, <2>1, DecideHandled
  <1> QED
    BY <1>6, <1>7, <1>8 DEF ReadForIssue

\* The issue a report creates is the only one, and a resolution closes it.
LEMMA IssueHandled ==
  ASSUME TypeOK, NEW r \in Requests, NEW o \in Orders, on[r] = o, Facts(o), Informed(r, o),
         CreateIssue(r) \/ CloseIssue(r)
  PROVE  Handled(r, o)
  <1> USE DEF CreateIssue, CloseIssue, At, order, stripe, TypeOK
  <1>1. Rested(o)
    BY Rests DEF Working
  <1>2. \A i, j \in open'[o] : i = j
    <2>1. CASE CreateIssue(r)
      BY <2>1 DEF Informed
    <2>2. CASE CloseIssue(r)
      BY <2>2 DEF Facts
    <2> QED
      BY <2>1, <2>2
  <1>3. Facts(o)'
    BY <1>2 DEF Facts
  <1>4. Rested(o)'
    BY <1>1 DEF Rested, Unreturned, Unlisted, Cleared, Short
  <1> QED
    BY <1>3, <1>4, NoneAssumption DEF Handled, Return

\* A listing put on sale for a live order is known to be; a deleted one is not on sale.
LEMMA ResolveHandled ==
  ASSUME TypeOK, NEW r \in Requests, NEW o \in Orders, on[r] = o, Facts(o), Informed(r, o),
         ResolveListing(r) \/ ResolveDelete(r)
  PROVE  Handled(r, o)
  <1> USE DEF ResolveListing, ResolveDelete, At, order, stripe, desk, TypeOK
  <1>1. Rested(o)
    BY Rests DEF Working
  <1>2. Facts(o)'
    BY DEF Facts
  <1>3. /\ listing'[o] \in {"available", "deleted"}
        /\ listing'[o] = "available" => status[o] \in Dead \/ o \in relisted'
    BY DEF SetListing
  <1>4. Rested(o)'
    BY <1>1, <1>3 DEF Rested, Unreturned, Unlisted, Cleared, Short
  <1>5. at'[r] = "resolveSave"
    BY DEF Goto
  <1>6. Informed(r, o)'
    BY <1>4, <1>5 DEF Informed, Rested, Working
  <1> QED
    BY <1>2, <1>6 DEF Handled, Goto

\* A payment returned late is that of a dead order, whose seller does not have it.
LEMMA LateHandled ==
  ASSUME TypeOK, NEW r \in Requests, NEW o \in Orders, on[r] = o, Facts(o), Informed(r, o),
         RefundLate(r) \/ MarkLate(r)
  PROVE  Handled(r, o)
  <1> USE DEF RefundLate, MarkLate, At, order, stripe, desk, TypeOK
  <1>1. Rested(o) /\ status[o] \in Dead
    BY Rests DEF Working, Informed
  <1>2. status'[o] \in Dead /\ (status[o] = "refunded" => status'[o] = "refunded")
    BY <1>1 DEF Dead
  <1>3. Facts(o)'
    BY <1>1, <1>2 DEF Facts, Dead, Delivering, BeforeTransfer
  <1>4. Rested(o)'
    BY <1>1, <1>2 DEF Rested, Unreturned, Unlisted, Cleared, Short, Dead
  <1>5. on'[r] = None \/ (on'[r] = o /\ at'[r] = "lateMark")
    BY DEF Goto, Return
  <1>6. on'[r] = o => Informed(r, o)'
    BY <1>2, <1>4, <1>5, NoneAssumption DEF Informed, Rested, Working
  <1> QED
    BY <1>3, <1>4, <1>6 DEF Handled

\* A refund Stripe refuses leaves a calm order at rest, and a death is counted.
LEMMA FailureHandled ==
  ASSUME TypeOK, NEW r \in Requests, NEW o \in Orders, on[r] = o, Facts(o), Informed(r, o),
         RefundThrows(r) \/ Abort(r)
  PROVE  Handled(r, o)
  <1> USE DEF RefundThrows, Abort, At
  <1>1. /\ UNCHANGED <<order, listing, open, offences, relisted, stripe>>
        /\ on'[r] = None
    BY DEF desk, Return, TypeOK
  <1>2. died'[o] = 0 => died[o] = 0 /\ RefundThrows(r)
    BY DEF TypeOK
  <1>3. Facts(o)'
    BY <1>1, <1>2 DEF Facts, order, stripe
  <1>4. ASSUME died'[o] = 0 PROVE at[r] = "lateRefund"
    <2>1. CASE at[r] = "refund"
      <3>1. status[o] \notin Dead
        BY <2>1, AllowedMoves, Moves DEF Informed, Working
      <3> QED
        BY <1>2, <1>4, <2>1, <3>1 DEF Informed, Unreturned, Facts, Refundable
    <2> QED
      BY <1>2, <1>4, <2>1
  <1>5. Rested(o)'
    BY <1>1, <1>2, <1>4
    DEF Rested, Informed, Unreturned, Unlisted, Cleared, Short, Working, order, stripe
  <1> QED
    BY <1>1, <1>3, <1>5, NoneAssumption DEF Handled

\* A handler that takes up an order at rest has what it relies on.
LEMMA StartHandled ==
  ASSUME TypeOK, Idle, NEW r \in Requests, NEW o \in Orders, Facts(o), Rested(o), Start(r, o)
  PROVE  Handled(r, o)
  <1>1. /\ at[r] = "idle" /\ at'[r] # "idle" /\ on'[r] = o
        /\ Untouched(o) /\ issue[r] # "new"
    BY StartLocal, NoneAssumption DEF TakesUp, Idle
  <1>2. Facts(o)'
    BY <1>1 DEF Facts, Untouched
  <1>3. Rested(o)'
    BY <1>1 DEF Rested, Unreturned, Unlisted, Cleared, Short, Untouched
  <1>4. ASSUME NEW target \in OrderStatuses, NEW outcome \in Outcomes \cup {None},
               StartUpdate(r, o, target, outcome)
        PROVE  Handled(r, o)
    BY <1>1, <1>4, DecideHandled DEF StartUpdate
  <1>5. CASE StartPayout(r, o)
    <2>1. /\ at'[r] \in {"transfer", "markProcessing"}
          /\ status'[o] = "payout_processing" /\ payout'[o] # "paid"
      BY <1>1, <1>5 DEF StartPayout, Untouched, TypeOK
    <2> QED
      BY <1>1, <1>2, <1>3, <2>1 DEF Handled, Informed, Rested, Working
  <1>6. CASE StartMissed(r, o)
    <2>1. /\ at'[r] = "missedSave" /\ to'[r] = "cancelled" /\ why'[r] = "seller_unavailable"
          /\ issue'[r] # "new" /\ status[o] = "collection_pending"
      BY <1>1, <1>6 DEF StartMissed, Decide, TypeOK
    <2>2. payment[o] = "paid" /\ "cancelled" \in Transitions[status[o]]
      BY <2>1 DEF Facts, Dead, Transitions, OrderStatuses
    <2>3. owes'[r] /\ (knows'[r] <=> KnowsTransfer(o))
      BY <1>6, <2>2 DEF StartMissed, Decide, TypeOK
    <2>4. Allowed(r, o)'
      BY <1>1, <2>1, <2>2, <2>3 DEF Allowed, KnowsTransfer, Untouched
    <2> QED
      BY <1>1, <1>2, <1>3, <2>1, <2>4 DEF Handled, Informed, Rested, Working
  <1>7. CASE StartLate(r, o)
    <2>1. at'[r] = "lateRefund" /\ status'[o] \in Dead
      BY <1>1, <1>7 DEF StartLate, Untouched, TypeOK
    <2> QED
      BY <1>1, <1>2, <1>3, <2>1 DEF Handled, Informed, Rested, Working
  <1>8. ASSUME NEW outcome \in AtVerification \cup AtDelivery \cup {None},
               StartIssue(r, o, outcome)
        PROVE  Handled(r, o)
    <2>1. at'[r] = "issueRead" /\ open'[o] = {}
      BY <1>1, <1>8 DEF StartIssue, Untouched, TypeOK
    <2> QED
      BY <1>1, <1>2, <1>3, <2>1 DEF Handled, Informed, Rested, Working
  <1>9. ASSUME NEW i \in IssueIds, NEW step \in {"resolveListing", "resolveDelete"},
               StartResolve(r, o, i, step)
        PROVE  Handled(r, o)
    <2>1. at'[r] \in {"resolveListing", "resolveDelete"}
      BY <1>9 DEF StartResolve, TypeOK
    <2> QED
      BY <1>1, <1>2, <1>3, <2>1 DEF Handled, Informed, Rested, Working
  <1> QED
    BY <1>4, <1>5, <1>6, <1>7, <1>8, <1>9 DEF Start

\* The same for every step of a handler in flight.
LEMMA ContinueHandled ==
  ASSUME TypeOK, NEW r \in Requests, NEW o \in Orders, on[r] = o, Facts(o), Informed(r, o),
         Continue(r) \/ Abort(r)
  PROVE  Handled(r, o)
BY ReverseHandled, RefundHandled, ListingHandled, SaveHandled, PolicyIssueHandled,
   OffenceHandled, PayoutHandled, MissedHandled, RelistHandled, ReadForIssueHandled,
   IssueHandled, ResolveHandled, LateHandled, FailureHandled
DEF Continue

\* An idle slot stays blank.
LEMMA IdleStep == TypeOK /\ Known /\ Idle /\ [Next]_vars => Idle'
  <1> SUFFICES ASSUME TypeOK, Known, Idle, [Next]_vars PROVE Idle'
    OBVIOUS
  <1>1. ASSUME NEW r \in Requests, Continue(r) \/ Abort(r) PROVE Idle'
    <2>1. OnOne(r)
      BY <1>1, ContinueLocal
    <2> QED
      BY <2>1 DEF OnOne, OthersWait, Idle
  <1>2. ASSUME NEW r \in Requests, NEW o \in Orders, Start(r, o) PROVE Idle'
    <2>1. TakesUp(r, o)
      BY <1>2, StartLocal
    <2> QED
      BY <2>1 DEF TakesUp, OthersWait, Idle
  <1>3. CASE UNCHANGED vars
    BY <1>3 DEF vars, job, Idle
  <1> QED
    BY <1>1, <1>2, <1>3 DEF Next

\* Every step keeps an uncrossed order good.
LEMMA GoodStep ==
  ASSUME TypeOK, Known, Idle, [Next]_vars, NEW o \in Orders, o \notin crossed',
         o \notin crossed => Good(o)
  PROVE  Good(o)'
  <1>1. ASSUME NEW r \in Requests, Continue(r) \/ Abort(r) PROVE Good(o)'
    <2>1. OnOne(r) /\ Good(o)
      BY <1>1, ContinueLocal DEF OnOne
    <2>2. on[r] \in Orders
      BY <1>1, HasOrder
    <2>3. CASE on[r] = o
      <3>1. Handled(r, o)
        BY <1>1, <2>1, <2>3, ContinueHandled DEF Good
      <3>2. \A q \in Requests \ {r} : on[q] # o
        BY <2>1, <2>3 DEF Good, Alone
      <3> QED
        BY <2>1, <3>1, <3>2, Here DEF OnOne
    <2>4. CASE on[r] # o
      <3>1. on'[r] # o /\ OthersWait(r) /\ Untouched(o)
        BY <2>1, <2>4, NoneAssumption DEF OnOne
      <3> QED
        BY <2>1, <2>4, <3>1, Elsewhere
    <2> QED
      BY <2>3, <2>4
  <1>2. ASSUME NEW r \in Requests, NEW p \in Orders, Start(r, p) PROVE Good(o)'
    <2>1. TakesUp(r, p) /\ Good(o) /\ on[r] = None
      BY <1>2, StartLocal DEF TakesUp, Idle
    <2>2. CASE p = o
      <3>1. \A q \in Requests \ {r} : on[q] # o
        BY <2>1, <2>2 DEF TakesUp
      <3>2. Facts(o) /\ Rested(o)
        BY <2>1, <3>1, NoneAssumption DEF Good
      <3>3. Handled(r, o)
        BY <1>2, <2>2, <3>2, StartHandled
      <3> QED
        BY <2>1, <3>1, <3>3, Here DEF TakesUp
    <2>3. CASE p # o
      <3>1. on[r] # o /\ on'[r] # o /\ OthersWait(r) /\ Untouched(o)
        BY <2>1, <2>3, NoneAssumption DEF TakesUp
      <3> QED
        BY <2>1, <3>1, Elsewhere
    <2> QED
      BY <2>2, <2>3
  <1>3. CASE UNCHANGED vars
    <2>1. UNCHANGED <<order, listing, desk, stripe, crossed, died>> /\ UNCHANGED job /\ Good(o)
      BY <1>3 DEF vars
    <2> QED
      BY <2>1 DEF order, desk, stripe, job, Good, Alone, Facts, Informed, Allowed, Amount,
                  KnowsTransfer, Rested, Unreturned, Unlisted, Cleared, Short
  <1> QED
    BY <1>1, <1>2, <1>3 DEF Next

\* Orders start alone, at rest, and stay good until two handlers meet on them.
LEMMA OneByOneInitially == Init => OneByOne
  <1> SUFFICES ASSUME Init PROVE OneByOne
    OBVIOUS
  <1>1. Idle
    BY DEF Init, Idle
  <1>2. ASSUME NEW o \in Orders PROVE Good(o)
    <2>1. \A r \in Requests : on[r] # o
      BY NoneAssumption DEF Init
    <2>2. Facts(o)
      BY DEF Init, Facts, Delivering
    <2>3. Rested(o)
      BY ThresholdAssumption DEF Init, Rested, Unreturned, Unlisted, Cleared, Short, Dead
    <2> QED
      BY <2>1, <2>2, <2>3 DEF Good, Alone
  <1> QED
    BY <1>1, <1>2 DEF OneByOne

LEMMA OneByOneStep == TypeOK /\ Known /\ OneByOne /\ [Next]_vars => OneByOne'
  <1> SUFFICES ASSUME TypeOK, Known, OneByOne, [Next]_vars PROVE OneByOne'
    OBVIOUS
  <1>1. Idle'
    BY IdleStep DEF OneByOne
  <1>2. ASSUME NEW o \in Orders, o \notin crossed' PROVE Good(o)'
    BY <1>2, GoodStep DEF OneByOne
  <1> QED
    BY <1>1, <1>2 DEF OneByOne

\* Orders whose handlers came one by one are good in every reachable state.
THEOREM Uncrossed == Spec => []OneByOne
  <1>1. IInv /\ OneByOne /\ [Next]_vars => OneByOne'
    BY OneByOneStep DEF IInv
  <1> QED
    BY OneByOneInitially, Invariance, <1>1, PTL DEF Spec

\* Where handlers come one by one and none dies, the buyer is refunded only
\* after the seller's transfer was reversed.
THEOREM MoneyGoesOneWay == Spec => []CalmReversedFirst
  <1>1. OneByOne => CalmReversedFirst
    BY DEF OneByOne, Good, Facts, CalmReversedFirst, Calm
  <1> QED
    BY Uncrossed, <1>1, PTL

\* Where handlers come one by one, whichever die, the amount recorded on an
\* order is the amount Stripe was asked to return.
THEOREM RecordIsTrue == Spec => []RecordedIsReturned
  <1>1. OneByOne => RecordedIsReturned
    BY DEF OneByOne, Good, Facts, RecordedIsReturned
  <1> QED
    BY Uncrossed, <1>1, PTL

\* Where handlers come one by one, a listing has at most one unresolved issue.
THEOREM OneIssueAtATime == Spec => []UncrossedOneOpenIssue
  <1>1. OneByOne => UncrossedOneOpenIssue
    BY DEF OneByOne, Good, Facts, UncrossedOneOpenIssue
  <1> QED
    BY Uncrossed, <1>1, PTL

\* Where handlers come one by one, an order is counted against somebody once.
THEOREM OffenceCountsOnce == Spec => []OneOffence
  <1>1. OneByOne => OneOffence
    BY DEF OneByOne, Good, Facts, OneOffence
  <1> QED
    BY Uncrossed, <1>1, PTL

\* Between two requests, a calm order, its listing and its missed collections agree.
THEOREM QuietAgrees == Spec => []QuietIsConsistent
  <1>1. OneByOne => QuietIsConsistent
    BY DEF OneByOne, Good, Rested, Unlisted, Cleared, Short, QuietIsConsistent, Quiet, Calm
  <1> QED
    BY Uncrossed, <1>1, PTL

\* No step moves an uncrossed order that has ended, but for a late event.
LEMMA EndStep ==
  ASSUME TypeOK, Known, OneByOne, [Next]_vars, NEW o \in Orders \ crossed'
  PROVE  /\ status[o] \in {"completed", "refunded"} => status'[o] = status[o]
         /\ status[o] = "cancelled" => status'[o] \in Dead
  <1>1. ASSUME NEW r \in Requests, Continue(r) \/ Abort(r), on[r] = o
        PROVE  \/ status'[o] = status[o]
               \/ status[o] \notin Dead \cup {"completed"}
               \/ status[o] \in Dead /\ status'[o] = "refunded"
    <2>1. CASE Save(r)
      <3>1. Good(o)
        BY <1>1, ContinueLocal DEF OneByOne, OnOne
      <3>2. Allowed(r, o)
        BY <1>1, <2>1, <3>1 DEF Good, Informed, Working, Save, At
      <3> QED
        BY <3>2, AllowedMoves, Moves
    <2>2. CASE MarkLate(r)
      BY <1>1, <2>2 DEF MarkLate, TypeOK
    <2>3. CASE ~Save(r) /\ ~MarkLate(r)
      BY <1>1, <2>3 DEF Continue, Abort, order, ReverseTransfer, RefundBuyer, UpdateListing,
            OpenPolicyIssue, CountOffence, MarkProcessing, Transfer, TransferThrows, SavePaid,
            SavePaidThrows, SaveFailed, SaveMissed, RelistMissed, ReadForIssue, CreateIssue,
            ResolveListing, ResolveDelete, CloseIssue, RefundLate, RefundThrows
    <2> QED
      BY <2>1, <2>2, <2>3
  <1>2. ASSUME NEW r \in Requests, Continue(r) \/ Abort(r), on[r] # o
        PROVE  status'[o] = status[o]
    BY <1>2, ContinueLocal DEF OnOne, Untouched
  <1>3. ASSUME NEW r \in Requests, NEW p \in Orders, Start(r, p) PROVE status'[o] = status[o]
    BY <1>3, StartLocal DEF TakesUp, Untouched
  <1>4. CASE UNCHANGED vars
    BY <1>4 DEF vars, order, Dead
  <1> QED
    BY <1>1, <1>2, <1>3, <1>4 DEF Next, Dead

\* Where handlers come one by one, an end is an end.
THEOREM EndsStay == Spec => EndIsFinal
  <1>1. IInv /\ OneByOne /\ [Next]_vars
          => [\A o \in Orders \ crossed' :
                /\ status[o] \in {"completed", "refunded"} => status'[o] = status[o]
                /\ status[o] = "cancelled" => status'[o] \in Dead]_vars
    BY EndStep DEF IInv
  <1> QED
    BY Invariance, Uncrossed, <1>1, PTL DEF Spec, EndIsFinal
-----------------------------------------------------------------------------
(* OrderFulfilment implements Escrow.  A step makes one entry in the ledger*)
(* at most; what had to come before it follows from MoneyGoesOneWay in the *)
(* state it leads to, and a reversal from what its handler knows.          *)

\* Only a transfer that was made is reversed, or known to anybody.
RecallInv ==
  /\ reversed \subseteq transferred
  /\ \A r \in Requests :
       /\ knows[r] \/ at[r] = "reverse" => on[r] \in transferred
       /\ at[r] = "idle" => ~knows[r]

LEMMA RecallStep == TypeOK /\ Known /\ SentInv /\ RecallInv /\ [Next]_vars => RecallInv'
  <1> SUFFICES ASSUME TypeOK /\ Known /\ SentInv /\ RecallInv, [Next]_vars PROVE RecallInv'
    OBVIOUS
  <1> USE NoneAssumption DEF
        order, stripe, job, desk, At, Goto, Return, Enter, Decide, TypeOK,
        Known, SentInv, RecallInv, FirstStep, AfterReverse, KnowsTransfer
  <1>1. ASSUME NEW r \in Requests, ReverseTransfer(r) PROVE RecallInv'
    BY <1>1 DEF ReverseTransfer
  <1>2. ASSUME NEW r \in Requests, RefundBuyer(r) PROVE RecallInv'
    BY <1>2 DEF RefundBuyer
  <1>3. ASSUME NEW r \in Requests, UpdateListing(r) PROVE RecallInv'
    BY <1>3 DEF UpdateListing
  <1>4. ASSUME NEW r \in Requests, Save(r) PROVE RecallInv'
    BY <1>4 DEF Save
  <1>5. ASSUME NEW r \in Requests, OpenPolicyIssue(r) PROVE RecallInv'
    BY <1>5 DEF OpenPolicyIssue
  <1>6. ASSUME NEW r \in Requests, CountOffence(r) PROVE RecallInv'
    BY <1>6 DEF CountOffence
  <1>7. ASSUME NEW r \in Requests, MarkProcessing(r) PROVE RecallInv'
    BY <1>7 DEF MarkProcessing
  <1>8. ASSUME NEW r \in Requests, Transfer(r) PROVE RecallInv'
    BY <1>8 DEF Transfer
  <1>9. ASSUME NEW r \in Requests, TransferThrows(r) PROVE RecallInv'
    BY <1>9 DEF TransferThrows
  <1>10. ASSUME NEW r \in Requests, SavePaid(r) PROVE RecallInv'
    BY <1>10 DEF SavePaid
  <1>11. ASSUME NEW r \in Requests, SavePaidThrows(r) PROVE RecallInv'
    BY <1>11 DEF SavePaidThrows
  <1>12. ASSUME NEW r \in Requests, SaveFailed(r) PROVE RecallInv'
    BY <1>12 DEF SaveFailed
  <1>13. ASSUME NEW r \in Requests, SaveMissed(r) PROVE RecallInv'
    BY <1>13 DEF SaveMissed
  <1>14. ASSUME NEW r \in Requests, RelistMissed(r) PROVE RecallInv'
    BY <1>14 DEF RelistMissed
  <1>15. ASSUME NEW r \in Requests, ReadForIssue(r) PROVE RecallInv'
    BY <1>15 DEF ReadForIssue
  <1>16. ASSUME NEW r \in Requests, CreateIssue(r) PROVE RecallInv'
    BY <1>16 DEF CreateIssue
  <1>17. ASSUME NEW r \in Requests, ResolveListing(r) PROVE RecallInv'
    BY <1>17 DEF ResolveListing
  <1>18. ASSUME NEW r \in Requests, ResolveDelete(r) PROVE RecallInv'
    BY <1>18 DEF ResolveDelete
  <1>19. ASSUME NEW r \in Requests, CloseIssue(r) PROVE RecallInv'
    BY <1>19 DEF CloseIssue
  <1>20. ASSUME NEW r \in Requests, RefundLate(r) PROVE RecallInv'
    BY <1>20 DEF RefundLate
  <1>21. ASSUME NEW r \in Requests, MarkLate(r) PROVE RecallInv'
    BY <1>21 DEF MarkLate
  <1>22. ASSUME NEW r \in Requests, RefundThrows(r) PROVE RecallInv'
    BY <1>22 DEF RefundThrows
  <1>23. ASSUME NEW r \in Requests, Abort(r) PROVE RecallInv'
    BY <1>23 DEF Abort
  <1>24. ASSUME NEW r \in Requests, NEW o \in Orders, StartPayout(r, o) PROVE RecallInv'
    BY <1>24 DEF StartPayout
  <1>25. ASSUME NEW r \in Requests, NEW o \in Orders, StartMissed(r, o) PROVE RecallInv'
    BY <1>25 DEF StartMissed
  <1>26. ASSUME NEW r \in Requests, NEW o \in Orders, StartLate(r, o) PROVE RecallInv'
    BY <1>26 DEF StartLate
  <1>27. ASSUME NEW r \in Requests, NEW o \in Orders, NEW target \in OrderStatuses,
              NEW outcome \in Outcomes \cup {None},
              StartUpdate(r, o, target, outcome) PROVE RecallInv'
    BY <1>27 DEF StartUpdate
  <1>28. ASSUME NEW r \in Requests, NEW o \in Orders,
              NEW outcome \in AtVerification \cup AtDelivery \cup {None},
              StartIssue(r, o, outcome) PROVE RecallInv'
    BY <1>28 DEF StartIssue
  <1>29. ASSUME NEW r \in Requests, NEW o \in Orders, NEW i \in IssueIds,
              NEW step \in {"resolveListing", "resolveDelete"},
              StartResolve(r, o, i, step) PROVE RecallInv'
    BY <1>29 DEF StartResolve
  <1>30. CASE UNCHANGED vars
    BY <1>30 DEF vars
  <1> HIDE DEF
        order, stripe, job, desk, At, Goto, Return, Enter, Decide, TypeOK,
        Known, SentInv, RecallInv, FirstStep, AfterReverse, KnowsTransfer
  <1> QED
    BY <1>1, <1>2, <1>3, <1>4, <1>5, <1>6, <1>7, <1>8, <1>9, <1>10, <1>11, <1>12,
       <1>13, <1>14, <1>15, <1>16, <1>17, <1>18, <1>19, <1>20, <1>21, <1>22, <1>23,
       <1>24, <1>25, <1>26, <1>27, <1>28, <1>29, <1>30
    DEF Next, Continue, Start

\* A handler makes one entry in the account of its order, or none.
OneEntry(r) ==
  \/ UNCHANGED stripe
  \/ /\ transferred' \in {transferred, transferred \cup {on[r]}}
     /\ UNCHANGED <<reversed, refund, late>>
  \/ /\ reversed' = reversed \cup {on[r]}
     /\ UNCHANGED <<transferred, refund, late>>
  \/ /\ refund'[on[r]] # "none" \/ on[r] \in late'
     /\ UNCHANGED <<transferred, reversed>>

LEMMA OneEntryStep ==
  ASSUME TypeOK, Known, NEW r \in Requests, Continue(r) \/ Abort(r)
  PROVE  OneEntry(r)
  <1> USE NoneAssumption DEF At, stripe, OneEntry
  <1>1. CASE ReverseTransfer(r)
    BY <1>1 DEF ReverseTransfer
  <1>2. CASE RefundBuyer(r)
    BY <1>2 DEF RefundBuyer, TypeOK, Known, Amount
  <1>3. CASE UpdateListing(r)
    BY <1>3 DEF UpdateListing
  <1>4. CASE Save(r)
    BY <1>4 DEF Save
  <1>5. CASE OpenPolicyIssue(r)
    BY <1>5 DEF OpenPolicyIssue
  <1>6. CASE CountOffence(r)
    BY <1>6 DEF CountOffence
  <1>7. CASE MarkProcessing(r)
    BY <1>7 DEF MarkProcessing
  <1>8. CASE Transfer(r)
    BY <1>8 DEF Transfer
  <1>9. CASE TransferThrows(r)
    BY <1>9 DEF TransferThrows
  <1>10. CASE SavePaid(r)
    BY <1>10 DEF SavePaid
  <1>11. CASE SavePaidThrows(r)
    BY <1>11 DEF SavePaidThrows
  <1>12. CASE SaveFailed(r)
    BY <1>12 DEF SaveFailed
  <1>13. CASE SaveMissed(r)
    BY <1>13 DEF SaveMissed
  <1>14. CASE RelistMissed(r)
    BY <1>14 DEF RelistMissed
  <1>15. CASE ReadForIssue(r)
    BY <1>15 DEF ReadForIssue
  <1>16. CASE CreateIssue(r)
    BY <1>16 DEF CreateIssue
  <1>17. CASE ResolveListing(r)
    BY <1>17 DEF ResolveListing
  <1>18. CASE ResolveDelete(r)
    BY <1>18 DEF ResolveDelete
  <1>19. CASE CloseIssue(r)
    BY <1>19 DEF CloseIssue
  <1>20. CASE RefundLate(r)
    BY <1>20 DEF RefundLate, TypeOK, Known
  <1>21. CASE MarkLate(r)
    BY <1>21 DEF MarkLate
  <1>22. CASE RefundThrows(r)
    BY <1>22 DEF RefundThrows
  <1>23. CASE Abort(r)
    BY <1>23 DEF Abort
  <1> HIDE DEF At, stripe, OneEntry
  <1> QED
    BY <1>1, <1>2, <1>3, <1>4, <1>5, <1>6, <1>7, <1>8, <1>9, <1>10, <1>11, <1>12,
       <1>13, <1>14, <1>15, <1>16, <1>17, <1>18, <1>19, <1>20, <1>21, <1>22, <1>23
    DEF Continue

\* No death is forgotten.
LEMMA DeathsCount ==
  ASSUME TypeOK, Known, NEW r \in Requests, Continue(r) \/ Abort(r), NEW o \in Orders
  PROVE  died'[o] = 0 => died[o] = 0
  <1>1. CASE Abort(r)
    BY <1>1, BoundAssumption DEF Abort, TypeOK
  <1>2. CASE Continue(r)
    BY <1>2 DEF Continue, ReverseTransfer, RefundBuyer, UpdateListing, Save, OpenPolicyIssue,
       CountOffence, MarkProcessing, Transfer, TransferThrows, SavePaid, SavePaidThrows,
       SaveFailed, SaveMissed, RelistMissed, ReadForIssue, CreateIssue, ResolveListing,
       ResolveDelete, CloseIssue, RefundLate, MarkLate, RefundThrows
  <1> QED
    BY <1>1, <1>2

\* Orders other than o have the account they had.
OthersKeep(o) ==
  \A p \in Orders \ {o} :
    /\ Calm(p)' <=> Calm(p)
    /\ p \in transferred' <=> p \in transferred
    /\ p \in reversed' <=> p \in reversed
    /\ Returned(p)' <=> Returned(p)

\* Order o has the account it had, or one entry more.
Entered(o) ==
  \/ /\ transferred' \in {transferred, transferred \cup {o}}
     /\ reversed' = reversed /\ (Returned(o)' <=> Returned(o))
  \/ /\ reversed' = reversed \cup {o}
     /\ transferred' = transferred /\ (Returned(o)' <=> Returned(o))
  \/ Returned(o)' /\ transferred' = transferred /\ reversed' = reversed

Sent == Kept(transferred)
Recalled == Kept(reversed)
Refunded == Kept({o \in Orders : refund[o] # "none" \/ o \in late})
Lost == {o \in Orders : ~Calm(o)}
Abstract == [Money!Next]_<<Money!ledger, {o \in Orders : ~Calm(o)}>>

\* The ledger, order by order.
Books ==
  /\ Sent \subseteq Orders /\ Recalled \subseteq Orders
  /\ Refunded \subseteq Orders /\ Lost \subseteq Orders
  /\ \A o \in Orders :
       /\ o \in Sent <=> Calm(o) /\ o \in transferred
       /\ o \in Recalled <=> Calm(o) /\ o \in reversed
       /\ o \in Refunded <=> Calm(o) /\ Returned(o)
       /\ o \in Lost <=> ~Calm(o)

LEMMA BooksRight ==
  ASSUME TypeOK, TypeOK' PROVE Books /\ Books'
BY DEF Books, Sent, Recalled, Refunded, Lost, Kept, Returned, TypeOK

\* One more entry in the account of an order is a step of Escrow: the state it
\* leads to says what had to come first.
LEMMA EntryIsAbstract ==
  ASSUME TypeOK, TypeOK', RecallInv, RecallInv', CalmReversedFirst, CalmReversedFirst',
         NEW o \in Orders, OthersKeep(o), Entered(o), Calm(o)' => Calm(o)
  PROVE  Abstract
  <1>1. Books /\ Books'
    BY BooksRight
  <1>2. \A p \in Orders \ {o} : /\ p \in Sent' <=> p \in Sent
                                /\ p \in Recalled' <=> p \in Recalled
                                /\ p \in Refunded' <=> p \in Refunded
                                /\ p \in Lost' <=> p \in Lost
    BY <1>1 DEF OthersKeep, Books
  <1>3. UNCHANGED <<Sent, Recalled, Refunded, Lost>> => Abstract
    BY DEF Abstract, Money!ledger, Sent, Recalled, Refunded, Lost
  <1>4. Money!Send(o) \/ Money!Recall(o) \/ Money!Refund(o) \/ Money!Lose(o) => Abstract
    BY DEF Abstract, Money!Next
  <1>5. CASE ~Calm(o)
    BY <1>1, <1>2, <1>3, <1>5 DEF Books
  <1>6. CASE Calm(o) /\ ~Calm(o)'
    <2>1. /\ o \notin Lost /\ Lost' = Lost \cup {o}
          /\ Sent' = Sent \ {o} /\ Recalled' = Recalled \ {o} /\ Refunded' = Refunded \ {o}
      BY <1>1, <1>2, <1>6 DEF Books
    <2> QED
      BY <1>4, <2>1 DEF Money!Lose, Sent, Recalled, Refunded, Lost
  <1>7. CASE Calm(o) /\ Calm(o)' /\ o \in transferred' /\ o \notin transferred
    <2>1. reversed' = reversed /\ (Returned(o)' <=> Returned(o)) /\ o \notin reversed
      BY <1>7 DEF Entered, RecallInv
    <2>2. ~Returned(o)
      BY <1>7, <2>1 DEF CalmReversedFirst, Returned
    <2>3. /\ o \notin Sent \cup Refunded \cup Lost /\ Sent' = Sent \cup {o}
          /\ Recalled' = Recalled /\ Refunded' = Refunded /\ Lost' = Lost
      BY <1>1, <1>2, <1>7, <2>1, <2>2 DEF Books
    <2> QED
      BY <1>4, <2>3 DEF Money!Send, Sent, Recalled, Refunded, Lost
  <1>8. CASE Calm(o) /\ Calm(o)' /\ o \in reversed' /\ o \notin reversed
    <2>1. transferred' = transferred /\ (Returned(o)' <=> Returned(o)) /\ o \in transferred
      BY <1>8 DEF Entered, RecallInv
    <2>2. ~Returned(o)
      BY <1>8, <2>1 DEF CalmReversedFirst, Returned
    <2>3. /\ o \in Sent \ (Recalled \cup Refunded \cup Lost) /\ Recalled' = Recalled \cup {o}
          /\ Sent' = Sent /\ Refunded' = Refunded /\ Lost' = Lost
      BY <1>1, <1>2, <1>8, <2>1, <2>2 DEF Books
    <2> QED
      BY <1>4, <2>3 DEF Money!Recall, Sent, Recalled, Refunded, Lost
  <1>9. CASE Calm(o) /\ Calm(o)' /\ Returned(o)' /\ ~Returned(o)
    <2>1. transferred' = transferred /\ reversed' = reversed
      BY <1>9 DEF Entered
    <2>2. o \in transferred => o \in reversed
      BY <1>9, <2>1 DEF CalmReversedFirst, Returned
    <2>3. /\ o \notin Refunded \cup Lost /\ (o \in Sent => o \in Recalled)
          /\ Refunded' = Refunded \cup {o}
          /\ Sent' = Sent /\ Recalled' = Recalled /\ Lost' = Lost
      BY <1>1, <1>2, <1>9, <2>1, <2>2 DEF Books
    <2> QED
      BY <1>4, <2>3 DEF Money!Refund, Sent, Recalled, Refunded, Lost
  <1>10. CASE /\ Calm(o) /\ Calm(o)' /\ (o \in transferred' <=> o \in transferred)
              /\ (o \in reversed' <=> o \in reversed) /\ (Returned(o)' <=> Returned(o))
    BY <1>1, <1>2, <1>3, <1>10 DEF Books
  <1> QED
    BY <1>5, <1>6, <1>7, <1>8, <1>9, <1>10 DEF Entered
\* A handler's step makes one entry in the account of its order at most.
LEMMA ContinueIsAbstract ==
  ASSUME TypeOK, TypeOK', Known, RecallInv, RecallInv', CalmReversedFirst, CalmReversedFirst',
         NEW r \in Requests, Continue(r) \/ Abort(r)
  PROVE  Abstract
  <1>1. PICK o \in Orders : o = on[r]
    BY HasOrder
  <1>2. OnOne(r) /\ OneEntry(r)
    BY ContinueLocal, OneEntryStep
  <1>3. OthersKeep(o)
    BY <1>1, <1>2 DEF OnOne, Untouched, OthersKeep, Calm, Returned
  <1>4. Calm(o)' => Calm(o)
    BY <1>2, DeathsCount DEF OnOne, Calm
  <1>5. Entered(o)
    BY <1>1, <1>2 DEF OneEntry, Entered, Returned, stripe
  <1> QED
    BY <1>3, <1>4, <1>5, EntryIsAbstract

\* A request that takes an order up changes no account; the order may be one
\* that another handler works on.
LEMMA StartIsAbstract ==
  ASSUME TypeOK, TypeOK', RecallInv, RecallInv', CalmReversedFirst, CalmReversedFirst',
         NEW r \in Requests, NEW o \in Orders, Start(r, o)
  PROVE  Abstract
  <1>1. TakesUp(r, o)
    BY StartLocal
  <1>2. OthersKeep(o)
    BY <1>1 DEF TakesUp, Untouched, OthersKeep, Calm, Returned
  <1>3. Calm(o)' => Calm(o)
    BY <1>1 DEF TakesUp, Untouched, Calm
  <1>4. Entered(o)
    <2>1. \A p \in Orders : Untouched(p)
      BY <1>1 DEF TakesUp
    <2>2. /\ transferred \subseteq Orders /\ transferred' \subseteq Orders
          /\ reversed \subseteq Orders /\ reversed' \subseteq Orders
      BY DEF TypeOK
    <2>3. transferred' = transferred /\ reversed' = reversed
      BY <2>1, <2>2 DEF Untouched
    <2>4. Returned(o)' <=> Returned(o)
      BY <2>1 DEF Untouched, Returned
    <2> QED
      BY <2>3, <2>4 DEF Entered
  <1> QED
    BY <1>2, <1>3, <1>4, EntryIsAbstract

LEMMA AbstractInit == Init => Money!Init
BY DEF Init, Money!Init, Kept, Calm

\* Whatever requests do at once and whichever fail, an order that nobody worked
\* on twice at once and that no handler died on goes through the steps of
\* Escrow: OrderFulfilment implements it.
THEOREM EscrowIsKept == Spec => MoneyIsHeld
  <1>1. Init => RecallInv
    BY DEF Init, RecallInv
  <1>2. IInv /\ RecallInv /\ [Next]_vars => RecallInv'
    BY RecallStep DEF IInv
  <1>3. IInv => TypeOK /\ Known
    BY DEF IInv
  <1>4. /\ TypeOK /\ TypeOK' /\ Known /\ RecallInv /\ RecallInv'
        /\ CalmReversedFirst /\ CalmReversedFirst' /\ [Next]_vars
        => Abstract
    <2> SUFFICES ASSUME TypeOK, TypeOK', Known, RecallInv, RecallInv',
                        CalmReversedFirst, CalmReversedFirst', [Next]_vars
                 PROVE  Abstract
      OBVIOUS
    <2>1. CASE UNCHANGED vars
      BY <2>1 DEF vars, stripe, Abstract, Money!ledger, Kept, Calm
    <2> QED
      BY <2>1, ContinueIsAbstract, StartIsAbstract DEF Next
  <1> QED
    BY <1>1, <1>2, <1>3, <1>4, AbstractInit, Invariance, MoneyGoesOneWay, PTL
    DEF Spec, MoneyIsHeld, Money!Spec, Abstract
-----------------------------------------------------------------------------
(* OrderFulfilment implements Lifecycle.  A handler that is alone on its   *)
(* order still knows the status it read, so that its save is a move of the *)
(* table; a second handler makes the order leave the scheme.               *)

LifeStep == [Life!Next]_<<phase, paidOut, returned>>

LEMMA NothingLived ==
  ASSUME UNCHANGED <<phase, paidOut, returned>> PROVE LifeStep
BY DEF LifeStep

\* One step in the life of order o; the status moves and the two records with it.
Lived(o) ==
  \/ /\ status'[o] = status[o] /\ payment'[o] = payment[o]
     /\ payout'[o] = "paid" <=> payout[o] = "paid"
  \/ /\ status'[o] \in Transitions[status[o]] \ Dead /\ payment'[o] = payment[o]
     /\ payout'[o] = payout[o]
     /\ status'[o] = "ready_for_delivery" => payout[o] = "paid"
  \/ /\ status[o] = "payout_processing" /\ status'[o] = status[o]
     /\ payment'[o] = payment[o] /\ payout'[o] = "paid"
  \/ /\ status'[o] \in Transitions[status[o]] \cap Dead
     /\ payment'[o] = "refunded" /\ payout'[o] # "paid"
  \/ /\ status[o] = "cancelled" /\ status'[o] = "refunded"
     /\ payment'[o] = payment[o] /\ payout'[o] = payout[o]

\* A handler that is alone on its order takes one such step.
LEMMA LivedOn ==
  ASSUME TypeOK, DeadIsNotPaid, NEW r \in Requests, Continue(r) \/ Abort(r),
         NEW o \in Orders, on[r] = o, Good(o), Good(o)'
  PROVE  Lived(o)
  <1> USE DEF Lived
  <1>0. Informed(r, o) /\ Facts(o) /\ Facts(o)'
    BY DEF Good
  <1>1. CASE Save(r)
    <2>1. Allowed(r, o)
      BY <1>0, <1>1 DEF Informed, Working, Save, At
    <2>2. /\ to[r] \in Transitions[status[o]]
          /\ to[r] = "ready_for_delivery" => payout[o] = "paid"
          /\ why[r] # None => to[r] \in Dead
      BY <2>1, AllowedMoves DEF Allowed, Dead
    <2>3. /\ status'[o] = to[r]
          /\ payment'[o] = IF to[r] \in Dead THEN "refunded" ELSE payment[o]
          /\ why[r] = None => payout'[o] = payout[o]
      BY <1>1, <2>1 DEF Save, PaymentAfter, Allowed, TypeOK
    <2>4. status'[o] \in Dead => payout'[o] # "paid"
      BY <1>0 DEF Facts
    <2> QED
      BY <2>2, <2>3, <2>4
  <1>2. CASE SavePaid(r)
    <2>1. status[o] = "payout_processing"
      BY <1>0, <1>2 DEF Informed, SavePaid, At
    <2> QED
      BY <1>2, <2>1 DEF SavePaid, TypeOK
  <1>3. CASE MarkProcessing(r) \/ SaveFailed(r)
    <2>1. payout[o] # "paid"
      BY <1>0, <1>3 DEF Informed, MarkProcessing, SaveFailed, At
    <2> QED
      BY <1>3, <2>1 DEF MarkProcessing, SaveFailed, TypeOK
  <1>4. CASE MarkLate(r)
    <2>1. status[o] \in Dead => payment[o] = "refunded"
      BY DEF DeadIsNotPaid, TypeOK
    <2> QED
      BY <1>4, <2>1 DEF MarkLate, TypeOK, Dead
  <1>5. CASE ~Save(r) /\ ~SavePaid(r) /\ ~MarkProcessing(r) /\ ~SaveFailed(r) /\ ~MarkLate(r)
    <2>1. UNCHANGED <<status, payment, payout>>
      BY <1>5 DEF Continue, Abort, order, ReverseTransfer, RefundBuyer, UpdateListing,
         OpenPolicyIssue, CountOffence, Transfer, TransferThrows, SavePaidThrows, SaveMissed,
         RelistMissed, ReadForIssue, CreateIssue, ResolveListing, ResolveDelete, CloseIssue,
         RefundLate, RefundThrows
    <2> QED
      BY <2>1
  <1> QED
    BY <1>1, <1>2, <1>3, <1>4, <1>5

\* The two modules share the table.
LEMMA SameTable == Life!Transitions = Transitions /\ Life!Dead = Dead
BY DEF Life!Transitions, Transitions, Life!OrderStatuses, OrderStatuses,
       Life!Delivering, Delivering, Life!Dead, Dead

\* Such a step is one of Lifecycle.
LEMMA LivedIsAbstract ==
  ASSUME TypeOK, TypeOK', NEW o \in Orders, o \notin crossed, crossed' = crossed, Lived(o),
         \A p \in Orders \ {o} : Untouched(p)
  PROVE  LifeStep
  <1>1. /\ phase[o] = status[o] /\ Life!InScheme(o)
        /\ phase' = [phase EXCEPT ![o] = status'[o]]
    <2>1. \A p \in Orders : phase'[p] = IF p = o THEN status'[o] ELSE phase[p]
      BY DEF phase, Untouched
    <2>2. phase = [p \in Orders |-> phase[p]] /\ phase' = [p \in Orders |-> phase'[p]]
      BY DEF phase
    <2>3. phase[o] = status[o] /\ status[o] # None
      BY StatusAssumption DEF phase, TypeOK
    <2> QED
      BY <2>1, <2>2, <2>3 DEF Life!InScheme
  <1>2. /\ paidOut' = IF payout'[o] = "paid" THEN paidOut \cup {o} ELSE paidOut \ {o}
        /\ o \in paidOut <=> payout[o] = "paid"
    BY DEF paidOut, Untouched
  <1>3. /\ returned' = IF payment'[o] = "refunded" THEN returned \cup {o} ELSE returned \ {o}
        /\ o \in returned <=> payment[o] = "refunded"
    BY DEF returned, Untouched
  <1>4. phase = [phase EXCEPT ![o] = status[o]]
    BY <1>1 DEF phase
  <1>5. CASE status'[o] = status[o] /\ payment'[o] = payment[o]
             /\ (payout'[o] = "paid" <=> payout[o] = "paid")
    BY <1>1, <1>2, <1>3, <1>4, <1>5, NothingLived
  <1>6. CASE /\ status'[o] \in Transitions[status[o]] \ Dead /\ payment'[o] = payment[o]
             /\ payout'[o] = payout[o]
             /\ status'[o] = "ready_for_delivery" => payout[o] = "paid"
    <2>1. paidOut' = paidOut /\ returned' = returned
      BY <1>2, <1>3, <1>6
    <2>2. /\ status'[o] \in Transitions[phase[o]] \ Dead
          /\ status'[o] = "ready_for_delivery" => o \in paidOut
          /\ phase' = [phase EXCEPT ![o] = status'[o]]
      BY <1>1, <1>2, <1>6
    <2>3. \E next \in Transitions[phase[o]] \ Dead :
            /\ next = "ready_for_delivery" => o \in paidOut
            /\ phase' = [phase EXCEPT ![o] = next]
      BY <2>2
    <2>4. Life!MoveOn(o)
      BY <1>1, <2>1, <2>3, SameTable DEF Life!MoveOn
    <2> QED
      BY <2>4 DEF LifeStep, Life!Next
  <1>7. CASE /\ status[o] = "payout_processing" /\ status'[o] = status[o]
             /\ payment'[o] = payment[o] /\ payout'[o] = "paid"
    <2>1. returned' = returned /\ phase' = phase
      BY <1>1, <1>3, <1>4, <1>7
    <2>2. Life!PayOut(o)
      BY <1>1, <1>2, <1>7, <2>1 DEF Life!PayOut
    <2> QED
      BY <2>2 DEF LifeStep, Life!Next
  <1>8. CASE /\ status'[o] \in Transitions[status[o]] \cap Dead
             /\ payment'[o] = "refunded" /\ payout'[o] # "paid"
    <2>1. /\ status'[o] \in Transitions[phase[o]] \cap Dead
          /\ phase' = [phase EXCEPT ![o] = status'[o]]
      BY <1>1, <1>8
    <2>2. \E next \in Transitions[phase[o]] \cap Dead : phase' = [phase EXCEPT ![o] = next]
      BY <2>1
    <2>3. paidOut' = paidOut \ {o} /\ returned' = returned \cup {o}
      BY <1>2, <1>3, <1>8
    <2>4. Life!CallOff(o)
      BY <1>1, <2>2, <2>3, SameTable DEF Life!CallOff
    <2> QED
      BY <2>4 DEF LifeStep, Life!Next
  <1>9. CASE /\ status[o] = "cancelled" /\ status'[o] = "refunded"
             /\ payment'[o] = payment[o] /\ payout'[o] = payout[o]
    <2>1. paidOut' = paidOut /\ returned' = returned
      BY <1>2, <1>3, <1>9
    <2>2. Life!ReturnLate(o)
      BY <1>1, <1>9, <2>1 DEF Life!ReturnLate
    <2> QED
      BY <2>2 DEF LifeStep, Life!Next
  <1> QED
    BY <1>5, <1>6, <1>7, <1>8, <1>9 DEF Lived

LEMMA ContinueLives ==
  ASSUME TypeOK, TypeOK', Known, DeadIsNotPaid, OneByOne, OneByOne',
         NEW r \in Requests, Continue(r) \/ Abort(r)
  PROVE  LifeStep
  <1>1. PICK o \in Orders : o = on[r]
    BY HasOrder
  <1>2. crossed' = crossed /\ \A p \in Orders \ {o} : Untouched(p)
    BY <1>1, ContinueLocal DEF OnOne
  <1>3. CASE o \in crossed
    <2>1. UNCHANGED <<phase, paidOut, returned>>
      BY <1>2, <1>3 DEF phase, paidOut, returned, Untouched
    <2> QED
      BY <2>1, NothingLived
  <1>4. CASE o \notin crossed
    <2>1. Good(o) /\ Good(o)'
      BY <1>2, <1>4 DEF OneByOne
    <2> QED
      BY <1>1, <1>2, <1>4, <2>1, LivedOn, LivedIsAbstract
  <1> QED
    BY <1>3, <1>4

LEMMA StartLives ==
  ASSUME TypeOK, NEW r \in Requests, NEW o \in Orders, Start(r, o) PROVE LifeStep
  <1>1. /\ \A p \in Orders : Untouched(p)
        /\ crossed \subseteq crossed' /\ crossed' \subseteq crossed \cup {o}
    BY StartLocal DEF TakesUp
  <1>2. CASE o \notin crossed /\ o \in crossed'
    <2>1. \A p \in Orders : phase'[p] = IF p = o THEN None ELSE phase[p]
      BY <1>1, <1>2 DEF phase, Untouched
    <2>2. phase = [p \in Orders |-> phase[p]] /\ phase' = [p \in Orders |-> phase'[p]]
      BY DEF phase
    <2>3. phase' = [phase EXCEPT ![o] = None]
      BY <2>1, <2>2
    <2>4. Life!InScheme(o)
      BY <1>2, StatusAssumption DEF Life!InScheme, phase, TypeOK
    <2>5. paidOut' = paidOut \ {o} /\ returned' = returned \ {o}
      BY <1>1, <1>2 DEF paidOut, returned, Untouched
    <2> QED
      BY <2>3, <2>4, <2>5 DEF LifeStep, Life!Next, Life!Leave
  <1>3. CASE o \in crossed \/ o \notin crossed'
    <2>1. crossed' = crossed
      BY <1>1, <1>3
    <2>2. UNCHANGED <<phase, paidOut, returned>>
      BY <1>1, <2>1 DEF phase, paidOut, returned, Untouched
    <2> QED
      BY <2>2, NothingLived
  <1> QED
    BY <1>2, <1>3

\* Whatever is asked for and whichever handlers die, an order that nobody worked
\* on twice at once lives as Lifecycle says: OrderFulfilment implements it.
THEOREM OrdersLive == Spec => LifeIsKept
  <1>1. Init => Life!Init
    BY DEF Init, Life!Init, phase, paidOut, returned
  <1>2. IInv => TypeOK /\ Known /\ DeadIsNotPaid
    BY DEF IInv, PaidInv
  <1>3. /\ TypeOK /\ TypeOK' /\ Known /\ DeadIsNotPaid /\ OneByOne /\ OneByOne'
        /\ [Next]_vars
        => LifeStep
    <2> SUFFICES ASSUME TypeOK, TypeOK', Known, DeadIsNotPaid, OneByOne, OneByOne',
                        [Next]_vars
                 PROVE  LifeStep
      OBVIOUS
    <2>1. CASE UNCHANGED vars
      BY <2>1, NothingLived DEF vars, order, phase, paidOut, returned
    <2> QED
      BY <2>1, ContinueLives, StartLives DEF Next
  <1> QED
    BY <1>1, <1>2, <1>3, Invariance, Uncrossed, PTL
    DEF Spec, LifeIsKept, Life!Spec, LifeStep
=============================================================================
