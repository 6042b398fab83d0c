--------------------------- MODULE OrderFulfilment ---------------------------
(***************************************************************************)
(* A paid order from collection to its end: the operations team collects   *)
(* the item, authenticates it, pays the seller and delivers it, and may    *)
(* refund the buyer on the way, directly or by reporting an issue.         *)
(*                                                                         *)
(*   updateOrderStatus        StartUpdate .. CountOffence                  *)
(*   paySeller                StartPayout .. SaveFailed                    *)
(*   reportMissedCollection   StartMissed .. CancelMissed                  *)
(*   createIssue              StartIssue .. CreateIssue                    *)
(*   resolveIssue             StartResolve .. CloseIssue                   *)
(*   handlePaymentSucceeded   StartLate, RefundLate, MarkLate: the event   *)
(*                            of a payment claimed long ago, once more     *)
(*                                                                         *)
(* As in OrderPayment, an action is a handler's code from one await to the *)
(* next.  An order has a listing of its own here: what happens when the    *)
(* listing is on sale again is the subject of OrderPayment.                *)
(***************************************************************************)
EXTENDS Naturals, OrderStates

CONSTANTS
  Orders,     \* orders whose payment was claimed
  Requests,   \* slots for handlers in flight
  IssueIds,   \* issue documents that may be open at once
  Threshold,  \* missedCollectionCancellationThreshold
  MaxMissed,  \* bound on the missed collections reported for an order
  MaxFaults   \* bound on the handlers that die, for each order

ASSUME ThresholdAssumption == Threshold \in Nat \ {0}
ASSUME BoundAssumption == MaxMissed \in Nat /\ MaxFaults \in Nat
ASSUME NoneAssumption == None \notin Orders \cup IssueIds \cup Outcomes \cup {"new"}
ASSUME StatusAssumption == None \notin OrderStatuses
ASSUME IssueAssumption == "new" \notin IssueIds

VARIABLES
  status, payment, payout, transferId, missed, recorded, \* the order documents
  listing,     \* the status of the order's listing, or "deleted"
  named,       \* orders whose listing still names their buyer
  open,        \* the unresolved issues of the order's listing
  offences,    \* penalties counted against a user on account of the order
  transferred, \* Stripe: orders whose seller was sent the payout
  reversed,    \* Stripe: orders whose transfer was reversed
  refund,      \* Stripe: the amount asked for under the key order-refund
  late,        \* Stripe: orders refunded under the key late-payment-refund
  crossed,     \* orders two handlers ever worked on at once
  relisted,    \* live orders whose listing an issue's resolution put on sale
  died,        \* how many handlers of the order died half way
  at,          \* the handler in each slot: the step it takes next,
  on,          \*   the order it works on,
  to,          \*   the status it moves it to,
  why,         \*   the outcome it was given,
  owes,        \*   whether it read the payment as paid,
  knows,       \*   whether it knows of the transfer to the seller,
  count,       \*   missedCollectionAttempts as it read them
  issue        \*   and the issue it resolves, or "new" if it is to create one

order  == <<status, payment, payout, transferId, missed, recorded>>
stripe == <<transferred, reversed, refund, late>>
job    == <<at, on, to, why, owes, knows, count, issue>>
desk   == <<open, offences, relisted>>
vars   == <<order, listing, named, desk, stripe, crossed, died, job>>

-----------------------------------------------------------------------------
(* States *)

PayoutStatuses == {"pending", "processing", "paid", "failed", "reversed"}

\* "price" and "payout" ask Stripe for that amount, "whole" for all there is.
Amounts == {"whole", "price", "payout"}

Steps ==
  {"idle"} \cup
  {"reverse", "refund", "listing", "save", "policyIssue", "offence"} \cup
  {"markProcessing", "transfer", "savePaid", "saveFailed"} \cup
  {"missedSave", "missedRelist"} \cup
  {"issueRead", "issueCreate", "resolveListing", "resolveDelete", "resolveSave"} \cup
  {"lateRefund", "lateMark"}

Init ==
  /\ status = [o \in Orders |-> "secured"]
  /\ payment = [o \in Orders |-> "paid"]
  /\ payout = [o \in Orders |-> "pending"]
  /\ transferId = [o \in Orders |-> FALSE]
  /\ missed = [o \in Orders |-> 0]
  /\ recorded = [o \in Orders |-> "none"]
  /\ listing = [o \in Orders |-> "secured"]
  /\ named = Orders
  /\ open = [o \in Orders |-> {}]
  /\ offences = [o \in Orders |-> 0]
  /\ transferred = {}
  /\ reversed = {}
  /\ refund = [o \in Orders |-> "none"]
  /\ late = {}
  /\ crossed = {}
  /\ relisted = {}
  /\ died = [o \in Orders |-> 0]
  /\ at = [r \in Requests |-> "idle"]
  /\ on = [r \in Requests |-> None]
  /\ to = [r \in Requests |-> None]
  /\ why = [r \in Requests |-> None]
  /\ owes = [r \in Requests |-> FALSE]
  /\ knows = [r \in Requests |-> FALSE]
  /\ count = [r \in Requests |-> 0]
  /\ issue = [r \in Requests |-> None]

-----------------------------------------------------------------------------
(* Control of a handler *)

At(r, step) == at[r] = step
Goto(r, step) ==
  /\ at' = [at EXCEPT ![r] = step]
  /\ UNCHANGED <<on, to, why, owes, knows, count, issue>>
Return(r) ==
  /\ at' = [at EXCEPT ![r] = "idle"]
  /\ on' = [on EXCEPT ![r] = None]
  /\ to' = [to EXCEPT ![r] = None]
  /\ why' = [why EXCEPT ![r] = None]
  /\ owes' = [owes EXCEPT ![r] = FALSE]
  /\ knows' = [knows EXCEPT ![r] = FALSE]
  /\ count' = [count EXCEPT ![r] = 0]
  /\ issue' = [issue EXCEPT ![r] = None]

\* A handler takes up order o.
Enter(r, o) ==
  /\ At(r, "idle")
  /\ on' = [on EXCEPT ![r] = o]
  /\ crossed' = IF \E other \in Requests \ {r} : on[other] = o
                THEN crossed \cup {o} ELSE crossed
  /\ UNCHANGED <<order, listing, named, desk, stripe, died>>

KnowsTransfer(o) == transferId[o] /\ payout[o] = "paid"

\* It has read the order and decided on a step, a status and an outcome.
Decide(r, o, step, target, outcome) ==
  /\ at' = [at EXCEPT ![r] = step]
  /\ to' = [to EXCEPT ![r] = target]
  /\ why' = [why EXCEPT ![r] = outcome]
  /\ owes' = [owes EXCEPT ![r] = (payment[o] = "paid")]
  /\ knows' = [knows EXCEPT ![r] = KnowsTransfer(o)]
  /\ UNCHANGED issue

\* The listing is written unless it was deleted, in which case nothing matches.
SetListing(o, value) ==
  /\ listing' = [listing EXCEPT ![o] = IF @ = "deleted" THEN @ ELSE value]
  /\ named' = IF value = "available" THEN named \ {o} ELSE named

-----------------------------------------------------------------------------
(* updateOrderStatus *)

\* Mutant: the seller's transfer is left alone.
FirstStepUnreversed(o, target) ==
  IF target \in Dead /\ payment[o] = "paid" THEN "refund"
  ELSE IF target \in Dead \cup {"delivered", "completed"} THEN "listing"
  ELSE "save"

\* Mutant: the buyer is not refunded.
FirstStepUnrefunded(o, target) ==
  IF target \in Dead \cup {"delivered", "completed"} THEN "listing" ELSE "save"

FirstStep(o, target) ==
  IF target = "refunded" /\ KnowsTransfer(o) THEN "reverse"
  ELSE IF target \in Dead /\ payment[o] = "paid" THEN "refund"
  ELSE IF target \in Dead \cup {"delivered", "completed"} THEN "listing"
  ELSE "save"

\* Mutant: delivery is prepared whatever became of the payout.
MayMoveUnpaid(o, target, outcome) ==
  target \in Transitions[status[o]] /\ outcome \in PolicyOutcomes(status[o], target)

\* Mutant: a status may be set again.
MayMoveAgain(o, target, outcome) ==
  /\ target \in Transitions[status[o]] \cup {status[o]}
  /\ outcome \in PolicyOutcomes(status[o], target)
  /\ target = "ready_for_delivery" => payout[o] = "paid"

MayMove(o, target, outcome) ==
  /\ target \in Transitions[status[o]]
  /\ outcome \in PolicyOutcomes(status[o], target)
  /\ target = "ready_for_delivery" => payout[o] = "paid"

StartUpdate(r, o, target, outcome) ==
  /\ Enter(r, o)
  /\ MayMove(o, target, outcome)
  /\ Decide(r, o, FirstStep(o, target), target, outcome)
  /\ UNCHANGED count

\* refundOrderPayment, which an update and a missed collection share: first
\* the seller's transfer is reversed, then the buyer is refunded.
AfterReverse(r) ==
  IF owes[r] THEN "refund" ELSE IF why[r] \in AtCollection THEN "save" ELSE "listing"

ReverseTransfer(r) ==
  /\ At(r, "reverse")
  /\ reversed' = reversed \cup {on[r]}
  /\ Goto(r, AfterReverse(r))
  /\ UNCHANGED <<order, listing, named, desk, transferred, refund, late, crossed, died>>

\* refundAmountForOutcome; a cancellation by operations names no amount.
Amount(r) ==
  IF why[r] = None THEN "whole" ELSE IF why[r] \in AtDelivery THEN "payout" ELSE "price"

\* The same key with another amount is refused, and so is a refund of a
\* payment that was returned in full.
Refundable(o, amount) == refund[o] = amount \/ (refund[o] = "none" /\ o \notin late)

\* Mutant: the amount is not handed on.
RefundBuyerWhole(r) ==
  /\ At(r, "refund")
  /\ Refundable(on[r], "whole")
  /\ refund' = [refund EXCEPT ![on[r]] = "whole"]
  /\ Goto(r, IF why[r] \in AtCollection THEN "save" ELSE "listing")
  /\ UNCHANGED <<order, listing, named, desk, transferred, reversed, late, crossed, died>>

RefundBuyer(r) ==
  /\ At(r, "refund")
  /\ Refundable(on[r], Amount(r))
  /\ refund' = [refund EXCEPT ![on[r]] = Amount(r)]
  /\ Goto(r, IF why[r] \in AtCollection THEN "save" ELSE "listing")
  /\ UNCHANGED <<order, listing, named, desk, transferred, reversed, late, crossed, died>>

UpdateListing(r) ==
  /\ At(r, "listing")
  /\ SetListing(on[r], IF why[r] # None THEN "under_review"
                       ELSE IF to[r] = "cancelled" THEN "available" ELSE "sold")
  /\ Goto(r, "save")
  /\ UNCHANGED <<order, desk, stripe, crossed, died>>

\* Mutant: the refund is made and not recorded.
PaymentUnrecorded(r) == payment[on[r]]

\* payment.status after a handler that refunded what it had read as paid.
PaymentAfter(r) ==
  IF to[r] \in Dead /\ owes[r] THEN "refunded" ELSE payment[on[r]]

\* save() of what the handler changed of the order it read.
Save(r) ==
  LET o == on[r] IN
  /\ At(r, "save")
  /\ status' = [status EXCEPT ![o] = to[r]]
  /\ payment' = [payment EXCEPT ![o] = PaymentAfter(r)]
  /\ payout' = [payout EXCEPT ![o] = IF why[r] # None /\ knows[r] THEN "reversed" ELSE @]
  /\ recorded' = [recorded EXCEPT ![o] = IF why[r] # None THEN Amount(r) ELSE @]
  /\ IF why[r] = None THEN Return(r)
     ELSE Goto(r, IF why[r] \in AtCollection THEN "missedRelist"
                  ELSE IF issue[r] = "new" THEN "offence" ELSE "policyIssue")
  /\ UNCHANGED <<transferId, missed, listing, named, desk, stripe, crossed, died>>

NewIssues == {i \in IssueIds : (\A o \in Orders : i \notin open[o])
                               /\ \A r \in Requests : issue[r] # i}

\* Mutant: an issue is created without looking for an open one.
OpenPolicyIssueAlways(r) ==
  LET o == on[r] IN
  /\ At(r, "policyIssue")
  /\ \E i \in NewIssues : open' = [open EXCEPT ![o] = @ \cup {i}]
  /\ Goto(r, "offence")
  /\ UNCHANGED <<order, listing, named, offences, relisted, stripe, crossed, died>>

\* The upsert finds the listing's open issue or opens one.
OpenPolicyIssue(r) ==
  LET o == on[r] IN
  /\ At(r, "policyIssue")
  /\ IF open[o] = {}
     THEN \E i \in NewIssues : open' = [open EXCEPT ![o] = {i}]
     ELSE UNCHANGED open
  /\ Goto(r, "offence")
  /\ UNCHANGED <<order, listing, named, offences, relisted, stripe, crossed, died>>

\* applyOutcomePenalty: a strike of the seller or a rejection of the buyer.
CountOffence(r) ==
  /\ At(r, "offence")
  /\ offences' = [offences EXCEPT ![on[r]] = IF why[r] = "others" THEN @ ELSE @ + 1]
  /\ IF issue[r] = "new" THEN Goto(r, "issueCreate") ELSE Return(r)
  /\ UNCHANGED <<order, listing, named, open, relisted, stripe, crossed, died>>

-----------------------------------------------------------------------------
(* paySeller.  A seller without a ready account ends it where it starts. *)

\* save() writes nothing when the payout was read as being processed.
StartPayout(r, o) ==
  /\ Enter(r, o)
  /\ status[o] = "payout_processing"
  /\ payment[o] = "paid"
  /\ payout[o] # "paid"
  /\ at' = [at EXCEPT ![r] = IF payout[o] = "processing" THEN "transfer" ELSE "markProcessing"]
  /\ UNCHANGED <<to, why, owes, knows, count, issue>>

MarkProcessing(r) ==
  /\ At(r, "markProcessing")
  /\ payout' = [payout EXCEPT ![on[r]] = "processing"]
  /\ Goto(r, "transfer")
  /\ UNCHANGED <<status, payment, transferId, missed, recorded,
                 listing, named, desk, stripe, crossed, died>>

\* The idempotency key makes every transfer after the first a replay of it.
Transfer(r) ==
  /\ At(r, "transfer")
  /\ transferred' = transferred \cup {on[r]}
  /\ Goto(r, "savePaid")
  /\ UNCHANGED <<order, listing, named, desk, reversed, refund, late, crossed, died>>

\* Stripe refuses, or its answer is lost.
TransferThrows(r) ==
  /\ At(r, "transfer")
  /\ transferred' \in {transferred, transferred \cup {on[r]}}
  /\ Goto(r, "saveFailed")
  /\ UNCHANGED <<order, listing, named, desk, reversed, refund, late, crossed, died>>

SavePaid(r) ==
  /\ At(r, "savePaid")
  /\ payout' = [payout EXCEPT ![on[r]] = "paid"]
  /\ transferId' = [transferId EXCEPT ![on[r]] = TRUE]
  /\ Return(r)
  /\ UNCHANGED <<status, payment, missed, recorded,
                 listing, named, desk, stripe, crossed, died>>

\* A save that rejects is caught like a transfer that does.
SavePaidThrows(r) ==
  /\ At(r, "savePaid")
  /\ at' = [at EXCEPT ![r] = "saveFailed"]
  /\ knows' = [knows EXCEPT ![r] = TRUE]
  /\ UNCHANGED <<on, to, why, owes, count, issue,
                 order, listing, named, desk, stripe, crossed, died>>

SaveFailed(r) ==
  LET o == on[r] IN
  /\ At(r, "saveFailed")
  /\ payout' = [payout EXCEPT ![o] = "failed"]
  /\ transferId' = [transferId EXCEPT ![o] = @ \/ knows[r]]
  /\ Return(r)
  /\ UNCHANGED <<status, payment, missed, recorded,
                 listing, named, desk, stripe, crossed, died>>

-----------------------------------------------------------------------------
(* reportMissedCollection, and createIssue of a seller who was unavailable *)

\* Mutant: a missed collection is accepted in any status.
StartMissedAnytime(r, o) ==
  /\ Enter(r, o)
  /\ missed[o] < MaxMissed
  /\ Decide(r, o, "missedSave", "cancelled", "seller_unavailable")
  /\ count' = [count EXCEPT ![r] = missed[o]]

StartMissed(r, o) ==
  /\ Enter(r, o)
  /\ status[o] = "collection_pending"
  /\ missed[o] < MaxMissed
  /\ Decide(r, o, "missedSave", "cancelled", "seller_unavailable")
  /\ count' = [count EXCEPT ![r] = missed[o]]

\* The attempts are saved as one more than what was read; at the threshold the
\* handler goes on to refund and cancel the order.
SaveMissed(r) ==
  /\ At(r, "missedSave")
  /\ missed' = [missed EXCEPT ![on[r]] = count[r] + 1]
  /\ IF count[r] + 1 < Threshold THEN Return(r)
     ELSE Goto(r, IF knows[r] THEN "reverse" ELSE AfterReverse(r))
  /\ UNCHANGED <<status, payment, payout, transferId, recorded,
                 listing, named, desk, stripe, crossed, died>>

\* Mutant: the listing stays with the buyer.
RelistMissedNot(r) ==
  /\ At(r, "missedRelist")
  /\ Return(r)
  /\ UNCHANGED <<order, listing, named, desk, stripe, crossed, died>>

RelistMissed(r) ==
  /\ At(r, "missedRelist")
  /\ SetListing(on[r], "available")
  /\ Return(r)
  /\ UNCHANGED <<order, desk, stripe, crossed, died>>

-----------------------------------------------------------------------------
(* createIssue and resolveIssue *)

\* No open issue: the test and the creation are separate calls.  The outcome is
\* None for an issue of type others, which leaves the order alone.
StartIssue(r, o, outcome) ==
  /\ Enter(r, o)
  /\ open[o] = {}
  /\ at' = [at EXCEPT ![r] = "issueRead"]
  /\ why' = [why EXCEPT ![r] = outcome]
  /\ issue' = [issue EXCEPT ![r] = "new"]
  /\ UNCHANGED <<to, owes, knows, count>>

\* The listing is found, the order through the buyer it names, and the order is
\* refunded as an update would; the request fails where one of them is missing.
ReadForIssue(r) ==
  LET o == on[r]  outcome == why[r] IN
  /\ At(r, "issueRead")
  /\ IF listing[o] = "deleted" THEN Return(r)
     ELSE IF outcome = None THEN Goto(r, "issueCreate")
     ELSE IF o \in named /\ MayMove(o, "refunded", outcome)
     THEN Decide(r, o, FirstStep(o, "refunded"), "refunded", outcome)
          /\ UNCHANGED <<on, count>>
     ELSE Return(r)
  /\ UNCHANGED <<order, listing, named, desk, stripe, crossed, died>>

CreateIssue(r) ==
  LET o == on[r] IN
  /\ At(r, "issueCreate")
  /\ \E i \in NewIssues : open' = [open EXCEPT ![o] = @ \cup {i}]
  /\ Return(r)
  /\ UNCHANGED <<order, listing, named, offences, relisted, stripe, crossed, died>>

StartResolve(r, o, i, step) ==
  /\ Enter(r, o)
  /\ i \in open[o]
  /\ listing[o] # "deleted"
  /\ step \in {"resolveListing", "resolveDelete"}
  /\ at' = [at EXCEPT ![r] = step]
  /\ issue' = [issue EXCEPT ![r] = i]
  /\ UNCHANGED <<to, why, owes, knows, count>>

\* make_available
ResolveListing(r) ==
  LET o == on[r] IN
  /\ At(r, "resolveListing")
  /\ SetListing(o, "available")
  /\ relisted' = IF status[o] \in Dead THEN relisted ELSE relisted \cup {o}
  /\ Goto(r, "resolveSave")
  /\ UNCHANGED <<order, open, offences, stripe, crossed, died>>

\* delete
ResolveDelete(r) ==
  /\ At(r, "resolveDelete")
  /\ listing' = [listing EXCEPT ![on[r]] = "deleted"]
  /\ Goto(r, "resolveSave")
  /\ UNCHANGED <<order, named, desk, stripe, crossed, died>>

CloseIssue(r) ==
  /\ At(r, "resolveSave")
  /\ open' = [open EXCEPT ![on[r]] = @ \ {issue[r]}]
  /\ Return(r)
  /\ UNCHANGED <<order, listing, named, offences, relisted, stripe, crossed, died>>

-----------------------------------------------------------------------------
(* handlePaymentSucceeded, delivered again: the payment cannot be claimed a *)
(* second time, and a dead order's payment is taken for one that came late. *)

StartLate(r, o) ==
  /\ Enter(r, o)
  /\ status[o] \in Dead
  /\ at' = [at EXCEPT ![r] = "lateRefund"]
  /\ UNCHANGED <<to, why, owes, knows, count, issue>>

\* What is left of the payment is returned.
LateRefundable(o) == o \in late \/ refund[o] \in {"none", "payout"}

RefundLate(r) ==
  /\ At(r, "lateRefund")
  /\ LateRefundable(on[r])
  /\ late' = late \cup {on[r]}
  /\ Goto(r, "lateMark")
  /\ UNCHANGED <<order, listing, named, desk, transferred, reversed, refund, crossed, died>>

MarkLate(r) ==
  LET o == on[r] IN
  /\ At(r, "lateMark")
  /\ IF status[o] \in Dead
     THEN status' = [status EXCEPT ![o] = "refunded"] /\ payment' = [payment EXCEPT ![o] = "refunded"]
     ELSE UNCHANGED <<status, payment>>
  /\ Return(r)
  /\ UNCHANGED <<payout, transferId, missed, recorded,
                 listing, named, desk, stripe, crossed, died>>

-----------------------------------------------------------------------------
\* createRefund throws, and the handler with it.
RefundThrows(r) ==
  /\ \/ At(r, "refund") /\ ~Refundable(on[r], Amount(r))
     \/ At(r, "lateRefund") /\ ~LateRefundable(on[r])
  /\ Return(r)
  /\ UNCHANGED <<order, listing, named, desk, stripe, crossed, died>>

\* A call rejects or the process stops: what is not written is lost.
Abort(r) ==
  LET o == on[r] IN
  /\ ~At(r, "idle")
  /\ died[o] < MaxFaults
  /\ died' = [died EXCEPT ![o] = @ + 1]
  /\ Return(r)
  /\ UNCHANGED <<order, listing, named, desk, stripe, crossed>>

Start(r, o) ==
  \/ \E target \in OrderStatuses, outcome \in Outcomes \cup {None} :
       StartUpdate(r, o, target, outcome)
  \/ StartPayout(r, o) \/ StartMissed(r, o) \/ StartLate(r, o)
  \/ \E outcome \in AtVerification \cup AtDelivery \cup {None} : StartIssue(r, o, outcome)
  \/ \E i \in IssueIds, step \in {"resolveListing", "resolveDelete"} :
       StartResolve(r, o, i, step)

Continue(r) ==
  \/ ReverseTransfer(r) \/ RefundBuyer(r) \/ UpdateListing(r) \/ Save(r)
  \/ OpenPolicyIssue(r) \/ CountOffence(r)
  \/ MarkProcessing(r) \/ Transfer(r) \/ TransferThrows(r)
  \/ SavePaid(r) \/ SavePaidThrows(r) \/ SaveFailed(r)
  \/ SaveMissed(r) \/ RelistMissed(r)
  \/ ReadForIssue(r) \/ CreateIssue(r)
  \/ ResolveListing(r) \/ ResolveDelete(r) \/ CloseIssue(r)
  \/ RefundLate(r) \/ MarkLate(r)
  \/ RefundThrows(r)

Next ==
  \E r \in Requests :
    Continue(r) \/ Abort(r) \/ \E o \in Orders : Start(r, o)

Spec == Init /\ [][Next]_vars

-----------------------------------------------------------------------------
(* Properties *)

TypeOK ==
  /\ status \in [Orders -> OrderStatuses]
  /\ payment \in [Orders -> {"paid", "refunded"}]
  /\ payout \in [Orders -> PayoutStatuses]
  /\ transferId \in [Orders -> BOOLEAN]
  /\ missed \in [Orders -> Nat]
  /\ recorded \in [Orders -> Amounts \cup {"none"}]
  /\ listing \in [Orders -> {"secured", "available", "under_review", "sold", "deleted"}]
  /\ named \subseteq Orders
  /\ open \in [Orders -> SUBSET IssueIds]
  /\ offences \in [Orders -> Nat]
  /\ transferred \subseteq Orders
  /\ reversed \subseteq Orders
  /\ refund \in [Orders -> Amounts \cup {"none"}]
  /\ late \subseteq Orders
  /\ crossed \subseteq Orders
  /\ relisted \subseteq Orders
  /\ died \in [Orders -> 0..MaxFaults]
  /\ at \in [Requests -> Steps]
  /\ on \in [Requests -> Orders \cup {None}]
  /\ to \in [Requests -> OrderStatuses \cup {None}]
  /\ why \in [Requests -> Outcomes \cup {None}]
  /\ owes \in [Requests -> BOOLEAN]
  /\ knows \in [Requests -> BOOLEAN]
  /\ count \in [Requests -> Nat]
  /\ issue \in [Requests -> IssueIds \cup {None, "new"}]

\* Orders nobody worked on twice at once and no handler died on.
Calm(o) == o \notin crossed /\ died[o] = 0

\* Whatever operations do at once and whatever fails, an item goes out for
\* delivery only when its seller was sent the payout.
PaidBeforeDelivery == \A o \in Orders : status[o] \in Delivering => o \in transferred

\* No order ends up refunded or cancelled and still counted as paid.
DeadIsNotPaid == \A o \in Orders : status[o] \in Dead => payment[o] # "paid"

\* No handler records a refund before Stripe has made one.
RefundIsReal == \A o \in Orders : payment[o] = "refunded" => refund[o] # "none" \/ o \in late

\* The buyer and the seller never both have the money: where the seller was
\* paid, the transfer is reversed before the buyer is refunded.
ReversedFirst ==
  \A o \in Orders : (refund[o] # "none" \/ o \in late) /\ o \in transferred => o \in reversed
CalmReversedFirst ==
  \A o \in Orders :
    Calm(o) /\ (refund[o] # "none" \/ o \in late) /\ o \in transferred => o \in reversed

\* Payouts, reversals and refunds implement Escrow, in whichever order requests
\* come and whichever are refused: money is sent to the seller before the buyer
\* is refunded or never, only what was sent is reversed, and a refund waits for
\* the reversal.
Kept(orders) == {o \in orders : Calm(o)}
Money == INSTANCE Escrow WITH
  sent <- Kept(transferred), recalled <- Kept(reversed),
  refunded <- Kept({o \in Orders : refund[o] # "none" \/ o \in late}),
  lost <- {o \in Orders : ~Calm(o)}
MoneyIsHeld == Money!Spec

\* The amount on the order is the amount the buyer got under the order's key.
RecordedIsReturned ==
  \A o \in Orders : o \notin crossed /\ recorded[o] # "none" => recorded[o] = refund[o]

\* A buyer who turned the item down at delivery does not get the fee back.
FeeRetained == \A o \in Orders : recorded[o] = "payout" => o \notin late

\* Only one unresolved issue may exist per listing.
OneOpenIssue == \A o \in Orders : \A i, j \in open[o] : i = j
UncrossedOneOpenIssue == \A o \in Orders \ crossed : \A i, j \in open[o] : i = j

\* One order counts at most once against its seller or its buyer, also when a
\* failed request is made again: the penalty comes after the save that ends
\* the order.
OneOffence == \A o \in Orders \ crossed : offences[o] <= 1

\* Between two requests the listing is on sale only if the order is dead, or
\* an issue was resolved that way, and an order still awaiting collection is
\* short of the missed collections that cancel it.
Quiet(o) == Calm(o) /\ \A r \in Requests : on[r] # o
QuietIsConsistent ==
  \A o \in Orders \ relisted :
    Quiet(o) => /\ listing[o] = "available" => status[o] \in Dead
                /\ status[o] \in Dead => listing[o] \notin {"secured", "sold"}
                /\ status[o] = "collection_pending" => missed[o] < Threshold

\* Updates, payouts, missed collections, issues and late events implement Lifecycle,
\* whichever handlers die and are started again: the statuses of an order follow the
\* table, payout and payment are on record as the status says, and no end is left.
phase == [o \in Orders |-> IF o \in crossed THEN None ELSE status[o]]
paidOut == {o \in Orders \ crossed : payout[o] = "paid"}
returned == {o \in Orders \ crossed : payment[o] = "refunded"}
Life == INSTANCE Lifecycle WITH status <- phase
LifeIsKept == Life!Spec

\* An end is an end: completed, refunded or cancelled orders move no more,
\* except that a late event turns cancelled into refunded.
EndIsFinal ==
  [][\A o \in Orders \ crossed' :
       /\ status[o] \in {"completed", "refunded"} => status'[o] = status[o]
       /\ status[o] = "cancelled" => status'[o] \in Dead]_vars
=============================================================================
