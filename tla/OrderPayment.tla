---------------------------- MODULE OrderPayment ----------------------------
(***************************************************************************)
(* The purchase phase of an order: from checkout to the moment operations  *)
(* collect the item, with the handlers that write the order, the product   *)
(* and the buyer's Stripe payment on behalf of the buyer, of Stripe, of    *)
(* the timer and of operations.                                            *)
(*                                                                         *)
(*   checkoutOrder           Reserve .. InsertOrder, UndoIntent, UndoHold  *)
(*   handlePaymentSucceeded  ReceiveSucceeded .. SecureProduct             *)
(*   handlePaymentFailed     ReceiveFailed .. ReleaseFailed                *)
(*   cancelOrder             StartCancel .. Relist                         *)
(*   expirePendingOrders     Expire, CancelIntent, Release                 *)
(*   updateOrderStatus       StartAdmin .. AdminSave                       *)
(*                                                                         *)
(* The server is one Node process, so a handler runs alone between two     *)
(* awaits and anything may happen at an await: each action below is the    *)
(* code from one await to the next, and at[r], on[r], saw[r] and to[r] are *)
(* the local state of the handler in slot r.  Database operations are      *)
(* atomic per document.  A Mongoose save() writes back only the paths the  *)
(* handler modified, whatever the document says by then.                   *)
(***************************************************************************)
EXTENDS Naturals

CONSTANTS
  Orders,       \* checkout attempts (order numbers)
  Products,     \* listings
  Buyers,       \* users other than the sellers of Products
  Requests,     \* slots for handlers in flight: requests, webhooks, sweeps
  AdminTargets, \* the statuses operations set in this phase
  Env,          \* what the environment may do, see EnvAssumption
  MaxFaults,    \* bound on handlers that die half way, see Abort
  None          \* an unset field

Circumstances ==
  { "decline",  \* a payment attempt is declined and the buyer may try again
    "mismatch", \* a captured payment differs from the order (amount, currency)
    "overlap",  \* two of cancel, expiry and operations work on one order at once
    "edit" }    \* the seller or an admin sets the status of a listing by hand

ASSUME EnvAssumption    == Env \subseteq Circumstances
ASSUME FaultAssumption  == MaxFaults \in Nat
ASSUME NoneAssumption   == None \notin Orders \cup Buyers \cup Products
ASSUME TargetAssumption ==
  AdminTargets \subseteq {"secured", "collection_pending", "collected", "cancelled"}

VARIABLES
  product,  \* the listing documents: status, buyer and reservation
  status,   \* the order documents: status,
  payment,  \*   payment.status,
  buyer,    \*   buyer
  item,     \*   and product
  intent,   \* Stripe: the PaymentIntent of each order
  refund,   \* Stripe: the idempotency key the payment was refunded under
  sent,     \* webhook events Stripe ever emitted; any of them may come again
  owed,     \* events Stripe has not had a 2xx for, so keeps delivering
  forced,   \* orders whose history has a SECURED entry made by an admin
  faults,   \* handlers that died half way so far
  at,       \* the handler in each slot: the step it takes next,
  on,       \*   the order it works on,
  saw,      \*   payment.status as it read it
  to        \*   and the status an admin asked it for

order == <<status, payment, buyer, item>>
stripe == <<intent, refund, sent>>
job == <<at, on, saw, to>>
vars == <<product, order, stripe, owed, forced, faults, job>>

-----------------------------------------------------------------------------
(* States.  "unused" and "draft" are order numbers not yet given out, and  *)
(* given out by a checkout that has not inserted the order document.       *)

Open == {"pending_payment", "secured", "collection_pending", "collected"}
Dead == {"cancelled", "refunded"}
OrderStatuses   == {"unused", "draft"} \cup Open \cup Dead
PaymentStatuses == {"pending", "paid", "failed", "refunded"}
ListingStatuses == {"available", "secured", "sold"}
EventTypes      == {"succeeded", "failed", "mismatched"}

Steps ==
  {"idle"} \cup
  {"intent", "insert", "undoIntent", "undoHold"} \cup              \* checkout
  {"claim", "stale", "refundLate", "markLate", "secure"} \cup      \* succeeded
  {"refundInvalid", "markInvalid", "releaseInvalid"} \cup          \* mismatched
  {"saveFailed", "releaseFailed"} \cup                             \* failed
  {"cancelClaim", "cancelRefund", "cancelSave", "relist"} \cup     \* cancel
  {"cancelIntent", "release"} \cup                                 \* and expiry
  {"adminRefund", "adminRelist", "adminSave"}                      \* operations

Listings == [status : ListingStatuses, buyer : Buyers \cup {None},
             hold : Orders \cup {None}]
Available == [status |-> "available", buyer |-> None, hold |-> None]

Init ==
  /\ product = [p \in Products |-> Available]
  /\ status = [o \in Orders |-> "unused"]
  /\ payment = [o \in Orders |-> "pending"]
  /\ buyer = [o \in Orders |-> None]
  /\ item = [o \in Orders |-> None]
  /\ intent = [o \in Orders |-> "none"]
  /\ refund = [o \in Orders |-> "none"]
  /\ sent = {}
  /\ owed = {}
  /\ forced = {}
  /\ faults = 0
  /\ at = [r \in Requests |-> "idle"]
  /\ on = [r \in Requests |-> None]
  /\ saw = [r \in Requests |-> None]
  /\ to = [r \in Requests |-> None]

-----------------------------------------------------------------------------
(* Control of a handler *)

At(r, step) == at[r] = step
Goto(r, step) == at' = [at EXCEPT ![r] = step] /\ UNCHANGED <<on, saw, to>>
Return(r) ==
  /\ at' = [at EXCEPT ![r] = "idle"]
  /\ on' = [on EXCEPT ![r] = None]
  /\ saw' = [saw EXCEPT ![r] = None]
  /\ to' = [to EXCEPT ![r] = None]
Begin(r, o, step, seen, target) ==
  /\ At(r, "idle")
  /\ at' = [at EXCEPT ![r] = step]
  /\ on' = [on EXCEPT ![r] = o]
  /\ saw' = [saw EXCEPT ![r] = seen]
  /\ to' = [to EXCEPT ![r] = target]

\* The webhook answers 200: Stripe has no more reason to deliver the event.
Ack(r, type) == Return(r) /\ owed' = owed \ {<<type, on[r]>>}

SetOrder(o, newStatus, newPayment) ==
  /\ status' = [status EXCEPT ![o] = newStatus]
  /\ payment' = [payment EXCEPT ![o] = newPayment]
  /\ UNCHANGED <<buyer, item>>
SetProduct(o, value) ==
  product' = [product EXCEPT ![item[o]] = value]

\* The listing names the buyer of o (not necessarily the order o).
NamesBuyer(o) == product[item[o]].buyer = buyer[o]

\* Stripe refunds a captured payment once; the same key again is a replay.
Refundable(o, key) == intent[o] = "captured" /\ refund[o] \in {"none", key}

\* Handlers that move an order on without having a claim on it.
Movers == {"cancelClaim", "cancelRefund", "cancelSave", "relist", "cancelIntent",
           "release", "adminRefund", "adminRelist", "adminSave"}
Free(o) == "overlap" \in Env \/ \A r \in Requests : on[r] = o => at[r] \notin Movers

-----------------------------------------------------------------------------
(* checkoutOrder *)

\* Mutant: the update does not repeat the availability test.
ReserveAny(r, o, b, p) ==
  /\ status[o] = "unused"
  /\ Begin(r, o, "intent", None, None)
  /\ product' = [product EXCEPT ![p] = [status |-> "secured", buyer |-> b, hold |-> o]]
  /\ status' = [status EXCEPT ![o] = "draft"]
  /\ buyer' = [buyer EXCEPT ![o] = b]
  /\ item' = [item EXCEPT ![o] = p]
  /\ UNCHANGED <<payment, stripe, owed, forced, faults>>

\* The availability test and the conditional update, which repeats the test.
Reserve(r, o, b, p) ==
  /\ status[o] = "unused"
  /\ product[p].status = "available"
  /\ Begin(r, o, "intent", None, None)
  /\ product' = [product EXCEPT ![p] = [status |-> "secured", buyer |-> b, hold |-> o]]
  /\ status' = [status EXCEPT ![o] = "draft"]
  /\ buyer' = [buyer EXCEPT ![o] = b]
  /\ item' = [item EXCEPT ![o] = p]
  /\ UNCHANGED <<payment, stripe, owed, forced, faults>>

CreateIntent(r) ==
  /\ At(r, "intent")
  /\ intent' = [intent EXCEPT ![on[r]] = "open"]
  /\ Goto(r, "insert")
  /\ UNCHANGED <<product, order, refund, sent, owed, forced, faults>>

\* Creating the intent throws; it may exist at Stripe all the same.
CreateIntentThrows(r) ==
  /\ At(r, "intent")
  /\ \E left \in {"none", "open"} : intent' = [intent EXCEPT ![on[r]] = left]
  /\ Goto(r, "undoHold")
  /\ UNCHANGED <<product, order, refund, sent, owed, forced, faults>>

\* The order exists, and the buyer gets the client secret to pay with.
InsertOrder(r) ==
  /\ At(r, "insert")
  /\ SetOrder(on[r], "pending_payment", "pending")
  /\ Return(r)
  /\ UNCHANGED <<product, stripe, owed, forced, faults>>

InsertOrderThrows(r) ==
  /\ At(r, "insert")
  /\ Goto(r, "undoIntent")
  /\ UNCHANGED <<product, order, stripe, owed, forced, faults>>

\* Cancelling an intent fails once it is captured, or for Stripe's own
\* reasons; every caller ignores the failure.
CancelAtStripe(o) ==
  \/ intent' = [intent EXCEPT ![o] = IF @ = "open" THEN "cancelled" ELSE @]
  \/ UNCHANGED intent

UndoIntent(r) ==
  /\ At(r, "undoIntent")
  /\ CancelAtStripe(on[r])
  /\ Goto(r, "undoHold")
  /\ UNCHANGED <<product, order, refund, sent, owed, forced, faults>>

\* Only the reservation this checkout made is undone.
UndoHold(r) ==
  LET o == on[r] IN
  /\ At(r, "undoHold")
  /\ IF NamesBuyer(o) /\ product[item[o]].hold = o
     THEN SetProduct(o, Available)
     ELSE UNCHANGED product
  /\ Return(r)
  /\ UNCHANGED <<order, stripe, owed, forced, faults>>

-----------------------------------------------------------------------------
(* Stripe and the buyer's payment sheet.  The buyer can pay from the       *)
(* moment the order exists, and as long as the intent is open.             *)

Emit(type, o) ==
  /\ sent' = sent \cup {<<type, o>>}
  /\ owed' = owed \cup {<<type, o>>}

Payable(o) == status[o] \notin {"unused", "draft"} /\ intent[o] = "open"

Pay(o) ==
  /\ Payable(o)
  /\ intent' = [intent EXCEPT ![o] = "captured"]
  /\ \E type \in {"succeeded"} \cup (IF "mismatch" \in Env THEN {"mismatched"} ELSE {}) :
       Emit(type, o)
  /\ UNCHANGED <<product, order, refund, forced, faults, job>>

\* A declined attempt leaves the intent open for another one.
Decline(o) ==
  /\ "decline" \in Env
  /\ Payable(o)
  /\ Emit("failed", o)
  /\ UNCHANGED <<product, order, intent, refund, forced, faults, job>>

StripeRefunds(r, key) ==
  /\ Refundable(on[r], key)
  /\ refund' = [refund EXCEPT ![on[r]] = key]

\* createRefund throws: the handler rejects, and the webhook is not acknowledged.
RefundThrows(r) ==
  LET key == [refundLate |-> "late", refundInvalid |-> "invalid",
              cancelRefund |-> "order", adminRefund |-> "order"] IN
  /\ at[r] \in DOMAIN key
  /\ ~Refundable(on[r], key[at[r]])
  /\ Return(r)
  /\ UNCHANGED <<product, order, stripe, owed, forced, faults>>

-----------------------------------------------------------------------------
(* handlePaymentSucceeded *)

ReceiveSucceeded(r, o) ==
  /\ <<"succeeded", o>> \in sent
  /\ Begin(r, o, "claim", None, None)
  /\ UNCHANGED <<product, order, stripe, owed, forced, faults>>

\* Mutant: the claim tests the payment only, not the order.
ClaimPaymentOfAnyOrder(r) ==
  LET o == on[r] IN
  /\ At(r, "claim")
  /\ IF payment[o] = "pending"
     THEN SetOrder(o, "secured", "paid") /\ Goto(r, "secure")
     ELSE UNCHANGED order /\ Goto(r, "stale")
  /\ UNCHANGED <<product, stripe, owed, forced, faults>>

\* Mutant: a payment that cannot be claimed is acknowledged at once.
ClaimPaymentOrReturn(r) ==
  LET o == on[r] IN
  /\ At(r, "claim")
  /\ IF status[o] = "pending_payment" /\ payment[o] = "pending"
     THEN SetOrder(o, "secured", "paid") /\ Goto(r, "secure") /\ UNCHANGED owed
     ELSE UNCHANGED order /\ Ack(r, "succeeded")
  /\ UNCHANGED <<product, stripe, forced, faults>>

\* Compare-and-set: only a pending payment of a pending order becomes paid.
ClaimPayment(r) ==
  LET o == on[r] IN
  /\ At(r, "claim")
  /\ IF status[o] = "pending_payment" /\ payment[o] = "pending"
     THEN SetOrder(o, "secured", "paid") /\ Goto(r, "secure")
     ELSE UNCHANGED order /\ Goto(r, "stale")
  /\ UNCHANGED <<product, stripe, owed, forced, faults>>

\* Mutant: only refunded orders are looked for, not cancelled ones.
FindStaleRefunded(r) ==
  /\ At(r, "stale")
  /\ IF status[on[r]] = "refunded"
     THEN Goto(r, "refundLate") /\ UNCHANGED owed
     ELSE Ack(r, "succeeded")
  /\ UNCHANGED <<product, order, stripe, forced, faults>>

\* Too late to be claimed: money for a dead order goes back, else nothing is done.
FindStale(r) ==
  /\ At(r, "stale")
  /\ IF status[on[r]] \in Dead
     THEN Goto(r, "refundLate") /\ UNCHANGED owed
     ELSE Ack(r, "succeeded")
  /\ UNCHANGED <<product, order, stripe, forced, faults>>

\* Mutant: the refund is recorded and never made.
RefundLateNever(r) ==
  /\ At(r, "refundLate")
  /\ Goto(r, "markLate")
  /\ UNCHANGED <<product, order, stripe, owed, forced, faults>>

RefundLate(r) ==
  /\ At(r, "refundLate")
  /\ StripeRefunds(r, "late")
  /\ Goto(r, "markLate")
  /\ UNCHANGED <<product, order, intent, sent, owed, forced, faults>>

MarkLate(r) ==
  LET o == on[r] IN
  /\ At(r, "markLate")
  /\ IF status[o] \in Dead
     THEN SetOrder(o, "refunded", "refunded")
     ELSE UNCHANGED order
  /\ Ack(r, "succeeded")
  /\ UNCHANGED <<product, stripe, forced, faults>>

\* The listing is given to the buyer whoever it names by now.
SecureProduct(r) ==
  LET o == on[r] IN
  /\ At(r, "secure")
  /\ SetProduct(o, [status |-> "secured", buyer |-> buyer[o], hold |-> None])
  /\ Ack(r, "succeeded")
  /\ UNCHANGED <<order, stripe, forced, faults>>

ReceiveMismatched(r, o) ==
  /\ <<"mismatched", o>> \in sent
  /\ Begin(r, o, "refundInvalid", None, None)
  /\ UNCHANGED <<product, order, stripe, owed, forced, faults>>

RefundInvalid(r) ==
  /\ At(r, "refundInvalid")
  /\ StripeRefunds(r, "invalid")
  /\ Goto(r, "markInvalid")
  /\ UNCHANGED <<product, order, intent, sent, owed, forced, faults>>

MarkInvalid(r) ==
  /\ At(r, "markInvalid")
  /\ SetOrder(on[r], "refunded", "refunded")
  /\ Goto(r, "releaseInvalid")
  /\ UNCHANGED <<product, stripe, owed, forced, faults>>

\* Frees the listing while it names the order's buyer.
FreeFromBuyer(o) ==
  IF NamesBuyer(o) THEN SetProduct(o, Available) ELSE UNCHANGED product

ReleaseInvalid(r) ==
  /\ At(r, "releaseInvalid")
  /\ FreeFromBuyer(on[r])
  /\ Ack(r, "mismatched")
  /\ UNCHANGED <<order, stripe, forced, faults>>

-----------------------------------------------------------------------------
(* handlePaymentFailed *)

ReceiveFailed(r, o) ==
  /\ <<"failed", o>> \in sent
  /\ At(r, "idle")
  /\ IF payment[o] = "paid"
     THEN owed' = owed \ {<<"failed", o>>} /\ UNCHANGED job
     ELSE Begin(r, o, "saveFailed", payment[o], None) /\ UNCHANGED owed
  /\ UNCHANGED <<product, order, stripe, forced, faults>>

\* save() of the one path: no test of what happened since the read.
SaveFailed(r) ==
  LET o == on[r] IN
  /\ At(r, "saveFailed")
  /\ IF saw[r] = "failed"
     THEN UNCHANGED order
     ELSE SetOrder(o, status[o], "failed")
  /\ Goto(r, "releaseFailed")
  /\ UNCHANGED <<product, stripe, owed, forced, faults>>

ReleaseFailed(r) ==
  LET o == on[r] IN
  /\ At(r, "releaseFailed")
  /\ IF product[item[o]].status = "secured"
     THEN FreeFromBuyer(o)
     ELSE UNCHANGED product
  /\ Ack(r, "failed")
  /\ UNCHANGED <<order, stripe, forced, faults>>

-----------------------------------------------------------------------------
(* cancelOrder and expirePendingOrders *)

\* The buyer's request reads the order and picks its path on what it read.
StartCancel(r, o) ==
  /\ status[o] \in {"pending_payment", "secured"}
  /\ Free(o)
  /\ LET step == IF status[o] = "pending_payment" THEN "cancelClaim"
                 ELSE IF payment[o] = "paid" THEN "cancelRefund" ELSE "cancelSave" IN
     Begin(r, o, step, payment[o], None)
  /\ UNCHANGED <<product, order, stripe, owed, forced, faults>>

\* Compare-and-set on both states; a conflict ends the request.
CancelClaim(r) ==
  LET o == on[r] IN
  /\ At(r, "cancelClaim")
  /\ IF status[o] = "pending_payment" /\ payment[o] = "pending"
     THEN SetOrder(o, "cancelled", "pending") /\ Goto(r, "cancelIntent")
     ELSE UNCHANGED order /\ Return(r)
  /\ UNCHANGED <<product, stripe, owed, forced, faults>>

CancelRefund(r) ==
  /\ At(r, "cancelRefund")
  /\ StripeRefunds(r, "order")
  /\ Goto(r, "cancelSave")
  /\ UNCHANGED <<product, order, intent, sent, owed, forced, faults>>

\* Mutant: the refund is made and not recorded.
AfterRefundUnrecorded(o, seen) == payment[o]

\* What a handler that read `seen` writes to payment.status: it has refunded
\* what it saw paid, and leaves any other payment as it is.
AfterRefund(o, seen) == IF seen = "paid" THEN "refunded" ELSE payment[o]

CancelSave(r) ==
  LET o == on[r] IN
  /\ At(r, "cancelSave")
  /\ SetOrder(o, "cancelled", AfterRefund(o, saw[r]))
  /\ Goto(r, "relist")
  /\ UNCHANGED <<product, stripe, owed, forced, faults>>

\* Unconditional: the listing goes on sale whoever it names.
Relist(r) ==
  /\ At(r, "relist")
  /\ SetProduct(on[r], Available)
  /\ Return(r)
  /\ UNCHANGED <<order, stripe, owed, forced, faults>>

\* One candidate of a sweep, any time after its fifteen minutes.
Expire(r, o) ==
  /\ status[o] = "pending_payment"
  /\ Free(o)
  /\ Begin(r, o, "cancelIntent", None, None)
  /\ SetOrder(o, "cancelled", payment[o])
  /\ UNCHANGED <<product, stripe, owed, forced, faults>>

\* Mutant: the listing is left as it is.
CancelIntentOnly(r) ==
  /\ At(r, "cancelIntent")
  /\ CancelAtStripe(on[r])
  /\ Return(r)
  /\ UNCHANGED <<product, order, refund, sent, owed, forced, faults>>

\* The same two calls end a cancellation before payment and an expiry.
CancelIntent(r) ==
  /\ At(r, "cancelIntent")
  /\ CancelAtStripe(on[r])
  /\ Goto(r, "release")
  /\ UNCHANGED <<product, order, refund, sent, owed, forced, faults>>

Release(r) ==
  /\ At(r, "release")
  /\ FreeFromBuyer(on[r])
  /\ Return(r)
  /\ UNCHANGED <<order, stripe, owed, forced, faults>>

-----------------------------------------------------------------------------
(* updateOrderStatus, as far as the item's collection *)

Transitions == [s \in OrderStatuses |->
  CASE s = "pending_payment"    -> {"secured"}
    [] s = "secured"            -> {"collection_pending", "collected", "cancelled"}
    [] s = "collection_pending" -> {"collected", "cancelled"}
    [] OTHER                    -> {}]

\* The order is read, and the transition checked against what was read.
StartAdmin(r, o, target) ==
  /\ target \in Transitions[status[o]]
  /\ Free(o)
  /\ LET step == IF target # "cancelled" THEN "adminSave"
                 ELSE IF payment[o] = "paid" THEN "adminRefund" ELSE "adminRelist" IN
     Begin(r, o, step, payment[o], target)
  /\ UNCHANGED <<product, order, stripe, owed, forced, faults>>

AdminRefund(r) ==
  /\ At(r, "adminRefund")
  /\ StripeRefunds(r, "order")
  /\ Goto(r, "adminRelist")
  /\ UNCHANGED <<product, order, intent, sent, owed, forced, faults>>

AdminRelist(r) ==
  /\ At(r, "adminRelist")
  /\ SetProduct(on[r], Available)
  /\ Goto(r, "adminSave")
  /\ UNCHANGED <<order, stripe, owed, forced, faults>>

AdminSave(r) ==
  LET o == on[r]  target == to[r] IN
  /\ At(r, "adminSave")
  /\ SetOrder(o, target, IF target = "cancelled" THEN AfterRefund(o, saw[r])
                                                 ELSE payment[o])
  /\ forced' = IF target = "secured" THEN forced \cup {o} ELSE forced
  /\ Return(r)
  /\ UNCHANGED <<product, stripe, owed, faults>>

-----------------------------------------------------------------------------
(* updateProductToDB, as far as it changes the status of a listing.  The   *)
(* status is written alone: buyer and reservation stay.                    *)

EditListing(p, s) ==
  /\ "edit" \in Env
  /\ product' = [product EXCEPT ![p].status = s]
  /\ UNCHANGED <<order, stripe, owed, forced, faults, job>>

-----------------------------------------------------------------------------
\* A database call rejects, Stripe is out of reach, or the process stops:
\* the handler is gone and what it has not written is lost.
Abort(r) ==
  /\ ~At(r, "idle")
  /\ faults < MaxFaults
  /\ faults' = faults + 1
  /\ Return(r)
  /\ UNCHANGED <<product, order, stripe, owed, forced>>

Checkout(r) ==
  \/ CreateIntent(r) \/ CreateIntentThrows(r)
  \/ InsertOrder(r) \/ InsertOrderThrows(r)
  \/ UndoIntent(r) \/ UndoHold(r)

Receive(r, o) == ReceiveSucceeded(r, o) \/ ReceiveMismatched(r, o) \/ ReceiveFailed(r, o)

Webhook(r) ==
  \/ ClaimPayment(r) \/ FindStale(r) \/ RefundLate(r) \/ MarkLate(r) \/ SecureProduct(r)
  \/ RefundInvalid(r) \/ MarkInvalid(r) \/ ReleaseInvalid(r)
  \/ SaveFailed(r) \/ ReleaseFailed(r)
  \/ RefundThrows(r)

Ending(r) ==
  \/ CancelClaim(r) \/ CancelRefund(r) \/ CancelSave(r) \/ Relist(r)
  \/ CancelIntent(r) \/ Release(r)
  \/ AdminRefund(r) \/ AdminRelist(r) \/ AdminSave(r)

Next ==
  \/ \E o \in Orders : Pay(o) \/ Decline(o)
  \/ \E p \in Products, s \in ListingStatuses : EditListing(p, s)
  \/ \E r \in Requests :
       \/ Checkout(r) \/ Webhook(r) \/ Ending(r) \/ Abort(r)
       \/ \E o \in Orders :
            \/ \E b \in Buyers, p \in Products : Reserve(r, o, b, p)
            \/ Receive(r, o) \/ StartCancel(r, o) \/ Expire(r, o)
            \/ \E target \in AdminTargets : StartAdmin(r, o, target)

Spec == Init /\ [][Next]_vars

\* A handler that has started runs on, Stripe keeps delivering what it is owed
\* an answer for, and the sweep that runs every minute gets to every order.
Fairness ==
  /\ \A r \in Requests : WF_vars(Checkout(r) \/ Webhook(r) \/ Ending(r))
  /\ \A o \in Orders :
       /\ SF_vars(\E r \in Requests : <<"succeeded", o>> \in owed /\ ReceiveSucceeded(r, o))
       /\ SF_vars(\E r \in Requests : <<"mismatched", o>> \in owed /\ ReceiveMismatched(r, o))
       /\ SF_vars(\E r \in Requests : <<"failed", o>> \in owed /\ ReceiveFailed(r, o))
       /\ SF_vars(\E r \in Requests : Expire(r, o))

FairSpec == Spec /\ Fairness

-----------------------------------------------------------------------------
(* Properties *)

TypeOK ==
  /\ product \in [Products -> Listings]
  /\ status \in [Orders -> OrderStatuses]
  /\ payment \in [Orders -> PaymentStatuses]
  /\ buyer \in [Orders -> Buyers \cup {None}]
  /\ item \in [Orders -> Products \cup {None}]
  /\ intent \in [Orders -> {"none", "open", "captured", "cancelled"}]
  /\ refund \in [Orders -> {"none", "order", "late", "invalid"}]
  /\ sent \subseteq EventTypes \X Orders
  /\ owed \subseteq sent
  /\ forced \subseteq Orders
  /\ faults \in 0..MaxFaults
  /\ at \in [Requests -> Steps]
  /\ on \in [Requests -> Orders \cup {None}]
  /\ saw \in [Requests -> PaymentStatuses \cup {None}]
  /\ to \in [Requests -> OrderStatuses \cup {None}]

\* However the webhook, the buyer's cancellation, the sweep and operations
\* interleave, no order ends up cancelled or refunded and still counted as
\* paid: every path that ends an order either saw the payment pending and
\* claimed it, or saw it paid and returns it.
DeadIsNotPaid == \A o \in Orders : status[o] \in Dead => payment[o] # "paid"

\* An order whose payment reads refunded has a refund at Stripe: no handler
\* records a refund before it has one, though the refund and the record are
\* two calls and any handler may die between them.
RefundedAtStripe == \A o \in Orders : payment[o] = "refunded" => refund[o] # "none"

\* The buyer's money is never lost from sight: once captured it is recorded
\* as paid, or refunded, or Stripe still owes the server a webhook about it.
Accounted(o) ==
  intent[o] = "captured" =>
    \/ payment[o] = "paid"
    \/ refund[o] # "none"
    \/ <<"succeeded", o>> \in owed
    \/ <<"mismatched", o>> \in owed
CaptureAccounted == \A o \in Orders : Accounted(o)

\* The same for the orders nothing unusual happened to: no attempt to pay was
\* declined first, and no admin moved the order to SECURED by hand.
Usual(o) == <<"failed", o>> \notin sent /\ o \notin forced
UsualCaptureAccounted == \A o \in Orders : Usual(o) => Accounted(o)

\* An item is sold to one buyer: two orders that are not cancelled or refunded
\* are never for the same listing.
SoldOnce ==
  \A o1, o2 \in Orders :
    o1 # o2 /\ status[o1] \in Open /\ status[o2] \in Open
      => item[o1] # item[o2]

\* The listing of a live order is off sale and secured, which is how fulfilment
\* takes the two over, whatever was let go and reserved again in between.
LiveIsSecured ==
  \A o \in Orders : status[o] \in Open => product[item[o]].status = "secured"

\* How far an order got: it has its listing from the reservation until it is
\* dead and the handler that puts the listing on sale is done, or until its
\* checkout has failed.
CheckoutSteps == {"intent", "insert", "undoIntent", "undoHold"}
Ends == {"relist", "cancelIntent", "release"}
InHand(o, steps) == \E r \in Requests : on[r] = o /\ at[r] \in steps
Stage(o) ==
  IF status[o] = "unused" THEN "none"
  ELSE IF status[o] \in Open THEN IF payment[o] = "paid" THEN "paid" ELSE "placed"
  ELSE IF InHand(o, CheckoutSteps) THEN "checkout"
  ELSE IF InHand(o, Ends) THEN "ending"
  ELSE "over"
stages == [o \in Orders |-> Stage(o)]

\* Checkouts, payments, cancellations and expiries that race for a listing, and
\* of which any may die, implement Sale: the listing is with one order at a
\* time, is let go after the order has ended, and no order returns from its end.
Trade == INSTANCE Sale WITH stage <- stages
SoldInTurn == Trade!Spec

\* A cancelled or refunded order stays so: the transition table leaves no way
\* out of the two states (a cancelled order may still become refunded).
DeadStaysDead ==
  [][\A o \in Orders : status[o] \in Dead => status'[o] \in Dead]_vars

\* Money Stripe captured is in the end recorded as paid or returned, for the
\* usual orders: a payment that arrives late for a cancelled order comes back.
CaptureSettles ==
  \A o \in Orders :
    intent[o] = "captured" ~> \/ payment[o] = "paid" \/ refund[o] # "none"
                              \/ ~Usual(o)

\* A cancelled order does not keep its listing off the market: in the end the
\* listing is on sale, or another order has it.
Holds(o) ==
  /\ product[item[o]].status = "secured"
  /\ NamesBuyer(o)
  /\ \A other \in Orders \ {o} :
       item[other] = item[o] => status[other] \notin {"draft"} \cup Open
CancelledIsRelisted ==
  \A o \in Orders :
    status[o] = "cancelled" ~> (status[o] = "cancelled" => ~Holds(o))

\* An order that ends unpaid gives its listing back: while no handler died, a
\* cancellation before payment or an expiry that beats the payment does not
\* leave the listing with its buyer.
UnpaidIsRelisted ==
  \A o \in Orders :
    status[o] = "cancelled" /\ intent[o] # "captured"
      ~> (status[o] = "cancelled" => ~Holds(o)) \/ intent[o] = "captured" \/ faults > 0
=============================================================================
