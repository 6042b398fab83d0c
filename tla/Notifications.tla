----------------------------- MODULE Notifications -----------------------------
(***************************************************************************)
(* What buyers, sellers and the users who saved a listing are told as its  *)
(* orders come and go.                                                     *)
(*                                                                         *)
(* A handler of the order or issue service changes the order and listing,  *)
(* and then announces it without waiting for the announcement               *)
(* (void NotificationEvent...): the deliveries of notification.event.ts    *)
(* start together and overtake each other.  A delivery is one notification *)
(* for one recipient, made unless they have one for the event (event key). *)
(*                                                                         *)
(* The handlers are one step here up to their announcement; OrderPayment   *)
(* and OrderFulfilment take them apart.  Nothing fails here: Inbox has the *)
(* deliveries that do, and what becomes of a notification once it is made. *)
(***************************************************************************)
EXTENDS Naturals, FiniteSets, OrderStates

CONSTANTS
  Orders,      \* the orders of one listing
  Buyer,       \* who checks each of them out,
  Seller,      \* who sells and
  Watchers,    \* users who saved the listing
  Threshold,   \* missedCollectionCancellationThreshold
  Followed,    \* bound on the events whose notifications are followed, with their details
  MaxDue,      \* bound on the handlers about to announce something
  MaxSending   \* bound on the deliveries in flight

ASSUME BoundAssumption ==
  Threshold \in Nat \ {0} /\ MaxDue \in Nat \ {0} /\ MaxSending \in Nat
ASSUME NoneAssumption == None \notin Orders /\ None \notin Outcomes
ASSUME PartiesAssumption == \A o \in Orders : Buyer[o] # Seller

VARIABLES
  status, outcome, missed, \* the order documents ("none" before checkout)
  payment,   \* and what Stripe's events made of their payments (see below)
  listing,   \* the status of the listing,
  names,     \*   the order of the buyer it names
  open,      \*   and the order its open issue is about, or None
  due,       \* what handlers that changed an order are about to announce
  looking,   \* announcements to the watchers whose names are being looked up
  sending,   \* deliveries about to make their notification
  inbox,     \* the notifications: <<recipient, event key>>
  news,      \* history: what each watcher was told last about the listing
  overtaken, \* history: two announcements to the watchers were in flight at once
  irregular  \* history: the listing changed hands as no announcement says

\* A payment is "paid" once it was found right, and counts as such until its order is
\* over (REFUNDED then), "failed" once declined, "wrong" if it does not match its order.
order   == <<status, outcome, missed, payment>>
item    == <<listing, names, open>>
mail    == <<looking, sending, inbox, news>>
history == <<overtaken, irregular>>
vars    == <<order, item, due, mail, history>>

Init ==
  /\ status = [o \in Orders |-> "none"]
  /\ outcome = [o \in Orders |-> None]
  /\ missed = [o \in Orders |-> 0]
  /\ payment = [o \in Orders |-> "pending"]
  /\ listing = "available"
  /\ names = None
  /\ open = None
  /\ due = {}
  /\ looking = {}
  /\ sending = {}
  /\ inbox = {}
  /\ news = [w \in Watchers |-> "none"]
  /\ overtaken = FALSE
  /\ irregular = FALSE

-----------------------------------------------------------------------------
(* notification.event.ts: who is told, under which event key.  A key is the *)
(* subject, the event and what tells it from the subject's others.          *)

Parties(o) == {Buyer[o], Seller}
Both(key) == Parties(key[1]) \X {key}

\* notifyOrderParties
OrderParties(key) == Both(key)

PaymentSucceeded(o) == Both(<<o, "payment-succeeded", None>>)
PaymentFailed(o) == {<<Buyer[o], <<o, "payment-failed", None>>>>}
AuthenticationPassed(o) == Both(<<o, "authentication-passed", None>>)
AuthenticationFailed(o, cause) == Both(<<o, "authentication-failed", cause>>)
DeliveryRejected(o, cause) == Both(<<o, "delivery-rejected", cause>>)
CollectionMissed(o, attempt) == {<<Seller, <<o, "collection-missed", attempt>>>>}
PayoutPaid(o) == {<<Seller, <<o, "payout-paid", None>>>>}
IssueResolved(o) == OrderParties(<<o, "issue-resolved", None>>)

OrderStatusChanged(o, s) ==
  IF s = "payout_processing" THEN AuthenticationPassed(o)
  ELSE IF s = "delivered" THEN Both(<<o, "status", s>>)
  ELSE IF s = "pending_payment" THEN {}
  ELSE OrderParties(<<o, "status", s>>)

\* wishlistAvailabilityChanged: available again, or reserved by an order.
Available(o, cause) == <<o, "available", cause>>

\* Mutant: a listing's key for "unavailable" is the same for all its orders.
UnavailableAlways(o) == <<CHOOSE any \in Orders : TRUE, "unavailable", None>>
Unavailable(o) == <<o, "unavailable", None>>

\* Why a listing is available again.
Causes ==
  {"cancelled", "expired", "invalid-payment", "missed-collection-cancelled", "issue-resolved"}
ASSUME KeyAssumption ==
  \A o \in Orders : Unavailable(o) # None /\ \A cause \in Causes : Available(o, cause) # None

WatcherKeys == {"available", "unavailable", "deleted"}

-----------------------------------------------------------------------------
(* The handlers *)

\* The announcement of a handler: its deliveries, and a key for the watchers.
Announce(deliveries, key) ==
  LET told == {m \in deliveries : <<m[2][2], m[2][3]>> \in Followed} IN
  /\ Cardinality(due) < MaxDue
  /\ due' = IF told = {} /\ key = None THEN due
            ELSE due \cup {[to |-> told, wish |-> key]}
  /\ overtaken' = (overtaken \/
       (key # None /\ \/ \E d \in due : d.wish # None
                      \/ looking # {}
                      \/ \E m \in sending : m[2][2] \in WatcherKeys))
  /\ UNCHANGED mail

\* An order gives the listing back by naming its buyer: any order of theirs may have
\* it by then.
Gives(o) == names # None /\ Buyer[names] = Buyer[o] /\ listing # "deleted"
Release(o) ==
  IF Gives(o)
  THEN listing' = "available" /\ names' = None
  ELSE UNCHANGED <<listing, names>>

SetListing(value) == listing' = IF listing = "deleted" THEN listing ELSE value
Relist == SetListing("available") /\ names' = None

Checkout(o) ==
  /\ status[o] = "none" /\ listing = "available"
  /\ status' = [status EXCEPT ![o] = "pending_payment"]
  /\ listing' = "secured"
  /\ names' = o
  /\ UNCHANGED <<outcome, missed, payment, open, due, mail, history>>

\* handlePaymentSucceeded.  A payment after a declined one is not claimed.
Pay(o) ==
  /\ status[o] = "pending_payment" /\ payment[o] = "pending"
  /\ status' = [status EXCEPT ![o] = "secured"]
  /\ payment' = [payment EXCEPT ![o] = "paid"]
  /\ SetListing("secured")
  /\ names' = o
  /\ Announce(PaymentSucceeded(o), Unavailable(o))
  /\ UNCHANGED <<outcome, missed, open, irregular>>

\* A payment that does not match ends its order whatever became of it, and every
\* delivery of the event gives the listing back and announces it again.
PayWrong(o) ==
  /\ status[o] # "none" /\ payment[o] # "paid"
  /\ status' = [status EXCEPT ![o] = "refunded"]
  /\ payment' = [payment EXCEPT ![o] = "wrong"]
  /\ Release(o)
  /\ Announce(OrderStatusChanged(o, "refunded"), Available(o, "invalid-payment"))
  /\ irregular' = (irregular \/ names # o \/ status[o] # "pending_payment")
  /\ UNCHANGED <<outcome, missed, open>>

\* So does every delivery for an order that is over announce its refund again.
PayLate(o) ==
  /\ status[o] \in Dead /\ payment[o] # "wrong"
  /\ status' = [status EXCEPT ![o] = "refunded"]
  /\ payment' = [payment EXCEPT ![o] = "paid"]
  /\ Announce(OrderStatusChanged(o, "refunded"), None)
  /\ UNCHANGED <<outcome, missed, item, irregular>>

\* handlePaymentFailed tells the buyer only.  A declined attempt may be heard of again,
\* and when its order is long over: the listing it gives back then may be that of
\* another order of the buyer's.
Decline(o) ==
  /\ status[o] # "none" /\ (payment[o] = "paid" => status[o] \in Dead)
  /\ payment' = [payment EXCEPT ![o] = IF @ = "pending" THEN "failed" ELSE @]
  /\ IF listing = "secured" THEN Release(o) ELSE UNCHANGED <<listing, names>>
  /\ Announce(PaymentFailed(o), None)
  /\ irregular' = (irregular \/ (names' # names /\ names # o))
  /\ UNCHANGED <<status, outcome, missed, open>>

\* cancelOrder, before and after the payment.
Cancel(o) ==
  /\ status[o] \in {"pending_payment", "secured"}
  /\ status[o] = "pending_payment" => payment[o] = "pending"
  /\ status' = [status EXCEPT ![o] = "cancelled"]
  /\ IF status[o] = "secured" THEN Relist ELSE Release(o)
  /\ Announce(OrderStatusChanged(o, "cancelled"), Available(o, "cancelled"))
  /\ UNCHANGED <<outcome, missed, payment, open, irregular>>

\* expirePendingOrders tells the watchers that the listing is available whether
\* or not it was this order's to give back.
Expire(o) ==
  /\ status[o] = "pending_payment"
  /\ status' = [status EXCEPT ![o] = "cancelled"]
  /\ Release(o)
  /\ Announce(OrderStatusChanged(o, "cancelled"), Available(o, "expired"))
  /\ irregular' = (irregular \/ names # o)
  /\ UNCHANGED <<outcome, missed, payment, open>>

\* The announcements of updateOrderStatus.
MoveAnnounces(o, target, cause) ==
  IF cause \in AtVerification THEN AuthenticationFailed(o, cause)
  ELSE IF cause \in AtDelivery THEN DeliveryRejected(o, cause)
  ELSE OrderStatusChanged(o, target)

\* updateOrderStatus: by hand, or by createIssue for an outcome.
Move(o, target, cause) ==
  /\ status[o] \in OrderStatuses
  /\ target \in Transitions[status[o]] /\ cause \in PolicyOutcomes(status[o], target)
  /\ status' = [status EXCEPT ![o] = target]
  /\ outcome' = [outcome EXCEPT ![o] = IF cause = None THEN @ ELSE cause]
  /\ open' = IF cause # None /\ open = None THEN o ELSE open
  /\ IF cause # None THEN SetListing("under_review") /\ UNCHANGED names
     ELSE IF target = "cancelled" THEN Relist
     ELSE IF target \in {"delivered", "completed"} THEN SetListing("sold") /\ UNCHANGED names
     ELSE UNCHANGED <<listing, names>>
  /\ Announce(MoveAnnounces(o, target, cause),
              IF target = "cancelled" THEN Available(o, target) ELSE None)
  /\ irregular' = (irregular \/ target = "secured" \/ listing = "available")
  /\ UNCHANGED <<missed, payment>>

PaySeller(o) ==
  /\ status[o] = "payout_processing" /\ payment[o] = "paid"
  /\ Announce(PayoutPaid(o), None)
  /\ UNCHANGED <<order, item, irregular>>

\* reportMissedCollection: the seller is told of the attempt; of the cancellation
\* that follows the last one the watchers only.
Missed(o) ==
  LET last == missed[o] + 1 >= Threshold IN
  /\ status[o] = "collection_pending"
  /\ missed' = [missed EXCEPT ![o] = @ + 1]
  /\ IF last
     THEN /\ status' = [status EXCEPT ![o] = "cancelled"]
          /\ outcome' = [outcome EXCEPT ![o] = "seller_unavailable"]
          /\ Relist
     ELSE UNCHANGED <<status, outcome, listing, names>>
  /\ Announce(CollectionMissed(o, missed[o] + 1),
              IF last THEN Available(o, "missed-collection-cancelled") ELSE None)
  /\ UNCHANGED <<payment, open, irregular>>

\* resolveIssue, make_available.
Resolve(o) ==
  /\ open = o /\ listing # "deleted"
  /\ open' = None
  /\ Relist
  /\ Announce(IssueResolved(o), Available(o, "issue-resolved"))
  /\ UNCHANGED <<order, irregular>>

\* resolveIssue, delete: the watchers are those the listing had.
ResolveDelete(o) ==
  /\ open = o /\ listing # "deleted"
  /\ open' = None
  /\ listing' = "deleted"
  /\ Announce(IssueResolved(o) \cup Watchers \X {<<o, "deleted", None>>}, None)
  /\ UNCHANGED <<order, names, irregular>>

-----------------------------------------------------------------------------
(* Announcements and deliveries *)

Publish(a) ==
  /\ Cardinality(sending \cup a.to) <= MaxSending
  /\ due' = due \ {a}
  /\ sending' = sending \cup a.to
  /\ looking' = IF a.wish = None THEN looking ELSE looking \cup {a.wish}
  /\ UNCHANGED <<order, item, inbox, news, history>>

\* The buyer and the seller are not told of the reservation they made.
LookUp(key) ==
  LET told == IF key[2] = "unavailable" THEN Watchers \ Parties(key[1]) ELSE Watchers IN
  /\ looking' = looking \ {key}
  /\ sending' = sending \cup (IF listing = "deleted" THEN {} ELSE told \X {key})
  /\ UNCHANGED <<order, item, due, inbox, news, history>>

\* Mutant: the event key is unique, for whichever recipient.
InsertOnce(m) ==
  /\ sending' = sending \ {m}
  /\ inbox' = IF \E n \in inbox : n[2] = m[2] THEN inbox ELSE inbox \cup {m}
  /\ UNCHANGED <<order, item, due, looking, news, history>>

\* createNotification: the upsert finds the recipient's notification of the event,
\* or makes it and tells them.
Insert(m) ==
  /\ sending' = sending \ {m}
  /\ inbox' = inbox \cup {m}
  /\ news' = IF m \notin inbox /\ m[2][2] \in WatcherKeys /\ m[1] \in Watchers
             THEN [news EXCEPT ![m[1]] = m[2][2]] ELSE news
  /\ UNCHANGED <<order, item, due, looking, history>>

Payments(o) == Checkout(o) \/ Pay(o) \/ PayWrong(o) \/ PayLate(o) \/ Decline(o)
Ends(o) == Cancel(o) \/ Expire(o) \/ Missed(o) \/ Resolve(o) \/ ResolveDelete(o)
Moves(o) ==
  \/ \E target \in OrderStatuses, cause \in Outcomes \cup {None} : Move(o, target, cause)
  \/ PaySeller(o)
Deliveries ==
  \/ \E a \in due : Publish(a)
  \/ \E k \in looking : LookUp(k)
  \/ \E m \in sending : Insert(m)

Next ==
  \/ \E o \in Orders : Payments(o) \/ Ends(o) \/ Moves(o)
  \/ Deliveries

Spec == Init /\ [][Next]_vars

-----------------------------------------------------------------------------
(* Properties *)

AtRest == due = {} /\ looking = {} /\ sending = {}

\* Both parties of an order that ended were told so, once everything announced was
\* delivered: by its status or by the outcome that ended it.  A cancellation for
\* missed collections is announced to neither.
EndKeys(o) ==
  {o} \X {"status", "authentication-failed", "delivery-rejected"} \X (Dead \cup Outcomes)
EndIsTold ==
  AtRest =>
    \A o \in Orders : \A u \in Parties(o) :
      status[o] \in Dead /\ outcome[o] \notin AtCollection =>
        \E key \in EndKeys(o) : <<u, key>> \in inbox

\* What a watcher heard last about the listing is true, once everything announced
\* was delivered: it was not reserved, or is available again.  Two announcements
\* in flight at once may arrive in either order.  And a listing may change hands
\* unannounced, or be announced as it is not: when a declined payment gives back the
\* listing of another order of the buyer's, when a wrong one comes for an order that
\* no longer awaits it, when an order expires that had lost the listing, and when
\* operations secure an order or move one whose listing is on sale.
Bystanders == Watchers \ ({Buyer[o] : o \in Orders} \cup {Seller})
WatchersKnow ==
  AtRest /\ ~overtaken /\ ~irregular =>
    \A w \in Bystanders :
      news[w] \in {"unavailable", "deleted"} <=>
        listing # "available" /\ \A o \in Orders : names = o => status[o] # "pending_payment"

=============================================================================
