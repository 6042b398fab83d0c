------------------------------- MODULE OrderView -------------------------------
(***************************************************************************)
(* What GET /orders/:id shows of an order, and the schedule operations     *)
(* give it: the steps of its progress, its verification, its open issue    *)
(* and the actions it offers are computed from the order document and the  *)
(* latest issue of its listing, while handlers change both.                *)
(*                                                                         *)
(*   checkout's order, handlePaymentSucceeded, handlePaymentFailed,        *)
(*   expirePendingOrders, cancelOrder           Pay .. StartCancel         *)
(*   updateOrderStatus, reportMissedCollection, createIssue                *)
(*                                              StartMove .. CreateIssue   *)
(*   resolveIssue                               Resolve                    *)
(*   updateOrderSchedule                        StartSchedule, SaveSchedule*)
(*   getOrderById, buildOrderDetails            operators                  *)
(*                                                                         *)
(* A handler reads the order in one step and saves it in another; what it  *)
(* does at Stripe and to the listing in between is OrderFulfilment's and   *)
(* OrderPayment's subject.  An order has a listing of its own, which may   *)
(* have been bought and come back before.                                  *)
(***************************************************************************)
EXTENDS Naturals, Sequences, OrderStates

CONSTANTS
  Orders,     \* orders after checkout
  Requests,   \* slots for handlers in flight
  Requested,  \* <<end, delivery>>: what operations ask of a schedule, at least one of them
  Past,       \* types of an issue an earlier order of the listing may have left
  MaxIssues,  \* bound on the issues of a listing
  MaxPlans,   \* bound on the requests for an order's schedule
  Resumed     \* bound: orders with requests even after two of them overlapped

IssueTypes == {"verification_failed", "buyer_refused", "seller_unavailable", "others"}

ASSUME BoundAssumption == MaxIssues \in Nat /\ MaxPlans \in Nat /\ Resumed \subseteq Orders
ASSUME RequestedAssumption ==
  Requested \subseteq (Nat \cup {None}) \X (Nat \cup {None}) \ {<<None, None>>}
ASSUME PastAssumption == Past \subseteq IssueTypes
ASSUME NoneAssumption ==
  /\ None \notin Orders /\ None \notin Nat
  /\ None \notin OrderStatuses \cup Outcomes \cup IssueTypes \cup {"reserved", "verified"}

VARIABLES
  status, payment, payout, outcome, \* the order documents;
  history,   \*   the statuses in statusHistory,
  pickup,    \*   the end of pickupWindow
  delivery,  \*   and estimatedDeliveryAt
  named,     \* orders whose listing names their buyer
  gone,      \* orders whose listing was deleted
  issues,    \* the issues of the order's listing, oldest first
  plans,     \* requests for the order's schedule so far
  clashed,   \* history: orders two of whose schedule requests overlapped
  crossed,   \* history: orders changed while a handler was working on them
  masked,    \* history: orders with an issue filed while another was open
  at,        \* the handler in each slot: the step it takes next,
  on,        \*   the order it works on,
  to,        \*   the status it moves it to,
  why,       \*   the outcome it was given,
  files,     \*   the type of issue it is to create,
  ends,      \*   the pickup window's end and the delivery
  due        \*   it writes, or None

order == <<status, payment, payout, outcome, history>>
plan  == <<pickup, delivery, plans, clashed>>
desk  == <<named, gone, issues, masked>>
job   == <<at, on, to, why, files, ends, due>>
vars  == <<order, plan, desk, crossed, job>>

Steps == {"idle", "move", "missed", "policyIssue", "issue", "schedule"}

\* An issue about this order, or about an earlier one of the same listing.
Issue(type, resolved, own) == [type |-> type, resolved |-> resolved, own |-> own]
Pasts == {<<>>} \cup {<<Issue(type, TRUE, FALSE)>> : type \in Past}

Init ==
  /\ status = [o \in Orders |-> "pending_payment"]
  /\ payment = [o \in Orders |-> "pending"]
  /\ payout = [o \in Orders |-> "pending"]
  /\ outcome = [o \in Orders |-> None]
  /\ history = [o \in Orders |-> {"pending_payment"}]
  /\ pickup = [o \in Orders |-> None]
  /\ delivery = [o \in Orders |-> None]
  /\ named = Orders
  /\ gone = {}
  /\ issues \in [Orders -> Pasts]
  /\ plans = [o \in Orders |-> 0]
  /\ clashed = {}
  /\ crossed = {}
  /\ masked = {}
  /\ at = [r \in Requests |-> "idle"]
  /\ on = [r \in Requests |-> None]
  /\ to = [r \in Requests |-> None]
  /\ why = [r \in Requests |-> None]
  /\ files = [r \in Requests |-> None]
  /\ ends = [r \in Requests |-> None]
  /\ due = [r \in Requests |-> None]

-----------------------------------------------------------------------------
(* Handlers *)

At(r, step) == at[r] = step
Goto(r, step) ==
  /\ at' = [at EXCEPT ![r] = step]
  /\ UNCHANGED <<on, to, why, files, ends, due>>
Return(r) ==
  /\ at' = [at EXCEPT ![r] = "idle"]
  /\ on' = [on EXCEPT ![r] = None]
  /\ to' = [to EXCEPT ![r] = None]
  /\ why' = [why EXCEPT ![r] = None]
  /\ files' = [files EXCEPT ![r] = None]
  /\ ends' = [ends EXCEPT ![r] = None]
  /\ due' = [due EXCEPT ![r] = None]

Busy(o) == \E r \in Requests : on[r] = o
Touch(o) == crossed' = IF Busy(o) THEN crossed \cup {o} ELSE crossed

Enter(r, o, step) ==
  /\ At(r, "idle")
  /\ at' = [at EXCEPT ![r] = step]
  /\ on' = [on EXCEPT ![r] = o]
  /\ Touch(o)

SetStatus(o, value) ==
  /\ status' = [status EXCEPT ![o] = value]
  /\ history' = [history EXCEPT ![o] = @ \cup {value}]
-----------------------------------------------------------------------------
(* Changes of the order in one call: the webhook, the sweep, the buyer's   *)
(* cancellation before payment, the payout.                                *)

Pay(o) ==
  /\ status[o] = "pending_payment" /\ payment[o] = "pending"
  /\ SetStatus(o, "secured")
  /\ payment' = [payment EXCEPT ![o] = "paid"]
  /\ named' = named \cup {o}
  /\ Touch(o)
  /\ UNCHANGED <<payout, outcome, plan, gone, issues, masked, job>>

\* A payment of another amount is returned, and ends the order even if operations
\* moved it on by hand; the history does not say so.
PayWrong(o) ==
  /\ payment[o] \in {"pending", "failed"}
  /\ status' = [status EXCEPT ![o] = "refunded"]
  /\ payment' = [payment EXCEPT ![o] = "refunded"]
  /\ named' = named \ {o}
  /\ crossed' = IF Busy(o) \/ status[o] # "pending_payment" THEN crossed \cup {o} ELSE crossed
  /\ UNCHANGED <<payout, outcome, history, plan, gone, issues, masked, job>>

PayLate(o) ==
  /\ status[o] \in Dead
  /\ SetStatus(o, "refunded")
  /\ payment' = [payment EXCEPT ![o] = "refunded"]
  /\ Touch(o)
  /\ UNCHANGED <<payout, outcome, plan, desk, job>>

Decline(o) ==
  /\ payment[o] # "paid"
  /\ payment' = [payment EXCEPT ![o] = "failed"]
  /\ named' = named \ {o}
  /\ Touch(o)
  /\ UNCHANGED <<status, payout, outcome, history, plan, gone, issues, masked, job>>

Expire(o) ==
  /\ status[o] = "pending_payment"
  /\ SetStatus(o, "cancelled")
  /\ named' = named \ {o}
  /\ Touch(o)
  /\ UNCHANGED <<payment, payout, outcome, plan, gone, issues, masked, job>>

\* cancelOrder refuses a payment that is not pending any more.
MayCancelPending(o) == status[o] = "pending_payment" /\ payment[o] = "pending"
CancelPending(o) ==
  /\ MayCancelPending(o)
  /\ SetStatus(o, "cancelled")
  /\ named' = named \ {o}
  /\ Touch(o)
  /\ UNCHANGED <<payment, payout, outcome, plan, gone, issues, masked, job>>

PaySeller(o) ==
  /\ status[o] = "payout_processing"
  /\ payout' = [payout EXCEPT ![o] = "paid"]
  /\ Touch(o)
  /\ UNCHANGED <<status, payment, outcome, history, plan, desk, job>>

-----------------------------------------------------------------------------
(* updateOrderStatus, cancelOrder, reportMissedCollection, createIssue *)

MayMove(o, target, cause) ==
  /\ target \in Transitions[status[o]]
  /\ cause \in PolicyOutcomes(status[o], target)
  /\ target = "ready_for_delivery" => payout[o] = "paid"

Begin(r, o, step, target, cause, type) ==
  /\ Enter(r, o, step)
  /\ to' = [to EXCEPT ![r] = target]
  /\ why' = [why EXCEPT ![r] = cause]
  /\ files' = [files EXCEPT ![r] = type]
  /\ UNCHANGED <<order, plan, desk, ends, due>>

StartMove(r, o, target, cause) ==
  /\ MayMove(o, target, cause)
  /\ Begin(r, o, "move", target, cause, None)

MayCancelPaid(o) == status[o] = "secured"
StartCancel(r, o) ==
  /\ MayCancelPaid(o)
  /\ Begin(r, o, "move", "cancelled", None, None)

MayMiss(o) == status[o] = "collection_pending"
StartMissed(r, o) ==
  /\ MayMiss(o)
  /\ Begin(r, o, "missed", "cancelled", "seller_unavailable", None)

Unresolved(o) == {i \in DOMAIN issues[o] : ~issues[o][i].resolved}

\* createIssue of each type; the order is found through the buyer the listing names.
StartRefusal(r, o, type, cause) ==
  /\ type = IF cause \in AtVerification THEN "verification_failed" ELSE "buyer_refused"
  /\ Unresolved(o) = {} /\ o \in named \ gone
  /\ MayMove(o, "refunded", cause)
  /\ Begin(r, o, "move", "refunded", cause, type)

StartUnavailable(r, o) ==
  /\ o \in named \ gone /\ MayMiss(o)
  /\ Begin(r, o, "missed", "cancelled", "seller_unavailable", "seller_unavailable")

MayReport(o) == Unresolved(o) = {} /\ o \notin gone
StartOthers(r, o) ==
  /\ MayReport(o)
  /\ Begin(r, o, "issue", None, None, "others")

SaveMove(r) ==
  LET o == on[r]  cause == why[r] IN
  /\ At(r, "move")
  /\ SetStatus(o, to[r])
  /\ payment' = [payment EXCEPT ![o] = IF to[r] \in Dead /\ @ = "paid" THEN "refunded" ELSE @]
  /\ outcome' = [outcome EXCEPT ![o] = IF cause = None THEN @ ELSE cause]
  /\ named' = IF to[r] = "cancelled" THEN named \ {o} ELSE named
  /\ IF cause = None THEN Return(r)
     ELSE Goto(r, IF files[r] = None THEN "policyIssue" ELSE "issue")
  /\ UNCHANGED <<payout, plan, gone, issues, masked, crossed>>

\* Below the threshold (last is FALSE) the order stays.
SaveMissed(r, last) ==
  LET o == on[r] IN
  /\ At(r, "missed")
  /\ IF last
     THEN /\ SetStatus(o, "cancelled")
          /\ payment' = [payment EXCEPT ![o] = IF @ = "paid" THEN "refunded" ELSE @]
          /\ outcome' = [outcome EXCEPT ![o] = "seller_unavailable"]
          /\ named' = named \ {o}
     ELSE UNCHANGED <<status, history, payment, outcome, named>>
  /\ IF files[r] = None THEN Return(r) ELSE Goto(r, "issue")
  /\ UNCHANGED <<payout, plan, gone, issues, masked, crossed>>

Append1(r, type, resolved) ==
  LET o == on[r] IN
  /\ Len(issues[o]) < MaxIssues
  /\ issues' = [issues EXCEPT ![o] = Append(@, Issue(type, resolved, TRUE))]
  /\ masked' = IF Unresolved(o) # {} THEN masked \cup {o} ELSE masked

\* The upsert of updateOrderStatus opens an issue unless one is open.
OpenPolicyIssue(r) ==
  /\ At(r, "policyIssue")
  /\ IF Unresolved(on[r]) # {} THEN UNCHANGED <<issues, masked>>
     ELSE Append1(r, IF why[r] \in AtVerification THEN "verification_failed"
                     ELSE "buyer_refused", FALSE)
  /\ Return(r)
  /\ UNCHANGED <<order, plan, named, gone, crossed>>

\* createIssue creates its issue whatever there is by now, resolved when it is
\* about a missed collection.
CreateIssue(r) ==
  /\ At(r, "issue")
  /\ Append1(r, files[r], files[r] = "seller_unavailable")
  /\ Return(r)
  /\ UNCHANGED <<order, plan, named, gone, crossed>>

\* resolveIssue: the listing is relisted or deleted.
Resolve(o, i, delete) ==
  /\ i \in Unresolved(o) /\ o \notin gone
  /\ issues' = [issues EXCEPT ![o][i].resolved = TRUE]
  /\ gone' = IF delete THEN gone \cup {o} ELSE gone
  /\ named' = named \ {o}
  /\ Touch(o)
  /\ UNCHANGED <<order, plan, masked, job>>

-----------------------------------------------------------------------------
(* updateOrderSchedule *)

Or(value, other) == IF value = None THEN other ELSE value
Ordered(end, del) == ~(end # None /\ del # None /\ del < end)
Terminal == Dead \cup {"completed"}

EnterSchedule(r, o, end, del) ==
  /\ status[o] \notin Terminal
  /\ plans[o] < MaxPlans
  /\ Enter(r, o, "schedule")
  /\ ends' = [ends EXCEPT ![r] = end]
  /\ due' = [due EXCEPT ![r] = del]
  /\ plans' = [plans EXCEPT ![o] = @ + 1]
  /\ clashed' = IF \E s \in Requests : At(s, "schedule") /\ on[s] = o THEN clashed \cup {o}
                ELSE clashed
  /\ UNCHANGED <<order, pickup, delivery, desk, to, why, files>>

\* Mutant: what is supplied is compared with itself only.
StartScheduleAlone(r, o, end, del) == Ordered(end, del) /\ EnterSchedule(r, o, end, del)

\* What is supplied (end, del, or one of them) is compared with what the order
\* has of the other.
StartSchedule(r, o, end, del) ==
  /\ Ordered(Or(end, pickup[o]), Or(del, delivery[o]))
  /\ EnterSchedule(r, o, end, del)

SaveSchedule(r) ==
  LET o == on[r] IN
  /\ At(r, "schedule")
  /\ pickup' = [pickup EXCEPT ![o] = Or(ends[r], @)]
  /\ delivery' = [delivery EXCEPT ![o] = Or(due[r], @)]
  /\ Return(r)
  /\ UNCHANGED <<order, plans, clashed, desk, crossed>>

-----------------------------------------------------------------------------
(* getOrderById and the presenter *)

\* STATUS_RANK; a refunded or cancelled order has no rank, which counts as 0 does.
StatusRank(s) ==
  CASE s \in {"secured", "collection_pending"} -> 1
    [] s \in {"collected", "verification"} -> 2
    [] s \in {"payout_processing", "ready_for_delivery"} -> 3
    [] s \in {"delivered", "completed"} -> 4
    [] OTHER -> 0

ProgressSteps == <<"reserved", "collected", "verified", "delivered">>

\* Mutant: authentication is part of the collection until the payout is made.
CurrentStepCoarse(s) ==
  CASE s \in {"secured", "collection_pending"} -> "reserved"
    [] s \in {"collected", "verification", "payout_processing"} -> "collected"
    [] s \in {"ready_for_delivery", "delivered"} -> "delivered"
    [] OTHER -> None

\* currentStepFor
CurrentStep(s) ==
  CASE s \in {"secured", "collection_pending"} -> "reserved"
    [] s = "collected" -> "collected"
    [] s \in {"verification", "payout_processing"} -> "verified"
    [] s \in {"ready_for_delivery", "delivered"} -> "delivered"
    [] OTHER -> None

\* getOrderProgress
Progress(o) == [i \in DOMAIN ProgressSteps |->
  IF CurrentStep(status[o]) = ProgressSteps[i] THEN "current"
  ELSE IF \E s \in history[o] \cup {status[o]} : StatusRank(s) >= i THEN "completed"
  ELSE "pending"]

\* The listing's latest issue, when there is a listing.
Latest(o) ==
  IF o \in gone \/ issues[o] = <<>> THEN Issue(None, TRUE, FALSE)
  ELSE issues[o][Len(issues[o])]

HasOpenIssue(o) == ~Latest(o).resolved

\* Mutant: a refused delivery is not taken into account.
VerificationBeforeDelivery(o) ==
  IF Latest(o).type = "verification_failed" \/ outcome[o] \in AtVerification THEN "failed"
  ELSE IF status[o] \in Delivering \cup {"payout_processing"} THEN "verified"
  ELSE IF status[o] = "verification" THEN "in_progress"
  ELSE "pending"

\* getVerificationState
Verification(o) ==
  IF Latest(o).type = "verification_failed" \/ outcome[o] \in AtVerification THEN "failed"
  ELSE IF outcome[o] \in AtDelivery \/ status[o] \in Delivering \cup {"payout_processing"}
  THEN "verified"
  ELSE IF status[o] = "verification" THEN "in_progress"
  ELSE "pending"

\* getDeliveryState
DeliveryState(o) ==
  CASE status[o] \in {"delivered", "completed"} -> "delivered"
    [] status[o] = "ready_for_delivery" -> "ready_for_delivery"
    [] status[o] \in Dead -> "not_applicable"
    [] OTHER -> "pending"

\* Mutant: an order is cancellable until it is collected.
OffersLateCancel(o) ==
  status[o] \in {"pending_payment", "secured", "collection_pending"}

\* The actions: cancelOrder for the buyer, the others for operations.
OffersCancel(o) == status[o] \in {"pending_payment", "secured"}
OffersMove(o, target) == target \in Transitions[status[o]]
OffersDelivered(o) == OffersMove(o, "delivered")
OffersMissed(o) == status[o] = "collection_pending"

\* Of a deleted listing too: the empty object that stands for it passes for one
\* with an id (idOf), and its issues are not looked up.
OffersIssue(o) == ~HasOpenIssue(o)

-----------------------------------------------------------------------------

Calls(o) ==
  \/ Pay(o) \/ PayWrong(o) \/ PayLate(o) \/ Decline(o) \/ Expire(o)
  \/ CancelPending(o) \/ PaySeller(o)
  \/ \E i \in DOMAIN issues[o], delete \in BOOLEAN : Resolve(o, i, delete)
Start(r, o) ==
  \/ \E target \in OrderStatuses, cause \in Outcomes \cup {None} : StartMove(r, o, target, cause)
  \/ StartCancel(r, o)
  \/ StartMissed(r, o)
  \/ \E type \in IssueTypes, cause \in Outcomes : StartRefusal(r, o, type, cause)
  \/ StartUnavailable(r, o)
  \/ StartOthers(r, o)
  \/ \E asked \in Requested : StartSchedule(r, o, asked[1], asked[2])
Continue(r) ==
  \/ SaveMove(r)
  \/ \E last \in BOOLEAN : SaveMissed(r, last)
  \/ OpenPolicyIssue(r)
  \/ CreateIssue(r)
  \/ SaveSchedule(r)
  \* A call rejects or the process stops: the rest is left undone.
  \/ ~At(r, "idle") /\ Return(r) /\ UNCHANGED <<order, plan, desk, crossed>>

Next ==
  \/ \E o \in (Orders \ crossed) \cup Resumed : Calls(o) \/ \E r \in Requests : Start(r, o)
  \/ \E r \in Requests : Continue(r)

Spec == Init /\ [][Next]_vars

-----------------------------------------------------------------------------
(* Properties *)

\* Every variable has its type.
TypeOK ==
  /\ status \in [Orders -> OrderStatuses]
  /\ payment \in [Orders -> {"pending", "paid", "failed", "refunded"}]
  /\ payout \in [Orders -> {"pending", "paid"}]
  /\ outcome \in [Orders -> Outcomes \cup {None}]
  /\ history \in [Orders -> SUBSET OrderStatuses]
  /\ pickup \in [Orders -> Nat \cup {None}]
  /\ delivery \in [Orders -> Nat \cup {None}]
  /\ plans \in [Orders -> 0 .. MaxPlans] /\ clashed \subseteq Orders
  /\ named \subseteq Orders /\ gone \subseteq Orders
  /\ crossed \subseteq Orders /\ masked \subseteq Orders
  /\ issues \in [Orders -> Seq([type : IssueTypes, resolved : BOOLEAN, own : BOOLEAN])]
  /\ at \in [Requests -> Steps]
  /\ on \in [Requests -> Orders \cup {None}]
  /\ to \in [Requests -> OrderStatuses \cup {None}]
  /\ why \in [Requests -> Outcomes \cup {None}]
  /\ files \in [Requests -> IssueTypes \cup {None}]
  /\ ends \in [Requests -> Nat \cup {None}]
  /\ due \in [Requests -> Nat \cup {None}]

\* The progress has no gaps: the steps before the current one are completed and
\* those after it pending, an order that ended keeps an initial part of them, and
\* a delivered order has reached them all; as long as no two handlers moved the
\* order at once.
StepsInOrder ==
  \A o \in Orders \ crossed :
    /\ \A i, j \in DOMAIN ProgressSteps :
         i < j /\ Progress(o)[j] # "pending" => Progress(o)[i] = "completed"
    /\ DeliveryState(o) = "delivered" => \A i \in DOMAIN ProgressSteps : Progress(o)[i] # "pending"

\* The item is shown as verified if and only if it passed authentication, however
\* the order ended: except where the latest issue is about an earlier order of
\* the listing, whose failure is shown for this one.
VerifiedIsEarned ==
  \A o \in Orders \ crossed :
    \/ Latest(o).type = "verification_failed" /\ ~Latest(o).own
    \/ Verification(o) = "verified" <=> "payout_processing" \in history[o]

\* An action the details offer is one the service takes.  It refuses, though offered:
\* the cancellation of an order whose payment was declined; the delivery of one whose
\* seller is not paid; and an issue about a deleted listing, or while one is open that
\* a later one hides.
OfferedIsAccepted ==
  \A o \in Orders :
    /\ OffersCancel(o) => MayCancelPending(o) \/ MayCancelPaid(o) \/ payment[o] # "pending"
    /\ \A target \in OrderStatuses :
         OffersMove(o, target) =>
           \/ \E cause \in Outcomes \cup {None} : MayMove(o, target, cause)
           \/ target = "ready_for_delivery" /\ payout[o] # "paid"
    /\ OffersDelivered(o) => MayMove(o, "delivered", None)
    /\ OffersMissed(o) => MayMiss(o)
    /\ OffersIssue(o) => MayReport(o) \/ o \in gone \cup masked

\* Whose listing was deleted is not offered an issue about it: the details have a
\* reason for this, "Product is no longer available".
GoneIsNotOffered == \A o \in gone : ~OffersIssue(o)

\* The estimated delivery is not before the end of the pickup window, though the
\* two are set by separate requests, whatever else is done to the order meanwhile:
\* unless two requests for its schedule overlapped.
ScheduleOrdered == \A o \in Orders \ clashed : Ordered(pickup[o], delivery[o])

=============================================================================
