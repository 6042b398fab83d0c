------------------------------ MODULE OrderStates ------------------------------
(***************************************************************************)
(* The states of an order and how operations may move it: what the order   *)
(* service, the presenter and the notifications share.                     *)
(***************************************************************************)

CONSTANT None  \* an unset field

Dead == {"refunded", "cancelled"}
Delivering == {"ready_for_delivery", "delivered", "completed"}
OrderStatuses == Delivering \cup Dead \cup
  {"pending_payment", "secured", "collection_pending", "collected"} \cup
  {"verification", "payout_processing"}

\* One outcome for each amount refunded with or without a penalty: counterfeit
\* counts as authentication_failed does, condition_differs and (against the
\* buyer) buyer_changed_mind as not_as_described does.
AtVerification == {"authentication_failed"}
AtDelivery == {"not_as_described", "others"}
AtCollection == {"seller_unavailable"}
Outcomes == AtVerification \cup AtDelivery \cup AtCollection

\* ORDER_STATUS_TRANSITIONS
Transitions == [s \in OrderStatuses |->
  CASE s = "pending_payment"    -> {"secured"}
    [] s = "secured"            -> {"collection_pending", "collected", "cancelled"}
    [] s = "collection_pending" -> {"collected", "cancelled"}
    [] s = "collected"          -> {"verification", "payout_processing", "refunded"}
    [] s = "verification"       -> {"payout_processing", "refunded"}
    [] s = "payout_processing"  -> {"ready_for_delivery"}
    [] s = "ready_for_delivery" -> {"delivered", "refunded"}
    [] s = "delivered"          -> {"completed"}
    [] OTHER                    -> {}]

\* resolvePolicyOutcome: the outcomes that go with a transition.
PolicyOutcomes(from, target) ==
  IF target # "refunded" THEN {None}
  ELSE IF from = "ready_for_delivery" THEN AtDelivery ELSE AtVerification
=============================================================================
