# Closeté marketplace API: specifications

TLA+ specifications of the server of a resale marketplace (`src/`): a Node and
Express API over MongoDB and Stripe. A buyer reserves a listing and pays; Stripe
tells the server by webhook; operations collect the item, authenticate it, pay the
seller and deliver it, and at several points the order can be cancelled or refunded.
The specifications say what those handlers keep true together, TLC checks them on
small instances, and TLAPS proves the main invariants for every instance.

Paths below are relative to `src/src/app/modules/` unless they start with `src/`.

## The execution model

The server is one Node process. A handler runs alone from one `await` to the next, and
anything may happen at an `await`. An action is therefore the code between two awaits,
and a *slot* `r` in `Requests` carries a handler's local state: the step it takes next
(`at[r]`) and what it read earlier and still relies on. Three facts of the platform
shape every module:

* A MongoDB operation on one document is atomic. `findOneAndUpdate` with a condition is
  a compare-and-set. `document.save()` is not: it writes the paths the handler changed,
  whatever the document says by then.
* A Stripe call made with an idempotency key that was used before replays the first
  call, or fails if the parameters differ.
* A call may reject and the process may stop at any await. Both lose the handler's local
  state and nothing else; action `Abort` is both. Nothing recovers a handler: what is
  redone is redone because Stripe delivers again, the timer fires again, or a user asks
  again.

## Components

| component | state | operations | what is hard | status |
| --- | --- | --- | --- | --- |
| Order purchase (`order/order.service.ts`) | order: status, payment, buyer, listing; listing: status, buyer, reservation | `checkoutOrder`, `handlePaymentSucceeded`, `handlePaymentFailed`, `cancelOrder`, `expirePendingOrders`, `updateOrderStatus` before collection | five kinds of handler write the same order and listing without a lock; events are redelivered and reordered; a handler dies half way | `OrderPayment` |
| Order fulfilment (`order/order.service.ts`) | order: status, payment, payout, transfer, missed collections, refund amount | `updateOrderStatus`, `markPayoutPaid`, `reportMissedCollection`, redelivered payment events | refunds, reversals and payouts are sequences of Stripe calls and saves based on stale reads | `OrderFulfilment` |
| Issues (`issue/issue.service.ts`) | open issues of a listing | `createIssue`, `resolveIssue`, the upsert of a policy issue | check-then-act; resolution acts on the listing without looking at the order | in `OrderFulfilment` |
| Listing cache (`src/src/helpers/cache.ts`, `product/product-state-sync.ts`) | store, pending loads, generation | `getOrSet`, `flushPrefix` and its callers | loads race invalidations; a write that fails after its commit is not announced | `ProductCache` |
| Stripe (`src/src/integrations/stripe.ts`) | intents, refunds, transfers, reversals | the calls above | idempotency keys, late answers | as seen by the handlers |
| Webhook (`payment/payment.controller.ts`) | none | dispatch, acknowledgement | an event is acknowledged once its handler returns | in `OrderPayment` |
| Reservation timer (`src/src/server.ts`) | none | calls `expirePendingOrders` every minute | expiry races payment | in `OrderPayment`; start-up and shutdown left out |
| Listings (`product/product.service.ts`) | listing documents, files in the bucket | create, edit, delete, feed, details | numbering by the last one read, uploads before the document, deletion in four calls | `Catalogue`; status and holder in the order modules, edits in `ProductCache` |
| Wishlist (`wishlist/wishlist.service.ts`) | entries, count on the listing | add, remove | count against entries under concurrent, repeated transactions and deletion | `Catalogue` |
| Order schedule (`order/order.service.ts`) | pickup window, estimated delivery | `updateOrderSchedule` | each request compares with what it read and writes only its own fields | `OrderView` |
| Order presenter (`order/order.presenter.ts`) | none | progress, verification, delivery, open issue, offered actions | says what is true and offers what is accepted, of an order other handlers move | `OrderView` |
| Account standing (`user/user-penalty.service.ts`) | strikes, rejections, status | penalties, deletion of an account | counted in one update, acted on in a second with what the first returned | `AccountStanding` |
| Payout accounts and cards (`payment/connect.service.ts`, `payment-method/`) | Stripe identifiers of a user, cards | onboarding, customers, setup, deletion of cards | created twice, recorded once; Stripe forgets idempotency keys | `StripeAccounts` |
| Sign-in (`auth/`, `passport/`, `user/user.service.ts`, `src/src/app/middlewares/auth.ts`) | account and its address, one-time codes, reset tokens, OAuth codes | request, resend, verify, recover, reset, exchange, sign up, edit the address, delete | single use under concurrency; mail that fails; accounts made again under one address, or moved to another | `SignIn`; administrators' passwords left out |
| Notification events (`notification/notification.event.ts`) | none | what each handler announces, and to whom | announced without being awaited; event keys | `Notifications` |
| Notifications, devices (`notification/notification.service.ts`) | notifications, device registrations | create, push, read, delete, register | announced twice, kept once; phones change hands during a push | `Inbox` |
| AI, images, templates, HTTP plumbing | none | | pure I/O or third-party code | not modelled |

Components meet in four ways. Handlers share the order and listing documents; issues and
missed collections call into the order service; every write to a listing goes through
`synchronizeProductStatusMutation` or an explicit invalidation, which is where the cache
hears of it; and handlers announce what they did, which is where the inboxes hear of it.

`PROJECT.json` lists every hazard with the line where it bites and the properties aimed
at it.

## Modules

| module | contents |
| --- | --- |
| `OrderPayment` | the purchase phase, its safety and liveness properties |
| `OrderStates` | statuses, transitions and outcomes, as the next two modules use them |
| `OrderFulfilment` | a paid order to its end, with issues and payouts |
| `OrderView` | the details of an order, its schedule, and the handlers that change both |
| `ProductCache` | the cache, its readers and its writers |
| `Catalogue` | listings, their pictures and the users who saved them |
| `Sale` | what a shop of single items promises of an item and its orders: an abstract specification; implemented by `OrderPayment` |
| `Escrow` | what a marketplace promises of the price it holds: an abstract specification; implemented by `OrderFulfilment` |
| `Lifecycle` | what the state machine of an order promises: an abstract specification; implemented by `OrderFulfilment` |
| `Wishlist` | what users may expect of the listings they save: an abstract specification; implemented by `Catalogue` |
| `Grant` | what a one-time secret promises: an abstract specification |
| `SignIn` | the accounts of a few addresses and the secrets that open them; implements `Grant` |
| `AccountStanding` | offences, thresholds and the status of accounts |
| `StripeAccounts` | extends `AccountStanding`: connected accounts, customers and cards |
| `Notifications` | what order and issue handlers announce, and to whom |
| `Inbox` | notifications once they are announced, devices and pushes |
| `...Proofs` | TLAPS proofs about the module they are named for |
| `MC...` | symmetry sets and instances for TLC |

A definition whose comment starts with "Mutant:" is a faulty variant of the definition
that follows it. It is not part of any specification; it documents which mistake a
property catches.

### OrderPayment

`product[p]` is the listing (status, buyer, and `hold`, the checkout whose
`reservationExpiresAt` it carries: the two are compared in `UndoHold` only). `status`,
`payment`, `buyer`, `item` are the order document; a checkout's order number is "draft"
until the document is inserted. `intent` and `refund` are Stripe's side of the payment
and the key it was refunded under. `sent` holds events Stripe ever emitted, any of which
may come again; `owed` those it has had no 2xx for, and so keeps delivering. `saw[r]` and
`to[r]` are what a handler read and was asked.

`CONSTANT Env` says what the environment may do: decline an attempt, capture a payment
that does not match its order, let two of cancellation, expiry and operations overlap on
one order, and edit a listing by hand. `forced` marks orders operations moved to SECURED
by hand; it is read off the order's `statusHistory`, and the code does not use it.

Prices, addresses, fees and notes are left out: `paymentMatchesOrder` is the choice
between the events "succeeded" and "mismatched".

`SoldInTurn` is the refinement of `Sale`. `Stage(o)` maps an order to how far it got as far as its
listing is concerned: "checkout" while a handler has reserved the listing and the order is not inserted,
"placed" and "paid" by its status, "ending" while it is cancelled or refunded and a handler that ends
it has yet to release the listing, and "over" after that. `Sale` lets an item be taken only while no order is in one
of the stages between, so it says that reservation, sale and release come in this order,
for every listing and whoever dies between them; `SoldOnce` is what it says of one state.

### OrderFulfilment

Starts from orders the webhook has claimed, each with a listing of its own, and follows
them to completed, refunded or cancelled. That the listing is secured is a theorem of the
purchase phase (`SecuredUntilItEnds`); that it names the order's buyer is its usual state. Outcomes are grouped by what they do: whether
the buyer gets the price or the seller's share back, and whether somebody is penalised.
`knows[r]` and `owes[r]` are the two conditions `refundOrderPayment` evaluates on the
order it read: whether there is a transfer to reverse, and whether the payment is paid.
A cancellation by operations relists before it saves, a missed collection saves before
it relists, as in the code.

`transferred`, `reversed`, `refund` and `late` are Stripe's side. The transfer key makes
a second transfer a replay. `Refundable` and `LateRefundable` say when Stripe refuses: the
same key with another amount, or a payment that was returned in full.

`MoneyIsHeld` is the refinement of `Escrow`: a transfer is `Send`, its reversal `Recall`, a refund
under either key `Refund`. Orders that are not `Calm`, because two handlers worked on them at
once or one died, have left the scheme (`Lose`). `CalmReversedFirst` is what it says of one state.

`LifeIsKept` is the refinement of `Lifecycle`: a save that ends an order is `CallOff`, another move
`MoveOn`, the record of a payout `PayOut`, and a late event that turns cancelled into refunded
`ReturnLate`. Here a handler that dies does no harm, since a dead one writes nothing; only orders
two handlers met on (`crossed`) have left the scheme (`Leave`). `EndIsFinal` is what it says of the
orders that ended.

History variables, none of which the code has: `crossed` (two handlers worked on the order at
once), `died` (handlers that died on it), `relisted` (an issue's resolution put the listing of
a live order on sale) and `offences`.

### ProductCache

A key is a page of the feed or the details of a listing; a value is the number of writes
to each listing that the loader saw. `Hit`, `Join` and `Miss` are the three ways through
`getOrSet` up to its first await; `Query`, `Store` and `Settle` are the loader, its
`then` and its `finally`. The last two are separate steps, because other continuations
may run between them. `Commit` is a write to the database and `Flush` the invalidation
that follows when the handler runs again; several `flushPrefix` calls made in one go
count as one. `Forget` is a handler that fails between them. Time is counted in ticks,
and which entry is evicted at the bound is left open, which admits what the code does.

History variables: `floor[r]` (what an up-to-date answer must say at least),
`byIssue` and `lost` (keys owed an invalidation by a writer that failed).

### SignIn and Grant

`account[a]` is a document, unused, pending, verified or gone, and `email[a]` its address. An
address can be signed up with again after its account is deleted or moved to another one
(`StartEdit`, `Edit`: the profile takes any address no other account has, and the account stays
verified). A handler finds an account by its address and keeps the `_id` it read, so it may
write to an account that is gone (Mongo matches nothing) or has another address by then; only
`forgetPasswordToDB` writes by address. `login`,
`used` and `tries` are `loginOtp`; `recovery`, `mayReset` and `lapsed` are
`authentication`; `token` and `oauth` the collections of reset tokens and OAuth codes. A
secret stands for a code and its hash. `clock` variables say which codes are still in
their cooldown or past their time: time passes one code at a time (`Cool`, `Expire`,
`Lapse`), in any order, which admits every order of the code's deadlines.

`Grant` knows of a secret whether it is unissued, open, redeemed or void, and that it is
redeemed at most once. `SignIn!Standing(s)` maps a secret of the detailed specification to
that: it is open while the login code of a live account, a token or an OAuth code that has
not expired holds it, and redeemed when a handler accepted it for good, which is counted
in `honoured`. `SingleUse` is the refinement. Recovery codes (`oneTimeCode`) are not
grants: the code compares and clears them in two calls, and what they open is a permission that is
checked again; they are modelled all the same, because they change the account.

`ProvenEnter` says under which address an account is when somebody enters it. `proven` are the
accounts with an address they were verified under, by a code that was mailed there or by Google,
and `edited` those with an address their owner put in the profile, both history. The second
kind is exempt, because the code asks for no proof of it (`user/user.validation.ts:18`,
`user/user.service.ts:193`): an account may sit under an address its owner never showed to be
theirs, and a Google sign-in with that address enters it (`src/src/config/strategies/google.strategy.ts:33`).

Left out: `loginUserFromDB` and `changePasswordToDB`, which compare a password and keep no
state another handler relies on, `refreshToken`, which reads only, and the fixed codes of
test accounts.

### AccountStanding and StripeAccounts

`Offence` and `Rejection` are the `findOneAndUpdate` that counts, `Suspend` and `Restrict`
the second update. `Overwrite` sets a status whatever it is by then: the second update has
no condition on it. `cut` are the users whose penalty died in between, and `overtaken` the
sellers of a counterfeit who had a restriction under way when it was counted: the restriction
is saved over their suspension. The
thresholds are constants; a counterfeit suspends at once. `recordMissedCollection` is left out,
since nothing reads the counter.

`StripeAccounts` shares the slots of `AccountStanding` (its `Penalty` disjunct), because
eligibility for payouts, customers and cards depends on the status at each query.
`connect` and `customer` are the two recorded identifiers; `keyed` is what Stripe answers
for a user's idempotency key, and `Forget` is the day after which it answers with a new
account. `links`, `setups` and `saver` remember what was given to whom.

### Catalogue

Creation uploads the pictures first, deletes them again if one fails, and inserts the
document with a number one above the highest it read. Deletion removes the files, the
document and the entries in this order. A change of a wishlist is a transaction of
three calls: `Begin` reads the snapshot, `Write` changes the entry and the count, which
fails if the listing was written since (`stale`), `Conflict` runs it again, and `Publish`
follows the commit. What a callback that is run again read before is forgotten (`Conflict`). Files uploaded by a creation that the number's unique index refuses stay in the bucket,
as do those of one that stops: nothing refers to them, and no property speaks of them.

History variables: `uploaded`, `cut` (listings with a handler that failed half way) and
`crossed` (two changes of whose wishlist were announced at once).

`ChangesAreAtomic` is the refinement of `Wishlist`, in which saving a listing and letting it go are one
step and add one to the number shown or take one from it. `Commit` is `Save` or `Unsave`, or nothing
for what was saved before; all other steps of a transaction are nothing. The users who saved a listing (`wishes`)
and their number (`totals`) count while the listing is there: `DeleteListing` is `Withdraw`, though
the entries go later. `CountMatches` is what the refinement says of one state.

### OrderStates and OrderView

The details of an order are a function of the order document and the latest issue of its
listing, so the presenter is a set of operators on the state, and every handler that
changes the two is an action, split at the await between its read and its save. `issues[o]` is the sequence
of the listing's issues, each with its type, whether it is resolved, and whether it is about
this order; it starts with what an earlier sale may have left (`Past`). Stripe and
the listing's status are left to the modules above.

`crossed` are orders two handlers worked on at once, and `clashed` those two of whose schedule
requests overlapped; `masked` those whose open issue is hidden by a later one that was resolved
at once (`seller_unavailable`). `gone` are orders whose listing was deleted: the presenter
takes the empty object that stands for it for a listing (`OffersIssue`).

### Notifications

A handler is one step up to its announcement, in which it changes order and listing and adds to
`due` what it is about to announce; `Publish` starts the deliveries and the look-up of the
watchers, which then proceed independently. An announcement is a set of deliveries, each
a recipient and an event key `<<order, event, detail>>`, as `notification.event.ts`
builds them. `Followed` restricts which notifications are followed; the others are delivered at once and forgotten.
`payment[o]` is what Stripe's events made of a payment; a declined attempt, a payment that does
not match and a late one may each be announced again, whatever became of the order. An order
gives the listing back by its buyer (`Gives`, `Release`), so it may give back what another order
of the same buyer has by then; the instance has one buyer for this reason.
`overtaken` and `irregular` are history variables, see the properties.

### Inbox

One notification from its announcement to its end: the upsert (`Insert`), reading it back, showing
it, and the push it starts, with devices registered, aged, taken over and pruned
meanwhile. A note carries its number, so that one announced again after it was deleted is
told apart from the first. A push carries the tokens it found, in the order they came back, how
many of them are done (`index`), and Firebase's answers for the batch it sent: `Slice` is the
batch, and an answer is matched to a token by its position there (`Refused`, `Prune`). `since`
in a push is history: tokens whose registration changed after it looked them up.

Left out: reading lists and counts, and the events of `itemListed`, `orderScheduleUpdated`,
`wishlistItemSaved`, `wishlistItemUpdated` and `sellerOnboardingRequired`, each one announcement under a
key of its own; for `Inbox` they are members of `Events`.

## What is checked

| run | instance | shows |
| --- | --- | --- |
| `payment_any` | 1 order, 2 slots, the whole environment, 1 fault | `DeadIsNotPaid`, `RefundedAtStripe`, `UsualCaptureAccounted` whatever happens; with fairness `CaptureSettles` and `UnpaidIsRelisted` |
| `payment_exclusive` | 3 orders, 2 buyers, 1 listing, 2 slots, 1 fault, usual circumstances | the refinement of `Sale` (`SoldInTurn`), `DeadStaysDead` |
| `payment_declined` | 1 order, a declined attempt | that `CaptureAccounted` fails, see below |
| `fulfilment_serial` | 1 order, 1 slot, 2 faults, up to 4 missed collections against a threshold of 2 | what sequences of requests, some of them failed and repeated, leave behind: the refinement of `Escrow` (`MoneyIsHeld`), `RecordedIsReturned`, `UncrossedOneOpenIssue`, `OneOffence`, `QuietIsConsistent` |
| `fulfilment_overlap` | 1 order, 2 slots, 1 fault | what holds under any interleaving: `PaidBeforeDelivery`, `DeadIsNotPaid`, `RefundIsReal`, and the refinement of `Lifecycle` (`LifeIsKept`) |
| `cache` | 1 listing, 1 page, room for 1 entry, 2 readers, 2 writers | `Coherent`, `FreshAnswer`; with time passing `StaleEnds` |
| `signin` | 2 accounts, 2 addresses, 2 secrets, 2 slots, 1 attempt, 1 fault, 1 edited address | the refinement of `Grant` (`SingleUse`), `VerifiedStays`, `ProvenEnter` |
| `accounts` | 2 users, 2 slots, 2 Stripe accounts, 1 card, thresholds 2 and 1, 1 fault | `ThresholdActs`, `CounterfeitSuspends`, `OnboardedIsReady`, `SavedCardsAreKept`, `OnlySaverDetaches` |
| `catalogue` | 1 listing, 2 users, 2 files, 3 slots, 1 fault | the refinement of `Wishlist` (`ChangesAreAtomic`), `NoOrphans`, `PicturesStay`, `ShownIsCount` |
| `order_view` | 1 order after an earlier sale or none, 2 slots, up to 3 issues and 3 schedule requests | `StepsInOrder`, `VerifiedIsEarned`, `OfferedIsAccepted`, `ScheduleOrdered` |
| `notifications` | 2 orders of 1 buyer and 1 listing, 1 watcher, 2 announcements due, 3 deliveries at once | `EndIsTold`, `WatchersKnow` |
| `inbox` | 2 users, 1 event; announced three times, with 2 deletions and 1 fault, or announced once and pushed to 3 devices in batches of 2 | `ShownOnce`, `PushedToOwner`, `ValidStay` |

The bounds are enough for the cases the properties are about. Two slots give every
interleaving of two handlers, and a pair suffices for each race listed as a hazard, since a slot is
free again when its handler returns; three orders let a listing be sold, released and
sold again while a third checkout is under way. In fulfilment orders share only the issue identifiers, so one is enough.
Threshold 2 with up to 4 attempts passes the threshold from below, at it and above it. One
cache entry for two keys makes every store at the bound an eviction. Two accounts are one
that is deleted, or moved to the second address, and its successor under the first; two secrets
are a code and what replaces it. A third adds nothing but a second replacement. Two Stripe accounts for two users are two made
for one user, or one for each. Three slots in `Catalogue` are two changes of a
wishlist and a deletion. In `OrderView` an order that two handlers crossed gets no further
requests (`Resumed` is empty in the run): only `OfferedIsAccepted` and `ScheduleOrdered` say anything of it, and the
theorems about them hold for any `Resumed`. In
`Notifications`, `Followed` restricts the inbox to what tells of an end or of a deletion, and
`MaxDue` and `MaxSending` the announcements in flight: two that are due and the deliveries of
two more already overtake each other. The second order is what the watchers need; what the
parties of an order hear of it does not depend on another, so a constraint (`Focus`, in `MCNotifications`) goes on
with one order where `WatchersKnow` says nothing any more. In `Inbox`,
what is shown does not depend on the devices, nor a push on other notifications: `Either`
(`MCInbox`, a constraint) explores many announcements without devices, and one announcement with
three devices in batches of two, so that a push has a full batch and a rest.

The invariants the proofs establish do not depend on any of these bounds.

`CHECK_DEADLOCK FALSE` where it appears: orders end, and with all of them ended and their events
delivered the system has nothing left to do.

### Disagreements with the documentation

The run `payment_declined` expects TLC to find a behaviour the documentation excludes:
after a declined attempt the order's payment is failed, and the success that follows is
acknowledged and recorded nowhere, while `docs/flutter-implementation-guideline.md:1754` says
"`payment_intent.succeeded` → marks order as paid/SECURED".

Seven more configurations end the same way. They are kept beside the runs, to be called with
`tlc -config X.cfg M`:

| configuration | property | what happens | what is said |
| --- | --- | --- | --- |
| `OrderPaymentOverlap.cfg` (`MCOrderPayment`) | `DeadStaysDead` | a status saved over an order that was cancelled meanwhile revives it (`order/order.service.ts:710`) | `order/order.constant.ts:3` "Allowed forward transitions for each order status." allows none from CANCELLED |
| `OrderPaymentRelist.cfg` (`MCOrderPayment`) | `CancelledIsRelisted` | the webhook's write to the listing overwrites the relisting of a buyer's cancellation (`order/order.service.ts:306`) | `docs/flutter-implementation-guideline.md:1117` "If cancelled, Stripe refund auto-triggered and product re-listed (status available)." |
| `OrderFulfilmentReversal.cfg` (`MCOrderFulfilment`) | `ReversedFirst` | a refund that overlaps a payout, or follows one whose record was lost, leaves the transfer alone (`order/order.service.ts:571`) | `README.md:46` "Refunds after a transfer reverse the seller transfer before refunding the buyer." |
| `OrderFulfilmentFeeRetained.cfg` (`MCOrderFulfilment`) | `FeeRetained` | a redelivered success event after a delivery rejection returns the fee as well (`order/order.service.ts:271`) | `README.md:50` "Delivery rejections refund `sellerPayout`, retaining the stored `platformFee` as the Closete handling fee." |
| `OrderFulfilmentTwoIssues.cfg` (`MCOrderFulfilment`) | `OneOpenIssue` | two issues are created at once (`issue/issue.service.ts:55`) | `docs/admin-dashboard-api-integration-guide.html:540` "Only one unresolved issue may exist per product." |
| `OrderViewGone.cfg` (`MCOrderView`) | `GoneIsNotOffered` | the details of an order whose listing was deleted through an issue offer to report another, which is refused (`issue/issue.service.ts:66`): `idOf` of the empty object that stands for the listing is "[object Object]", so `hasProduct` is true of every order (`order/order.presenter.ts:73`, `220`) | `order/order.presenter.ts:331` 'Product is no longer available' is the reason not to offer it, and `docs/flutter-implementation-guideline.md:1113` has clients control the button with `actions.reportIssue.enabled` |
| `ProductCacheIssue.cfg` (`MCProductCache`) | `Synchronized` | deletion through an issue clears the feed and not the details (`issue/issue.service.ts:234`) | the comment at `issue/issue.service.ts:233` "Clear product cache" |

`MoneyIsHeld`, `UncrossedOneOpenIssue` and `StaleEnds` say what is left of three of these
properties when nothing overlaps or dies. A property that names its exceptions does so because the model has the behaviour:

* `VerifiedIsEarned`: the details of an order take the latest issue of its listing, resolved or not,
  whichever sale it is about (`order/order.service.ts:389`). A listing that failed verification once and was
  listed again shows "Verification failed" for its new order.
* `OfferedIsAccepted`: the buyer of an order whose payment was declined is offered a
  cancellation that is refused, because `cancelOrder` wants the payment pending
  (`docs/flutter-implementation-guideline.md:1115`: "Prefer the server-provided action state");
  operations are offered READY_FOR_DELIVERY by the transition table alone
  (`order/order.presenter.ts:206`), and refused it while the seller is not paid
  (`order/order.service.ts:643`); an issue is offered about a deleted listing (`OrderViewGone.cfg`), and
  while one is open that a `seller_unavailable` issue, created resolved, hides (`masked`).
* `ScheduleOrdered`: two overlapping requests, one for the pickup and one for the
  delivery, each agree with what they read; together they may put the delivery first
  (`clashed`). Whatever else is done to the order meanwhile does not matter.
* `CounterfeitSuspends`: a restriction is saved whatever the status is by then
  (`user/user-penalty.service.ts:76`), over a suspension too if the counterfeit was counted
  between the two updates of the restriction (`overtaken`).
* `ProvenEnter`: an address put in the profile is proved by nobody (`user/user.service.ts:193`).
* `ShownIsCount`: two changes of a wishlist may be announced in the other order than they
  were committed, and the clients keep the older count until the next change, although
  `docs/notification-integration-guide.md:167` calls it authoritative.
* `EndIsTold`: an order cancelled for missed collections is announced to neither party
  (`order/order.service.ts:847`).
* `WatchersKnow`: announcements in flight together arrive in any order (`overtaken`), and a listing
  changes hands as no announcement says (`irregular`) in four ways. A declined payment gives back
  the listing of another order of the buyer's, because the release asks for listing and buyer only
  (`order/order.service.ts:333`), and `handlePaymentFailed` announces no release to the watchers; a
  payment that does not match is announced with "available again" for an order that no longer
  awaits it (`order/order.service.ts:238`); so is the expiry of an order that had lost the listing
  (`order/order.service.ts:1030`); and operations move an order to SECURED, or one whose listing is on sale,
  and announce nothing to them.
* `ThresholdActs`, `NoOrphans`, `PicturesStay`: a handler that dies between two of its calls is not resumed (`cut`).

Nothing stops events from making notifications for an account that was deleted, and a
client may be shown a notification that was deleted after it was read back; both are in
`Inbox` and excluded by no property.

`SoldInTurn` is checked in the usual circumstances only. With declines, mismatches,
overlaps, or a cancellation by operations that dies between relisting and saving, the
model admits two live orders of one listing; each comes down to a release of the listing
by listing and buyer rather than by reservation, or to a write order shown in the
hazards. Hand edits of a listing by its seller defeat it too.

### Fairness

* `OrderPayment!Fairness` asks that a handler that has started goes on (`WF`: promises
  settle; `Abort` is not asked for), that Stripe keeps delivering an event it has had
  no 2xx for (`SF`, since a free slot may come and go), and that the sweep keeps visiting
  expired orders (`SF`, `src/src/server.ts:77`: the timer fires every minute). Nothing is asked of buyers and
  operations.
* `ProductCache!FairSpec` asks only that time passes.
* The other modules have no liveness property: each of their operations waits for a
  person, and nothing in the code retries what failed. What a user sees once everything in
  flight has arrived is stated as an invariant of states in which nothing is in flight
  (`AtRest`, `Punishing`, `Deleting`, `Publishing`).

## What is proved

All proofs are for any number of orders, listings, handlers, faults, keys and so on, from the
named assumptions of the modules (constants have their types; `None` is none of the
values it stands in for, nor a status). Every proof has the shape `Init => IInv`,
`IInv /\ [Next]_vars => IInv'`, `IInv => Inv`, with one lemma for each conjunct of `IInv`
and one step for each action.

* `OrderPaymentProofs`: `Typing`, `DeadNeverPaid`, `RefundsAreMade`, `CaptureNeverLost`. None of
  the three invariants is inductive, because handlers act on what they read awaits ago. `IInv`
  says what is still true of it: a payment seen unpaid by a handler that cancels cannot become
  paid (the claim needs PENDING_PAYMENT, and the handler, or whoever beat it, left that state);
  a handler past its refund has made it; and a usual order whose event is acknowledged is
  settled.
  * `DeadForGood` (the action property `DeadStaysDead`) adds `MoverInv`: one handler at a time
    moves an order on (`OneMover`), and what it is about to save is still open to it (`Moving`).
    The theorem assumes `OneAtATime`, that the environment has neither "overlap" nor "mismatch",
    and both are needed: with the first, a status is saved over an order cancelled since it was
    read (`OrderPaymentOverlap.cfg`); with the second, `MarkInvalid` refunds an order between an
    admin's read and save of it. Declined payments, edited listings and faults are all allowed.
  * `OneSale` (`SoldOnce`) adds `Exclusive`: at most one order has its listing, or is about to
    get it or to be created for it (`OneHasListing`). It assumes `NothingUnusual`, the
    circumstances of the run `payment_exclusive`: nobody declines, edits, overlaps or pays
    another amount, and no admin cancels. A declined payment and an edit free the listing of a
    live order, and an admin's cancellation relists it before the order is saved. Any number of
    handlers may race for the listing, and die. `SecuredUntilItEnds` (`LiveIsSecured`) follows from the same
    invariant: the listing of a live order is secured, which is what `OrderFulfilment` starts from. That it
    also names the order's buyer is not so for every order: the webhook's write to the listing may come
    after the next reservation of it (`order/order.service.ts:306`).
  * `ItemIsSoldInTurn` (`SoldInTurn`) is the refinement of `Sale`, in the same circumstances. Initial
    states map to initial states, and every step moves one order one stage on (`Progress`) or moves
    none; the item an order takes is free because of `Exclusive`, and an order that is over
    stays so because no handler but its one mover (`MoverInv`) can end it.
* `OrderFulfilmentProofs`: `Typing`, `SellerIsPaidFirst`, `DeadNeverPaid`, `RefundsAreMade`.
  What a handler read goes out of date in one direction: money sent stays sent, a refund made
  stays made, and a payment that is not paid does not become paid again. These hold whatever
  handlers do at once.
  * `Uncrossed` is a second inductive invariant, `OneByOne`, about the orders no two handlers
    worked on at once (those outside `crossed`; other orders may be in any state). One handler
    at most is on such an order (`Alone`); the order, its listing, its issues, its transfer and
    its refund fit together (`Facts`); what the handler read is still so, or was changed by the
    handler itself (`Informed`), and wherever it is, it may be there (`Allowed`); and when no
    handler is on it, nothing was left half done but by one that died (`Rested`). From it follow
    `MoneyGoesOneWay` (`CalmReversedFirst`), `RecordIsTrue` (`RecordedIsReturned`),
    `OneIssueAtATime` (`UncrossedOneOpenIssue`), `OffenceCountsOnce` (`OneOffence`),
    `QuietAgrees` (`QuietIsConsistent`) and the action property `EndsStay` (`EndIsFinal`). One
    handler at a time is a hypothesis that cannot be dropped: `OrderFulfilmentReversal.cfg` and
    `OrderFulfilmentTwoIssues.cfg` show what two of them do.
  * `EscrowIsKept` (`MoneyIsHeld`) is the refinement of `Escrow`. It adds `RecallInv`, that only what
    was sent is reversed; that a step which refunds an order with a transfer finds it reversed is
    `MoneyGoesOneWay` in the state the step leads to, and one step changes the entry of one order.
  * `OrdersLive` (`LifeIsKept`) is the refinement of `Lifecycle`. It needs of `OneByOne` that a handler
    about to save still knows the status the order has, so that what it saves is a move of the table, and
    still knows whether there is a transfer on record (`Allowed`), so that an order is never refunded
    with a payout that stands (`Facts`). `LivedOn` says what one step does to the status and the two
    records of its order, `LivedIsAbstract` which step of `Lifecycle` that is; a second handler on an
    order is `Leave`.
* `ProductCacheProofs`: `Typing`, `Coherence`, `AnswersAreFresh`, `OneLoad`, `Bounded`. The
  invariant is that the two guards agree: a load of the present generation is the one
  `pending` names, and a pending load that has its value is as good as a stored one.
* `SignInProofs`: `Typing`, `SecretsAreSingleUse`, `VerifiedNeverLost`, `EntriesAreProven`. The second is
  the refinement of `Grant`: initial states map to initial states, and every step issues,
  replaces, redeems or voids one secret or changes none. The invariant says where a secret can
  be: it is generated once, so at most one account, token or OAuth code holds it, and a handler that
  compared a code relies on the compare-and-set in `Consume`, not on what it read. `EntriesAreProven`
  (`ProvenEnter`) has an invariant of its own, `AddressInv`: a verified account is under an address it was
  verified under or its owner edited in, and a code in force was mailed nowhere but to the address
  its account had when it was made.
* `StripeAccountsProofs`: `Typing`, `ThresholdsAct`, `CounterfeitsSuspend`, `OnboardedAreReady`,
  `CardsAreKept`, `OnlySaversDetach`. A recorded identifier is never replaced, so whatever a
  handler read, was given or recorded stays the user's. A restriction under way is of a user who is
  not convicted or is in `overtaken`, since it is begun of active users only; with that a
  suspension is overwritten in the one case `CounterfeitSuspends` names.
* `CatalogueProofs`: `Typing`, `CountsAreRight`, `EntriesGo`, `PicturesAreKept`, `CountIsTold`. A transaction that
  read a listing commits only if nobody wrote the listing since, so what its snapshot says of the user's entry is still
  true when it changes the count with it; a deletion that removed the document leaves no transaction that could
  commit an entry after the entries are gone.
  * `Typing` is not part of that invariant. The number of a new listing is one above the highest
    (`NextNumber`), and that a finite set of numbers has a highest is the least-number principle of the library, in
    its form for sets (`Highest`). That the entries of a listing are counted at all needs that they are
    finitely many (`FiniteKept`): `Users` may be infinite, but entries come one by one.
  * `ChangesTakeEffectAtOnce` (`ChangesAreAtomic`) is the refinement of `Wishlist`. At its commit a
    transaction's snapshot is what the entries still are (`CommitWatchers`), so that the number it counted
    awaits ago is one more or one less than the number on the listing (`CommitIsAbstract`).
* `OrderViewProofs`: `Typing`, `ProgressHasNoGaps`, `VerificationIsEarned`, `SchedulesStayOrdered`,
  `OffersAreAccepted`. The history of an order that no two handlers changed at once is a path of the transition
  table ending in its status (`Closed`, `Within`), its outcome says on which side of the payout it was
  refunded (`Ended`), and the one handler working on it read it as it is (`Informed`).
  `OffersAreAccepted` has an invariant of its own (`Unmasked`): only the latest issue is open; and so
  has `SchedulesStayOrdered` (`Scheduled`): unless the order is in `clashed`, at most one request for its
  schedule is under way, and what it is about to write is in order with what is there.
* `InboxProofs`: `Typing`, `ToldOnce`, `PushesReachOwners`, `ValidDevicesStay`. A showing is owed to the one
  announcement whose upsert inserted the note, so what was shown and what is still due of a cell
  never exceed the insertions (`Told`). `ValidDevicesStay` (`ValidStay`) needs that the answers a push
  holds are those for the batch it is at, position by position (`Answered`, `Right`): a token that was
  invalid when it was sent to is invalid ever after, so what is struck is.
  The same module has the proofs about `Notifications`, an instance of which (`N`) it takes:
  * `EndsAreTold` (`EndIsTold`): whoever ends an order has announced its end to both parties,
    and what is announced, being made or made is never forgotten (`Known`).
  * `WatchersAreTold` (`WatchersKnow`). A listing that changed hands as announced is free, or
    with the one order it names, whose status and issue fit the status of the listing
    (`Regular`); of two announcements to the watchers one is delivered before the other is made,
    so what is on its way agrees with the listing (`Agree`), and whoever has nothing on its way
    was told how it is (`Arrived`). That the delivery on its way is shown, and not taken for one
    they have, needs that an event key is never used twice: what was announced under a key is so
    for good, and was not so before (`Past`, `Once`).
  * Both assume what `Notifications` assumes of its constants (`Distinct`) and that what they
    are about is followed (`EndsFollowed`, `DeletionsFollowed`), as it is in the run
    `notifications`.

Every safety property a run checks, invariant or action property, is stated by a theorem. Only
model-checked: the liveness properties (`CaptureSettles`, `UnpaidIsRelisted`, `StaleEnds`), out of reach of
the prover.

## Not modelled

* Reads: feeds, searches, profiles, dashboards, lists of cards and notifications. They change nothing,
  and what they show is state of the modules above. The cache is where a read has a history.
* Profile edits but for the e-mail address (`SignIn`), photos, postal addresses, `missedCollections`, administrators' passwords and tokens: no other handler relies on them.
* AI suggestions (`ai/`), images, mail templates, routing, validation, rate limits: calls to third-party
  libraries, layout and wording.
* Amounts other than "the price" and "the seller's share"; prices are data to every handler.
* Liveness of fulfilment, standing and the inbox: the code promises none.
