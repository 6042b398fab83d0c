----------------------------- MODULE StripeAccounts -----------------------------
(***************************************************************************)
(* What the application keeps of its users at Stripe, beside the penalties *)
(* of AccountStanding: a connected account to be paid through, a customer, *)
(* and the customer's cards.                                               *)
(*                                                                         *)
(*   onboardingLink        StartOnboarding .. CreateLink                   *)
(*   getOrCreateCustomerId, createSetupIntent                              *)
(*                         StartSetup .. CreateSetup                       *)
(*   deletePaymentMethod   StartDelete .. Detach                           *)
(*                                                                         *)
(* Both accounts are made the same way: made at Stripe under an            *)
(* idempotency key of the user, recorded by a compare-and-set, and read    *)
(* again by whoever comes second.  Stripe remembers a key for a day        *)
(* (Forget), so two calls far enough apart make two accounts.              *)
(***************************************************************************)
EXTENDS AccountStanding, FiniteSets

CONSTANTS
  Ids,  \* accounts Stripe makes, connected ones and customers
  Cards \* payment methods

ASSUME IdsAssumption == None \notin Ids \cup Cards

VARIABLES
  connect,  \* stripeAccountId of each user
  customer, \* stripeCustomerId of each user
  owner,    \* metadata.appUserId of each account; unset until it is made
  keyed,    \* the account Stripe gives for a user's key, for each kind
  ready,    \* connected accounts whose onboarding was completed
  links,    \* history: onboarding links given: <<user, account>>
  setups,   \* setup intents given: <<user, customer>>
  card,     \* the customer a card is attached to
  saver,    \* history: the user who saved each card
  mine,     \* of the handler in each slot: the account it goes on with,
  what      \*   and the card

profile == <<connect, customer>>
stripe == <<owner, keyed, ready, card>>
given == <<links, setups, saver>>
local == <<mine, what>>
vars == <<standing, faults, at, on, profile, stripe, given, local>>

Kinds == {"connect", "customer"}
Steps ==
  {"idle"} \cup PenaltySteps \cup
  {"createAccount", "recordAccount", "rereadAccount", "createLink"} \cup
  {"createCustomer", "recordCustomer", "rereadCustomer", "createSetup"} \cup
  {"retrieve", "detach"}

\* The fields are unset in a new document.
Init ==
  /\ StandingInit
  /\ connect = [u \in Users |-> None]
  /\ customer = [u \in Users |-> None]
  /\ owner = [i \in Ids |-> None]
  /\ keyed = [k \in Kinds |-> [u \in Users |-> None]]
  /\ ready = {}
  /\ links = {}
  /\ setups = {}
  /\ card = [c \in Cards |-> None]
  /\ saver = [c \in Cards |-> None]
  /\ mine = [r \in Requests |-> None]
  /\ what = [r \in Requests |-> None]

-----------------------------------------------------------------------------

Go(r, step, u, i, c) ==
  /\ Enter(r, step, u)
  /\ mine' = [mine EXCEPT ![r] = i]
  /\ what' = [what EXCEPT ![r] = c]
Return(r) == Go(r, "idle", None, None, None)

\* A call under an idempotency key gives what the key gave before, if Stripe still
\* knows it, and makes an account otherwise.
MakeAt(r, kind, next, i) ==
  LET u == on[r] IN
  /\ IF keyed[kind][u] # None
     THEN i = keyed[kind][u] /\ UNCHANGED <<owner, keyed>>
     ELSE /\ owner[i] = None
          /\ owner' = [owner EXCEPT ![i] = u]
          /\ keyed' = [keyed EXCEPT ![kind][u] = i]
  /\ Go(r, next, u, i, None)

-----------------------------------------------------------------------------
(* onboardingLink *)

StartOnboarding(r, u) ==
  /\ At(r, "idle")
  /\ status[u] = "active"
  /\ Go(r, IF connect[u] # None THEN "createLink" ELSE "createAccount", u, connect[u], None)
  /\ UNCHANGED <<standing, faults, profile, stripe, given>>

CreateAccount(r, i) ==
  /\ At(r, "createAccount")
  /\ MakeAt(r, "connect", "recordAccount", i)
  /\ UNCHANGED <<standing, faults, profile, ready, card, given>>

\* Mutant: the account is recorded over the one another request recorded.
RecordAccountOver(r) ==
  LET u == on[r] IN
  /\ At(r, "recordAccount")
  /\ IF status[u] = "active"
     THEN /\ connect' = [connect EXCEPT ![u] = mine[r]]
          /\ Go(r, "createLink", u, mine[r], None)
     ELSE Go(r, "rereadAccount", u, None, None) /\ UNCHANGED connect
  /\ UNCHANGED <<standing, faults, customer, stripe, given>>

\* Recorded if the user is still active and has none.
RecordAccount(r) ==
  LET u == on[r] IN
  /\ At(r, "recordAccount")
  /\ IF status[u] = "active" /\ connect[u] = None
     THEN /\ connect' = [connect EXCEPT ![u] = mine[r]]
          /\ Go(r, "createLink", u, mine[r], None)
     ELSE Go(r, "rereadAccount", u, None, None) /\ UNCHANGED connect
  /\ UNCHANGED <<standing, faults, customer, stripe, given>>

\* Otherwise the one recorded is used; there may be none, and the call fails.
RereadAccount(r) ==
  LET u == on[r] IN
  /\ At(r, "rereadAccount")
  /\ IF status[u] = "active" /\ connect[u] # None
     THEN Go(r, "createLink", u, connect[u], None)
     ELSE Return(r)
  /\ UNCHANGED <<standing, faults, profile, stripe, given>>

CreateLink(r) ==
  /\ At(r, "createLink")
  /\ links' = links \cup {<<on[r], mine[r]>>}
  /\ Return(r)
  /\ UNCHANGED <<standing, faults, profile, stripe, setups, saver>>

\* accountStatus and assertPayoutReady, which a listing depends on.
PayoutReady(u) == status[u] = "active" /\ connect[u] \in ready

-----------------------------------------------------------------------------
(* getOrCreateCustomerId, for a setup intent *)

StartSetup(r, u) ==
  /\ At(r, "idle")
  /\ status[u] = "active"
  /\ Go(r, IF customer[u] # None THEN "createSetup" ELSE "createCustomer", u, customer[u], None)
  /\ UNCHANGED <<standing, faults, profile, stripe, given>>

CreateCustomer(r, i) ==
  /\ At(r, "createCustomer")
  /\ MakeAt(r, "customer", "recordCustomer", i)
  /\ UNCHANGED <<standing, faults, profile, ready, card, given>>

\* Mutant: whoever finds a customer recorded goes on with the one it made.
RecordCustomerMine(r) ==
  LET u == on[r] IN
  /\ At(r, "recordCustomer")
  /\ customer' = [customer EXCEPT ![u] = IF status[u] # "gone" /\ @ = None THEN mine[r] ELSE @]
  /\ Go(r, "createSetup", u, mine[r], None)
  /\ UNCHANGED <<standing, faults, connect, stripe, given>>

\* Here the status is not asked for again.
RecordCustomer(r) ==
  LET u == on[r] IN
  /\ At(r, "recordCustomer")
  /\ IF status[u] # "gone" /\ customer[u] = None
     THEN /\ customer' = [customer EXCEPT ![u] = mine[r]]
          /\ Go(r, "createSetup", u, mine[r], None)
     ELSE Go(r, "rereadCustomer", u, None, None) /\ UNCHANGED customer
  /\ UNCHANGED <<standing, faults, connect, stripe, given>>

RereadCustomer(r) ==
  LET u == on[r] IN
  /\ At(r, "rereadCustomer")
  /\ IF status[u] = "active" /\ customer[u] # None
     THEN Go(r, "createSetup", u, customer[u], None)
     ELSE Return(r)
  /\ UNCHANGED <<standing, faults, profile, stripe, given>>

CreateSetup(r) ==
  /\ At(r, "createSetup")
  /\ setups' = setups \cup {<<on[r], mine[r]>>}
  /\ Return(r)
  /\ UNCHANGED <<standing, faults, profile, stripe, links, saver>>

-----------------------------------------------------------------------------
(* deletePaymentMethod *)

StartDelete(r, u, c) ==
  /\ At(r, "idle")
  /\ status[u] = "active"
  /\ customer[u] # None
  /\ Go(r, "retrieve", u, customer[u], c)
  /\ UNCHANGED <<standing, faults, profile, stripe, given>>

\* Mutant: a card is detached whoever's it is.
RetrieveAny(r) ==
  /\ At(r, "retrieve")
  /\ Go(r, "detach", on[r], mine[r], what[r])
  /\ UNCHANGED <<standing, faults, profile, stripe, given>>

\* Only a card of this customer is found.
Retrieve(r) ==
  /\ At(r, "retrieve")
  /\ IF card[what[r]] = mine[r]
     THEN Go(r, "detach", on[r], mine[r], what[r])
     ELSE Return(r)
  /\ UNCHANGED <<standing, faults, profile, stripe, given>>

Detach(r) ==
  /\ At(r, "detach")
  /\ card' = [card EXCEPT ![what[r]] = None]
  /\ Return(r)
  /\ UNCHANGED <<standing, faults, profile, owner, keyed, ready, given>>

-----------------------------------------------------------------------------
(* Stripe, and what users do there *)

Forget(kind, u) ==
  /\ keyed[kind][u] # None
  /\ keyed' = [keyed EXCEPT ![kind][u] = None]
  /\ UNCHANGED <<standing, faults, at, on, profile, owner, ready, card, given, local>>

Complete(u, i) ==
  /\ <<u, i>> \in links
  /\ ready' = ready \cup {i}
  /\ UNCHANGED <<standing, faults, at, on, profile, owner, keyed, card, given, local>>

\* A card is attached once: a detached one cannot be used again.
SaveCard(u, i, c) ==
  /\ <<u, i>> \in setups
  /\ saver[c] = None
  /\ saver' = [saver EXCEPT ![c] = u]
  /\ card' = [card EXCEPT ![c] = i]
  /\ UNCHANGED <<standing, faults, at, on, profile, owner, keyed, ready, links, setups, local>>

Penalty(r) ==
  /\ Penalties(r)
  /\ UNCHANGED <<profile, stripe, given, local>>
Stop(r) ==
  /\ Abort(r)
  /\ mine' = [mine EXCEPT ![r] = None]
  /\ what' = [what EXCEPT ![r] = None]
  /\ UNCHANGED <<profile, stripe, given>>
Departure(u) == Leave(u) /\ UNCHANGED <<profile, stripe, given, local>>

Handlers(r) ==
  \/ Penalty(r)
  \/ \E u \in Users : StartOnboarding(r, u) \/ StartSetup(r, u)
                      \/ \E c \in Cards : StartDelete(r, u, c)
  \/ \E i \in Ids : CreateAccount(r, i) \/ CreateCustomer(r, i)
  \/ RecordAccount(r) \/ RereadAccount(r) \/ CreateLink(r)
  \/ RecordCustomer(r) \/ RereadCustomer(r) \/ CreateSetup(r)
  \/ Retrieve(r) \/ Detach(r)
  \/ Stop(r)

Next ==
  \/ \E r \in Requests : Handlers(r)
  \/ \E u \in Users : Departure(u) \/ \E kind \in Kinds : Forget(kind, u)
  \/ \E u \in Users, i \in Ids : Complete(u, i) \/ \E c \in Cards : SaveCard(u, i, c)

Spec == Init /\ [][Next]_vars

-----------------------------------------------------------------------------
(* Properties *)

\* Every variable has its type.
TypeOK ==
  /\ StandingTypes
  /\ at \in [Requests -> Steps]
  /\ connect \in [Users -> Ids \cup {None}]
  /\ customer \in [Users -> Ids \cup {None}]
  /\ owner \in [Ids -> Users \cup {None}]
  /\ keyed \in [Kinds -> [Users -> Ids \cup {None}]]
  /\ ready \subseteq Ids
  /\ links \subseteq Users \X Ids
  /\ setups \subseteq Users \X Ids
  /\ card \in [Cards -> Ids \cup {None}]
  /\ saver \in [Cards -> Users \cup {None}]
  /\ mine \in [Requests -> Ids \cup {None}]
  /\ what \in [Requests -> Cards \cup {None}]

\* Whoever completed the onboarding through any link they were given is found
\* ready to be paid, while their account is active: no link leads to an account
\* that was made by a request that lost the race to record its own.
OnboardedIsReady ==
  \A u \in Users, i \in ready : <<u, i>> \in links /\ status[u] = "active" => PayoutReady(u)

\* A card its saver did not delete is attached to the saver's customer, so it is
\* listed and can be paid with; nobody else's request removes it.
SavedCardsAreKept ==
  \A c \in Cards : saver[c] # None /\ card[c] # None => card[c] = customer[saver[c]]

\* A card is only ever detached by a request of the user who saved it.
OnlySaverDetaches ==
  [][\A c \in Cards : card[c] # None /\ card'[c] # card[c] =>
       \E r \in Requests : Detach(r) /\ on[r] = saver[c]]_vars

=============================================================================
