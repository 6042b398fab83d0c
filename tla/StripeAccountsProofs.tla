-------------------------- MODULE StripeAccountsProofs --------------------------
(***************************************************************************)
(* Proofs about AccountStanding and StripeAccounts, for every number of    *)
(* users, handlers, accounts and cards and all thresholds.                 *)
(***************************************************************************)
EXTENDS StripeAccounts, TLAPS

(* What a handler in flight holds. *)
Held ==
  \A r \in Requests :
    /\ at[r] # "idle" => on[r] \in Users
    /\ at[r] \in {"recordAccount", "createLink", "recordCustomer", "createSetup",
                  "retrieve", "detach"} => mine[r] \in Ids
    /\ at[r] \in {"retrieve", "detach"} => what[r] \in Cards

TypeInv == TypeOK /\ Held

(* The handlers' slots change in one of two ways, or not at all. *)
Slots ==
  /\ at \in [Requests -> Steps]
  /\ on \in [Requests -> Users \cup {None}]
  /\ mine \in [Requests -> Ids \cup {None}]
  /\ what \in [Requests -> Cards \cup {None}]
  /\ Held

LEMMA SlotsGo ==
  ASSUME Slots, NEW r \in Requests, NEW step \in Steps \ {"idle"}, NEW u \in Users,
         NEW i \in Ids \cup {None}, NEW c \in Cards \cup {None}, Go(r, step, u, i, c),
         step \in {"recordAccount", "createLink", "recordCustomer", "createSetup",
                   "retrieve", "detach"} => i \in Ids,
         step \in {"retrieve", "detach"} => c \in Cards
  PROVE  Slots'
  BY DEF Slots, Held, Go, Enter

LEMMA SlotsReturn ==
  ASSUME Slots, NEW r \in Requests, Return(r)
  PROVE  Slots'
  <1>1. "idle" \in Steps
    BY DEF Steps
  <1>2. QED
    BY <1>1 DEF Slots, Held, Return, Go, Enter

LEMMA SlotsSame == Slots /\ UNCHANGED <<at, on, local>> => Slots'
  BY DEF Slots, Held, local

LEMMA TypeSlots == TypeInv => Slots
  BY DEF TypeInv, TypeOK, StandingTypes, Slots

LEMMA TypeInit == Init => TypeInv
  BY ThresholdAssumption, OffencesAssumption
     DEF Init, StandingInit, TypeInv, TypeOK, StandingTypes, Held, Steps, Statuses, Kinds

(* The types of everything but the slots. *)
Standings ==
  /\ status \in [Users -> Statuses]
  /\ strikes \in [Users -> 0 .. MaxOffences]
  /\ rejections \in [Users -> 0 .. MaxOffences]
  /\ overtaken \subseteq convicted /\ convicted \subseteq Users
  /\ cut \subseteq Users
  /\ faults \in 0 .. MaxFaults
Profiles ==
  /\ connect \in [Users -> Ids \cup {None}]
  /\ customer \in [Users -> Ids \cup {None}]
  /\ owner \in [Ids -> Users \cup {None}]
  /\ keyed \in [Kinds -> [Users -> Ids \cup {None}]]
  /\ ready \subseteq Ids
  /\ links \subseteq Users \X Ids
  /\ setups \subseteq Users \X Ids
  /\ card \in [Cards -> Ids \cup {None}]
  /\ saver \in [Cards -> Users \cup {None}]

LEMMA TypeParts == TypeInv <=> Slots /\ Standings /\ Profiles
  BY DEF TypeInv, TypeOK, StandingTypes, Slots, Standings, Profiles

LEMMA StandingsSame == Standings /\ UNCHANGED <<standing, faults>> => Standings'
  BY DEF Standings, standing, offences

LEMMA ProfilesSame == Profiles /\ UNCHANGED <<profile, stripe, given>> => Profiles'
  BY DEF Profiles, profile, stripe, given

LEMMA PenaltyTypes ==
  ASSUME Slots, Standings, Profiles, NEW r \in Requests, Penalty(r) \/ Stop(r)
  PROVE  Slots' /\ Standings' /\ Profiles'
  <1>a. "suspended" \in Statuses /\ "restricted" \in Statuses /\ "gone" \in Statuses
    BY DEF Statuses
  <1>b. PenaltySteps \subseteq Steps /\ "idle" \in Steps /\ "idle" \notin PenaltySteps
    BY DEF Steps, PenaltySteps
  <1>0. Profiles'
    BY ProfilesSame DEF Penalty, Stop
  <1>1. ASSUME NEW u \in Users, NEW counterfeit \in BOOLEAN, Offence(r, u, counterfeit),
               UNCHANGED local
        PROVE  Slots' /\ Standings'
    <2>1. Slots'
      BY <1>1, <1>b DEF Offence, Slots, Held, Enter, local, PenaltySteps
    <2>2. strikes' \in [Users -> 0 .. MaxOffences]
      BY <1>1, OffencesAssumption DEF Offence, Standings
    <2>3. /\ status' \in [Users -> Statuses]
          /\ overtaken' \subseteq convicted' /\ convicted' \subseteq Users
      BY <1>1, <1>a DEF Offence, Convict, Standings
    <2>4. Standings'
      BY <1>1, <2>2, <2>3 DEF Offence, Standings
    <2>5. QED
      BY <2>1, <2>4
  <1>2. ASSUME NEW u \in Users, Rejection(r, u), UNCHANGED local
        PROVE  Slots' /\ Standings'
    <2>1. Slots'
      BY <1>2, <1>b DEF Rejection, Slots, Held, Enter, local, PenaltySteps
    <2>2. rejections' \in [Users -> 0 .. MaxOffences]
      BY <1>2, OffencesAssumption DEF Rejection, Standings
    <2>3. Standings'
      BY <1>2, <2>2 DEF Rejection, Standings
    <2>4. QED
      BY <2>1, <2>3
  <1>3. ASSUME Suspend(r) \/ Restrict(r), UNCHANGED local
        PROVE  Slots' /\ Standings'
    <2>1. Slots'
      BY <1>3, <1>b DEF Suspend, Restrict, Slots, Held, Leaves, Enter, local
    <2>2. status' \in [Users -> Statuses]
      BY <1>3, <1>a DEF Suspend, Restrict, Overwrite, Standings
    <2>3. Standings'
      BY <1>3, <2>2 DEF Suspend, Restrict, Standings, offences
    <2>4. QED
      BY <2>1, <2>3
  <1>4. ASSUME Stop(r)
        PROVE  Slots' /\ Standings'
    <2>1. Slots'
      BY <1>4, <1>b DEF Stop, Abort, Leaves, Enter, Slots, Held
    <2>2. cut' \subseteq Users /\ faults' \in 0 .. MaxFaults
      BY <1>4, OffencesAssumption DEF Stop, Abort, At, Standings, Slots, Held
    <2>3. Standings'
      BY <1>4, <2>2 DEF Stop, Abort, Standings, offences
    <2>4. QED
      BY <2>1, <2>3
  <1>5. QED
    BY <1>0, <1>1, <1>2, <1>3, <1>4 DEF Penalty, Penalties

LEMMA MakeTypes ==
  ASSUME Slots, Profiles, NEW r \in Requests, NEW i \in Ids, NEW kind \in Kinds,
         NEW next \in {"recordAccount", "recordCustomer"}, MakeAt(r, kind, next, i),
         at[r] # "idle", UNCHANGED <<ready, card, profile, given>>
  PROVE  Slots' /\ Profiles'
  <1>1. on[r] \in Users
    BY DEF Slots, Held
  <1>2. next \in Steps \ {"idle"}
    BY DEF Steps
  <1>3. Slots'
    BY <1>1, <1>2, SlotsGo DEF MakeAt
  <1>4. owner' \in [Ids -> Users \cup {None}] /\ keyed' \in [Kinds -> [Users -> Ids \cup {None}]]
    BY <1>1 DEF MakeAt, Profiles
  <1>5. Profiles'
    BY <1>4 DEF Profiles, profile, given
  <1>6. QED
    BY <1>3, <1>5

LEMMA AccountTypes ==
  ASSUME Slots, Standings, Profiles, NEW r \in Requests,
         \/ \E u \in Users : StartOnboarding(r, u)
         \/ \E i \in Ids : CreateAccount(r, i)
         \/ RecordAccount(r) \/ RereadAccount(r) \/ CreateLink(r)
  PROVE  Slots' /\ Standings' /\ Profiles'
  <1>a. {"createAccount", "recordAccount", "rereadAccount", "createLink"} \subseteq Steps \ {"idle"}
    BY DEF Steps
  <1>b. "connect" \in Kinds
    BY DEF Kinds
  <1>1. Standings'
    BY StandingsSame DEF StartOnboarding, CreateAccount, RecordAccount, RereadAccount, CreateLink
  <1>2. ASSUME NEW u \in Users, StartOnboarding(r, u)
        PROVE  Slots' /\ Profiles'
    <2>1. connect[u] \in Ids \cup {None} /\ None \in Cards \cup {None}
      BY DEF Profiles
    <2>2. CASE connect[u] # None
      <3>1. Go(r, "createLink", u, connect[u], None)
        BY <1>2, <2>2 DEF StartOnboarding
      <3>2. Slots'
        BY <1>a, <2>1, <2>2, <3>1, SlotsGo
      <3>3. QED
        BY <1>2, <3>2, ProfilesSame DEF StartOnboarding
    <2>3. CASE connect[u] = None
      <3>1. Go(r, "createAccount", u, None, None)
        BY <1>2, <2>3 DEF StartOnboarding
      <3>2. Slots'
        BY <1>a, <2>1, <3>1, SlotsGo
      <3>3. QED
        BY <1>2, <3>2, ProfilesSame DEF StartOnboarding
    <2>4. QED
      BY <2>2, <2>3
  <1>3. ASSUME NEW i \in Ids, CreateAccount(r, i)
        PROVE  Slots' /\ Profiles'
    BY <1>b, <1>3, MakeTypes DEF CreateAccount, At
  <1>4. CASE RecordAccount(r)
    <2>1. on[r] \in Users /\ mine[r] \in Ids
      BY <1>4 DEF RecordAccount, At, Slots, Held
    <2>2. /\ UNCHANGED <<customer, stripe, given>>
          /\ \/ connect' = connect
             \/ connect' = [connect EXCEPT ![on[r]] = mine[r]]
      BY <1>4 DEF RecordAccount
    <2>3. connect' \in [Users -> Ids \cup {None}]
      BY <2>1, <2>2 DEF Profiles
    <2>4. Profiles'
      BY <2>2, <2>3 DEF Profiles, stripe, given
    <2>5. Slots'
      <3>1. CASE status[on[r]] = "active" /\ connect[on[r]] = None
        <4>1. Go(r, "createLink", on[r], mine[r], None)
          BY <1>4, <3>1 DEF RecordAccount
        <4>2. QED
          BY <1>a, <2>1, <4>1, SlotsGo
      <3>2. CASE ~(status[on[r]] = "active" /\ connect[on[r]] = None)
        <4>1. Go(r, "rereadAccount", on[r], None, None)
          BY <1>4, <3>2 DEF RecordAccount
        <4>2. QED
          BY <1>a, <2>1, <4>1, SlotsGo
      <3>3. QED
        BY <3>1, <3>2
    <2>6. QED
      BY <1>1, <2>4, <2>5
  <1>5. CASE RereadAccount(r)
    <2>1. on[r] \in Users /\ connect[on[r]] \in Ids \cup {None}
      BY <1>5 DEF RereadAccount, At, Slots, Held, Profiles
    <2>2. Slots'
      <3>1. CASE status[on[r]] = "active" /\ connect[on[r]] # None
        <4>1. Go(r, "createLink", on[r], connect[on[r]], None)
          BY <1>5, <3>1 DEF RereadAccount
        <4>2. QED
          BY <1>a, <2>1, <3>1, <4>1, SlotsGo
      <3>2. CASE ~(status[on[r]] = "active" /\ connect[on[r]] # None)
        <4>1. Return(r)
          BY <1>5, <3>2 DEF RereadAccount
        <4>2. QED
          BY <4>1, SlotsReturn
      <3>3. QED
        BY <3>1, <3>2
    <2>3. QED
      BY <1>1, <1>5, <2>2, ProfilesSame DEF RereadAccount
  <1>6. CASE CreateLink(r)
    <2>a. on[r] \in Users /\ mine[r] \in Ids
      BY <1>6 DEF CreateLink, At, Slots, Held
    <2>1. links' \subseteq Users \X Ids
      BY <1>6, <2>a DEF CreateLink, Profiles
    <2>2. Profiles'
      BY <1>6, <2>1 DEF CreateLink, Profiles, profile, stripe
    <2>3. QED
      BY <1>1, <1>6, <2>2, SlotsReturn DEF CreateLink
  <1>7. QED
    BY <1>1, <1>2, <1>3, <1>4, <1>5, <1>6

LEMMA CustomerTypes ==
  ASSUME Slots, Standings, Profiles, NEW r \in Requests,
         \/ \E u \in Users : StartSetup(r, u)
         \/ \E i \in Ids : CreateCustomer(r, i)
         \/ RecordCustomer(r) \/ RereadCustomer(r) \/ CreateSetup(r)
  PROVE  Slots' /\ Standings' /\ Profiles'
  <1>a. {"createCustomer", "recordCustomer", "rereadCustomer", "createSetup"} \subseteq Steps \ {"idle"}
    BY DEF Steps
  <1>b. "customer" \in Kinds
    BY DEF Kinds
  <1>1. Standings'
    BY StandingsSame DEF StartSetup, CreateCustomer, RecordCustomer, RereadCustomer, CreateSetup
  <1>2. ASSUME NEW u \in Users, StartSetup(r, u)
        PROVE  Slots' /\ Profiles'
    <2>1. customer[u] \in Ids \cup {None} /\ None \in Cards \cup {None}
      BY DEF Profiles
    <2>2. CASE customer[u] # None
      <3>1. Go(r, "createSetup", u, customer[u], None)
        BY <1>2, <2>2 DEF StartSetup
      <3>2. Slots'
        BY <1>a, <2>1, <2>2, <3>1, SlotsGo
      <3>3. QED
        BY <1>2, <3>2, ProfilesSame DEF StartSetup
    <2>3. CASE customer[u] = None
      <3>1. Go(r, "createCustomer", u, None, None)
        BY <1>2, <2>3 DEF StartSetup
      <3>2. Slots'
        BY <1>a, <2>1, <3>1, SlotsGo
      <3>3. QED
        BY <1>2, <3>2, ProfilesSame DEF StartSetup
    <2>4. QED
      BY <2>2, <2>3
  <1>3. ASSUME NEW i \in Ids, CreateCustomer(r, i)
        PROVE  Slots' /\ Profiles'
    BY <1>b, <1>3, MakeTypes DEF CreateCustomer, At
  <1>4. CASE RecordCustomer(r)
    <2>1. on[r] \in Users /\ mine[r] \in Ids
      BY <1>4 DEF RecordCustomer, At, Slots, Held
    <2>2. /\ UNCHANGED <<connect, stripe, given>>
          /\ \/ customer' = customer
             \/ customer' = [customer EXCEPT ![on[r]] = mine[r]]
      BY <1>4 DEF RecordCustomer
    <2>3. customer' \in [Users -> Ids \cup {None}]
      BY <2>1, <2>2 DEF Profiles
    <2>4. Profiles'
      BY <2>2, <2>3 DEF Profiles, stripe, given
    <2>5. Slots'
      <3>1. CASE status[on[r]] # "gone" /\ customer[on[r]] = None
        <4>1. Go(r, "createSetup", on[r], mine[r], None)
          BY <1>4, <3>1 DEF RecordCustomer
        <4>2. QED
          BY <1>a, <2>1, <4>1, SlotsGo
      <3>2. CASE ~(status[on[r]] # "gone" /\ customer[on[r]] = None)
        <4>1. Go(r, "rereadCustomer", on[r], None, None)
          BY <1>4, <3>2 DEF RecordCustomer
        <4>2. QED
          BY <1>a, <2>1, <4>1, SlotsGo
      <3>3. QED
        BY <3>1, <3>2
    <2>6. QED
      BY <1>1, <2>4, <2>5
  <1>5. CASE RereadCustomer(r)
    <2>1. on[r] \in Users /\ customer[on[r]] \in Ids \cup {None}
      BY <1>5 DEF RereadCustomer, At, Slots, Held, Profiles
    <2>2. Slots'
      <3>1. CASE status[on[r]] = "active" /\ customer[on[r]] # None
        <4>1. Go(r, "createSetup", on[r], customer[on[r]], None)
          BY <1>5, <3>1 DEF RereadCustomer
        <4>2. QED
          BY <1>a, <2>1, <3>1, <4>1, SlotsGo
      <3>2. CASE ~(status[on[r]] = "active" /\ customer[on[r]] # None)
        <4>1. Return(r)
          BY <1>5, <3>2 DEF RereadCustomer
        <4>2. QED
          BY <4>1, SlotsReturn
      <3>3. QED
        BY <3>1, <3>2
    <2>3. QED
      BY <1>1, <1>5, <2>2, ProfilesSame DEF RereadCustomer
  <1>6. CASE CreateSetup(r)
    <2>a. on[r] \in Users /\ mine[r] \in Ids
      BY <1>6 DEF CreateSetup, At, Slots, Held
    <2>1. setups' \subseteq Users \X Ids
      BY <1>6, <2>a DEF CreateSetup, Profiles
    <2>2. Profiles'
      BY <1>6, <2>1 DEF CreateSetup, Profiles, profile, stripe
    <2>3. QED
      BY <1>1, <1>6, <2>2, SlotsReturn DEF CreateSetup
  <1>7. QED
    BY <1>1, <1>2, <1>3, <1>4, <1>5, <1>6

LEMMA CardTypes ==
  ASSUME Slots, Standings, Profiles, NEW r \in Requests,
         \/ \E u \in Users, c \in Cards : StartDelete(r, u, c)
         \/ Retrieve(r) \/ Detach(r)
  PROVE  Slots' /\ Standings' /\ Profiles'
  <1>a. {"retrieve", "detach"} \subseteq Steps \ {"idle"}
    BY DEF Steps
  <1>1. Standings'
    BY StandingsSame DEF StartDelete, Retrieve, Detach
  <1>2. ASSUME NEW u \in Users, NEW c \in Cards, StartDelete(r, u, c)
        PROVE  Slots' /\ Profiles'
    <2>1. customer[u] \in Ids
      BY <1>2 DEF StartDelete, Profiles
    <2>2. Slots'
      <3>1. Go(r, "retrieve", u, customer[u], c)
        BY <1>2 DEF StartDelete
      <3>2. QED
        BY <1>a, <2>1, <3>1, SlotsGo
    <2>3. QED
      BY <1>2, <2>2, ProfilesSame DEF StartDelete
  <1>3. CASE Retrieve(r)
    <2>1. on[r] \in Users /\ mine[r] \in Ids /\ what[r] \in Cards
      BY <1>3 DEF Retrieve, At, Slots, Held
    <2>2. Slots'
      <3>1. CASE card[what[r]] = mine[r]
        <4>1. Go(r, "detach", on[r], mine[r], what[r])
          BY <1>3, <3>1 DEF Retrieve
        <4>2. QED
          BY <1>a, <2>1, <4>1, SlotsGo
      <3>2. CASE card[what[r]] # mine[r]
        BY <1>3, <3>2, SlotsReturn DEF Retrieve
      <3>3. QED
        BY <3>1, <3>2
    <2>3. QED
      BY <1>1, <1>3, <2>2, ProfilesSame DEF Retrieve
  <1>4. CASE Detach(r)
    <2>1. card' \in [Cards -> Ids \cup {None}]
      BY <1>4 DEF Detach, Profiles
    <2>2. Profiles'
      BY <1>4, <2>1 DEF Detach, Profiles, profile, given
    <2>3. QED
      BY <1>1, <1>4, <2>2, SlotsReturn DEF Detach
  <1>5. QED
    BY <1>1, <1>2, <1>3, <1>4

LEMMA StripeTypes ==
  ASSUME Slots, Standings, Profiles,
         \/ \E u \in Users : Departure(u) \/ \E kind \in Kinds : Forget(kind, u)
         \/ \E u \in Users, i \in Ids : Complete(u, i) \/ \E c \in Cards : SaveCard(u, i, c)
         \/ UNCHANGED vars
  PROVE  Slots' /\ Standings' /\ Profiles'
  <1>1. Slots'
    BY SlotsSame DEF Departure, Leave, Forget, Complete, SaveCard, vars
  <1>2. ASSUME NEW u \in Users, Departure(u)
        PROVE  Standings' /\ Profiles'
    <2>1. status' \in [Users -> Statuses]
      BY <1>2 DEF Departure, Leave, Standings, Statuses
    <2>2. Standings'
      BY <1>2, <2>1 DEF Departure, Leave, Standings, offences
    <2>3. QED
      BY <1>2, <2>2, ProfilesSame DEF Departure
  <1>3. ASSUME NEW u \in Users, NEW kind \in Kinds, Forget(kind, u)
        PROVE  Standings' /\ Profiles'
    <2>1. keyed' \in [Kinds -> [Users -> Ids \cup {None}]]
      BY <1>3 DEF Forget, Profiles
    <2>2. QED
      BY <1>3, <2>1, StandingsSame DEF Forget, Profiles, profile, given
  <1>4. ASSUME NEW u \in Users, NEW i \in Ids, Complete(u, i)
        PROVE  Standings' /\ Profiles'
    <2>1. Standings'
      BY <1>4, StandingsSame DEF Complete
    <2>2. i \in Ids /\ ready' = ready \cup {i} /\ UNCHANGED <<profile, owner, keyed, card, given>>
      BY <1>4 DEF Complete
    <2>3. QED
      BY <2>1, <2>2 DEF Profiles, profile, given
  <1>5. ASSUME NEW u \in Users, NEW i \in Ids, NEW c \in Cards, SaveCard(u, i, c)
        PROVE  Standings' /\ Profiles'
    BY <1>5, StandingsSame DEF SaveCard, Profiles, profile
  <1>6. CASE UNCHANGED vars
    BY <1>1, <1>6, StandingsSame, ProfilesSame DEF vars
  <1>7. QED
    BY <1>1, <1>2, <1>3, <1>4, <1>5, <1>6

LEMMA TypeStep == TypeInv /\ [Next]_vars => TypeInv'
  <1> SUFFICES ASSUME Slots, Standings, Profiles, [Next]_vars
               PROVE  Slots' /\ Standings' /\ Profiles'
    BY TypeParts, PTL
  <1>1. ASSUME NEW r \in Requests, Handlers(r)
        PROVE  Slots' /\ Standings' /\ Profiles'
    BY <1>1, PenaltyTypes, AccountTypes, CustomerTypes, CardTypes DEF Handlers
  <1>2. QED
    BY <1>1, StripeTypes DEF Next

\* Every variable has its type.
THEOREM Typing == Spec => []TypeOK
  <1>1. TypeInv => TypeOK
    BY DEF TypeInv
  <1>2. QED
    BY <1>1, TypeInit, TypeStep, PTL DEF Spec

-----------------------------------------------------------------------------
(* Penalties.  A user at a threshold is no longer active, or about not to  *)
(* be, and a restriction under way is of a user who was not convicted yet. *)

StandingInv ==
  /\ ThresholdActs
  /\ CounterfeitSuspends
  /\ \A r \in Requests : at[r] = "restrict" => on[r] \notin convicted \ overtaken

LEMMA StandingStart == Init => StandingInv
  BY ThresholdAssumption
     DEF Init, StandingInit, StandingInv, ThresholdActs, CounterfeitSuspends

(* The steps that are not about penalties. *)
Beside ==
  /\ UNCHANGED standing
  /\ \A r \in Requests :
       \/ at'[r] = at[r] /\ on'[r] = on[r]
       \/ at[r] \notin PenaltySteps /\ at'[r] \notin PenaltySteps

LEMMA StandingBeside == StandingInv /\ Beside => StandingInv'
  <1> SUFFICES ASSUME StandingInv, Beside
               PROVE  StandingInv'
    OBVIOUS
  <1>1. UNCHANGED <<status, strikes, rejections, convicted, overtaken, cut>>
    BY DEF Beside, standing, offences
  <1>2. \A u \in Users : Punishing(u) => Punishing(u)'
    BY DEF Beside, Punishing
  <1>3. ThresholdActs'
    BY <1>1, <1>2 DEF StandingInv, ThresholdActs
  <1>4. CounterfeitSuspends'
    BY <1>1 DEF StandingInv, CounterfeitSuspends
  <1>5. \A r \in Requests : at'[r] = "restrict" => on'[r] \notin convicted' \ overtaken'
    BY <1>1 DEF StandingInv, Beside, PenaltySteps
  <1>6. QED
    BY <1>3, <1>4, <1>5 DEF StandingInv

LEMMA BesideGo ==
  ASSUME Slots, NEW r \in Requests, at[r] \notin PenaltySteps,
         NEW step \in Steps \ PenaltySteps, NEW u, NEW i, NEW c, Go(r, step, u, i, c),
         UNCHANGED standing
  PROVE  Beside
  BY DEF Go, Enter, Beside, Slots

LEMMA BesideHandlers ==
  ASSUME Slots, NEW r \in Requests, Handlers(r), ~Penalty(r), ~Stop(r)
  PROVE  Beside
  <1>a. /\ {"idle", "createAccount", "recordAccount", "rereadAccount", "createLink"}
             \subseteq Steps \ PenaltySteps
        /\ {"createCustomer", "recordCustomer", "rereadCustomer", "createSetup"}
             \subseteq Steps \ PenaltySteps
        /\ {"retrieve", "detach"} \subseteq Steps \ PenaltySteps
    BY DEF Steps, PenaltySteps
  <1>1. UNCHANGED standing
    BY DEF Handlers, StartOnboarding, CreateAccount, RecordAccount, RereadAccount, CreateLink,
       StartSetup, CreateCustomer, RecordCustomer, RereadCustomer, CreateSetup,
       StartDelete, Retrieve, Detach
  <1>2. at[r] \notin PenaltySteps
    BY DEF Handlers, StartOnboarding, CreateAccount, RecordAccount, RereadAccount, CreateLink,
       StartSetup, CreateCustomer, RecordCustomer, RereadCustomer, CreateSetup,
       StartDelete, Retrieve, Detach, At, PenaltySteps
  <1>3. \E step \in Steps \ PenaltySteps : \E u, i, c : Go(r, step, u, i, c)
    <2>1. ASSUME NEW u \in Users,
                 StartOnboarding(r, u) \/ StartSetup(r, u) \/ \E c \in Cards : StartDelete(r, u, c)
          PROVE  \E step \in Steps \ PenaltySteps : \E v, i, c : Go(r, step, v, i, c)
      BY <1>a, <2>1 DEF StartOnboarding, StartSetup, StartDelete
    <2>2. ASSUME NEW i \in Ids, CreateAccount(r, i) \/ CreateCustomer(r, i)
          PROVE  \E step \in Steps \ PenaltySteps : \E u, j, c : Go(r, step, u, j, c)
      BY <1>a, <2>2 DEF CreateAccount, CreateCustomer, MakeAt
    <2>3. ASSUME RecordAccount(r) \/ RereadAccount(r) \/ CreateLink(r)
          PROVE  \E step \in Steps \ PenaltySteps : \E u, j, c : Go(r, step, u, j, c)
      BY <1>a, <2>3 DEF RecordAccount, RereadAccount, CreateLink, Return
    <2>4. ASSUME RecordCustomer(r) \/ RereadCustomer(r) \/ CreateSetup(r)
          PROVE  \E step \in Steps \ PenaltySteps : \E u, j, c : Go(r, step, u, j, c)
      BY <1>a, <2>4 DEF RecordCustomer, RereadCustomer, CreateSetup, Return
    <2>5. ASSUME Retrieve(r) \/ Detach(r)
          PROVE  \E step \in Steps \ PenaltySteps : \E u, j, c : Go(r, step, u, j, c)
      BY <1>a, <2>5 DEF Retrieve, Detach, Return
    <2>6. QED
      BY <2>1, <2>2, <2>3, <2>4, <2>5 DEF Handlers
  <1>4. QED
    BY <1>1, <1>2, <1>3, BesideGo

LEMMA StandingPenalty ==
  ASSUME Slots, Standings, StandingInv, NEW r \in Requests, Penalty(r)
  PROVE  StandingInv'
  <1>1. ASSUME NEW u \in Users, NEW counterfeit \in BOOLEAN, Offence(r, u, counterfeit)
        PROVE  StandingInv'
    <2>1. /\ \A v \in Users : v # u => strikes'[v] = strikes[v] /\ status'[v] = status[v]
          /\ strikes'[u] = strikes[u] + 1
          /\ status'[u] = IF counterfeit THEN "suspended" ELSE status[u]
          /\ counterfeit \/ UNCHANGED <<convicted, overtaken>>
          /\ counterfeit => Convict(u)
          /\ rejections' = rejections /\ cut' = cut
      BY <1>1 DEF Offence, Standings
    <2>2. \A q \in Requests : at[q] \in PenaltySteps => at'[q] = at[q] /\ on'[q] = on[q]
      BY <1>1 DEF Offence, At, Enter, PenaltySteps, Slots
    <2>3. \A v \in Users : Punishing(v) => Punishing(v)'
      BY <2>2 DEF Punishing
    <2>4. /\ ~counterfeit /\ strikes[u] + 1 >= SellerThreshold /\ status[u] = "active"
          => Punishing(u)'
      BY <1>1 DEF Offence, Enter, Punishing, PenaltySteps, Slots
    <2>5. ThresholdActs'
      <3>1. ASSUME NEW v \in Users, v # u,
                   strikes'[v] >= SellerThreshold \/ rejections'[v] >= BuyerThreshold
            PROVE  status'[v] # "active" \/ Punishing(v)' \/ v \in cut'
        BY <2>1, <2>3, <3>1 DEF StandingInv, ThresholdActs
      <3>2. ASSUME strikes'[u] >= SellerThreshold \/ rejections'[u] >= BuyerThreshold
            PROVE  status'[u] # "active" \/ Punishing(u)' \/ u \in cut'
        <4>1. CASE counterfeit
          BY <2>1, <4>1
        <4>2. CASE ~counterfeit /\ strikes[u] + 1 >= SellerThreshold
          BY <2>1, <2>4, <4>2
        <4>3. CASE ~counterfeit /\ rejections[u] >= BuyerThreshold
          BY <2>1, <2>3, <4>3 DEF StandingInv, ThresholdActs
        <4>4. QED
          BY <2>1, <3>2, <4>1, <4>2, <4>3
      <3>3. QED
        BY <3>1, <3>2 DEF ThresholdActs
    <2>6. CounterfeitSuspends'
      <3>1. convicted \subseteq Users
        BY DEF Standings
      <3>2. ASSUME NEW v \in convicted'
            PROVE  \/ status'[v] \in {"suspended", "gone"}
                   \/ v \in overtaken' /\ status'[v] = "restricted"
        <4>1. CASE counterfeit /\ v = u
          BY <2>1, <4>1
        <4>2. CASE ~(counterfeit /\ v = u)
          <5>1. v \in convicted /\ (v \in overtaken => v \in overtaken')
            BY <2>1, <3>2, <4>2 DEF Convict
          <5>2. status'[v] = status[v]
            BY <2>1, <3>1, <4>2, <5>1
          <5>3. QED
            BY <5>1, <5>2 DEF StandingInv, CounterfeitSuspends
        <4>3. QED
          BY <4>1, <4>2
      <3>3. QED
        BY <3>2 DEF CounterfeitSuspends
    <2>7. ASSUME NEW q \in Requests, at'[q] = "restrict"
          PROVE  on'[q] \notin convicted' \ overtaken'
      <3>1. at[q] = "restrict" /\ on'[q] = on[q]
        BY <1>1, <2>7 DEF Offence, At, Enter, Slots
      <3>2. on[q] \notin convicted \ overtaken
        BY <3>1 DEF StandingInv
      <3>3. on[q] = u /\ counterfeit => u \in overtaken'
        BY <2>1, <3>1 DEF Convict, Restricting, At
      <3>4. QED
        BY <2>1, <3>1, <3>2, <3>3 DEF Convict
    <2>8. QED
      BY <2>1, <2>5, <2>6, <2>7 DEF StandingInv
  <1>2. ASSUME NEW u \in Users, Rejection(r, u)
        PROVE  StandingInv'
    <2>1. /\ \A v \in Users : v # u => rejections'[v] = rejections[v]
          /\ rejections'[u] = rejections[u] + 1
          /\ \A v \in Users : rejections[v] \in Nat
          /\ UNCHANGED <<status, strikes, convicted, overtaken, cut>>
      BY <1>2, OffencesAssumption DEF Rejection, Standings
    <2>2. \A q \in Requests : at[q] \in PenaltySteps => at'[q] = at[q] /\ on'[q] = on[q]
      BY <1>2 DEF Rejection, At, Enter, PenaltySteps, Slots
    <2>3. \A v \in Users : Punishing(v) => Punishing(v)'
      BY <2>2 DEF Punishing
    <2>4. rejections[u] + 1 >= BuyerThreshold /\ status[u] = "active" => Punishing(u)'
      BY <1>2 DEF Rejection, Enter, Punishing, PenaltySteps, Slots
    <2>5. ThresholdActs'
      <3>1. ASSUME NEW v \in Users,
                   strikes'[v] >= SellerThreshold \/ rejections'[v] >= BuyerThreshold
            PROVE  status'[v] # "active" \/ Punishing(v)' \/ v \in cut'
        <4>1. CASE v # u \/ strikes[v] >= SellerThreshold
          BY <2>1, <2>3, <3>1, <4>1 DEF StandingInv, ThresholdActs
        <4>2. CASE v = u /\ rejections[u] + 1 >= BuyerThreshold
          BY <2>1, <2>4, <4>2
        <4>3. QED
          BY <2>1, <3>1, <4>1, <4>2
      <3>2. QED
        BY <3>1 DEF ThresholdActs
    <2>6. CounterfeitSuspends'
      BY <2>1 DEF StandingInv, CounterfeitSuspends
    <2>7. ASSUME NEW q \in Requests, at'[q] = "restrict"
          PROVE  on'[q] \notin convicted' \ overtaken'
      <3>1. CASE at[q] = "restrict"
        BY <2>1, <2>2, <3>1 DEF PenaltySteps, StandingInv
      <3>2. CASE at[q] # "restrict"
        <4>1. on'[q] = u /\ status[u] = "active"
          BY <1>2, <2>7, <3>2 DEF Rejection, Enter, Slots
        <4>2. u \notin convicted
          BY <4>1 DEF StandingInv, CounterfeitSuspends
        <4>3. QED
          BY <2>1, <4>1, <4>2
      <3>3. QED
        BY <3>1, <3>2
    <2>8. QED
      BY <2>5, <2>6, <2>7 DEF StandingInv
  <1>3. ASSUME Suspend(r) \/ Restrict(r)
        PROVE  StandingInv'
    <2>1. PICK u \in Users, new \in {"suspended", "restricted"} :
            /\ u = on[r]
            /\ status' = [status EXCEPT ![u] = IF status[u] = "gone" THEN "gone" ELSE new]
            /\ new = "restricted" => at[r] = "restrict"
      BY <1>3 DEF Suspend, Restrict, Overwrite, At, Slots, Held
    <2>2. UNCHANGED <<strikes, rejections, convicted, overtaken, cut>>
      BY <1>3 DEF Suspend, Restrict, offences
    <2>3. \A q \in Requests : q # r => at'[q] = at[q] /\ on'[q] = on[q]
      BY <1>3 DEF Suspend, Restrict, Leaves, Enter, Slots
    <2>4. at'[r] = "idle"
      BY <1>3 DEF Suspend, Restrict, Leaves, Enter, Slots
    <2>5. \A v \in Users : v # u => (Punishing(v) => Punishing(v)')
      BY <2>1, <2>3 DEF Punishing
    <2>6. /\ status'[u] # "active"
          /\ \A v \in Users : v # u => status'[v] = status[v]
          /\ status'[u] = "gone" \/ status'[u] = new
      BY <2>1 DEF Standings
    <2>7. ThresholdActs'
      BY <2>2, <2>5, <2>6 DEF StandingInv, ThresholdActs
    <2>8. CounterfeitSuspends'
      <3>1. convicted \subseteq Users
        BY DEF Standings
      <3>2. new = "suspended" \/ u \notin convicted \ overtaken
        BY <2>1 DEF StandingInv
      <3>3. QED
        BY <2>1, <2>2, <2>6, <3>1, <3>2 DEF StandingInv, CounterfeitSuspends
    <2>9. \A q \in Requests : at'[q] = "restrict" => on'[q] \notin convicted' \ overtaken'
      BY <2>2, <2>3, <2>4 DEF StandingInv
    <2>10. QED
      BY <2>7, <2>8, <2>9 DEF StandingInv
  <1>4. QED
    BY <1>1, <1>2, <1>3 DEF Penalty, Penalties

LEMMA StandingStop ==
  ASSUME Slots, Standings, StandingInv, NEW r \in Requests, Stop(r)
  PROVE  StandingInv'
  <1>1. /\ UNCHANGED <<status, strikes, rejections, convicted, overtaken>>
        /\ cut' = IF at[r] \in PenaltySteps THEN cut \cup {on[r]} ELSE cut
    BY DEF Stop, Abort, offences
  <1>2. /\ \A q \in Requests : q # r => at'[q] = at[q] /\ on'[q] = on[q]
        /\ at'[r] = "idle"
    BY DEF Stop, Abort, Leaves, Enter, Slots
  <1>3. \A u \in Users : Punishing(u) => Punishing(u)' \/ u \in cut'
    BY <1>1, <1>2 DEF Punishing
  <1>4. ThresholdActs'
    BY <1>1, <1>3 DEF StandingInv, ThresholdActs
  <1>5. CounterfeitSuspends'
    BY <1>1 DEF StandingInv, CounterfeitSuspends
  <1>6. \A q \in Requests : at'[q] = "restrict" => on'[q] \notin convicted' \ overtaken'
    BY <1>1, <1>2 DEF StandingInv
  <1>7. QED
    BY <1>4, <1>5, <1>6 DEF StandingInv

LEMMA StandingStep == TypeInv /\ StandingInv /\ [Next]_vars => StandingInv'
  <1> SUFFICES ASSUME Slots, Standings, StandingInv, [Next]_vars
               PROVE  StandingInv'
    BY TypeParts
  <1>1. ASSUME NEW r \in Requests, Handlers(r)
        PROVE  StandingInv'
    BY <1>1, StandingPenalty, StandingStop, BesideHandlers, StandingBeside
  <1>2. ASSUME NEW u \in Users, Departure(u)
        PROVE  StandingInv'
    <2>1. /\ status' = [status EXCEPT ![u] = "gone"]
          /\ UNCHANGED <<strikes, rejections, convicted, overtaken, cut, at, on>>
      BY <1>2 DEF Departure, Leave, offences
    <2>2. \A v \in Users : status'[v] = status[v] \/ status'[v] = "gone"
      BY <2>1 DEF Standings
    <2>3. \A v \in Users : Punishing(v) => Punishing(v)'
      BY <2>1 DEF Punishing
    <2>4. ThresholdActs'
      BY <2>1, <2>2, <2>3 DEF StandingInv, ThresholdActs
    <2>5. CounterfeitSuspends'
      BY <2>1, <2>2 DEF StandingInv, CounterfeitSuspends, Standings
    <2>6. QED
      BY <2>1, <2>4, <2>5 DEF StandingInv
  <1>3. ASSUME \/ \E u \in Users, kind \in Kinds : Forget(kind, u)
               \/ \E u \in Users, i \in Ids :
                    Complete(u, i) \/ \E c \in Cards : SaveCard(u, i, c)
               \/ UNCHANGED vars
        PROVE  StandingInv'
    <2>1. Beside
      BY <1>3 DEF Forget, Complete, SaveCard, vars, Beside
    <2>2. QED
      BY <2>1, StandingBeside
  <1>4. QED
    BY <1>1, <1>2, <1>3 DEF Next

\* Nobody at a threshold is active once the updates under way are made.
THEOREM ThresholdsAct == Spec => []ThresholdActs
  <1>1. StandingInv => ThresholdActs
    BY DEF StandingInv
  <1>2. QED
    BY <1>1, TypeInit, TypeStep, StandingStart, StandingStep, PTL DEF Spec

\* The seller of a counterfeit is suspended for good, whatever penalty acts on them
\* later; except that a restriction of the same user as a buyer, under way when the
\* counterfeit was counted, is written over the suspension, with no fault at all.
THEOREM CounterfeitsSuspend == Spec => []CounterfeitSuspends
  <1>1. StandingInv => CounterfeitSuspends
    BY DEF StandingInv
  <1>2. QED
    BY <1>1, TypeInit, TypeStep, StandingStart, StandingStep, PTL DEF Spec

-----------------------------------------------------------------------------
(* Accounts at Stripe.  What is recorded never changes, every account has  *)
(* the user it was made for, and a handler goes on with what is recorded.  *)

Sound(r) ==
  /\ at[r] \in {"recordAccount", "recordCustomer"} => owner[mine[r]] = on[r]
  /\ at[r] = "createLink" => connect[on[r]] = mine[r]
  /\ at[r] \in {"createSetup", "retrieve", "detach"} => customer[on[r]] = mine[r]
  /\ at[r] = "detach" => saver[what[r]] # None /\ card[what[r]] \in {mine[r], None}

Owned ==
  /\ \A u \in Users : connect[u] # None => owner[connect[u]] = u
  /\ \A u \in Users : customer[u] # None => owner[customer[u]] = u
  /\ \A kind \in Kinds, u \in Users : keyed[kind][u] # None => owner[keyed[kind][u]] = u

Given ==
  /\ \A u \in Users, i \in Ids : <<u, i>> \in links => connect[u] = i
  /\ \A u \in Users, i \in Ids : <<u, i>> \in setups => customer[u] = i

Attached ==
  \A c \in Cards :
    /\ saver[c] = None => card[c] = None
    /\ saver[c] # None =>
         customer[saver[c]] # None /\ card[c] \in {customer[saver[c]], None}

StripeInv == Owned /\ Given /\ Attached /\ \A r \in Requests : Sound(r)

Grows ==
  /\ \A u \in Users : connect[u] # None => connect'[u] = connect[u]
  /\ \A u \in Users : customer[u] # None => customer'[u] = customer[u]
  /\ \A i \in Ids : owner[i] # None => owner'[i] = owner[i]
  /\ \A c \in Cards : saver[c] # None => saver'[c] = saver[c] /\ card'[c] \in {card[c], None}

Keeps(r) == at'[r] = at[r] /\ on'[r] = on[r] /\ mine'[r] = mine[r] /\ what'[r] = what[r]

LEMMA StripeStart == Init => StripeInv
  BY IdsAssumption DEF Init, StandingInit, StripeInv, Owned, Given, Attached, Sound, Kinds

LEMMA SoundKept ==
  ASSUME Slots, Grows, NEW r \in Requests, Sound(r), Keeps(r)
  PROVE  Sound(r)'
  <1>a. None \notin Ids /\ None \notin Users
    BY IdsAssumption, NobodyAssumption
  <1>1. ASSUME at[r] \in {"recordAccount", "recordCustomer"}
        PROVE  owner'[mine[r]] = on[r]
    BY <1>a, <1>1 DEF Sound, Slots, Held, Grows
  <1>2. ASSUME at[r] = "createLink"
        PROVE  connect'[on[r]] = mine[r]
    BY <1>a, <1>2 DEF Sound, Slots, Held, Grows
  <1>3. ASSUME at[r] \in {"createSetup", "retrieve", "detach"}
        PROVE  customer'[on[r]] = mine[r]
    BY <1>a, <1>3 DEF Sound, Slots, Held, Grows
  <1>4. ASSUME at[r] = "detach"
        PROVE  saver'[what[r]] # None /\ card'[what[r]] \in {mine[r], None}
    BY <1>a, <1>4 DEF Sound, Slots, Held, Grows
  <1>5. QED
    BY <1>1, <1>2, <1>3, <1>4 DEF Sound, Keeps

LEMMA StripeSame ==
  ASSUME Slots, Profiles, StripeInv, UNCHANGED <<profile, stripe, given>>,
         \A r \in Requests : Keeps(r) \/ Sound(r)'
  PROVE  StripeInv'
  <1>1. Grows
    BY DEF Grows, profile, stripe, given, Profiles
  <1>2. Owned' /\ Given' /\ Attached'
    BY DEF StripeInv, Owned, Given, Attached, profile, stripe, given
  <1>3. QED
    BY <1>1, <1>2, SoundKept DEF StripeInv

LEMMA GoKeeps ==
  ASSUME Slots, NEW r \in Requests, NEW step \in Steps, NEW u, NEW i, NEW c,
         Go(r, step, u, i, c)
  PROVE  /\ \A q \in Requests : q # r => Keeps(q)
         /\ at'[r] = step /\ on'[r] = u /\ mine'[r] = i /\ what'[r] = c
  BY DEF Go, Enter, Keeps, Slots

LEMMA ReturnSound ==
  ASSUME Slots, NEW r \in Requests, Return(r)
  PROVE  Sound(r)' /\ \A q \in Requests : q # r => Keeps(q)
  <1>1. "idle" \in Steps
    BY DEF Steps
  <1>2. at'[r] = "idle"
    BY <1>1, GoKeeps DEF Return
  <1>3. Sound(r)'
    BY <1>2 DEF Sound
  <1>4. QED
    BY <1>1, <1>3, GoKeeps DEF Return

LEMMA StripeAccount ==
  ASSUME Slots, Profiles, StripeInv, NEW r \in Requests,
         \/ \E u \in Users : StartOnboarding(r, u)
         \/ \E i \in Ids : CreateAccount(r, i)
         \/ RecordAccount(r) \/ RereadAccount(r) \/ CreateLink(r)
  PROVE  StripeInv'
  <1>a. {"createAccount", "recordAccount", "rereadAccount", "createLink"} \subseteq Steps
    BY DEF Steps
  <1>b. None \notin Ids /\ None \notin Users
    BY IdsAssumption, NobodyAssumption
  <1>1. ASSUME NEW u \in Users, StartOnboarding(r, u)
        PROVE  StripeInv'
    <2>1. UNCHANGED <<profile, stripe, given>>
      BY <1>1 DEF StartOnboarding
    <2>2. CASE connect[u] # None
      <3>1. Go(r, "createLink", u, connect[u], None)
        BY <1>1, <2>2 DEF StartOnboarding
      <3>2. at'[r] = "createLink" /\ on'[r] = u /\ mine'[r] = connect[u]
        BY <1>a, <3>1, GoKeeps
      <3>3. Sound(r)'
        BY <2>1, <3>2 DEF Sound, profile
      <3>4. QED
        BY <1>a, <2>1, <3>1, <3>3, GoKeeps, StripeSame
    <2>3. CASE connect[u] = None
      <3>1. Go(r, "createAccount", u, None, None)
        BY <1>1, <2>3 DEF StartOnboarding
      <3>2. at'[r] = "createAccount"
        BY <1>a, <3>1, GoKeeps
      <3>3. Sound(r)'
        BY <3>2 DEF Sound
      <3>4. QED
        BY <1>a, <2>1, <3>1, <3>3, GoKeeps, StripeSame
    <2>4. QED
      BY <2>2, <2>3
  <1>2. ASSUME NEW i \in Ids, CreateAccount(r, i)
        PROVE  StripeInv'
    <2>1. PICK u \in Users : u = on[r]
      BY <1>2 DEF CreateAccount, At, Slots, Held
    <2>2. Go(r, "recordAccount", u, i, None)
      BY <1>2, <2>1 DEF CreateAccount, MakeAt
    <2>3. /\ at'[r] = "recordAccount" /\ on'[r] = u /\ mine'[r] = i
          /\ \A q \in Requests : q # r => Keeps(q)
      BY <1>a, <2>2, GoKeeps
    <2>4. UNCHANGED <<profile, ready, card, given>>
      BY <1>2 DEF CreateAccount
    <2>5. CASE keyed["connect"][u] # None
      <3>1. i = keyed["connect"][u] /\ UNCHANGED <<owner, keyed>>
        BY <1>2, <2>1, <2>5 DEF CreateAccount, MakeAt
      <3>2. owner'[i] = u
        BY <2>5, <3>1 DEF StripeInv, Owned, Kinds
      <3>3. Sound(r)'
        BY <2>3, <3>2 DEF Sound
      <3>4. QED
        BY <2>3, <2>4, <3>1, <3>3, StripeSame DEF stripe
    <2>6. CASE keyed["connect"][u] = None
      <3>1. /\ owner[i] = None /\ owner' = [owner EXCEPT ![i] = u]
            /\ keyed' = [keyed EXCEPT !["connect"][u] = i]
        BY <1>2, <2>1, <2>6 DEF CreateAccount, MakeAt
      <3>2. owner'[i] = u /\ \A j \in Ids : j # i => owner'[j] = owner[j]
        BY <3>1 DEF Profiles
      <3>3. Grows
        BY <2>4, <3>1, <3>2 DEF Grows, Profiles, profile, given
      <3>4. Sound(r)'
        BY <2>3, <3>2 DEF Sound
      <3>5. \A kind \in Kinds, v \in Users :
              keyed'[kind][v] = IF kind = "connect" /\ v = u THEN i ELSE keyed[kind][v]
        BY <3>1 DEF Profiles, Kinds
      <3>6. \A j \in Ids, v \in Users : owner[j] = v => owner'[j] = v
        BY <1>b, <3>1, <3>2
      <3>7. \A v \in Users : connect[v] # None => owner'[connect[v]] = v
        BY <3>6 DEF StripeInv, Owned, Profiles
      <3>8. \A v \in Users : customer[v] # None => owner'[customer[v]] = v
        BY <3>6 DEF StripeInv, Owned, Profiles
      <3>9. \A kind \in Kinds, v \in Users : keyed'[kind][v] # None => owner'[keyed'[kind][v]] = v
        BY <3>2, <3>5, <3>6 DEF StripeInv, Owned, Profiles
      <3>10. Owned'
        BY <2>4, <3>7, <3>8, <3>9 DEF Owned, profile
      <3>11. Given' /\ Attached'
        BY <2>4 DEF StripeInv, Given, Attached, profile, given
      <3>12. \A q \in Requests : Sound(q)'
        BY <2>3, <3>3, <3>4, SoundKept DEF StripeInv
      <3>13. QED
        BY <3>10, <3>11, <3>12 DEF StripeInv
    <2>7. QED
      BY <2>5, <2>6
  <1>3. ASSUME RecordAccount(r)
        PROVE  StripeInv'
    <2>1. PICK u \in Users, i \in Ids : u = on[r] /\ i = mine[r] /\ owner[i] = u
      BY <1>3 DEF RecordAccount, At, Slots, Held, StripeInv, Sound
    <2>2. UNCHANGED <<customer, stripe, given>>
      BY <1>3 DEF RecordAccount
    <2>3. CASE status[u] = "active" /\ connect[u] = None
      <3>1. /\ connect' = [connect EXCEPT ![u] = i]
            /\ Go(r, "createLink", u, i, None)
        BY <1>3, <2>1, <2>3 DEF RecordAccount
      <3>2. connect'[u] = i /\ \A v \in Users : v # u => connect'[v] = connect[v]
        BY <3>1 DEF Profiles
      <3>3. Grows
        BY <2>2, <2>3, <3>2 DEF Grows, Profiles, stripe, given
      <3>4. Owned'
        BY <2>1, <2>2, <3>2 DEF StripeInv, Owned, stripe
      <3>5. Given'
        BY <1>b, <2>2, <2>3, <3>2 DEF StripeInv, Given, given
      <3>6. Attached'
        <4>1. \A c \in Cards : saver[c] # None => saver[c] \in Users
          BY DEF Profiles
        <4>2. QED
          BY <1>b, <2>2, <2>3, <3>2, <4>1 DEF StripeInv, Attached, stripe, given
      <3>7. at'[r] = "createLink" /\ on'[r] = u /\ mine'[r] = i
        BY <1>a, <3>1, GoKeeps
      <3>8. Sound(r)'
        BY <3>2, <3>7 DEF Sound
      <3>9. \A q \in Requests : Sound(q)'
        BY <1>a, <3>1, <3>3, <3>8, GoKeeps, SoundKept DEF StripeInv
      <3>10. QED
        BY <3>4, <3>5, <3>6, <3>9 DEF StripeInv
    <2>4. CASE ~(status[u] = "active" /\ connect[u] = None)
      <3>1. UNCHANGED connect /\ Go(r, "rereadAccount", u, None, None)
        BY <1>3, <2>1, <2>4 DEF RecordAccount
      <3>2. at'[r] = "rereadAccount"
        BY <1>a, <3>1, GoKeeps
      <3>3. Sound(r)'
        BY <3>2 DEF Sound
      <3>4. QED
        BY <1>a, <2>2, <3>1, <3>3, GoKeeps, StripeSame DEF profile
    <2>5. QED
      BY <2>3, <2>4
  <1>4. ASSUME RereadAccount(r)
        PROVE  StripeInv'
    <2>1. UNCHANGED <<profile, stripe, given>>
      BY <1>4 DEF RereadAccount
    <2>2. CASE Return(r)
      BY <2>1, <2>2, ReturnSound, StripeSame
    <2>3. CASE Go(r, "createLink", on[r], connect[on[r]], None)
      <3>1. at'[r] = "createLink" /\ on'[r] = on[r] /\ mine'[r] = connect[on[r]]
        BY <1>a, <2>3, GoKeeps
      <3>2. Sound(r)'
        BY <2>1, <3>1 DEF Sound, profile
      <3>3. QED
        BY <1>a, <2>1, <2>3, <3>2, GoKeeps, StripeSame
    <2>4. QED
      BY <1>4, <2>2, <2>3 DEF RereadAccount
  <1>5. ASSUME CreateLink(r)
        PROVE  StripeInv'
    <2>1. PICK u \in Users, i \in Ids : u = on[r] /\ i = mine[r] /\ connect[u] = i
      BY <1>5 DEF CreateLink, At, Slots, Held, StripeInv, Sound
    <2>2. /\ links' = links \cup {<<u, i>>}
          /\ Return(r)
          /\ UNCHANGED <<profile, stripe, setups, saver>>
      BY <1>5, <2>1 DEF CreateLink
    <2>3. Grows
      BY <2>2 DEF Grows, Profiles, profile, stripe
    <2>4. Owned' /\ Attached'
      BY <2>2 DEF StripeInv, Owned, Attached, profile, stripe
    <2>5. Given'
      BY <2>1, <2>2 DEF StripeInv, Given, profile
    <2>6. \A q \in Requests : Sound(q)'
      BY <2>2, <2>3, ReturnSound, SoundKept DEF StripeInv
    <2>7. QED
      BY <2>4, <2>5, <2>6 DEF StripeInv
  <1>6. QED
    BY <1>1, <1>2, <1>3, <1>4, <1>5

LEMMA StripeCustomer ==
  ASSUME Slots, Profiles, StripeInv, NEW r \in Requests,
         \/ \E u \in Users : StartSetup(r, u)
         \/ \E i \in Ids : CreateCustomer(r, i)
         \/ RecordCustomer(r) \/ RereadCustomer(r) \/ CreateSetup(r)
  PROVE  StripeInv'
  <1>a. {"createCustomer", "recordCustomer", "rereadCustomer", "createSetup"} \subseteq Steps
    BY DEF Steps
  <1>b. None \notin Ids /\ None \notin Users
    BY IdsAssumption, NobodyAssumption
  <1>1. ASSUME NEW u \in Users, StartSetup(r, u)
        PROVE  StripeInv'
    <2>1. UNCHANGED <<profile, stripe, given>>
      BY <1>1 DEF StartSetup
    <2>2. CASE customer[u] # None
      <3>1. Go(r, "createSetup", u, customer[u], None)
        BY <1>1, <2>2 DEF StartSetup
      <3>2. at'[r] = "createSetup" /\ on'[r] = u /\ mine'[r] = customer[u]
        BY <1>a, <3>1, GoKeeps
      <3>3. Sound(r)'
        BY <2>1, <3>2 DEF Sound, profile
      <3>4. QED
        BY <1>a, <2>1, <3>1, <3>3, GoKeeps, StripeSame
    <2>3. CASE customer[u] = None
      <3>1. Go(r, "createCustomer", u, None, None)
        BY <1>1, <2>3 DEF StartSetup
      <3>2. at'[r] = "createCustomer"
        BY <1>a, <3>1, GoKeeps
      <3>3. Sound(r)'
        BY <3>2 DEF Sound
      <3>4. QED
        BY <1>a, <2>1, <3>1, <3>3, GoKeeps, StripeSame
    <2>4. QED
      BY <2>2, <2>3
  <1>2. ASSUME NEW i \in Ids, CreateCustomer(r, i)
        PROVE  StripeInv'
    <2>1. PICK u \in Users : u = on[r]
      BY <1>2 DEF CreateCustomer, At, Slots, Held
    <2>2. Go(r, "recordCustomer", u, i, None)
      BY <1>2, <2>1 DEF CreateCustomer, MakeAt
    <2>3. /\ at'[r] = "recordCustomer" /\ on'[r] = u /\ mine'[r] = i
          /\ \A q \in Requests : q # r => Keeps(q)
      BY <1>a, <2>2, GoKeeps
    <2>4. UNCHANGED <<profile, ready, card, given>>
      BY <1>2 DEF CreateCustomer
    <2>5. CASE keyed["customer"][u] # None
      <3>1. i = keyed["customer"][u] /\ UNCHANGED <<owner, keyed>>
        BY <1>2, <2>1, <2>5 DEF CreateCustomer, MakeAt
      <3>2. owner'[i] = u
        BY <2>5, <3>1 DEF StripeInv, Owned, Kinds
      <3>3. Sound(r)'
        BY <2>3, <3>2 DEF Sound
      <3>4. QED
        BY <2>3, <2>4, <3>1, <3>3, StripeSame DEF stripe
    <2>6. CASE keyed["customer"][u] = None
      <3>1. /\ owner[i] = None /\ owner' = [owner EXCEPT ![i] = u]
            /\ keyed' = [keyed EXCEPT !["customer"][u] = i]
        BY <1>2, <2>1, <2>6 DEF CreateCustomer, MakeAt
      <3>2. owner'[i] = u /\ \A j \in Ids : j # i => owner'[j] = owner[j]
        BY <3>1 DEF Profiles
      <3>3. Grows
        BY <2>4, <3>1, <3>2 DEF Grows, Profiles, profile, given
      <3>4. Sound(r)'
        BY <2>3, <3>2 DEF Sound
      <3>5. \A kind \in Kinds, v \in Users :
              keyed'[kind][v] = IF kind = "customer" /\ v = u THEN i ELSE keyed[kind][v]
        BY <3>1 DEF Profiles, Kinds
      <3>6. \A j \in Ids, v \in Users : owner[j] = v => owner'[j] = v
        BY <1>b, <3>1, <3>2
      <3>7. \A v \in Users : connect[v] # None => owner'[connect[v]] = v
        BY <3>6 DEF StripeInv, Owned, Profiles
      <3>8. \A v \in Users : customer[v] # None => owner'[customer[v]] = v
        BY <3>6 DEF StripeInv, Owned, Profiles
      <3>9. \A kind \in Kinds, v \in Users : keyed'[kind][v] # None => owner'[keyed'[kind][v]] = v
        BY <3>2, <3>5, <3>6 DEF StripeInv, Owned, Profiles
      <3>10. Owned'
        BY <2>4, <3>7, <3>8, <3>9 DEF Owned, profile
      <3>11. Given' /\ Attached'
        BY <2>4 DEF StripeInv, Given, Attached, profile, given
      <3>12. \A q \in Requests : Sound(q)'
        BY <2>3, <3>3, <3>4, SoundKept DEF StripeInv
      <3>13. QED
        BY <3>10, <3>11, <3>12 DEF StripeInv
    <2>7. QED
      BY <2>5, <2>6
  <1>3. ASSUME RecordCustomer(r)
        PROVE  StripeInv'
    <2>1. PICK u \in Users, i \in Ids : u = on[r] /\ i = mine[r] /\ owner[i] = u
      BY <1>3 DEF RecordCustomer, At, Slots, Held, StripeInv, Sound
    <2>2. UNCHANGED <<connect, stripe, given>>
      BY <1>3 DEF RecordCustomer
    <2>3. CASE status[u] # "gone" /\ customer[u] = None
      <3>1. /\ customer' = [customer EXCEPT ![u] = i]
            /\ Go(r, "createSetup", u, i, None)
        BY <1>3, <2>1, <2>3 DEF RecordCustomer
      <3>2. customer'[u] = i /\ \A v \in Users : v # u => customer'[v] = customer[v]
        BY <3>1 DEF Profiles
      <3>3. Grows
        BY <2>2, <2>3, <3>2 DEF Grows, Profiles, stripe, given
      <3>4. Owned'
        BY <2>1, <2>2, <3>2 DEF StripeInv, Owned, stripe
      <3>5. Given'
        BY <1>b, <2>2, <2>3, <3>2 DEF StripeInv, Given, given
      <3>6. Attached'
        <4>1. \A c \in Cards : saver[c] # None => saver[c] \in Users
          BY DEF Profiles
        <4>2. QED
          BY <1>b, <2>2, <2>3, <3>2, <4>1 DEF StripeInv, Attached, stripe, given
      <3>7. at'[r] = "createSetup" /\ on'[r] = u /\ mine'[r] = i
        BY <1>a, <3>1, GoKeeps
      <3>8. Sound(r)'
        BY <3>2, <3>7 DEF Sound
      <3>9. \A q \in Requests : Sound(q)'
        BY <1>a, <3>1, <3>3, <3>8, GoKeeps, SoundKept DEF StripeInv
      <3>10. QED
        BY <3>4, <3>5, <3>6, <3>9 DEF StripeInv
    <2>4. CASE ~(status[u] # "gone" /\ customer[u] = None)
      <3>1. UNCHANGED customer /\ Go(r, "rereadCustomer", u, None, None)
        BY <1>3, <2>1, <2>4 DEF RecordCustomer
      <3>2. at'[r] = "rereadCustomer"
        BY <1>a, <3>1, GoKeeps
      <3>3. Sound(r)'
        BY <3>2 DEF Sound
      <3>4. QED
        BY <1>a, <2>2, <3>1, <3>3, GoKeeps, StripeSame DEF profile
    <2>5. QED
      BY <2>3, <2>4
  <1>4. ASSUME RereadCustomer(r)
        PROVE  StripeInv'
    <2>1. UNCHANGED <<profile, stripe, given>>
      BY <1>4 DEF RereadCustomer
    <2>2. CASE Return(r)
      BY <2>1, <2>2, ReturnSound, StripeSame
    <2>3. CASE Go(r, "createSetup", on[r], customer[on[r]], None)
      <3>1. at'[r] = "createSetup" /\ on'[r] = on[r] /\ mine'[r] = customer[on[r]]
        BY <1>a, <2>3, GoKeeps
      <3>2. Sound(r)'
        BY <2>1, <3>1 DEF Sound, profile
      <3>3. QED
        BY <1>a, <2>1, <2>3, <3>2, GoKeeps, StripeSame
    <2>4. QED
      BY <1>4, <2>2, <2>3 DEF RereadCustomer
  <1>5. ASSUME CreateSetup(r)
        PROVE  StripeInv'
    <2>1. PICK u \in Users, i \in Ids : u = on[r] /\ i = mine[r] /\ customer[u] = i
      BY <1>5 DEF CreateSetup, At, Slots, Held, StripeInv, Sound
    <2>2. /\ setups' = setups \cup {<<u, i>>}
          /\ Return(r)
          /\ UNCHANGED <<profile, stripe, links, saver>>
      BY <1>5, <2>1 DEF CreateSetup
    <2>3. Grows
      BY <2>2 DEF Grows, Profiles, profile, stripe
    <2>4. Owned' /\ Attached'
      BY <2>2 DEF StripeInv, Owned, Attached, profile, stripe
    <2>5. Given'
      BY <2>1, <2>2 DEF StripeInv, Given, profile
    <2>6. \A q \in Requests : Sound(q)'
      BY <2>2, <2>3, ReturnSound, SoundKept DEF StripeInv
    <2>7. QED
      BY <2>4, <2>5, <2>6 DEF StripeInv
  <1>6. QED
    BY <1>1, <1>2, <1>3, <1>4, <1>5

LEMMA StripeCard ==
  ASSUME Slots, Profiles, StripeInv, NEW r \in Requests,
         \/ \E u \in Users, c \in Cards : StartDelete(r, u, c)
         \/ Retrieve(r) \/ Detach(r)
  PROVE  StripeInv'
  <1>a. {"retrieve", "detach"} \subseteq Steps
    BY DEF Steps
  <1>b. None \notin Ids /\ None \notin Users
    BY IdsAssumption, NobodyAssumption
  <1>1. ASSUME NEW u \in Users, NEW c \in Cards, StartDelete(r, u, c)
        PROVE  StripeInv'
    <2>1. UNCHANGED <<profile, stripe, given>> /\ Go(r, "retrieve", u, customer[u], c)
      BY <1>1 DEF StartDelete
    <2>2. at'[r] = "retrieve" /\ on'[r] = u /\ mine'[r] = customer[u]
      BY <1>a, <2>1, GoKeeps
    <2>3. Sound(r)'
      BY <2>1, <2>2 DEF Sound, profile
    <2>4. QED
      BY <1>a, <2>1, <2>3, GoKeeps, StripeSame
  <1>2. ASSUME Retrieve(r)
        PROVE  StripeInv'
    <2>1. UNCHANGED <<profile, stripe, given>>
      BY <1>2 DEF Retrieve
    <2>2. CASE card[what[r]] = mine[r]
      <3>1. Go(r, "detach", on[r], mine[r], what[r])
        BY <1>2, <2>2 DEF Retrieve
      <3>2. at'[r] = "detach" /\ on'[r] = on[r] /\ mine'[r] = mine[r] /\ what'[r] = what[r]
        BY <1>a, <3>1, GoKeeps
      <3>3. /\ what[r] \in Cards /\ mine[r] \in Ids
            /\ customer[on[r]] = mine[r]
        BY <1>2 DEF Retrieve, At, Slots, Held, StripeInv, Sound
      <3>4. saver[what[r]] # None
        BY <1>b, <2>2, <3>3 DEF StripeInv, Attached
      <3>5. Sound(r)'
        BY <2>1, <2>2, <3>2, <3>3, <3>4 DEF Sound, profile, stripe, given
      <3>6. QED
        BY <1>a, <2>1, <3>1, <3>5, GoKeeps, StripeSame
    <2>3. CASE card[what[r]] # mine[r]
      <3>1. Return(r)
        BY <1>2, <2>3 DEF Retrieve
      <3>2. QED
        BY <2>1, <3>1, ReturnSound, StripeSame
    <2>4. QED
      BY <2>2, <2>3
  <1>3. ASSUME Detach(r)
        PROVE  StripeInv'
    <2>1. PICK c \in Cards : c = what[r]
      BY <1>3 DEF Detach, At, Slots, Held
    <2>2. /\ card' = [card EXCEPT ![c] = None]
          /\ Return(r)
          /\ UNCHANGED <<profile, owner, keyed, ready, given>>
      BY <1>3, <2>1 DEF Detach
    <2>3. card'[c] = None /\ \A d \in Cards : d # c => card'[d] = card[d]
      BY <2>2 DEF Profiles
    <2>4. Grows
      BY <2>2, <2>3 DEF Grows, Profiles, profile, given
    <2>5. Owned' /\ Given'
      BY <2>2 DEF StripeInv, Owned, Given, profile, given
    <2>6. Attached'
      BY <2>2, <2>3 DEF StripeInv, Attached, profile, given
    <2>7. \A q \in Requests : Sound(q)'
      BY <2>2, <2>4, ReturnSound, SoundKept DEF StripeInv
    <2>8. QED
      BY <2>5, <2>6, <2>7 DEF StripeInv
  <1>4. QED
    BY <1>1, <1>2, <1>3

LEMMA StripeOutside ==
  ASSUME Slots, Profiles, StripeInv, UNCHANGED <<at, on, local>>,
         \/ \E u \in Users, kind \in Kinds : Forget(kind, u)
         \/ \E u \in Users, i \in Ids : Complete(u, i) \/ \E c \in Cards : SaveCard(u, i, c)
  PROVE  StripeInv'
  <1>a. None \notin Ids /\ None \notin Users
    BY IdsAssumption, NobodyAssumption
  <1>b. \A q \in Requests : Keeps(q)
    BY DEF Keeps, local
  <1>1. ASSUME NEW u \in Users, NEW kind \in Kinds, Forget(kind, u)
        PROVE  StripeInv'
    <2>1. /\ keyed' = [keyed EXCEPT ![kind][u] = None]
          /\ UNCHANGED <<profile, owner, card, given>>
      BY <1>1 DEF Forget
    <2>2. \A k \in Kinds, v \in Users : keyed'[k][v] \in {keyed[k][v], None}
      BY <2>1 DEF Profiles
    <2>3. Grows
      BY <2>1 DEF Grows, Profiles, profile, given
    <2>4. Owned'
      BY <2>1, <2>2 DEF StripeInv, Owned, profile
    <2>5. Given' /\ Attached'
      BY <2>1 DEF StripeInv, Given, Attached, profile, given
    <2>6. QED
      BY <1>b, <2>3, <2>4, <2>5, SoundKept DEF StripeInv
  <1>2. ASSUME NEW u \in Users, NEW i \in Ids, Complete(u, i)
        PROVE  StripeInv'
    <2>1. UNCHANGED <<profile, owner, keyed, card, given>>
      BY <1>2 DEF Complete
    <2>2. Grows
      BY <2>1 DEF Grows, Profiles, profile, given
    <2>3. Owned' /\ Given' /\ Attached'
      BY <2>1 DEF StripeInv, Owned, Given, Attached, profile, given
    <2>4. QED
      BY <1>b, <2>2, <2>3, SoundKept DEF StripeInv
  <1>3. ASSUME NEW u \in Users, NEW i \in Ids, NEW c \in Cards, SaveCard(u, i, c)
        PROVE  StripeInv'
    <2>1. /\ saver[c] = None /\ <<u, i>> \in setups
          /\ saver' = [saver EXCEPT ![c] = u] /\ card' = [card EXCEPT ![c] = i]
          /\ UNCHANGED <<profile, owner, keyed, links, setups>>
      BY <1>3 DEF SaveCard
    <2>2. /\ saver'[c] = u /\ card'[c] = i
          /\ \A d \in Cards : d # c => saver'[d] = saver[d] /\ card'[d] = card[d]
      BY <2>1 DEF Profiles
    <2>3. customer[u] = i
      BY <2>1 DEF StripeInv, Given
    <2>4. Grows
      BY <2>1, <2>2 DEF Grows, Profiles, profile
    <2>5. Owned' /\ Given'
      BY <2>1 DEF StripeInv, Owned, Given, profile
    <2>6. Attached'
      BY <1>a, <2>1, <2>2, <2>3 DEF StripeInv, Attached, profile
    <2>7. QED
      BY <1>b, <2>4, <2>5, <2>6, SoundKept DEF StripeInv
  <1>4. QED
    BY <1>1, <1>2, <1>3

LEMMA StripePenalty ==
  ASSUME Slots, Profiles, StripeInv, NEW r \in Requests, Penalty(r) \/ Stop(r)
  PROVE  StripeInv'
  <1>1. UNCHANGED <<profile, stripe, given>>
    BY DEF Penalty, Stop
  <1>2. ASSUME NEW q \in Requests
        PROVE  Keeps(q) \/ Sound(q)'
    <2>1. /\ q # r => at'[q] = at[q] /\ on'[q] = on[q] /\ mine'[q] = mine[q] /\ what'[q] = what[q]
          /\ at'[r] \in PenaltySteps \cup {"idle"}
      <3>1. CASE Stop(r)
        BY <3>1 DEF Stop, Abort, Leaves, Enter, Slots
      <3>2. CASE Penalty(r)
        BY <3>2 DEF Penalty, Penalties, Offence, Rejection, Suspend, Restrict, Leaves, Enter,
                    At, local, PenaltySteps, Slots
      <3>3. QED
        BY <3>1, <3>2
    <2>2. QED
      BY <2>1 DEF Keeps, Sound, PenaltySteps
  <1>3. QED
    BY <1>1, <1>2, StripeSame

LEMMA StripeStep == TypeInv /\ StripeInv /\ [Next]_vars => StripeInv'
  <1> SUFFICES ASSUME Slots, Profiles, StripeInv, [Next]_vars
               PROVE  StripeInv'
    BY TypeParts
  <1>1. ASSUME NEW r \in Requests, Handlers(r)
        PROVE  StripeInv'
    BY <1>1, StripePenalty, StripeAccount, StripeCustomer, StripeCard DEF Handlers
  <1>2. ASSUME \/ \E u \in Users, kind \in Kinds : Forget(kind, u)
               \/ \E u \in Users, i \in Ids :
                    Complete(u, i) \/ \E c \in Cards : SaveCard(u, i, c)
        PROVE  StripeInv'
    <2>1. UNCHANGED <<at, on, local>>
      BY <1>2 DEF Forget, Complete, SaveCard
    <2>2. QED
      BY <1>2, <2>1, StripeOutside
  <1>3. ASSUME \/ \E u \in Users : Departure(u)
               \/ UNCHANGED vars
        PROVE  StripeInv'
    <2>1. UNCHANGED <<profile, stripe, given, at, on, local>>
      BY <1>3 DEF Departure, Leave, vars
    <2>2. \A q \in Requests : Keeps(q)
      BY <2>1 DEF Keeps, local
    <2>3. QED
      BY <2>1, <2>2, StripeSame
  <1>4. QED
    BY <1>1, <1>2, <1>3 DEF Next

LEMMA StripeFacts == TypeInv /\ StripeInv => OnboardedIsReady /\ SavedCardsAreKept
  <1> SUFFICES ASSUME TypeInv, Profiles, StripeInv
               PROVE  OnboardedIsReady /\ SavedCardsAreKept
    BY TypeParts
  <1>1. OnboardedIsReady
    BY DEF StripeInv, Given, OnboardedIsReady, PayoutReady, Profiles
  <1>2. SavedCardsAreKept
    BY DEF StripeInv, Attached, SavedCardsAreKept
  <1>3. QED
    BY <1>1, <1>2

\* Whoever completed an onboarding they were given the link of is ready to be paid.
THEOREM OnboardedAreReady == Spec => []OnboardedIsReady
  BY TypeInit, TypeStep, StripeStart, StripeStep, StripeFacts, PTL DEF Spec

\* A card that was not deleted is attached to the customer recorded of its saver.
THEOREM CardsAreKept == Spec => []SavedCardsAreKept
  BY TypeInit, TypeStep, StripeStart, StripeStep, StripeFacts, PTL DEF Spec

LEMMA DetachedBySaver ==
  ASSUME TypeInv, StripeInv, [Next]_vars, NEW c \in Cards,
         card[c] # None, card'[c] # card[c]
  PROVE  \E r \in Requests : Detach(r) /\ on[r] = saver[c]
  <1>a. Slots /\ Profiles
    BY TypeParts
  <1>b. None \notin Ids /\ None \notin Users
    BY IdsAssumption, NobodyAssumption
  <1>1. saver[c] # None
    BY DEF StripeInv, Attached
  <1>2. ASSUME \A r \in Requests : ~Detach(r)
        PROVE  card'[c] = card[c]
    <2>1. ASSUME NEW r \in Requests, Handlers(r)
          PROVE  card' = card
      BY <1>2, <2>1 DEF Handlers, Penalty, Stop, StartOnboarding, StartSetup, StartDelete,
         CreateAccount, CreateCustomer, RecordAccount, RereadAccount, CreateLink,
         RecordCustomer, RereadCustomer, CreateSetup, Retrieve, stripe
    <2>2. ASSUME NEW u \in Users, NEW i \in Ids, NEW d \in Cards, SaveCard(u, i, d)
          PROVE  card'[c] = card[c]
      BY <1>a, <1>1, <2>2 DEF SaveCard, Profiles
    <2>3. ASSUME \/ \E u \in Users : Departure(u) \/ \E kind \in Kinds : Forget(kind, u)
                 \/ \E u \in Users, i \in Ids : Complete(u, i)
                 \/ UNCHANGED vars
          PROVE  card' = card
      BY <2>3 DEF Departure, Forget, Complete, vars, stripe
    <2>4. QED
      BY <2>1, <2>2, <2>3 DEF Next
  <1>3. PICK r \in Requests : Detach(r)
    BY <1>2
  <1>4. what[r] = c
    BY <1>a, <1>3 DEF Detach, Profiles
  <1>5. card[c] = mine[r] /\ customer[on[r]] = mine[r] /\ on[r] \in Users /\ mine[r] \in Ids
    BY <1>a, <1>3, <1>4 DEF Detach, At, StripeInv, Sound, Slots, Held
  <1>6. saver[c] \in Users /\ customer[saver[c]] = card[c]
    BY <1>a, <1>1 DEF StripeInv, Attached, Profiles
  <1>7. owner[mine[r]] = on[r] /\ owner[mine[r]] = saver[c]
    BY <1>b, <1>5, <1>6 DEF StripeInv, Owned
  <1>8. QED
    BY <1>3, <1>7

\* Only a request of the user who saved a card detaches it.
THEOREM OnlySaversDetach == Spec => OnlySaverDetaches
  <1>1. TypeInv /\ StripeInv /\ [Next]_vars =>
          [\A c \in Cards : card[c] # None /\ card'[c] # card[c] =>
             \E r \in Requests : Detach(r) /\ on[r] = saver[c]]_vars
    BY DetachedBySaver
  <1>2. QED
    BY <1>1, TypeInit, TypeStep, StripeStart, StripeStep, PTL DEF Spec, OnlySaverDetaches

=============================================================================
