---------------------------- MODULE AccountStanding ----------------------------
(***************************************************************************)
(* The standing of the users who trade: their status and the offences it   *)
(* depends on (user-penalty.service).                                      *)
(*                                                                         *)
(*   recordSellerOffence              Offence, Suspend                     *)
(*   recordUnjustifiedBuyerRejection  Rejection, Restrict                  *)
(*   deleteAccountFromDB              Leave                                *)
(*                                                                         *)
(* An offence is counted by one update, and the threshold acted upon by a  *)
(* second one, on the document as the first returned it.  The users are    *)
(* verified: nothing takes that back (VerifiedStays in SignIn).            *)
(*                                                                         *)
(* The handlers' local state is here (at, on), so that a module that adds  *)
(* other handlers shares the slots: see StripeAccounts.                    *)
(***************************************************************************)
EXTENDS Naturals

CONSTANTS
  Users,           \* traders
  Requests,        \* slots for handlers in flight
  SellerThreshold, \* sellerStrikeSuspensionThreshold
  BuyerThreshold,  \* buyerRejectionRestrictionThreshold
  MaxOffences,     \* bound on the offences of a user, of both kinds
  MaxFaults,       \* bound on handlers that die half way
  None             \* an unset field

ASSUME ThresholdAssumption ==
  SellerThreshold \in Nat \ {0} /\ BuyerThreshold \in Nat \ {0}
ASSUME OffencesAssumption == MaxOffences \in Nat /\ MaxFaults \in Nat
ASSUME NobodyAssumption == None \notin Users

VARIABLES
  status,     \* of each user
  strikes,    \* sellerStrikes
  rejections, \* buyerUnjustifiedRejections
  convicted,  \* history: sellers of a counterfeit,
  overtaken,  \*   and those whose restriction was under way when it was counted
  cut,        \* history: users whose penalty died between its two updates
  faults,     \* handlers that died half way so far
  at,         \* the handler in each slot: the step it takes next,
  on          \*   and the user it is about

offences == <<strikes, rejections, convicted, overtaken>>
standing == <<status, offences, cut>>

Statuses == {"active", "restricted", "suspended", "gone"}
PenaltySteps == {"suspend", "restrict"}

At(r, step) == at[r] = step
Enter(r, step, u) == at' = [at EXCEPT ![r] = step] /\ on' = [on EXCEPT ![r] = u]
Leaves(r) == Enter(r, "idle", None)

\* userSchema: status is "active", and both counters 0.
StandingInit ==
  /\ status = [u \in Users |-> "active"]
  /\ strikes = [u \in Users |-> 0]
  /\ rejections = [u \in Users |-> 0]
  /\ convicted = {}
  /\ overtaken = {}
  /\ cut = {}
  /\ faults = 0
  /\ at = [r \in Requests |-> "idle"]
  /\ on = [r \in Requests |-> None]

-----------------------------------------------------------------------------

Restricting(u) == \E r \in Requests : At(r, "restrict") /\ on[r] = u
Convict(u) ==
  /\ convicted' = convicted \cup {u}
  /\ overtaken' = IF Restricting(u) THEN overtaken \cup {u} ELSE overtaken

\* Mutant: a strike is acted upon only when it is past the threshold.
OffencePast(r, u, counterfeit) ==
  /\ At(r, "idle")
  /\ status[u] # "gone"
  /\ strikes[u] + rejections[u] < MaxOffences
  /\ strikes' = [strikes EXCEPT ![u] = @ + 1]
  /\ IF counterfeit
     THEN status' = [status EXCEPT ![u] = "suspended"] /\ Convict(u)
     ELSE UNCHANGED <<status, convicted, overtaken>>
  /\ IF ~counterfeit /\ strikes[u] + 1 > SellerThreshold /\ status[u] = "active"
     THEN Enter(r, "suspend", u)
     ELSE UNCHANGED <<at, on>>
  /\ UNCHANGED <<rejections, cut, faults>>

\* Mutant: a counterfeit counts as any other offence.
OffenceAlike(r, u, counterfeit) ==
  /\ At(r, "idle")
  /\ status[u] # "gone"
  /\ strikes[u] + rejections[u] < MaxOffences
  /\ strikes' = [strikes EXCEPT ![u] = @ + 1]
  /\ IF counterfeit THEN Convict(u) ELSE UNCHANGED <<convicted, overtaken>>
  /\ IF strikes[u] + 1 >= SellerThreshold /\ status[u] = "active"
     THEN Enter(r, "suspend", u)
     ELSE UNCHANGED <<at, on>>
  /\ UNCHANGED <<status, rejections, cut, faults>>

\* A counterfeit suspends its seller by the same update that counts it; another
\* offence does so when the document it returned is at the threshold and active.
Offence(r, u, counterfeit) ==
  /\ At(r, "idle")
  /\ status[u] # "gone"
  /\ strikes[u] + rejections[u] < MaxOffences
  /\ strikes' = [strikes EXCEPT ![u] = @ + 1]
  /\ IF counterfeit
     THEN status' = [status EXCEPT ![u] = "suspended"] /\ Convict(u)
     ELSE UNCHANGED <<status, convicted, overtaken>>
  /\ IF ~counterfeit /\ strikes[u] + 1 >= SellerThreshold /\ status[u] = "active"
     THEN Enter(r, "suspend", u)
     ELSE UNCHANGED <<at, on>>
  /\ UNCHANGED <<rejections, cut, faults>>

\* save() writes the status it was given, whatever it is by now; of a deleted user
\* it writes nothing.
Overwrite(u, new) == status' = [status EXCEPT ![u] = IF @ = "gone" THEN @ ELSE new]

Suspend(r) ==
  /\ At(r, "suspend")
  /\ Overwrite(on[r], "suspended")
  /\ Leaves(r)
  /\ UNCHANGED <<offences, cut, faults>>

Rejection(r, u) ==
  /\ At(r, "idle")
  /\ status[u] # "gone"
  /\ strikes[u] + rejections[u] < MaxOffences
  /\ rejections' = [rejections EXCEPT ![u] = @ + 1]
  /\ IF rejections[u] + 1 >= BuyerThreshold /\ status[u] = "active"
     THEN Enter(r, "restrict", u)
     ELSE UNCHANGED <<at, on>>
  /\ UNCHANGED <<status, strikes, convicted, overtaken, cut, faults>>

Restrict(r) ==
  /\ At(r, "restrict")
  /\ Overwrite(on[r], "restricted")
  /\ Leaves(r)
  /\ UNCHANGED <<offences, cut, faults>>

\* The account is deleted; it was active or restricted when auth() looked.
Leave(u) ==
  /\ status[u] # "gone"
  /\ status' = [status EXCEPT ![u] = "gone"]
  /\ UNCHANGED <<offences, cut, faults, at, on>>

\* A call rejects, or the process stops: the second update is never made.
Abort(r) ==
  /\ ~At(r, "idle")
  /\ faults < MaxFaults
  /\ faults' = faults + 1
  /\ cut' = IF at[r] \in PenaltySteps THEN cut \cup {on[r]} ELSE cut
  /\ Leaves(r)
  /\ UNCHANGED <<status, offences>>

Penalties(r) ==
  \/ \E u \in Users : Rejection(r, u) \/ \E counterfeit \in BOOLEAN : Offence(r, u, counterfeit)
  \/ Suspend(r)
  \/ Restrict(r)

-----------------------------------------------------------------------------
(* Properties *)

StandingTypes ==
  /\ status \in [Users -> Statuses]
  /\ strikes \in [Users -> 0 .. MaxOffences]
  /\ rejections \in [Users -> 0 .. MaxOffences]
  /\ overtaken \subseteq convicted /\ convicted \subseteq Users
  /\ cut \subseteq Users
  /\ faults \in 0 .. MaxFaults
  /\ on \in [Requests -> Users \cup {None}]

Punishing(u) == \E r \in Requests : at[r] \in PenaltySteps /\ on[r] = u

\* Once the updates in flight are made, nobody at or past a threshold is active,
\* however the offences were counted and the saves ordered; only a process that
\* stopped between the two updates (cut) leaves one who is.
ThresholdActs ==
  \A u \in Users :
    strikes[u] >= SellerThreshold \/ rejections[u] >= BuyerThreshold =>
      status[u] # "active" \/ Punishing(u) \/ u \in cut

\* The seller of a counterfeit is suspended from then on, whatever other offences
\* are being acted upon; except that a restriction that was under way when the
\* counterfeit was counted is written over the suspension.
CounterfeitSuspends ==
  \A u \in convicted :
    \/ status[u] \in {"suspended", "gone"}
    \/ u \in overtaken /\ status[u] = "restricted"

=============================================================================
