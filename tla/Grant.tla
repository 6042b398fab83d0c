--------------------------------- MODULE Grant ---------------------------------
(***************************************************************************)
(* What a one-time secret promises, whatever it is for: it is issued, and  *)
(* then it is either redeemed, once, or becomes void; a secret that was    *)
(* redeemed or is void never opens anything again.  Issuing a secret may   *)
(* make the one it replaces void.                                          *)
(***************************************************************************)
EXTENDS Naturals

CONSTANT Grants \* the secrets

VARIABLES phase, \* where each of them stands
          uses   \* how often each of them was honoured

Phases == {"unissued", "open", "redeemed", "void"}

Init ==
  /\ phase = [g \in Grants |-> "unissued"]
  /\ uses = [g \in Grants |-> 0]

Issue(g) ==
  /\ phase[g] = "unissued"
  /\ phase' = [phase EXCEPT ![g] = "open"]
  /\ UNCHANGED uses

Replace(old, g) ==
  /\ phase[old] = "open"
  /\ phase[g] = "unissued"
  /\ phase' = [phase EXCEPT ![old] = "void", ![g] = "open"]
  /\ UNCHANGED uses

Redeem(g) ==
  /\ phase[g] = "open"
  /\ phase' = [phase EXCEPT ![g] = "redeemed"]
  /\ uses' = [uses EXCEPT ![g] = @ + 1]

Void(g) ==
  /\ phase[g] = "open"
  /\ phase' = [phase EXCEPT ![g] = "void"]
  /\ UNCHANGED uses

Next ==
  \E g \in Grants :
    \/ Issue(g)
    \/ Redeem(g)
    \/ Void(g)
    \/ \E old \in Grants : Replace(old, g)

Spec == Init /\ [][Next]_<<phase, uses>>

=============================================================================
