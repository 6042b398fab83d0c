-------------------------------- MODULE MCInbox --------------------------------
(* An instance of Inbox for TLC: many notifications without devices, or one *)
(* with many devices.                                                       *)
EXTENDS Inbox, TLC

\* Bound: what is shown does not depend on the devices, nor a push on other
\* notifications, so they are explored one without the other.
NoDevices == registered = {} /\ invalid = {} /\ \A p \in pushes : p.found = <<>>
OnePush == announced <= 1 /\ faults = 0 /\ \A c \in Cells : deleted[c] = 0
Either == NoDevices \/ OnePush

Symmetry == Permutations(Users) \cup Permutations(Tokens)
=============================================================================
