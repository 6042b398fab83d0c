--------------------------------- MODULE Inbox ---------------------------------
(***************************************************************************)
(* A user's notifications and the devices they are pushed to.              *)
(*                                                                         *)
(* Events are announced more than once: Stripe delivers a webhook again,   *)
(* a payout is retried, two handlers report the same end.  A notification  *)
(* is made unless its recipient has one for the event, read back, shown to *)
(* the recipient's connected clients and pushed, in the background, to the *)
(* devices registered for them.  Meanwhile they read and delete what they  *)
(* have, phones change hands, and tokens stop being valid.                 *)
(*                                                                         *)
(*   createNotification        Insert, ReadBack, Show                      *)
(*   sendPushNotification      Refresh, Find, Send, Prune                  *)
(*   markAsRead, markAllAsRead, deleteNotification, deleteAllNotifications *)
(*                             MarkRead .. DeleteAll                       *)
(*   registerDevice, unregisterDevice     Register, Unregister             *)
(*   deleteUserNotificationData           StartErase .. EraseDevices       *)
(*                                                                         *)
(* What fails is logged and not tried again.  Notifications has the events *)
(* and who is told of each.                                                *)
(***************************************************************************)
EXTENDS Naturals, FiniteSets, SequencesExt

CONSTANTS
  Users, Events, Tokens, \* a device is its registration token
  BatchSize,     \* PUSH_BATCH_SIZE
  MaxAnnounced,  \* bound on the announcements of an event to a user
  MaxRemovals,   \* bound on the notifications that are deleted
  MaxFaults,     \* bound on the deliveries, pushes and deletions that fail
  None

ASSUME BoundAssumption ==
  /\ BatchSize \in Nat \ {0} /\ MaxAnnounced \in Nat /\ MaxRemovals \in Nat /\ MaxFaults \in Nat
ASSUME NoneAssumption == None \notin Users
ASSUME TokensAssumption == IsFiniteSet(Tokens)

VARIABLES
  announced,  \* how often a notification of an event was announced so far,
  sending,    \*   the deliveries that are about to make it,
  inserted,   \*   notifications made but not read back
  read,       \*   and read back but not shown
  inbox,      \* the notifications: <<recipient, event, which of them>>
  unread,     \* those without a readAt
  shown,      \* history: how often a user was shown an event
  deleted,    \* history: how often a notification of it was deleted
  registered, \* the device registrations: <<token, user>>
  stale,      \* the registrations not seen for PUSH_REGISTRATION_MAX_AGE
  invalid,    \* tokens Firebase does not know any more
  pushes,     \* sendPushNotification calls under way: the tokens found, in the order
              \*   they came back, how many of them are done, Firebase's answers for
              \*   the batch that was sent, and the tokens whose registrations changed
  erasing,    \* users about to lose their "notifications" and "devices"
  faults      \* what failed so far

making  == <<announced, sending, inserted, read>>
holding == <<inbox, unread, shown, deleted>>
devices == <<registered, stale, invalid>>
vars    == <<making, holding, devices, pushes, erasing, faults>>

Cells == Users \X Events
Numbers == 1..(MaxRemovals + 1)
Notes == Users \X Events \X Numbers
Steps == {"refresh", "find", "send", "prune"}

Init ==
  /\ announced = 0
  /\ sending = [c \in Cells |-> 0]
  /\ inserted = {}
  /\ read = {}
  /\ inbox = {}
  /\ unread = {}
  /\ shown = [c \in Cells |-> 0]
  /\ deleted = [c \in Cells |-> 0]
  /\ registered = {}
  /\ stale = {}
  /\ invalid = {}
  /\ pushes = {}
  /\ erasing = {}
  /\ faults = 0

CellOf(n) == <<n[1], n[2]>>
Of(u) == {n \in inbox : n[1] = u}

-----------------------------------------------------------------------------
(* createNotification *)

\* An event the user is told of (notification.event.ts).
Announce(c) ==
  /\ announced < MaxAnnounced
  /\ announced' = announced + 1
  /\ sending' = [sending EXCEPT ![c] = @ + 1]
  /\ UNCHANGED <<inserted, read, holding, devices, pushes, erasing, faults>>

\* Mutant: what the upsert found is shown like what it inserted.
InsertFound(c) ==
  LET note == <<c[1], c[2], deleted[c] + 1>> IN
  /\ sending[c] > 0
  /\ sending' = [sending EXCEPT ![c] = @ - 1]
  /\ inbox' = inbox \cup {note}
  /\ unread' = unread \cup {note}
  /\ inserted' = inserted \cup {note}
  /\ UNCHANGED <<announced, read, shown, deleted, devices, pushes, erasing, faults>>

\* The upsert by recipient and event key, unique together: of two at once one
\* inserts; the other finds it, or is refused it as a duplicate, and stops.
Insert(c) ==
  LET note == <<c[1], c[2], deleted[c] + 1>> IN
  /\ sending[c] > 0
  /\ sending' = [sending EXCEPT ![c] = @ - 1]
  /\ IF note \in inbox THEN UNCHANGED <<inbox, unread, inserted>>
     ELSE /\ inbox' = inbox \cup {note}
          /\ unread' = unread \cup {note}
          /\ inserted' = inserted \cup {note}
  /\ UNCHANGED <<announced, read, shown, deleted, devices, pushes, erasing, faults>>

\* findById: a notification deleted already is not shown.
ReadBack(n) ==
  /\ inserted' = inserted \ {n}
  /\ read' = IF n \in inbox THEN read \cup {n} ELSE read
  /\ UNCHANGED <<announced, sending, holding, devices, pushes, erasing, faults>>

\* emitToUser, and the push is started.
Show(n) ==
  /\ read' = read \ {n}
  /\ shown' = [shown EXCEPT ![CellOf(n)] = @ + 1]
  /\ pushes' = pushes \cup
       {[note |-> n, step |-> "refresh", found |-> <<>>, index |-> 0, answers |-> <<>>,
         since |-> {}]}
  /\ UNCHANGED <<announced, sending, inserted, inbox, unread, deleted, devices, erasing, faults>>

-----------------------------------------------------------------------------
(* sendPushNotification *)

\* registrations.slice(index, index + PUSH_BATCH_SIZE)
Slice(p) ==
  SubSeq(p.found, p.index + 1,
         IF p.index + BatchSize < Len(p.found) THEN p.index + BatchSize ELSE Len(p.found))
\* The tokens a push has yet to send to.
Left(p) ==
  LET first == IF p.step = "prune" THEN p.index + BatchSize ELSE p.index IN
  {p.found[i] : i \in {j \in 1..Len(p.found) : j > first}}

\* Registrations of the tokens were made or removed: what a push found is old.
Changed(tokens) == {[p EXCEPT !.since = @ \cup (tokens \cap Left(p))] : p \in pushes}

\* deleteMany: the recipient's registrations that are too old.
Refresh(p) ==
  LET old == {r \in stale : r[2] = p.note[1]} IN
  /\ p.step = "refresh"
  /\ registered' = registered \ old
  /\ stale' = stale \ old
  /\ pushes' = (pushes \ {p}) \cup {[p EXCEPT !.step = "find"]}
  /\ UNCHANGED <<making, holding, invalid, erasing, faults>>

\* find: the recipient's other registrations, as they are now and in whatever order.
Find(p) ==
  LET mine == {r[1] : r \in {x \in registered \ stale : x[2] = p.note[1]}} IN
  /\ p.step = "find"
  /\ \/ mine = {} /\ pushes' = pushes \ {p}
     \/ /\ mine # {}
        /\ \E found \in SetToSeqs(mine) :
             pushes' = (pushes \ {p}) \cup {[p EXCEPT !.step = "send", !.found = found]}
  /\ UNCHANGED <<making, holding, devices, erasing, faults>>

\* sendEachForMulticast: an answer for each token of the batch, in their order.  Any
\* error but those of INVALID_REGISTRATION_CODES is like none.
Send(p) ==
  LET tokens == Slice(p) IN
  /\ p.step = "send"
  /\ pushes' = (pushes \ {p}) \cup
       {[p EXCEPT !.step = "prune",
                  !.answers = [i \in 1..Len(tokens) |->
                                 IF tokens[i] \in invalid THEN "invalid" ELSE "sent"]]}
  /\ UNCHANGED <<making, holding, devices, erasing, faults>>

\* The places of the batch Firebase refused.
Refused(p) == {i \in 1..Len(p.answers) : p.answers[i] = "invalid"}

\* deleteMany by token, whoever has it by then; and the loop goes on.
Pruned(p, tokens) ==
  /\ p.step = "prune"
  /\ registered' = {r \in registered : r[1] \notin tokens}
  /\ stale' = {r \in stale : r[1] \notin tokens}
  /\ pushes' = (pushes \ {p}) \cup
       (IF p.index + BatchSize >= Len(p.found) THEN {}
        ELSE {[p EXCEPT !.step = "send", !.index = @ + BatchSize, !.answers = <<>>,
                        !.since = @ \cap Left(p)]})
  /\ UNCHANGED <<making, holding, invalid, erasing, faults>>

\* Mutant: an answer's place in its batch is taken for its place among all tokens.
PruneFromStart(p) == Pruned(p, {p.found[i] : i \in Refused(p)})
\* The tokens Firebase does not know are those in the places it refused.
Prune(p) == Pruned(p, {Slice(p)[i] : i \in Refused(p)})

-----------------------------------------------------------------------------
(* The user's requests *)

\* markAsRead: findOneAndUpdate of one that is there.
MarkRead(n) ==
  /\ n \in unread
  /\ unread' = unread \ {n}
  /\ UNCHANGED <<making, inbox, shown, deleted, devices, pushes, erasing, faults>>

MarkAllRead(u) ==
  /\ \E n \in unread : n[1] = u
  /\ unread' = unread \ Of(u)
  /\ UNCHANGED <<making, inbox, shown, deleted, devices, pushes, erasing, faults>>

Gone(notes) ==
  /\ \A c \in Cells : deleted[c] + Cardinality({n \in notes : CellOf(n) = c}) <= MaxRemovals
  /\ inbox' = inbox \ notes
  /\ unread' = unread \ notes
  /\ deleted' = [c \in Cells |-> deleted[c] + Cardinality({n \in notes : CellOf(n) = c})]
  /\ UNCHANGED shown

\* deleteNotification
Delete(n) ==
  /\ Gone({n})
  /\ UNCHANGED <<making, devices, pushes, erasing, faults>>

\* deleteAllNotifications
DeleteAll(u) ==
  /\ Of(u) # {} /\ Gone(Of(u))
  /\ UNCHANGED <<making, devices, pushes, erasing, faults>>

\* Mutant: a registration is looked up by user and token.
RegisterBeside(u, t) ==
  /\ registered' = registered \cup {<<t, u>>}
  /\ stale' = stale \ {<<t, u>>}
  /\ pushes' = Changed({t})
  /\ UNCHANGED <<making, holding, invalid, erasing, faults>>

\* registerDevice: the token's one registration is made or becomes the user's.
Register(u, t) ==
  /\ registered' = {r \in registered : r[1] # t} \cup {<<t, u>>}
  /\ stale' = {r \in stale : r[1] # t}
  /\ pushes' = Changed({t})
  /\ UNCHANGED <<making, holding, invalid, erasing, faults>>

\* unregisterDevice
Unregister(u, t) ==
  /\ <<t, u>> \in registered
  /\ registered' = registered \ {<<t, u>>}
  /\ stale' = stale \ {<<t, u>>}
  /\ pushes' = Changed({t})
  /\ UNCHANGED <<making, holding, invalid, erasing, faults>>

\* deleteUserNotificationData: the two deletions of a deleted account's data start
\* together.  What is announced to the account later is made again.
StartErase(u) ==
  /\ \A e \in erasing : e[1] # u
  /\ erasing' = erasing \cup {u} \X {"notifications", "devices"}
  /\ UNCHANGED <<making, holding, devices, pushes, faults>>

EraseNotes(u) ==
  /\ <<u, "notifications">> \in erasing
  /\ Gone(Of(u))
  /\ erasing' = erasing \ {<<u, "notifications">>}
  /\ UNCHANGED <<making, devices, pushes, faults>>

EraseDevices(u) ==
  LET mine == {r \in registered : r[2] = u} IN
  /\ <<u, "devices">> \in erasing
  /\ registered' = registered \ mine
  /\ stale' = stale \ mine
  /\ pushes' = Changed({r[1] : r \in mine})
  /\ erasing' = erasing \ {<<u, "devices">>}
  /\ UNCHANGED <<making, holding, invalid, faults>>

-----------------------------------------------------------------------------
(* Time, Firebase and failures *)

\* expireAfterSeconds on expiresAt.
Expire(n) ==
  /\ Gone({n})
  /\ UNCHANGED <<making, devices, pushes, erasing, faults>>

Age(r) ==
  /\ stale' = stale \cup {r}
  /\ UNCHANGED <<making, holding, registered, invalid, pushes, erasing, faults>>

\* The app was removed from the device; its token does not come back.
Invalidate(t) ==
  /\ invalid' = invalid \cup {t}
  /\ UNCHANGED <<making, holding, registered, stale, pushes, erasing, faults>>

\* A call is rejected or the process stops.
Fail ==
  /\ faults < MaxFaults
  /\ faults' = faults + 1
  /\ \/ \E c \in Cells : /\ sending[c] > 0
                         /\ sending' = [sending EXCEPT ![c] = @ - 1]
                         /\ UNCHANGED <<inserted, read, pushes, erasing>>
     \/ \E n \in inserted : inserted' = inserted \ {n} /\ UNCHANGED <<sending, read, pushes, erasing>>
     \/ \E n \in read : read' = read \ {n} /\ UNCHANGED <<sending, inserted, pushes, erasing>>
     \/ \E p \in pushes : pushes' = pushes \ {p} /\ UNCHANGED <<sending, inserted, read, erasing>>
     \/ \E e \in erasing : erasing' = erasing \ {e} /\ UNCHANGED <<sending, inserted, read, pushes>>
  /\ UNCHANGED <<announced, holding, devices>>

Deliver ==
  \/ \E c \in Cells : Announce(c) \/ Insert(c)
  \/ \E n \in inserted : ReadBack(n)
  \/ \E n \in read : Show(n)
Push == \E p \in pushes : Refresh(p) \/ Find(p) \/ Send(p) \/ Prune(p)
Request ==
  \/ \E n \in inbox : MarkRead(n) \/ Delete(n) \/ Expire(n)
  \/ \E u \in Users : MarkAllRead(u) \/ DeleteAll(u)
  \/ \E u \in Users, t \in Tokens : Register(u, t) \/ Unregister(u, t)
  \/ \E u \in Users : StartErase(u) \/ EraseNotes(u) \/ EraseDevices(u)
Environment == (\E r \in registered : Age(r)) \/ \E t \in Tokens : Invalidate(t)

Next == Deliver \/ Push \/ Request \/ Environment \/ Fail

Spec == Init /\ [][Next]_vars

-----------------------------------------------------------------------------
(* Properties *)

TypeOK ==
  /\ announced \in 0..MaxAnnounced
  /\ sending \in [Cells -> 0..MaxAnnounced]
  /\ inserted \subseteq Notes /\ read \subseteq Notes
  /\ unread \subseteq inbox /\ inbox \subseteq Notes
  /\ shown \in [Cells -> Nat] /\ deleted \in [Cells -> 0..MaxRemovals]
  /\ registered \subseteq Tokens \X Users
  /\ stale \subseteq registered
  /\ invalid \subseteq Tokens
  /\ pushes \subseteq [note : Notes, step : Steps, found : Seq(Tokens), index : Nat,
                       answers : Seq({"invalid", "sent"}), since : SUBSET Tokens]
  /\ erasing \subseteq Users \X {"notifications", "devices"}
  /\ faults \in 0..MaxFaults

\* However often an event is announced, and however its deliveries overlap, a user is
\* shown it once, and once more for every time they deleted it (createNotification).
ShownOnce == \A c \in Cells : shown[c] <= 1 + deleted[c]

\* A push never goes to a device that is registered for another user, unless the
\* device changed hands after the push looked its token up (sendPushNotification).
PushedToOwner ==
  \A p \in pushes : p.step = "send" =>
    \A t \in Left(p) \ p.since, u \in Users : <<t, u>> \in registered => u = p.note[1]

\* The devices a push unregisters are those Firebase refused to know, wherever they were
\* among the tokens that were found, whatever was registered, removed or pushed to since
\* they were, and whoever has them by now: no device that can still be reached is lost
\* (sendPushNotification).
Pruning(p) == p.step = "prune" /\ \A q \in pushes' : q.note = p.note => q.step # "prune"
ValidStay ==
  [][\A p \in pushes : Pruning(p) => \A r \in registered \ registered' : r[1] \in invalid]_vars

=============================================================================
